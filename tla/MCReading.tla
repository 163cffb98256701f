----------------------------- MODULE MCReading ------------------------------
(* Triage, History and Search over one log.  None of them writes what      *)
(* another reads, so an instance holds the clients of one of them at a     *)
(* time; a search finds Searched messages written, to be stored and edited.*)
EXTENDS Triage, History, Search, TLC

CONSTANTS c1, c2, a1, a2, Searched

VARIABLE client

MCChats == {c1, c2}
MCAgents == {a1, a2}
MCMessages == [chat : MCChats, sent : 1..2, bot : BOOLEAN, reply : {0}, topic : {0}]
MCSymmetry == Permutations(MCChats) \union Permutations(MCAgents)

MCLetters == {"a"}
MCTexts == {<<"a">>, <<"a", "%">>, <<"a", "a">>, <<"a", Blank, "a", "%">>, <<"%">>}
MCQueries ==
  UNION {[1..n -> {"a", "%", Blank, Quote}] : n \in 1..3}
    \union {<<Quote, Blank, "a", "%">>, <<Quote, "a", Blank, "%", Quote>>}

Alike(c) == [i \in 1..Searched |-> [chat |-> c, sent |-> 1, bot |-> FALSE, reply |-> 0, topic |-> 0]]

MCInit ==
  /\ TriageInit /\ HistoryInit /\ SearchInit
  /\ \/ client \in {"triage", "history"} /\ LogInit /\ \A i \in Ids : text[i] = <<"a">>
     \/ /\ client = "search" /\ \A i \in Ids : i > Searched => text[i] = <<"a">>
        /\ now = 1 /\ row = [i \in Ids |-> 0] /\ lastRow = 0
        /\ \E c \in Chats : written = Alike(c)

MCNext ==
  /\ \/ client # "search" /\ LogNext /\ UNCHANGED <<triage, history, text, searching>>
     \/ client = "triage" /\ TriageNext /\ UNCHANGED <<history, text, searching>>
     \/ client = "history" /\ HistoryNext /\ UNCHANGED <<triage, text, searching>>
     \/ client = "search" /\ Store /\ UNCHANGED <<triage, history, text, searching>>
     \/ client = "search" /\ SearchNext /\ UNCHANGED <<triage, history>>
  /\ UNCHANGED client

MCSpec == MCInit /\ [][MCNext]_<<log, triage, history, text, searching, client>>
=============================================================================
