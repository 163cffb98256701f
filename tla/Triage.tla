------------------------------- MODULE Triage -------------------------------
(***************************************************************************)
(* list_new and mark_handled: agents that list what is new and mark what   *)
(* they were shown, next to the writers and to each other.                 *)
(***************************************************************************)
EXTENDS Log

CONSTANTS
  Agents,     \* clients of the tools
  MaxLimit    \* bound: the largest limit an agent asks for

Nobody == [chat |-> "none", id |-> 0]

ASSUME TriageAssumption == MaxLimit \in Nat /\ "none" \notin Chats

VARIABLES
  cursors,  \* Chats -> the last triaged message id, 0: never triaged
  page,     \* Agents -> what the agent was listed last
  marking,  \* Agents -> the message mark_handled has looked up
  shown,    \* history: what anybody was ever listed
  told      \* history: Chats -> the highest marked_up_to anybody was told

triage == <<cursors, page, marking, shown, told>>
tvars == <<log, triage>>

Marks == [chat : Chats, id : Ids]

Unread(chats) ==
  {i \in Stored : /\ written[i].chat \in chats
                  /\ ~written[i].bot
                  /\ i > cursors[written[i].chat]}

(* Mutant of IsListing: the limit cuts the oldest. *)
KeepsNewest(S, limit, P) ==
  /\ P \subseteq S /\ Cardinality(P) <= limit /\ (P # S => Cardinality(P) = limit)
  /\ \A i \in P, j \in S \ P : Earlier(j, i)

(* P are the first limit members of S: "the newest are the ones left out". *)
IsListing(S, limit, P) ==
  /\ P \subseteq S /\ Cardinality(P) <= limit /\ (P # S => Cardinality(P) = limit)
  /\ \A i \in P, j \in S \ P : Earlier(i, j)

-----------------------------------------------------------------------------
TriageInit ==
  /\ cursors = [c \in Chats |-> 0] /\ told = [c \in Chats |-> 0]
  /\ page = [a \in Agents |-> {}] /\ shown = {}
  /\ marking = [a \in Agents |-> Nobody]

(* list_new of every group or of one. *)
ListNew(a) ==
  /\ marking[a] = Nobody
  /\ \E chats \in {Chats} \union {{c} : c \in Chats}, limit \in 1..MaxLimit :
       \E P \in SUBSET Unread(chats) :
         /\ IsListing(Unread(chats), limit, P)
         /\ page' = [page EXCEPT ![a] = P]
         /\ shown' = shown \union P
  /\ UNCHANGED <<log, cursors, marking, told>>

(* mark_handled, before the cursor moves: an id is a message of the group  *)
(* it is used in.  The agent may name any group.                           *)
LookUp(a) ==
  /\ marking[a] = Nobody
  /\ \E c \in Chats, i \in page[a] :
       /\ i \in Stored /\ written[i].chat = c
       /\ marking' = [marking EXCEPT ![a] = [chat |-> c, id |-> i]]
  /\ UNCHANGED <<log, cursors, page, shown, told>>

(* Mutant of Further: the cursor is set to what was asked for. *)
AsAsked(at, id) == id

(* MAX(last_triaged_message_id, excluded.last_triaged_message_id) *)
Further(at, id) == IF id > at THEN id ELSE at

SetCursor(a) ==
  /\ marking[a] # Nobody
  /\ LET m == marking[a]
         at == Further(cursors[m.chat], m.id)
     IN  /\ cursors' = [cursors EXCEPT ![m.chat] = at]
         /\ told' = [told EXCEPT ![m.chat] = IF at > @ THEN at ELSE @]
  /\ marking' = [marking EXCEPT ![a] = Nobody]
  /\ UNCHANGED <<log, page, shown>>

(* The statement fails, or the process ends: the caller is told nothing.   *)
MarkFails(a) ==
  /\ marking[a] # Nobody
  /\ marking' = [marking EXCEPT ![a] = Nobody]
  /\ UNCHANGED <<log, cursors, page, shown, told>>

TriageNext == \E a \in Agents : ListNew(a) \/ LookUp(a) \/ SetCursor(a) \/ MarkFails(a)

TriageSpec ==
  LogInit /\ TriageInit /\ [][(LogNext /\ UNCHANGED triage) \/ TriageNext]_tvars

-----------------------------------------------------------------------------
TriageTypeOK ==
  /\ now \in Times
  /\ written \in Seq(Messages) /\ Len(written) <= MaxMessages
  /\ row \in [Ids -> 0..lastRow] /\ lastRow \in Nat
  /\ cursors \in [Chats -> 0..MaxMessages] /\ told \in [Chats -> 0..MaxMessages]
  /\ page \in [Agents -> SUBSET Stored] /\ shown \subseteq Stored
  /\ marking \in [Agents -> Marks \union {Nobody}]

(* Stored after a later message of its group. *)
Late(i) == \E j \in Stored : written[j].chat = written[i].chat /\ j > i /\ row[j] < row[i]

(* "A backlog is worked through front to back": agents that mark only what *)
(* they were shown never take a message off the list that nobody was       *)
(* shown, though pages are cut by time and cursors compare message ids;    *)
(* out of reach are only rows stored out of order (store.go:353-401).      *)
NothingHidden ==
  \A i \in Stored : ~written[i].bot /\ i <= cursors[written[i].chat] => i \in shown \/ Late(i)

(* "The cursor only ever moves forward": what an agent was told is handled *)
(* stays handled when another marks an older message, with both between    *)
(* look-up and write (store.go:338-351, tools.go:361-377).                 *)
HandledStays == \A c \in Chats : told[c] <= cursors[c]
=============================================================================
