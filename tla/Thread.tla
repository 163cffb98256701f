------------------------------- MODULE Thread -------------------------------
(***************************************************************************)
(* get_thread: the conversation around a message, collected by a series of *)
(* queries with no transaction around them, while rows are being stored.   *)
(* One group; a row never changes its links or its time once it is stored. *)
(***************************************************************************)
EXTENDS Log

CONSTANTS
  Cap,  \* threadCap
  Pad   \* spanPad, in the unit of sent

ASSUME ThreadAssumption == Cap \in Nat \ {0} /\ Pad \in Nat

VARIABLES
  pc,         \* where Thread is
  anchor,     \* the message it was asked about
  current,    \* the chain member whose parent is looked up next
  core,       \* the reply chain and what hangs off it
  frontier,   \* collected messages whose replies are not read yet
  span,       \* what the span fill returned
  result,     \* the messages of the answer
  truncated,  \* its flag
  base        \* history: what was stored when the call began

call == <<pc, anchor, current, core, frontier, span, result, truncated, base>>
thvars == <<log, call>>

(* ORDER BY ... LIMIT n over S, with before as the order.                  *)
IsHead(S, n, before(_, _), P) ==
  /\ P \subseteq S /\ Cardinality(P) <= n /\ (P # S => Cardinality(P) = n)
  /\ \A i \in P, j \in S \ P : before(i, j)

Later(i, j) == Earlier(j, i)

(* The span fill's window: the time the core spans, padded, and the topic. *)
InWindow(S, i) ==
  /\ \E j \in S : written[i].sent + Pad >= written[j].sent
  /\ \E j \in S : written[i].sent <= written[j].sent + Pad
  /\ written[anchor].topic # 0 => written[i].topic = written[anchor].topic

SpanWindow == {i \in Stored : InWindow(core, i)}

-----------------------------------------------------------------------------
ThreadInit ==
  /\ pc = "idle" /\ anchor = 0 /\ current = 0 /\ core = {} /\ frontier = {}
  /\ span = {} /\ result = {} /\ truncated = FALSE /\ base = {}

Begin ==
  /\ pc = "idle"
  /\ anchor' \in Stored
  /\ current' = anchor' /\ core' = {anchor'}
  /\ base' = Stored
  /\ pc' = "chain"
  /\ UNCHANGED <<log, frontier, span, result, truncated>>

(* replyChain, one parent up. *)
Climb ==
  /\ pc = "chain"
  /\ LET parent == written[current].reply
     IN  /\ parent \in Stored /\ parent \notin core
         /\ current' = parent /\ core' = core \union {parent}
  /\ UNCHANGED <<log, pc, anchor, frontier, span, result, truncated, base>>

(* The root, or a parent that was never logged. *)
Root ==
  /\ pc = "chain"
  /\ written[current].reply \notin Stored \/ written[current].reply \in core
  /\ pc' = "replies" /\ frontier' = core
  /\ UNCHANGED <<log, anchor, current, core, span, result, truncated, base>>

(* Mutant of Exhausted: only the direct replies are read. *)
ExhaustedAtOnce == core # frontier

(* The loop's condition; a core at the cap ends it with replies unread.    *)
Exhausted == frontier = {} \/ Cardinality(core) >= Cap

(* appendReplies, one level down; the limit counts rows already seen too.  *)
Descend ==
  /\ pc = "replies" /\ ~Exhausted
  /\ \E R \in SUBSET {i \in Stored : written[i].reply \in frontier} :
       /\ IsHead({i \in Stored : written[i].reply \in frontier}, Cap, Earlier, R)
       /\ core' = core \union R /\ frontier' = R \ core
  /\ UNCHANGED <<log, pc, anchor, current, span, result, truncated, base>>

Collected ==
  /\ pc = "replies" /\ Exhausted
  /\ pc' = "before"
  /\ UNCHANGED <<log, anchor, current, core, frontier, span, result, truncated, base>>

(* spanFill, first query: from the anchor back. *)
FillBefore ==
  /\ pc = "before"
  /\ LET S == {i \in SpanWindow : ~Earlier(anchor, i)}
     IN  \E P \in SUBSET S : IsHead(S, Cap + 1, Later, P) /\ span' = P
  /\ pc' = "after"
  /\ UNCHANGED <<log, anchor, current, core, frontier, result, truncated, base>>

(* spanFill, second query: from the anchor on. *)
FillAfter ==
  /\ pc = "after"
  /\ LET S == {i \in SpanWindow : Earlier(anchor, i)}
     IN  \E P \in SUBSET S : IsHead(S, Cap + 1, Earlier, P) /\ span' = span \union P
  /\ pc' = "merge"
  /\ UNCHANGED <<log, anchor, current, core, frontier, result, truncated, base>>

(* Mutant of CapAround: no room is left at the end of the thread. *)
CapBehind(S) ==
  LET place(i) == Cardinality({j \in S : Earlier(j, i)})
      start == IF place(anchor) > Cap \div 2 THEN place(anchor) - Cap \div 2 ELSE 0
  IN  {i \in S : start <= place(i) /\ place(i) < start + Cap}

(* Cap messages of S, by their places in it, around the anchor. *)
CapAround(S) ==
  LET place(i) == Cardinality({j \in S : Earlier(j, i)})
      centred == IF place(anchor) > Cap \div 2 THEN place(anchor) - Cap \div 2 ELSE 0
      last == Cardinality(S) - Cap
      start == IF centred > last THEN last ELSE centred
  IN  {i \in S : start <= place(i) /\ place(i) < start + Cap}

(* mergeMessages and the cap. *)
Merge ==
  /\ pc = "merge"
  /\ LET S == core \union span
     IN  /\ truncated' = (Cardinality(S) > Cap)
         /\ result' = IF Cardinality(S) > Cap THEN CapAround(S) ELSE S
  /\ pc' = "done"
  /\ UNCHANGED <<log, anchor, current, core, frontier, span, base>>

ThreadNext == Begin \/ Climb \/ Root \/ Descend \/ Collected \/ FillBefore \/ FillAfter \/ Merge

ThreadSpec ==
  LogInit /\ ThreadInit /\ [][(LogNext /\ UNCHANGED call) \/ ThreadNext]_thvars

-----------------------------------------------------------------------------
(* The messages from i up to the root of its reply chain, within S: what   *)
(* every set has that holds i and, with a message, the one it answers.     *)
(* And the messages of S whose chain meets the anchor's.                   *)
Chain(S, i) ==
  LET Closed(C) == \A j \in C : written[j].reply \in S => written[j].reply \in C
  IN  {j \in S : \A C \in SUBSET S : i \in C /\ Closed(C) => j \in C}

Conversation(S) == {i \in S : Chain(S, i) \intersect Chain(S, anchor) # {}}

(* "Walks the reply_to chain up to its root, adds everything that replies  *)
(* to any member, then every message sent between": an answer that is not  *)
(* cut, and whose walk did not end at the cap, misses nothing that was     *)
(* stored when it began (README.md:57-61, thread.go:25-29).                *)
WholeConversation ==
  pc = "done" /\ ~truncated /\ Cardinality(core) < Cap =>
    \A i \in base : i \in Conversation(base) \/ InWindow(Conversation(base), i) => i \in result

(* The same of every answer that is not flagged: "capped at 500 messages   *)
(* around the anchor, with truncated: true when it cut" (README.md:60-61,  *)
(* thread.go:19).                                                          *)
CutIsFlagged ==
  pc = "done" /\ ~truncated => Conversation(base) \subseteq result

(* "So a busy window cannot cut away the very message the caller asked     *)
(* about": the anchor is in every answer, and a cut answer is an unbroken  *)
(* piece of the conversation around it, although core and span are limited *)
(* each on its own (thread.go:66-73, 129-132).                             *)
CutAroundAnchor ==
  pc = "done" =>
    /\ anchor \in result /\ Cardinality(result) <= Cap
    /\ truncated => Cardinality(result) = Cap
    /\ \A i \in result, j \in base \ result :
         InWindow(core, j) => ~(Earlier(i, j) /\ Earlier(j, anchor)) /\ ~(Earlier(anchor, j) /\ Earlier(j, i))

-----------------------------------------------------------------------------
(* Why nothing is missed and the cut is around the anchor, the inductive   *)
(* invariant of the proofs: who is in the core by the time the walk has    *)
(* come so far, that a span fill leaves a message out only for Cap + 1     *)
(* nearer ones, and what an answer is a piece of.                          *)
Collecting ==
  /\ base \subseteq Stored /\ core \subseteq Stored /\ span \subseteq Stored
  /\ frontier \subseteq core
  /\ pc = "idle" => frontier = {}
  /\ pc # "idle" => anchor \in base /\ anchor \in core /\ current \in core
  /\ pc = "chain" => \A x \in core \ {current} : written[x].reply \in core

Climbed ==
  pc \notin {"idle", "chain"} =>
    \A x \in core : written[x].reply \in base => written[x].reply \in core

Descended ==
  pc \notin {"idle", "chain"} =>
    \/ Cardinality(core) >= Cap
    \/ \A i \in base : written[i].reply \in core \ frontier => i \in core

WalkOver == pc \in {"before", "after", "merge", "done"} => Exhausted

FilledBefore ==
  pc \in {"after", "merge", "done"} =>
    \A j \in base \ span : InWindow(core, j) /\ ~Earlier(anchor, j) =>
      \E P \in SUBSET span : /\ Cardinality(P) = Cap + 1
                            /\ \A p \in P : Earlier(j, p) /\ ~Earlier(anchor, p)

FilledAfter ==
  pc \in {"merge", "done"} =>
    \A j \in base \ span : InWindow(core, j) /\ Earlier(anchor, j) =>
      \E P \in SUBSET span : /\ Cardinality(P) = Cap + 1
                            /\ \A p \in P : Earlier(p, j) /\ Earlier(anchor, p)

(* P is a piece of S: what lies between two of it is in it. *)
Unbroken(P, S) ==
  \A i \in P, j \in S, k \in P : Earlier(i, j) /\ Earlier(j, k) => j \in P

Answered ==
  pc = "done" =>
    /\ anchor \in result /\ result \subseteq core \union span
    /\ Cardinality(result) <= Cap
    /\ Unbroken(result, core \union span)
    /\ IF truncated THEN Cardinality(result) = Cap ELSE result = core \union span

ThreadInv ==
  /\ LogFacts /\ Collecting /\ Climbed /\ Descended /\ WalkOver
  /\ FilledBefore /\ FilledAfter /\ Answered
=============================================================================
