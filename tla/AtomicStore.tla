---------------------------- MODULE AtomicStore -----------------------------
(***************************************************************************)
(* What the store promises of its three tables: every change of the        *)
(* history is one step that indexes what it writes, and a replay empties   *)
(* the buffer in the same step, giving up only rows that are faulty.       *)
(***************************************************************************)
EXTENDS Naturals

CONSTANTS Messages, Versions

VARIABLES
  messages,  \* Messages -> the version of the text in the history, 0: no row
  fts,       \* Messages -> the version the full-text index finds, 0: none
  pending,   \* Messages -> the version in the buffer, 0: no row
  faulty     \* the versions some statement or the decoder refuses

vars == <<messages, fts, pending, faulty>>

Buffered == {m \in Messages : pending[m] # 0}

Init ==
  /\ messages = [m \in Messages |-> 0] /\ fts = messages
  /\ pending = messages
  /\ faulty \subseteq Versions

Hold ==
  /\ \E m \in Messages, v \in Versions : pending' = [pending EXCEPT ![m] = v]
  /\ UNCHANGED <<messages, fts, faulty>>

Batch ==
  /\ \E ms \in SUBSET Messages, texts \in [Messages -> Versions] :
       messages' = [m \in Messages |-> IF m \in ms THEN texts[m] ELSE messages[m]]
  /\ fts' = messages'
  /\ UNCHANGED <<pending, faulty>>

Replay ==
  /\ messages' = [m \in Messages |-> IF m \in Buffered /\ pending[m] \notin faulty THEN pending[m]
                                     ELSE messages[m]]
  /\ fts' = messages'
  /\ pending' = [m \in Messages |-> 0]
  /\ UNCHANGED faulty

Next == Hold \/ Batch \/ Replay

Spec == Init /\ [][Next]_vars
=============================================================================
