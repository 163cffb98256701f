---------------------------- MODULE BufferProofs ----------------------------
(***************************************************************************)
(* Proofs about Buffer: its type invariant, that the full-text index is in *)
(* step with the history, and that the writers implement AtomicStore.      *)
(***************************************************************************)
EXTENDS Buffer, TLAPS

LEMMA NothingIsSnapshot == Nothing \in Snapshot /\ InStep(Nothing) /\ None \in Versioned
BY DEF Nothing, None, Snapshot, Versioned, InStep

LEMMA BufferInit == Init => BufferInv
<1> SUFFICES ASSUME Init PROVE BufferInv
  OBVIOUS
<1>1. TypeOK
  BY NothingIsSnapshot DEF Init, TypeOK, Statements
<1>2. QED
  BY <1>1 DEF Init, BufferInv, IndexInStep, Statements

(* A call that is over, however it ended, leaves nothing to be committed.  *)
LEMMA OverStep ==
  ASSUME BufferInv, NEW where \in {"idle", "down"}, Over(where), fault' = fault,
         messages' \in Versioned, fts' \in Versioned, pending' \in Versioned, fts' = messages'
  PROVE  BufferInv'
<1>1. TypeOK'
  BY NothingIsSnapshot DEF BufferInv, Over, TypeOK, Statements
<1>2. QED
  BY <1>1 DEF Over, BufferInv, IndexInStep, Statements

LEMMA BufferStep == BufferInv /\ [Next]_vars => BufferInv'
<1> SUFFICES ASSUME BufferInv, [Next]_vars
             PROVE  BufferInv'
  OBVIOUS
<1>0. TypeOK /\ IndexInStep
  BY DEF BufferInv
<1>c. UNCHANGED <<committed, fault>> =>
        /\ messages' \in Versioned /\ fts' \in Versioned /\ pending' \in Versioned
        /\ fts' = messages' /\ fault' = fault
  BY <1>0 DEF TypeOK, IndexInStep, committed
<1>1. CASE Hold
  <2>1. pending' \in Versioned /\ UNCHANGED <<messages, fts, fault, local>>
    BY <1>0, <1>1 DEF Hold, TypeOK, Versioned
  <2>2. QED
    BY <2>1 DEF BufferInv, TypeOK, IndexInStep, local
<1>2. CASE BeginReplay \/ BeginBatch
  <2>1. /\ pc' = "next" /\ work' = Tables
        /\ UNCHANGED <<committed, fault, save, current>>
        /\ call' \in {"replay", "batch"}
    BY <1>2 DEF BeginReplay, BeginBatch
  <2>2. work' \in Snapshot /\ InStep(work')
    BY <1>0, <2>1 DEF Tables, Snapshot, TypeOK, IndexInStep, InStep
  <2>3. left' \subseteq Messages /\ dropped' \subseteq Messages /\ version' \in Versioned
    <3>1. CASE BeginReplay
      BY <1>0, <3>1 DEF BeginReplay, Buffered, TypeOK
    <3>2. CASE BeginBatch
      <4>1. PICK ms \in SUBSET Messages \ {{}}, texts \in [Messages -> Versions] :
               left' = ms /\ version' = texts
        BY <3>2 DEF BeginBatch
      <4>2. QED
        BY <1>0, <3>2, <4>1 DEF BeginBatch, TypeOK, Versioned
    <3>3. QED
      BY <1>2, <3>1, <3>2
  <2>4. TypeOK'
    BY <1>0, <1>c, <2>1, <2>2, <2>3 DEF TypeOK, Statements
  <2>5. QED
    BY <1>c, <2>1, <2>2, <2>4 DEF BufferInv, IndexInStep, Statements
<1>3. CASE NextMessage
  <2>1. PICK m \in left : current' = m /\ left' = left \ {m}
    BY <1>3 DEF NextMessage
  <2>2. /\ pc = "next" /\ pc' = "row"
        /\ save' = IF call = "replay" THEN work ELSE save
        /\ UNCHANGED <<committed, fault, call, work, version, dropped>>
    BY <1>3 DEF NextMessage
  <2>3. TypeOK'
    BY <1>0, <1>c, <2>1, <2>2 DEF TypeOK, Statements
  <2>4. QED
    BY <1>c, <2>2, <2>3 DEF BufferInv, IndexInStep, InStep
<1>4. ASSUME UpsertRow \/ ClearIndex \/ InsertIndex
      PROVE  /\ current \in Messages
             /\ work.messages \in [Messages -> Versions \union {0}]
             /\ work.fts \in [Messages -> Versions \union {0}]
             /\ version[current] \in Versions \union {0}
             /\ work \in [messages : Versioned, fts : Versioned, pending : Versioned]
  <2>1. pc \in Statements
    BY <1>4 DEF UpsertRow, ClearIndex, InsertIndex, Accepted, Statements
  <2>2. QED
    BY <1>0, <2>1 DEF TypeOK, Snapshot, Versioned
<1>5. CASE UpsertRow
  <2>1. /\ pc = "row" /\ pc' = "clear"
        /\ work' = [work EXCEPT !.messages[current] = version[current]]
        /\ UNCHANGED <<committed, fault, call, save, left, current, version, dropped>>
    BY <1>5 DEF UpsertRow, Accepted
  <2>2. work' \in Snapshot
    BY <1>4, <1>5, <2>1 DEF Snapshot, Versioned
  <2>3. TypeOK'
    BY <1>0, <1>c, <2>1, <2>2 DEF TypeOK, Statements
  <2>4. /\ work'.messages[current] = version[current]
        /\ \A m \in Messages \ {current} : work'.fts[m] = work'.messages[m]
    BY <1>4, <1>5, <2>1 DEF BufferInv, InStep
  <2>5. QED
    BY <1>c, <2>1, <2>3, <2>4 DEF BufferInv, IndexInStep, Statements, InStep
<1>6. CASE ClearIndex
  <2>1. /\ pc = "clear" /\ pc' = "index"
        /\ work' = [work EXCEPT !.fts[current] = 0]
        /\ UNCHANGED <<committed, fault, call, save, left, current, version, dropped>>
    BY <1>6 DEF ClearIndex, Accepted
  <2>2. work' \in Snapshot
    BY <1>4, <1>6, <2>1 DEF Snapshot, Versioned
  <2>3. TypeOK'
    BY <1>0, <1>c, <2>1, <2>2 DEF TypeOK, Statements
  <2>4. /\ work'.messages[current] = version[current]
        /\ \A m \in Messages \ {current} : work'.fts[m] = work'.messages[m]
    BY <1>4, <1>6, <2>1 DEF BufferInv
  <2>5. QED
    BY <1>c, <2>1, <2>3, <2>4 DEF BufferInv, IndexInStep, Statements
<1>7. CASE InsertIndex
  <2>1. /\ pc = "index" /\ pc' \in {"release", "next"}
        /\ work' = [work EXCEPT !.fts[current] = version[current]]
        /\ UNCHANGED <<committed, fault, call, save, left, current, version, dropped>>
    BY <1>7 DEF InsertIndex, Accepted
  <2>2. work' \in Snapshot
    BY <1>4, <1>7, <2>1 DEF Snapshot, Versioned
  <2>3. TypeOK'
    BY <1>0, <1>c, <2>1, <2>2 DEF TypeOK, Statements
  <2>4. InStep(work')
    <3>1. \A m \in Messages : work'.fts[m] = work'.messages[m]
      BY <1>4, <1>7, <2>1 DEF BufferInv
    <3>2. QED
      BY <2>2, <3>1 DEF InStep, Snapshot, Versioned
  <2>5. QED
    BY <1>c, <2>1, <2>3, <2>4 DEF BufferInv, IndexInStep, Statements
<1>8. CASE Refused
  <2>1. pc \in Statements /\ UNCHANGED <<committed, fault>>
    BY <1>8 DEF Refused
  <2>2. CASE call = "replay"
    <3>1. pc' = "rollback" /\ UNCHANGED <<call, work, save, left, current, version, dropped>>
      BY <1>8, <2>2 DEF Refused
    <3>2. TypeOK'
      BY <1>0, <1>c, <2>1, <3>1 DEF TypeOK, Statements
    <3>3. QED
      BY <1>0, <1>c, <2>1, <2>2, <3>1, <3>2 DEF BufferInv, IndexInStep, TypeOK, InStep
  <2>3. CASE call # "replay"
    BY <1>8, <1>c, <2>1, <2>3, OverStep DEF Refused
  <2>4. QED
    BY <2>2, <2>3
<1>9. CASE RollbackTo
  <2>1. /\ pc = "rollback" /\ pc' = "release" /\ work' = save
        /\ dropped' = dropped \union {current}
        /\ UNCHANGED <<committed, fault, call, save, left, current, version>>
    BY <1>9 DEF RollbackTo
  <2>2. TypeOK'
    BY <1>0, <1>c, <2>1 DEF BufferInv, TypeOK, Statements
  <2>3. QED
    BY <1>c, <2>1, <2>2 DEF BufferInv, IndexInStep, InStep, Statements
<1>10. CASE Release
  <2>1. /\ pc = "release" /\ pc' = "next" /\ save' = Nothing
        /\ UNCHANGED <<committed, fault, call, work, left, current, version, dropped>>
    BY <1>10 DEF Release
  <2>2. TypeOK'
    BY <1>0, <1>c, <2>1, NothingIsSnapshot DEF TypeOK, Statements
  <2>3. QED
    BY <1>c, <2>1, <2>2 DEF BufferInv, IndexInStep, InStep, Statements
<1>11. CASE DropBuffered
  <2>1. /\ pc = "next" /\ pc' = "commit"
        /\ work' = [work EXCEPT !.pending = None]
        /\ UNCHANGED <<committed, fault, call, save, left, current, version, dropped>>
    BY <1>11 DEF DropBuffered
  <2>2. work' \in Snapshot /\ work'.fts = work.fts /\ work'.messages = work.messages
    BY <1>0, <2>1, NothingIsSnapshot DEF TypeOK, Snapshot
  <2>3. TypeOK'
    BY <1>0, <1>c, <2>1, <2>2 DEF TypeOK, Statements
  <2>4. QED
    BY <1>c, <2>1, <2>2, <2>3 DEF BufferInv, IndexInStep, InStep, Statements
<1>12. CASE Commit
  <2>1. /\ pc \in {"next", "commit"} /\ Over("idle") /\ fault' = fault
        /\ messages' = work.messages /\ fts' = work.fts /\ pending' = work.pending
    BY <1>12 DEF Commit
  <2>2. work \in Snapshot /\ InStep(work)
    BY <1>0, <2>1 DEF BufferInv, TypeOK
  <2>3. QED
    BY <2>1, <2>2, OverStep DEF Snapshot, InStep
<1>13. CASE Fail \/ Restart
  BY <1>13, <1>c, OverStep DEF Fail, Restart
<1>14. CASE UNCHANGED vars
  BY <1>0, <1>14 DEF vars, committed, local, BufferInv, TypeOK, IndexInStep, InStep
<1>15. QED
  BY <1>1, <1>2, <1>3, <1>5, <1>6, <1>7, <1>8, <1>9, <1>10, <1>11, <1>12, <1>13, <1>14
     DEF Next, Statement

(* The tables keep their types, for any number of messages and texts.      *)
THEOREM BufferTypeCorrect == Spec => []TypeOK
<1>1. Init => BufferInv
  BY BufferInit
<1>2. BufferInv /\ [Next]_vars => BufferInv'
  BY BufferStep
<1>3. BufferInv => TypeOK
  BY DEF BufferInv
<1>4. QED
  BY <1>1, <1>2, <1>3, PTL DEF Spec

(* The index finds what the history holds, whichever statement of which    *)
(* message is refused and wherever a transaction is cut off                *)
(* (pending.go:168-228, store.go:190-236).                                 *)
THEOREM IndexAlwaysInStep == Spec => []IndexInStep
<1>1. Init => BufferInv
  BY BufferInit
<1>2. BufferInv /\ [Next]_vars => BufferInv'
  BY BufferStep
<1>3. BufferInv => IndexInStep
  BY DEF BufferInv
<1>4. QED
  BY <1>1, <1>2, <1>3, PTL DEF Spec

-----------------------------------------------------------------------------
(* The writers are atomic *)

LEMMA AtomicInit == Init => AtomicInv
<1>1. Init => BufferInv
  BY BufferInit
<1>2. Init => CallInv /\ ReplayInv /\ BatchInv
  BY DEF Init, CallInv, ReplayInv, BatchInv
<1>3. QED
  BY <1>1, <1>2 DEF AtomicInv

(* A transaction that begins has written nothing.                          *)
LEMMA BeginStep ==
  ASSUME AtomicInv, BeginReplay \/ BeginBatch
  PROVE  CallInv' /\ ReplayInv' /\ BatchInv'
<1>1. /\ pc' = "next" /\ work' = Tables
      /\ UNCHANGED <<messages, fts, pending, fault>>
  BY DEF BeginReplay, BeginBatch, committed
<1>2. CASE BeginReplay
  <2>1. /\ call' = "replay" /\ version' = pending
        /\ left' = {m \in Buffered : fault[pending[m]] # "decode"}
        /\ work'.messages = messages /\ Buffered' = Buffered
    BY <1>1, <1>2 DEF BeginReplay, Tables, Buffered
  <2>2. Moved(work, left)'
    BY <1>1, <2>1 DEF Moved
  <2>3. QED
    BY <1>1, <2>1, <2>2 DEF CallInv, ReplayInv, BatchInv, Statements
<1>3. CASE BeginBatch
  <2>1. /\ call' = "batch" /\ version' \in [Messages -> Versions]
        /\ work'.messages = messages /\ work'.pending = pending
    BY <1>1, <1>3 DEF BeginBatch, Tables
  <2>2. QED
    BY <1>1, <2>1 DEF CallInv, ReplayInv, BatchInv
<1>4. QED
  BY <1>2, <1>3

(* A message of the batch is written, or nothing changes in work's history. *)
LEMMA BatchStep ==
  ASSUME AtomicInv, call = "batch", Statement, ~Commit, ~Refused
  PROVE  CallInv' /\ ReplayInv' /\ BatchInv'
<1>0. BatchInv /\ CallInv /\ TypeOK
  BY DEF AtomicInv, BufferInv
<1>1. NextMessage \/ UpsertRow \/ ClearIndex \/ InsertIndex
  BY <1>0 DEF Statement, RollbackTo, Release, DropBuffered, CallInv
<1>2. /\ UNCHANGED <<messages, pending, call, version>>
      /\ pc' \in {"row", "clear", "index", "next"}
      /\ work'.pending = work.pending
  BY <1>0, <1>1 DEF NextMessage, UpsertRow, ClearIndex, InsertIndex, committed, TypeOK, Snapshot
<1>3. \A m \in Messages : work'.messages[m] \in {work.messages[m], version[m]}
  BY <1>0, <1>1 DEF NextMessage, UpsertRow, ClearIndex, InsertIndex, TypeOK, Snapshot, Versioned
<1>4. QED
  BY <1>0, <1>2, <1>3 DEF CallInv, ReplayInv, BatchInv

(* A replay's statement: what it moved so far is what a replay moves.      *)
LEMMA ReplayStep ==
  ASSUME AtomicInv, call = "replay", Statement, ~Commit
  PROVE  CallInv' /\ ReplayInv' /\ BatchInv'
<1>0. ReplayInv /\ CallInv /\ TypeOK
  BY DEF AtomicInv, BufferInv
<1>1. UNCHANGED <<messages, pending, fault, call, version>> /\ Buffered' = Buffered
  BY DEF Statement, NextMessage, UpsertRow, ClearIndex, InsertIndex, Refused, RollbackTo, Release,
         DropBuffered, committed, Buffered
<1>2. CASE NextMessage
  <2>1. PICK k \in left : current' = k /\ left' = left \ {k}
    BY <1>2 DEF NextMessage
  <2>2. /\ pc = "next" /\ pc' = "row" /\ save' = work /\ work' = work
        /\ left' \union {current'} = left
    BY <1>2, <2>1 DEF NextMessage
  <2>3. Moved(save, left \union {current})'
    BY <1>0, <1>1, <2>2 DEF ReplayInv, Moved
  <2>4. current' \in Buffered' \ left' /\ Wrong' # "decode"
    BY <1>0, <1>1, <2>1 DEF ReplayInv, Wrong
  <2>5. left' \subseteq {m \in Buffered' : fault'[pending'[m]] # "decode"} /\ version' = pending'
    BY <1>0, <1>1, <2>1 DEF ReplayInv
  <2>6. CallInv' /\ BatchInv'
    BY <1>1, <2>2 DEF CallInv, BatchInv
  <2>7. ReplayInv'
    BY <2>2, <2>3, <2>4, <2>5 DEF ReplayInv, Statements
  <2>8. QED
    BY <2>6, <2>7
<1>3. ASSUME pc \in Statements \union {"rollback"}
      PROVE  /\ current \in Buffered \ left /\ current \in Messages /\ Wrong # "decode"
             /\ Moved(save, left \union {current})
             /\ \A m \in Messages \ {current} : work.messages[m] = save.messages[m]
             /\ Wrong = fault[pending[current]] /\ pending[current] \in Versions
  BY <1>0, <1>3 DEF ReplayInv, Buffered, Wrong, TypeOK, Versioned
<1>4. UNCHANGED <<save, left, current>> =>
        /\ Moved(save, left \union {current})' <=> Moved(save, left \union {current})
        /\ Wrong' = Wrong
  BY <1>1 DEF Moved, Wrong
<1>5. CASE UpsertRow
  <2>1. /\ pc = "row" /\ pc' = "clear" /\ Wrong # "row"
        /\ UNCHANGED <<save, left, current>>
        /\ \A m \in Messages \ {current} : work'.messages[m] = work.messages[m]
    BY <1>0, <1>5 DEF UpsertRow, Accepted, TypeOK, Snapshot, Versioned
  <2>2. Moved(save, left \union {current})'
    BY <1>3, <1>4, <2>1 DEF Statements
  <2>3. ReplayInv'
    BY <1>0, <1>1, <1>3, <1>4, <2>1, <2>2 DEF ReplayInv, Statements
  <2>4. QED
    BY <1>1, <2>1, <2>3 DEF CallInv, BatchInv
<1>6. CASE ClearIndex
  <2>1. /\ pc = "clear" /\ pc' = "index" /\ Wrong # "clear"
        /\ UNCHANGED <<save, left, current>> /\ work'.messages = work.messages
    BY <1>0, <1>6 DEF ClearIndex, Accepted, TypeOK, Snapshot
  <2>2. Moved(save, left \union {current})'
    BY <1>3, <1>4, <2>1 DEF Statements
  <2>3. ReplayInv'
    BY <1>0, <1>1, <1>3, <1>4, <2>1, <2>2 DEF ReplayInv, Statements
  <2>4. QED
    BY <1>1, <2>1, <2>3 DEF CallInv, BatchInv
<1>7. CASE InsertIndex
  <2>1. /\ pc = "index" /\ pc' = "release"
        /\ UNCHANGED <<save, left, current>> /\ work'.messages = work.messages
    BY <1>0, <1>7 DEF InsertIndex, Accepted, TypeOK, Snapshot
  <2>2. Wrong = "none"
    BY <1>0, <1>3, <1>7 DEF InsertIndex, Accepted, Statements, ReplayInv, TypeOK, Faults
  <2>3. work.messages[current] = pending[current]
    BY <1>0, <2>1 DEF AtomicInv, BufferInv, ReplayInv
  <2>4. Moved(work, left)
    BY <1>3, <2>1, <2>2, <2>3 DEF Moved, Statements
  <2>5. Moved(work, left)'
    BY <1>1, <2>1, <2>4 DEF Moved
  <2>6. ReplayInv'
    BY <1>0, <1>1, <2>1, <2>5 DEF ReplayInv, Statements
  <2>7. QED
    BY <1>1, <2>1, <2>6 DEF CallInv, BatchInv
<1>8. CASE Refused
  <2>1. /\ pc \in Statements /\ Wrong = pc /\ pc' = "rollback"
        /\ UNCHANGED <<work, save, left, current>>
    BY <1>8 DEF Refused
  <2>2. Wrong # "none"
    BY <2>1 DEF Statements
  <2>3. Moved(save, left \union {current})'
    BY <1>3, <1>4, <2>1
  <2>4. ReplayInv'
    BY <1>0, <1>1, <1>3, <1>4, <2>1, <2>2, <2>3 DEF ReplayInv, Statements
  <2>5. QED
    BY <1>1, <2>1, <2>4 DEF CallInv, BatchInv
<1>9. CASE RollbackTo
  <2>1. /\ pc = "rollback" /\ pc' = "release" /\ work' = save
        /\ UNCHANGED <<save, left, current>>
    BY <1>9 DEF RollbackTo
  <2>2. Wrong # "none"
    BY <1>0, <2>1 DEF ReplayInv
  <2>3. Moved(work, left)'
    BY <1>1, <1>3, <2>1, <2>2 DEF Moved
  <2>4. ReplayInv'
    BY <1>0, <1>1, <2>1, <2>3 DEF ReplayInv, Statements
  <2>5. QED
    BY <1>1, <2>1, <2>4 DEF CallInv, BatchInv
<1>10. CASE Release
  <2>1. pc = "release" /\ pc' = "next" /\ UNCHANGED <<work, left>>
    BY <1>10 DEF Release
  <2>2. Moved(work, left)'
    BY <1>0, <1>1, <2>1 DEF ReplayInv, Moved
  <2>3. ReplayInv'
    BY <1>0, <1>1, <2>1, <2>2 DEF ReplayInv, Statements
  <2>4. QED
    BY <1>1, <2>1, <2>3 DEF CallInv, BatchInv
<1>11. CASE DropBuffered
  <2>1. /\ pc = "next" /\ pc' = "commit" /\ left = {} /\ left' = {}
        /\ work'.messages = work.messages /\ work'.pending = None
    BY <1>0, <1>11 DEF DropBuffered, TypeOK, Snapshot
  <2>2. Moved(work, left)'
    BY <1>0, <1>1, <2>1 DEF ReplayInv, Moved
  <2>3. ReplayInv'
    BY <1>0, <1>1, <2>1, <2>2 DEF ReplayInv, Statements, None
  <2>4. QED
    BY <1>1, <2>1, <2>3 DEF CallInv, BatchInv
<1>12. QED
  BY <1>2, <1>5, <1>6, <1>7, <1>8, <1>9, <1>10, <1>11 DEF Statement

LEMMA AtomicStep == AtomicInv /\ [Next]_vars => AtomicInv'
<1> SUFFICES ASSUME AtomicInv, [Next]_vars PROVE AtomicInv'
  OBVIOUS
<1>0. BufferInv' /\ BufferInv /\ CallInv /\ ReplayInv /\ BatchInv /\ TypeOK
  BY BufferStep DEF AtomicInv, BufferInv
<1>1. CASE \E where \in {"idle", "down"} : Over(where)
  <2>1. pc' \in {"idle", "down"} /\ call' = "none"
    BY <1>1 DEF Over
  <2>2. QED
    BY <1>0, <2>1 DEF AtomicInv, CallInv, ReplayInv, BatchInv
<1>2. CASE Hold
  <2>1. UNCHANGED <<pc, call>> /\ call = "none"
    BY <1>0, <1>2 DEF Hold, local, CallInv
  <2>2. QED
    BY <1>0, <2>1 DEF AtomicInv, CallInv, ReplayInv, BatchInv
<1>3. CASE BeginReplay \/ BeginBatch
  BY <1>0, <1>3, BeginStep DEF AtomicInv
<1>4. CASE Statement /\ call = "replay" /\ ~Commit
  BY <1>0, <1>4, ReplayStep DEF AtomicInv
<1>5. CASE Statement /\ call = "batch" /\ ~Commit /\ ~Refused
  BY <1>0, <1>5, BatchStep DEF AtomicInv
<1>6. CASE Commit \/ (Refused /\ call # "replay") \/ Fail \/ Restart
  BY <1>1, <1>6 DEF Commit, Refused, Fail, Restart
<1>7. CASE UNCHANGED vars
  BY <1>0, <1>7 DEF vars, committed, local, AtomicInv, CallInv, ReplayInv, BatchInv, Moved, Buffered,
                    Wrong
<1>8. Statement => call # "none" \/ Commit \/ (Refused /\ call # "replay")
  BY <1>0 DEF Statement, NextMessage, UpsertRow, ClearIndex, InsertIndex, Accepted, Refused,
              RollbackTo, Release, DropBuffered, CallInv, Statements
<1>9. call \in {"none", "replay", "batch"}
  BY <1>0 DEF TypeOK
<1>10. QED
  BY <1>2, <1>3, <1>4, <1>5, <1>6, <1>7, <1>8, <1>9 DEF Next

(* A commit is the one step a caller can see.                              *)
LEMMA CommitStep ==
  ASSUME AtomicInv, AtomicInv', Commit
  PROVE  Store!Batch \/ Store!Replay
<1> DEFINE faulty == {v \in Versions : fault[v] # "none"}
<1>0. /\ CallInv /\ ReplayInv /\ BatchInv /\ TypeOK
      /\ messages' = work.messages /\ pending' = work.pending /\ fault' = fault
      /\ messages \in Versioned /\ messages' \in Versioned /\ fts' = messages'
  <2>1. messages' = work.messages /\ pending' = work.pending /\ fault' = fault
    BY DEF Commit
  <2>2. QED
    BY <2>1 DEF AtomicInv, BufferInv, TypeOK, IndexInStep
<1>1. CASE call = "batch"
  <2>1. version \in [Messages -> Versions]
    BY <1>0, <1>1 DEF BatchInv
  <2> DEFINE ms == {m \in Messages : work.messages[m] = version[m]}
  <2>2. \A m \in Messages : messages'[m] = IF m \in ms THEN version[m] ELSE messages[m]
    BY <1>0, <1>1, <2>1 DEF BatchInv
  <2>3. messages' = [m \in Messages |-> IF m \in ms THEN version[m] ELSE messages[m]]
    BY <1>0, <2>2 DEF Versioned
  <2>4. pending' = pending
    BY <1>0, <1>1 DEF BatchInv
  <2>5. QED
    BY <1>0, <2>1, <2>3, <2>4 DEF Store!Batch
<1>2. CASE call = "replay"
  <2>1. pc = "commit"
    BY <1>2 DEF Commit
  <2>2. left = {} /\ work.pending = None /\ Moved(work, {})
    BY <1>0, <1>2, <2>1 DEF ReplayInv
  <2>3. \A m \in Messages : messages'[m] = IF m \in Store!Buffered /\ pending[m] \notin faulty THEN pending[m]
                                           ELSE messages[m]
    <3>1. \A m \in Buffered : pending[m] \in Versions
      BY <1>0 DEF TypeOK, Versioned, Buffered
    <3>2. QED
      BY <1>0, <2>2, <3>1 DEF Moved, Buffered, Store!Buffered
  <2>4. messages' = [m \in Messages |-> IF m \in Store!Buffered /\ pending[m] \notin faulty THEN pending[m]
                                        ELSE messages[m]]
    BY <1>0, <2>3 DEF Versioned
  <2>5. QED
    BY <1>0, <2>2, <2>4 DEF Store!Replay, None
<1>3. QED
  BY <1>0, <1>1, <1>2 DEF Commit, CallInv, TypeOK

(* Every other step is Store's Hold or none of its.                        *)
LEMMA StoreStep == AtomicInv /\ AtomicInv' /\ [Next]_vars => [Store!Next]_(Store!vars)
<1> SUFFICES ASSUME AtomicInv, AtomicInv', [Next]_vars, ~(UNCHANGED <<committed, fault>>)
             PROVE  Store!Next
  BY DEF Store!vars, committed
<1>1. CASE Hold
  <2>1. Store!Hold
    BY <1>1 DEF Hold, Store!Hold
  <2>2. QED
    BY <2>1 DEF Store!Next
<1>2. CASE Commit
  BY <1>2, CommitStep DEF Store!Next
<1>3. QED
  BY <1>1, <1>2 DEF Next, vars, BeginReplay, BeginBatch, Fail, Restart, Statement, NextMessage,
     UpsertRow, ClearIndex, InsertIndex, Refused, RollbackTo, Release, DropBuffered

(* The writers implement AtomicStore: whatever statements fail, whichever  *)
(* rows are refused and wherever the process is killed, a batch and a      *)
(* replay are seen as one step or not at all, and a replay gives up the    *)
(* refused rows and no other (pending.go:158-228, store.go:164-236).       *)
THEOREM WritersAreAtomic == Spec => ImplementsAtomicStore
<1>1. Init => Store!Init
  BY DEF Init, Store!Init, None
<1>2. Init => AtomicInv
  BY AtomicInit
<1>3. AtomicInv /\ [Next]_vars => AtomicInv'
  BY AtomicStep
<1>4. AtomicInv /\ AtomicInv' /\ [Next]_vars => [Store!Next]_(Store!vars)
  BY StoreStep
<1>5. QED
  BY <1>1, <1>2, <1>3, <1>4, PTL DEF Spec, ImplementsAtomicStore, Store!Spec
=============================================================================
