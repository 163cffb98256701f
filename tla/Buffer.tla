------------------------------- MODULE Buffer -------------------------------
(***************************************************************************)
(* The store's writers statement by statement, for the messages of one     *)
(* chat: replayChat, which moves the buffer into the history with a        *)
(* savepoint around every message, and UpsertBatch.  Both write a message  *)
(* with the three statements of upsertTx.  Any statement may fail because  *)
(* the database is unusable, or because it refuses this very row; the      *)
(* process may be killed between any two.  SQLite undoes what a            *)
(* transaction wrote when it is rolled back or its connection is gone.     *)
(***************************************************************************)
EXTENDS Naturals

CONSTANTS
  Messages,  \* message ids of the chat
  Versions,  \* what a row may hold, edits included
  NoMessage  \* none of them

ASSUME BufferAssumption == Versions \subseteq Nat \ {0} /\ NoMessage \notin Messages

(* Where what a row holds is refused: nowhere, when it is read back from   *)
(* the buffer (a time that does not parse), or by one of upsertTx's        *)
(* statements.  An edit may be refused where the original was stored.      *)
Faults == {"none", "decode", "row", "clear", "index"}

Statements == {"row", "clear", "index"}

VARIABLES
  messages, fts, pending,  \* the committed tables: version per message, 0: none
  fault,                   \* what is wrong with each version, it never changes
  pc,                      \* the statement to run next; "idle" outside of calls,
                           \* "down" after a failure
  call,                    \* "replay" or "batch", "none" outside of calls
  work,                    \* the tables as the open transaction sees them
  save,                    \* the same when the savepoint was opened
  left, current, version,  \* rows still to write, the one in hand, their text
  dropped                  \* what replayChat reports as refused

committed == <<messages, fts, pending>>
local == <<pc, call, work, save, left, current, version, dropped>>
vars == <<committed, fault, local>>

None == [m \in Messages |-> 0]
Tables == [messages |-> messages, fts |-> fts, pending |-> pending]
Nothing == [messages |-> None, fts |-> None, pending |-> None]

Buffered == {m \in Messages : pending[m] # 0}

Over(where) ==
  /\ pc' = where /\ call' = "none" /\ work' = Nothing /\ save' = Nothing
  /\ left' = {} /\ current' = NoMessage /\ version' = None /\ dropped' = {}

Init ==
  /\ messages = None /\ fts = None /\ pending = None
  /\ fault \in [Versions -> Faults]
  /\ pc = "idle" /\ call = "none" /\ work = Nothing /\ save = Nothing
  /\ left = {} /\ current = NoMessage /\ version = None /\ dropped = {}

(* UpsertPendingBatch, one statement and therefore one step; v is what the *)
(* row holds after it, the times included that an edit leaves alone.       *)
Hold ==
  /\ pc = "idle"
  /\ \E m \in Messages, v \in Versions : pending' = [pending EXCEPT ![m] = v]
  /\ UNCHANGED <<messages, fts, fault, local>>

(* replayChat begins its transaction and reads the chat's rows; the ones   *)
(* that do not decode are dropped rather than failed on.                   *)
BeginReplay ==
  /\ pc = "idle" /\ Buffered # {}
  /\ pc' = "next" /\ call' = "replay" /\ work' = Tables
  /\ left' = {m \in Buffered : fault[pending[m]] # "decode"}
  /\ dropped' = {m \in Buffered : fault[pending[m]] = "decode"}
  /\ version' = pending
  /\ UNCHANGED <<committed, fault, save, current>>

(* Mutant of BeginBatch: the first statement is run before a message is taken. *)
BeginBatchAtRow ==
  /\ pc = "idle"
  /\ \E ms \in SUBSET Messages \ {{}}, texts \in [Messages -> Versions] :
       left' = ms /\ version' = texts
  /\ pc' = "row" /\ call' = "batch" /\ work' = Tables
  /\ UNCHANGED <<committed, fault, save, current, dropped>>

(* UpsertBatch of messages newer than what the tables hold, or older. *)
BeginBatch ==
  /\ pc = "idle"
  /\ \E ms \in SUBSET Messages \ {{}}, texts \in [Messages -> Versions] :
       left' = ms /\ version' = texts
  /\ pc' = "next" /\ call' = "batch" /\ work' = Tables
  /\ UNCHANGED <<committed, fault, save, current, dropped>>

(* The next message; a replay opens the savepoint for it. *)
NextMessage ==
  /\ pc = "next"
  /\ \E m \in left : current' = m /\ left' = left \ {m}
  /\ pc' = "row"
  /\ save' = IF call = "replay" THEN work ELSE save
  /\ UNCHANGED <<committed, fault, call, work, version, dropped>>

(* What is wrong with the row in hand. *)
Wrong == fault[version[current]]

Accepted(statement) == pc = statement /\ Wrong # statement

UpsertRow ==
  /\ Accepted("row")
  /\ work' = [work EXCEPT !.messages[current] = version[current]]
  /\ pc' = "clear"
  /\ UNCHANGED <<committed, fault, call, save, left, current, version, dropped>>

ClearIndex ==
  /\ Accepted("clear")
  /\ work' = [work EXCEPT !.fts[current] = 0]
  /\ pc' = "index"
  /\ UNCHANGED <<committed, fault, call, save, left, current, version, dropped>>

InsertIndex ==
  /\ Accepted("index")
  /\ work' = [work EXCEPT !.fts[current] = version[current]]
  /\ pc' = IF call = "replay" THEN "release" ELSE "next"
  /\ UNCHANGED <<committed, fault, call, save, left, current, version, dropped>>

(* Mutant of Refused: a refused row ends the replay. *)
RefusedAborts ==
  /\ pc \in Statements /\ Wrong = pc
  /\ Over("idle")
  /\ UNCHANGED <<committed, fault>>

(* ErrBadMessage: a replay skips the row, a batch is rolled back. *)
Refused ==
  /\ pc \in Statements /\ Wrong = pc
  /\ IF call = "replay"
     THEN /\ pc' = "rollback"
          /\ UNCHANGED <<call, work, save, left, current, version, dropped>>
     ELSE Over("idle")
  /\ UNCHANGED <<committed, fault>>

(* Mutant of RollbackTo: no savepoint around the message. *)
RollbackToNothing ==
  /\ pc = "rollback"
  /\ dropped' = dropped \union {current}
  /\ pc' = "release"
  /\ UNCHANGED <<committed, fault, call, work, save, left, current, version>>

(* ROLLBACK TO undoes the statements of this message and keeps the savepoint. *)
RollbackTo ==
  /\ pc = "rollback"
  /\ work' = save
  /\ dropped' = dropped \union {current}
  /\ pc' = "release"
  /\ UNCHANGED <<committed, fault, call, save, left, current, version>>

Release ==
  /\ pc = "release"
  /\ pc' = "next" /\ save' = Nothing
  /\ UNCHANGED <<committed, fault, call, work, left, current, version, dropped>>

(* Mutant of DropBuffered: only what was moved leaves the buffer. *)
DropMoved ==
  /\ pc = "next" /\ left = {} /\ call = "replay"
  /\ work' = [work EXCEPT !.pending = [m \in Messages |-> IF m \in dropped THEN @[m] ELSE 0]]
  /\ pc' = "commit"
  /\ UNCHANGED <<committed, fault, call, save, left, current, version, dropped>>

(* The chat-wide DELETE takes the refused rows along. *)
DropBuffered ==
  /\ pc = "next" /\ left = {} /\ call = "replay"
  /\ work' = [work EXCEPT !.pending = None]
  /\ pc' = "commit"
  /\ UNCHANGED <<committed, fault, call, save, left, current, version, dropped>>

Commit ==
  /\ pc = "commit" \/ (pc = "next" /\ left = {} /\ call = "batch")
  /\ messages' = work.messages /\ fts' = work.fts /\ pending' = work.pending
  /\ Over("idle")
  /\ UNCHANGED fault

(* The database is unusable, or the process is killed: nothing is          *)
(* committed.  A replay that fails ends its process, a batch is tried      *)
(* again by its caller, which is a fresh call all the same.                *)
Fail ==
  /\ pc \notin {"idle", "down"}
  /\ Over("down")
  /\ UNCHANGED <<committed, fault>>

Restart ==
  /\ pc = "down"
  /\ Over("idle")
  /\ UNCHANGED <<committed, fault>>

Statement ==
  \/ NextMessage \/ UpsertRow \/ ClearIndex \/ InsertIndex \/ Refused
  \/ RollbackTo \/ Release \/ DropBuffered \/ Commit

Next == Hold \/ BeginReplay \/ BeginBatch \/ Statement \/ Fail \/ Restart

Spec == Init /\ [][Next]_vars

(* The database is usable in the end, and every start replays. *)
Fairness ==
  <>[][~Fail]_vars /\ WF_vars(Restart) /\ WF_vars(Statement) /\ SF_vars(BeginReplay)

FairSpec == Spec /\ Fairness

-----------------------------------------------------------------------------
Versioned == [Messages -> Versions \union {0}]
Snapshot == [messages : Versioned, fts : Versioned, pending : Versioned]

TypeOK ==
  /\ messages \in Versioned /\ fts \in Versioned /\ pending \in Versioned
  /\ fault \in [Versions -> Faults]
  /\ pc \in Statements \union {"down", "idle", "next", "rollback", "release", "commit"}
  /\ call \in {"none", "replay", "batch"}
  /\ work \in Snapshot /\ save \in Snapshot
  /\ left \subseteq Messages
  /\ current \in Messages \union {NoMessage}
  /\ pc \in Statements => current \in Messages
  /\ version \in Versioned
  /\ dropped \subseteq Messages

(* The full-text index finds exactly what the history holds: a row refused *)
(* by the second or third statement of upsertTx leaves neither an          *)
(* unindexed row nor a stale index entry (pending.go:208-228).             *)
IndexInStep == fts = messages

(* Seen from outside, the writers are atomic and a replay gives up exactly *)
(* the rows that are refused for their own sake (pending.go:158-202).      *)
Store == INSTANCE AtomicStore
           WITH faulty <- {v \in Versions : fault[v] # "none"}
ImplementsAtomicStore == Store!Spec

(* A refused row cannot stop the process from booting, "on this restart    *)
(* and every one after it": whatever is buffered leaves the buffer once    *)
(* the database is usable (pending.go:162-167).                            *)
Boots == \A m \in Messages : pending[m] # 0 ~> pending[m] = 0

-----------------------------------------------------------------------------
(* Why the index stays in step, the inductive invariant of the proof: what *)
(* an open transaction would commit is in step, but for the message in     *)
(* hand; and so is what its savepoint goes back to.                        *)
InStep(tables) == tables.fts = tables.messages

BufferInv ==
  /\ TypeOK /\ IndexInStep
  /\ pc \in {"next", "row", "release", "commit"} => InStep(work)
  /\ pc \in {"clear", "index"} =>
       \A m \in Messages \ {current} : work.fts[m] = work.messages[m]
  /\ pc \in {"clear", "index"} => work.messages[current] = version[current]
  /\ pc = "rollback" => current \in Messages
  /\ pc = "rollback" \/ (pc \in Statements /\ call = "replay") => InStep(save)

(* Why the writers are atomic: what an open replay or batch would leave in *)
(* the history if it were committed now, the messages still open left out. *)
Moved(tables, open) ==
  \A m \in Messages :
    tables.messages[m] = IF m \in Buffered \ open /\ fault[pending[m]] = "none" THEN pending[m]
                         ELSE messages[m]

ReplayInv ==
  call = "replay" =>
    /\ version = pending
    /\ left \subseteq {m \in Buffered : fault[pending[m]] # "decode"}
    /\ pc \in {"next", "release", "commit"} => Moved(work, left)
    /\ pc \in Statements \union {"rollback"} =>
         /\ current \in Buffered \ left /\ Wrong # "decode"
         /\ Moved(save, left \union {current})
         /\ \A m \in Messages \ {current} : work.messages[m] = save.messages[m]
    /\ pc \in {"clear", "index"} => Wrong # "row"
    /\ pc = "index" => Wrong # "clear"
    /\ pc = "rollback" => Wrong # "none"
    /\ pc = "commit" => left = {} /\ work.pending = None

BatchInv ==
  call = "batch" =>
    /\ version \in [Messages -> Versions]
    /\ \A m \in Messages : work.messages[m] \in {messages[m], version[m]}
    /\ work.pending = pending

CallInv ==
  /\ call = "none" <=> pc \in {"idle", "down"}
  /\ pc \in {"rollback", "release", "commit"} => call = "replay"

AtomicInv == BufferInv /\ CallInv /\ ReplayInv /\ BatchInv
=============================================================================
