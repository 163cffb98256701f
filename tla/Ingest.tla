------------------------------- MODULE Ingest -------------------------------
(***************************************************************************)
(* The poll loop of pkg/ingest and the two tables it writes, together with *)
(* the queue of updates the Bot API keeps for the bot (external).          *)
(*                                                                         *)
(* An update is named by its position in stream, its update_id.  A table   *)
(* row is the update_id that last wrote it, 0 when there is no row, so the *)
(* later of two writes of one message (an edit) is the larger number.  One *)
(* call of the store is one transaction and one step: it commits, or it    *)
(* fails because the database rejects a row (ErrBadMessage), or it fails   *)
(* because the database as a whole is unusable.  Waits and backoffs are    *)
(* steps that change nothing; log lines are left out.                      *)
(***************************************************************************)
EXTENDS Naturals, Sequences, FiniteSetsExt

CONSTANTS
  Chats,        \* chat ids
  Groups,       \* the chats of type group or supergroup
  MessageIds,   \* message ids within a chat
  Updates,      \* the updates that may arrive
  MaxUpdates,   \* bound: how many updates arrive
  Limit,        \* how many updates one getUpdates call returns at most
  Retries       \* storeRetries

Tables == {"pending", "messages"}

(* body: the update carries a message with something worth keeping; it is  *)
(* FALSE for an update without a message, a migration and a service        *)
(* message.  bad: the tables whose constraints the row violates.           *)
Update == [chat : Chats, message : MessageIds, body : BOOLEAN, bad : SUBSET Tables]

ASSUME IngestAssumption ==
  /\ Groups \subseteq Chats
  /\ Updates \subseteq Update
  /\ MaxUpdates \in Nat
  /\ Limit \in Nat \ {0}
  /\ Retries \in Nat \ {0}

Keys == Chats \X MessageIds

VARIABLES
  \* the Bot API
  stream,       \* every update ever queued, stream[i] has update_id i
  gone,         \* updates 1..gone are no longer delivered
  missed,       \* the ones of them that aged out before the bot confirmed them
  \* the database
  messages,     \* Keys -> update_id that wrote the row, 0: no row
  pending,      \* the same for pending_messages
  \* the chat map in force
  known,
  \* the memory of one call of Run
  pc,           \* where Run is; "down" while there is no process
  offset, failedFrom, storeFails,
  first, last,  \* the batch being stored, 0 between batches
  at,           \* the record skipPoison looks at
  \* history
  dropped       \* update_ids skipPoison logged and gave up

telegram == <<stream, gone, missed>>
tables == <<messages, pending>>
progress == <<offset, failedFrom, storeFails>>
batch == <<first, last, at>>
vars == <<telegram, tables, known, pc, progress, batch, dropped>>

-----------------------------------------------------------------------------
(* collect, split and the upserts *)

KeyOf(i) == <<stream[i].chat, stream[i].message>>

(* Where collect and split send an update. *)
Route(u) ==
  CASE u.body /\ u.chat \in known                       -> "messages"
    [] u.body /\ u.chat \notin known /\ u.chat \in Groups -> "pending"
    [] OTHER                                            -> "none"

Records(table) == {i \in first..last : Route(stream[i]) = table}

Rejects(table, i) == table \in stream[i].bad

(* The rows after an upsert of the given updates in update_id order. *)
Upserted(rows, ids) ==
  [k \in Keys |-> LET writes == {i \in ids : KeyOf(i) = k}
                  IN  IF writes = {} THEN rows[k] ELSE Max(writes)]

-----------------------------------------------------------------------------
Init ==
  /\ stream = <<>> /\ gone = 0 /\ missed = {}
  /\ messages = [k \in Keys |-> 0]
  /\ pending = [k \in Keys |-> 0]
  /\ known \in SUBSET Groups
  /\ pc = "down"
  /\ offset = 0 /\ failedFrom = 0 /\ storeFails = 0
  /\ first = 0 /\ last = 0 /\ at = 0
  /\ dropped = {}

(* Telegram queues an update. *)
Arrive ==
  /\ Len(stream) < MaxUpdates
  /\ \E u \in Updates : stream' = Append(stream, u)
  /\ UNCHANGED <<gone, missed, tables, known, pc, progress, batch, dropped>>

(* Telegram gives up the oldest unconfirmed update, about a day old. *)
Expire ==
  /\ gone < Len(stream)
  /\ gone' = gone + 1
  /\ missed' = missed \union {gone + 1}
  /\ UNCHANGED <<stream, tables, known, pc, progress, batch, dropped>>

(* A fresh Run: everything it knows is in its local variables. *)
Start ==
  /\ pc = "down"
  /\ pc' = "webhook"
  /\ UNCHANGED <<telegram, tables, known, progress, batch, dropped>>

(* The process is gone: killed, shut down by its context, or ended by the  *)
(* error Run returned (deleteWebhook failing, a 409, a rejected token).    *)
(* A transaction in flight leaves nothing behind.                          *)
Exit ==
  /\ pc # "down"
  /\ pc' = "down"
  /\ offset' = 0 /\ failedFrom' = 0 /\ storeFails' = 0
  /\ first' = 0 /\ last' = 0 /\ at' = 0
  /\ UNCHANGED <<telegram, tables, known, dropped>>

DeleteWebhook ==
  /\ pc = "webhook"
  /\ pc' = "poll"
  /\ UNCHANGED <<telegram, tables, known, progress, batch, dropped>>

(* getUpdates reached Telegram: everything below the offset is confirmed.  *)
Confirmed == Max({gone, IF offset = 0 THEN 0 ELSE offset - 1})

(* The call confirmed, and its answer was empty or never arrived. *)
PollNothing ==
  /\ pc = "poll"
  /\ gone' = Confirmed
  /\ UNCHANGED <<stream, missed, tables, known, pc, progress, batch, dropped>>

PollBatch ==
  /\ pc = "poll"
  /\ gone' = Confirmed
  /\ Confirmed < Len(stream)
  /\ first' = Confirmed + 1
  /\ last' = Min({Confirmed + Limit, Len(stream)})
  /\ pc' = "pending"
  /\ UNCHANGED <<stream, missed, tables, known, progress, at, dropped>>

(* Mutant of Advance: the id after the next one. *)
AdvanceTooFar ==
  /\ pc' = "poll"
  /\ offset' = last + 2
  /\ first' = 0 /\ last' = 0 /\ at' = 0

(* The batch is settled: the next poll confirms it. *)
Advance ==
  /\ pc' = "poll"
  /\ offset' = last + 1
  /\ first' = 0 /\ last' = 0 /\ at' = 0

(* persist writes the buffered records first, in a transaction of their own. *)
UpsertPendingBatch ==
  /\ pc = "pending"
  /\ \A i \in Records("pending") : ~Rejects("pending", i)
  /\ pending' = Upserted(pending, Records("pending"))
  /\ pc' = "messages"
  /\ UNCHANGED <<telegram, messages, known, progress, batch, dropped>>

(* Mutant of UpsertBatch: a rejected row is left out, the batch goes on. *)
UpsertBatchLeavesOut ==
  /\ pc = "messages"
  /\ messages' = Upserted(messages, {i \in Records("messages") : ~Rejects("messages", i)})
  /\ Advance
  /\ UNCHANGED <<telegram, pending, known, failedFrom, storeFails, dropped>>

UpsertBatch ==
  /\ pc = "messages"
  /\ \A i \in Records("messages") : ~Rejects("messages", i)
  /\ messages' = Upserted(messages, Records("messages"))
  /\ Advance
  /\ UNCHANGED <<telegram, pending, known, failedFrom, storeFails, dropped>>

(* Mutant of Fails: the count is keyed on the last update of the batch. *)
FailsOfLast == Min({Retries + 1, IF failedFrom = last THEN storeFails + 1 ELSE 1})

(* storeFails once one more delivery of this batch has failed.  Only the   *)
(* comparison with Retries reads it, so it stops one above.                *)
Fails == Min({Retries + 1, IF failedFrom = first THEN storeFails + 1 ELSE 1})

PersistFailed ==
  /\ failedFrom' = first
  /\ storeFails' = Fails
  /\ UNCHANGED <<telegram, tables, known, offset, dropped>>

(* The offset stays put: the next poll redelivers the batch. *)
Retry ==
  /\ pc' = "poll"
  /\ first' = 0 /\ last' = 0 /\ at' = 0

(* Mutant of BatchRejected: the batch is never taken apart. *)
BatchRejectedForever ==
  /\ pc \in Tables
  /\ \E i \in Records(pc) : Rejects(pc, i)
  /\ PersistFailed
  /\ Retry

(* Mutant of BatchRejected: the rows in front of the rejected one stay. *)
BatchRejectedNoRollback ==
  /\ pc \in Tables
  /\ \E i \in Records(pc) : Rejects(pc, i)
  /\ LET done == {i \in Records(pc) : \A j \in Records(pc) : j <= i => ~Rejects(pc, j)}
     IN  /\ messages' = IF pc = "messages" THEN Upserted(messages, done) ELSE messages
         /\ pending' = IF pc = "pending" THEN Upserted(pending, done) ELSE pending
  /\ failedFrom' = first /\ storeFails' = Fails
  /\ UNCHANGED <<telegram, known, offset, dropped>>
  /\ IF Fails < Retries
     THEN Retry
     ELSE pc' = "skip" /\ at' = first /\ UNCHANGED <<first, last>>

(* The database rejects a row of the batch. *)
BatchRejected ==
  /\ pc \in Tables
  /\ \E i \in Records(pc) : Rejects(pc, i)
  /\ PersistFailed
  /\ IF Fails < Retries
     THEN Retry
     ELSE pc' = "skip" /\ at' = first /\ UNCHANGED <<first, last>>

(* Mutant of BatchUnstorable: any failure counts as a rejected message. *)
BatchUnstorableSkips ==
  /\ pc \in Tables
  /\ Records(pc) # {}
  /\ PersistFailed
  /\ IF Fails < Retries
     THEN Retry
     ELSE pc' = "skip" /\ at' = first /\ UNCHANGED <<first, last>>

(* The database as a whole is unusable. *)
BatchUnstorable ==
  /\ pc \in Tables
  /\ Records(pc) # {}
  /\ PersistFailed
  /\ Retry

(* skipPoison, one record at a time, each in a transaction of its own. *)
SkipRecord ==
  /\ pc = "skip" /\ at <= last
  /\ LET table == Route(stream[at])
         accepted == table # "none" /\ ~Rejects(table, at)
     IN  /\ messages' = IF accepted /\ table = "messages"
                        THEN Upserted(messages, {at}) ELSE messages
         /\ pending' = IF accepted /\ table = "pending"
                       THEN Upserted(pending, {at}) ELSE pending
         /\ dropped' = IF table # "none" /\ ~accepted
                       THEN dropped \union {at} ELSE dropped
  /\ at' = at + 1
  /\ UNCHANGED <<telegram, known, pc, progress, first, last>>

(* Mutant of SkipAborted: what skipPoison reports is ignored. *)
SkipAbortedAdvances ==
  /\ pc = "skip" /\ at <= last
  /\ Route(stream[at]) # "none"
  /\ storeFails' = 0
  /\ Advance
  /\ UNCHANGED <<telegram, tables, known, failedFrom, dropped>>

SkipAborted ==
  /\ pc = "skip" /\ at <= last
  /\ Route(stream[at]) # "none"
  /\ Retry
  /\ UNCHANGED <<telegram, tables, known, progress, dropped>>

SkipDone ==
  /\ pc = "skip" /\ at > last
  /\ storeFails' = 0
  /\ Advance
  /\ UNCHANGED <<telegram, tables, known, failedFrom, dropped>>

Run ==
  \/ Start \/ DeleteWebhook \/ PollNothing \/ PollBatch
  \/ UpsertPendingBatch \/ UpsertBatch \/ BatchRejected \/ BatchUnstorable
  \/ SkipRecord \/ SkipAborted \/ SkipDone

Next == Arrive \/ Expire \/ Exit \/ Run

Spec == Init /\ [][Next]_vars

-----------------------------------------------------------------------------
(* What the loop promises *)

(* The update a reader would find for message k: the buffered row if there *)
(* is one, it is newer than whatever the history holds.                    *)
Held(k) == IF pending[k] # 0 THEN pending[k] ELSE messages[k]

Poison(i) == Route(stream[i]) \in stream[i].bad

(* Update i needs no further delivery: it carries nothing to keep, it or a *)
(* later write of the same message is held, or it is one of the two        *)
(* documented losses.                                                      *)
Settled(i) ==
  \/ ~stream[i].body \/ stream[i].chat \notin Groups
  \/ Held(KeyOf(i)) >= i
  \/ i \in dropped \union missed

TypeOK ==
  /\ stream \in Seq(Updates)
  /\ gone \in 0..Len(stream)
  /\ missed \subseteq 1..gone
  /\ messages \in [Keys -> 0..Len(stream)]
  /\ pending \in [Keys -> 0..Len(stream)]
  /\ known \subseteq Groups
  /\ pc \in Tables \union {"down", "webhook", "poll", "skip"}
  /\ offset \in 0..(Len(stream) + 1)
  /\ failedFrom \in 0..Len(stream)
  /\ storeFails \in 0..(Retries + 1)
  /\ first \in 0..Len(stream)
  /\ last \in 0..Len(stream)
  /\ at \in 0..(Len(stream) + 1)
  /\ dropped \subseteq 1..Len(stream)

(* "The getUpdates offset advances only after a batch is committed, so a   *)
(* crash redelivers instead of losing messages": whatever crashes, failed  *)
(* calls and half-stored batches came before, an update Telegram no longer *)
(* delivers is settled (ingest.go:1-3).                                    *)
NothingLost == \A i \in 1..gone : Settled(i)

(* "A database-wide failure is retried forever, dropping the batch would   *)
(* lose it for good": only an update the database rejects is ever dropped, *)
(* and a batch is taken apart only around such an update, after Retries    *)
(* failed deliveries of a batch that begins with the same update           *)
(* (ingest.go:148-166).                                                    *)
PoisonOnly ==
  /\ \A i \in dropped : Poison(i)
  /\ pc = "skip" => /\ \E i \in first..last : Poison(i)
                    /\ failedFrom = first
                    /\ storeFails >= Retries

(* Redelivered batches are absorbed: outside the message-by-message replay *)
(* no step makes a table forget a later write of a message for an earlier  *)
(* one, although a batch may be stored any number of times and partly      *)
(* (pending committed, messages not) (ingest.go:171-189, store.go:164).    *)
RedeliveryAbsorbed ==
  [][pc # "skip" => \A k \in Keys : /\ messages'[k] >= messages[k]
                                    /\ pending'[k] >= pending[k]]_vars

(* The same for every step, as the README puts it: "a restart re-receives  *)
(* whatever was not committed and the idempotent upserts absorb the        *)
(* duplicates".                                                            *)
EditsNeverUndone ==
  [][\A k \in Keys : messages'[k] >= messages[k] /\ pending'[k] >= pending[k]]_vars

(* One failing batch keeps its count while the updates behind it pile up:  *)
(* within a run storeFails only falls when the batch was settled or        *)
(* another update has become the first of the queue (ingest.go:148-153).   *)
CountSurvivesGrowth ==
  [][storeFails' < storeFails =>
       pc' = "down" \/ offset' > failedFrom \/ first # failedFrom]_vars

(* The loop does what Delivery asks for. *)
Queue == INSTANCE Delivery
           WITH arrived <- Len(stream), settled <- {i \in 1..Len(stream) : Settled(i)}
ImplementsDelivery == Queue!Spec

-----------------------------------------------------------------------------
(* Why nothing is lost: the inductive invariant the proofs use             *)

Storing == pc \in Tables \union {"skip"}

(* The batch in hand begins behind everything that is confirmed or settled *)
(* by this run; a part of it may age out of the queue meanwhile.           *)
BatchOK ==
  Storing => /\ 1 <= first /\ first <= last /\ last <= Len(stream)
             /\ offset <= first
             /\ \A i \in first..gone : i \in missed
             /\ pc = "skip" => at \in first..(last + 1)

(* No message of a chat in the map waits in the buffer, so that what a     *)
(* reader of the history finds is what is held.                            *)
NoBacklog == \A k \in Keys : pending[k] # 0 => k[1] \notin known

SettledBehind ==
  \A i \in 1..Len(stream) : (i < offset \/ (Storing /\ i < first)) => Settled(i)

SettledInBatch ==
  /\ pc = "messages" => \A i \in Records("pending") : Settled(i)
  /\ pc = "skip" => \A i \in first..last : i < at => Settled(i)

IngestInv ==
  TypeOK /\ BatchOK /\ NoBacklog /\ NothingLost /\ SettledBehind /\ SettledInBatch

(* Why a redelivery undoes nothing: a row was written by an update of its  *)
(* own message, and no row was written by an update behind the batch that  *)
(* Telegram answers next, or behind the one in hand.                       *)
OwnWrites(rows) == \A k \in Keys : rows[k] # 0 => KeyOf(rows[k]) = k /\ stream[rows[k]].body

WithinReach(rows) ==
  \A k \in Keys : rows[k] <= gone + Limit /\ (Storing => rows[k] <= last)

BatchReach == Storing => last <= gone + Limit

AbsorbInv ==
  /\ TypeOK /\ BatchOK /\ BatchReach
  /\ OwnWrites(messages) /\ OwnWrites(pending)
  /\ WithinReach(messages) /\ WithinReach(pending)

-----------------------------------------------------------------------------
(* The process is restarted when it ends, and in the end left running; a   *)
(* call of Telegram or of the database that is made again and again works  *)
(* in the end.                                                             *)
Fairness ==
  /\ <>[][~Exit]_vars
  /\ WF_vars(Start) /\ WF_vars(DeleteWebhook)
  /\ SF_vars(PollBatch) /\ SF_vars(PollNothing)
  /\ SF_vars(UpsertPendingBatch) /\ SF_vars(UpsertBatch)
  /\ SF_vars(BatchRejected)
  /\ \A i \in 1..MaxUpdates : SF_vars(SkipRecord /\ at = i)
  /\ SF_vars(SkipDone)

FairSpec == Spec /\ Fairness

(* "A single bad update cannot stall every chat": every update is          *)
(* delivered and settled in the end, poison in front of it or not, so that *)
(* Telegram's queue is drained (ingest.go:212-215).                        *)
Drains == \A i \in 1..MaxUpdates : Len(stream) >= i ~> gone >= i
=============================================================================
