--------------------------- MODULE GatewayProofs ---------------------------
(***************************************************************************)
(* Proofs about Gateway: its type invariant, that nothing is lost however  *)
(* often chats are mapped and unmapped and the process restarted, and that *)
(* a sweep spares the chats of the map.                                    *)
(*                                                                         *)
(* While the process polls, a step of Gateway is a step of Ingest whose    *)
(* dropped updates include the ones a sweep or a replay lost: Loop is the  *)
(* loop seen so, and its invariant is not proved again.                    *)
(***************************************************************************)
EXTENDS Gateway, IngestProofs

LostSet == {i \in 1..Len(stream) : Lost(i)}

Loop == INSTANCE IngestProofs WITH dropped <- dropped \union LostSet

-----------------------------------------------------------------------------
(* Gateway's words and Loop's *)

LEMMA LoopSettled ==
  ASSUME NEW i \in 1..Len(stream)
  PROVE  Loop!Settled(i) <=> Safe(i)
BY DEF Loop!Settled, Loop!Held, Loop!KeyOf, Safe, Wanted, GivenUp, LostSet, Held, KeyOf

LEMMA LoopSettledNext ==
  ASSUME NEW i \in 1..Len(stream')
  PROVE  Loop!Settled(i)' <=> Safe(i)'
BY DEF Loop!Settled, Loop!Held, Loop!KeyOf, Safe, Wanted, GivenUp, LostSet, Held, KeyOf

LEMMA LoopWords ==
  /\ Loop!Tables = Tables /\ Loop!Keys = Keys
  /\ (Loop!Storing <=> Storing) /\ (Loop!BatchOK <=> BatchOK)
  /\ \A table : Loop!Records(table) = Records(table)
BY DEF Loop!Tables, Loop!Keys, Loop!Storing, Loop!BatchOK, Loop!Records, Loop!Route,
       Tables, Keys, Storing, BatchOK, Records, Route

LEMMA LoopWordsNext ==
  /\ (Loop!Storing' <=> Storing')
  /\ \A table : Loop!Records(table)' = Records(table)'
BY DEF Loop!Tables, Loop!Storing, Loop!Records, Loop!Route, Tables, Storing, Records, Route

(* What a start owes the loop makes the loop's invariant. *)
LEMMA ServeInv == GatewayInv /\ stage = "serve" => Loop!IngestInv
<1> SUFFICES ASSUME GatewayInv, stage = "serve" PROVE Loop!IngestInv
  OBVIOUS
<1>1. GTypeOK /\ BatchOK /\ ReplayOwed /\ NothingLostAcrossMaps /\ RoundSafe /\ TypeOK
  BY DEF GatewayInv, GTypeOK
<1>n. Len(stream) \in Nat /\ gone \in 0..Len(stream) /\ 1..gone \subseteq 1..Len(stream)
  BY <1>1 DEF TypeOK
<1>2. Loop!TypeOK
  BY <1>1 DEF TypeOK, LostSet, Loop!TypeOK, Loop!Keys, Keys, Loop!Tables, Tables
<1>3. Loop!BatchOK
  BY <1>1, LoopWords
<1>4. Loop!NoBacklog
  BY <1>1 DEF ReplayOwed, Rows, Loop!NoBacklog, Loop!Keys, Keys
<1>5. Loop!NothingLost
  BY <1>1, <1>n, LoopSettled DEF NothingLostAcrossMaps, Loop!NothingLost
<1>6. Loop!SettledBehind
  BY <1>1, LoopSettled, LoopWords DEF RoundSafe, Loop!SettledBehind
<1>7. Loop!SettledInBatch
  <2>1. Storing => first..last \subseteq 1..Len(stream)
    BY <1>1, <1>n DEF BatchOK, TypeOK
  <2>2. pc = "messages" => \A i \in Records("pending") : Loop!Settled(i)
    BY <1>1, <2>1, LoopSettled DEF RoundSafe, Records, Storing, Tables
  <2>3. pc = "skip" => \A i \in first..last : i < at => Loop!Settled(i)
    BY <1>1, <2>1, LoopSettled DEF RoundSafe, Storing
  <2>4. QED
    BY <2>2, <2>3, LoopWords DEF Loop!SettledInBatch
<1>8. QED
  BY <1>2, <1>3, <1>4, <1>5, <1>6, <1>7 DEF Loop!IngestInv

(* The losses known stay, and a new update is none. *)
LEMMA LostSame ==
  ASSUME GTypeOK, GTypeOK', UNCHANGED <<expired, refused>>,
         \A i \in 1..Len(stream) : stream'[i] = stream[i],
         Len(stream) <= Len(stream')
  PROVE  LostSet' = LostSet
<1>0. /\ Len(stream) \in Nat /\ Len(stream') \in Nat
      /\ expired \union refused \subseteq 1..Len(stream)
  <2>1. stream \in Seq(Updates) /\ stream' \in Seq(Updates)
    BY DEF GTypeOK, TypeOK
  <2>2. QED
    BY <2>1 DEF GTypeOK
<1>1. \A i \in 1..Len(stream) : KeyOf(i)' = KeyOf(i)
  BY DEF KeyOf
<1>2. \A i \in 1..Len(stream) : Lost(i)' <=> Lost(i)
  BY <1>0, <1>1 DEF Lost
<1>3. \A i \in 1..Len(stream') : Lost(i)' => i \in 1..Len(stream)
  BY <1>0 DEF Lost
<1>4. QED
  BY <1>0, <1>2, <1>3 DEF LostSet

LEMMA LoopStep ==
  ASSUME Arrive \/ Expire \/ Run, LostSet' = LostSet
  PROVE  Loop!Next
<1> USE LoopWords DEF tables, progress, batch, telegram, Loop!tables, Loop!progress, Loop!batch,
                      Loop!telegram
<1>u. \A rows, ids : Loop!Upserted(rows, ids) = Upserted(rows, ids)
  BY DEF Loop!Upserted, Upserted, Loop!KeyOf, KeyOf, Loop!Max, Max
<1>r. /\ \A u : Loop!Route(u) = Route(u)
      /\ \A table, i : Loop!Rejects(table, i) <=> Rejects(table, i)
  BY DEF Loop!Route, Route, Loop!Rejects, Rejects
<1>c. Loop!Confirmed = Confirmed /\ Loop!Fails = Fails
  BY DEF Loop!Confirmed, Confirmed, Loop!Fails, Fails, Loop!Max, Max, Loop!Min, Min
<1>1. CASE Arrive
  BY <1>1 DEF Arrive, Loop!Arrive, Loop!Next
<1>2. CASE Expire
  BY <1>2 DEF Expire, Loop!Expire, Loop!Next
<1>3. CASE Start
  BY <1>3 DEF Start, Loop!Start, Loop!Run, Loop!Next
<1>4. CASE DeleteWebhook
  BY <1>4 DEF DeleteWebhook, Loop!DeleteWebhook, Loop!Run, Loop!Next
<1>5. CASE PollNothing
  BY <1>5, <1>c DEF PollNothing, Loop!PollNothing, Loop!Run, Loop!Next
<1>6. CASE PollBatch
  BY <1>6, <1>c DEF PollBatch, Loop!PollBatch, Loop!Run, Loop!Next, Loop!Min, Min
<1>7. CASE UpsertPendingBatch
  BY <1>7, <1>u, <1>r DEF UpsertPendingBatch, Loop!UpsertPendingBatch, Loop!Run, Loop!Next
<1>8. CASE UpsertBatch
  BY <1>8, <1>u, <1>r DEF UpsertBatch, Advance, Loop!UpsertBatch, Loop!Advance, Loop!Run,
                          Loop!Next
<1>9. CASE BatchRejected
  BY <1>9, <1>c, <1>r DEF BatchRejected, PersistFailed, Retry, Loop!BatchRejected,
                          Loop!PersistFailed, Loop!Retry, Loop!Run, Loop!Next
<1>10. CASE BatchUnstorable
  BY <1>10, <1>c DEF BatchUnstorable, PersistFailed, Retry, Loop!BatchUnstorable,
                     Loop!PersistFailed, Loop!Retry, Loop!Run, Loop!Next
<1>11. CASE SkipRecord
  <2>1. Loop!SkipRecord
    BY <1>11, <1>u, <1>r DEF SkipRecord, Loop!SkipRecord
  <2>2. QED
    BY <2>1 DEF Loop!Run, Loop!Next
<1>12. CASE SkipAborted
  BY <1>12, <1>r DEF SkipAborted, Retry, Loop!SkipAborted, Loop!Retry, Loop!Run, Loop!Next
<1>13. CASE SkipDone
  BY <1>13 DEF SkipDone, Advance, Loop!SkipDone, Loop!Advance, Loop!Run, Loop!Next
<1>14. QED
  BY <1>1, <1>2, <1>3, <1>4, <1>5, <1>6, <1>7, <1>8, <1>9, <1>10, <1>11, <1>12, <1>13 DEF Run

-----------------------------------------------------------------------------
(* What the loop writes to the buffer: every row it writes is of its own   *)
(* message, and a row of the buffer stays a row.                           *)

LEMMA UpsertedOwn ==
  ASSUME TypeOK, BatchOK, Storing, OwnRows, NEW ids \in SUBSET (first..last),
         UNCHANGED stream, pending' = Upserted(pending, ids)
  PROVE  OwnRows' /\ Rows \subseteq Rows'
<1>0. Len(stream) \in Nat /\ \A i \in ids : i \in 0..Len(stream) /\ i # 0
  BY DEF TypeOK, BatchOK
<1>1. \A k \in Keys : pending'[k] = pending[k] \/ (KeyOf(pending'[k]) = k /\ pending'[k] \in ids)
  BY <1>0, UpsertedRow
<1>2. \A i : KeyOf(i)' = KeyOf(i)
  BY DEF KeyOf
<1>3. OwnRows'
  BY <1>1, <1>2 DEF OwnRows, Rows
<1>4. QED
  BY <1>0, <1>1, <1>3 DEF Rows

LEMMA RowsQuiet ==
  ASSUME OwnRows, TypeOK, UNCHANGED pending, \A i \in 1..Len(stream) : stream'[i] = stream[i]
  PROVE  OwnRows' /\ Rows' = Rows
<1>1. Rows' = Rows
  BY DEF Rows
<1>2. \A k \in Rows : pending[k] \in 1..Len(stream)
  BY DEF TypeOK, Rows
<1>3. QED
  BY <1>1, <1>2 DEF OwnRows, KeyOf

LEMMA RowsAfterRun ==
  ASSUME TypeOK, BatchOK, OwnRows, Run
  PROVE  OwnRows' /\ Rows \subseteq Rows' /\ UNCHANGED <<stream, known>>
<1>s. UNCHANGED <<stream, known>>
  BY DEF Run, Start, DeleteWebhook, PollNothing, PollBatch, UpsertPendingBatch, UpsertBatch,
         BatchRejected, BatchUnstorable, PersistFailed, SkipRecord, SkipAborted, SkipDone, telegram
<1>1. CASE UpsertPendingBatch
  <2>1. Storing /\ pending' = Upserted(pending, Records("pending"))
    BY <1>1 DEF UpsertPendingBatch, Storing, Tables
  <2>2. Records("pending") \in SUBSET (first..last)
    BY DEF Records
  <2>3. QED
    BY <1>s, <2>1, <2>2, UpsertedOwn
<1>2. CASE UNCHANGED pending
  BY <1>2, <1>s, RowsQuiet
<1>3. CASE SkipRecord
  <2>1. Storing /\ at \in first..last
    BY <1>3 DEF SkipRecord, Storing, BatchOK, TypeOK
  <2>2. {at} \in SUBSET (first..last) /\ pending' \in {pending, Upserted(pending, {at})}
    BY <1>3, <2>1 DEF SkipRecord
  <2>3. QED
    BY <1>2, <1>s, <2>1, <2>2, UpsertedOwn
<1>4. QED
  BY <1>1, <1>2, <1>3 DEF Run, Start, DeleteWebhook, PollNothing, PollBatch, UpsertBatch,
     BatchRejected, BatchUnstorable, PersistFailed, SkipAborted, SkipDone, tables

-----------------------------------------------------------------------------
(* The steps *)

(* The queue and the loop, while the process polls: Loop's steps. *)
LEMMA PollStep ==
  ASSUME GatewayInv, stage = "serve", Arrive \/ Expire \/ Run, UNCHANGED <<startup, buffer>>
  PROVE  GatewayInv'
<1>0. GTypeOK /\ BatchOK /\ OwnRows /\ TypeOK /\ ReplayOwed
  BY DEF GatewayInv, GTypeOK
<1>1. TypeOK' /\ BatchOK'
  BY <1>0, TypeStep DEF Next
<1>2. /\ UNCHANGED known /\ OwnRows' /\ Rows \subseteq Rows'
      /\ \A i \in 1..Len(stream) : stream'[i] = stream[i]
      /\ Len(stream) <= Len(stream') /\ Len(stream) \in Nat /\ Len(stream') \in Nat
  <2>0. stream \in Seq(Updates)
    BY <1>0 DEF TypeOK
  <2>1. CASE Arrive
    <3>1. UNCHANGED <<known, pending>>
      BY <2>1 DEF Arrive, tables
    <3>2. /\ Len(stream') = Len(stream) + 1 /\ Len(stream) \in Nat
          /\ \A i \in 1..Len(stream) : stream'[i] = stream[i]
      BY <2>0, <2>1 DEF Arrive
    <3>3. QED
      BY <1>0, <3>1, <3>2, RowsQuiet
  <2>2. CASE Expire
    BY <1>0, <2>0, <2>2, RowsQuiet DEF Expire, tables
  <2>3. CASE Run
    BY <1>0, <2>0, <2>3, RowsAfterRun
  <2>4. QED
    BY <2>1, <2>2, <2>3
<1>3. UNCHANGED <<stage, todo, aged, expired, refused>>
  BY DEF startup, buffer
<1>4. GTypeOK'
  BY <1>0, <1>1, <1>2, <1>3 DEF GTypeOK
<1>5. LostSet' = LostSet
  BY <1>0, <1>2, <1>3, <1>4, LostSame
<1>6. Loop!IngestInv'
  BY <1>5, ServeInv, LoopStep, IngestAssumption, Loop!InvStep
     DEF IngestAssumption, Loop!Update, Update, Tables, Loop!Tables
<1>7. ReplayOwed'
  <2>1. pc' = "down" => offset' = 0
    <3>1. CASE Arrive \/ Expire
      BY <1>0, <3>1 DEF ReplayOwed, Arrive, Expire, progress
    <3>2. CASE Run
      BY <1>0, <3>2 DEF Run, Start, DeleteWebhook, PollNothing, PollBatch, UpsertPendingBatch,
         UpsertBatch, Advance, BatchRejected, BatchUnstorable, Retry, SkipRecord, SkipAborted,
         SkipDone, Tables
    <3>3. QED
      BY <3>1, <3>2
  <2>2. QED
    BY <1>0, <1>3, <1>6, <2>1
       DEF ReplayOwed, Rows, Loop!IngestInv, Loop!NoBacklog, Loop!Keys, Keys
<1>8. NothingLostAcrossMaps'
  <2>1. 1..gone' \subseteq 1..Len(stream')
    BY <1>1, <1>2 DEF TypeOK
  <2>2. QED
    BY <1>6, <2>1, LoopSettledNext DEF Loop!IngestInv, Loop!NothingLost, NothingLostAcrossMaps
<1>9. RoundSafe'
  <2>0. Storing' => first'..last' \subseteq 1..Len(stream')
    BY <1>1, <1>2 DEF BatchOK, TypeOK
  <2>1. \A i \in 1..Len(stream') : i < offset' \/ (Storing' /\ i < first') => Safe(i)'
    BY <1>6, LoopSettledNext, LoopWordsNext DEF Loop!IngestInv, Loop!SettledBehind
  <2>2. pc' = "messages" => \A i \in Records("pending")' : Safe(i)'
    BY <1>6, <2>0, LoopSettledNext, LoopWordsNext DEF Loop!IngestInv, Loop!SettledInBatch,
       Records, Storing, Tables
  <2>3. pc' = "skip" => \A i \in first'..last' : i < at' => Safe(i)'
    BY <1>6, <2>0, LoopSettledNext DEF Loop!IngestInv, Loop!SettledInBatch, Storing
  <2>4. QED
    BY <2>1, <2>2, <2>3 DEF RoundSafe
<1>10. QED
  BY <1>1, <1>2, <1>4, <1>7, <1>8, <1>9 DEF GatewayInv

(* What keeps every update safe that was: the losses stay, and a message   *)
(* is held as before, or what was held of it is now among the losses.      *)
LEMMA SafeKept ==
  ASSUME GTypeOK, \A i \in 1..Len(stream) : stream'[i] = stream[i],
         UNCHANGED dropped, missed \subseteq missed',
         expired \subseteq expired', refused \subseteq refused',
         \A k \in Keys : Held(k)' = Held(k) \/ (Held(k) \in expired' \union refused'
                                               /\ Held(k) \in 1..Len(stream)
                                               /\ KeyOf(Held(k)) = k)
  PROVE  \A i \in 1..Len(stream) : Safe(i) => Safe(i)'
<1> SUFFICES ASSUME NEW i \in 1..Len(stream), Safe(i), Wanted(i)' PROVE Safe(i)'
  BY DEF Safe
<1>0. TypeOK /\ expired \union refused \subseteq 1..Len(stream)
  BY DEF GTypeOK
<1>1. \A j \in 1..Len(stream) : KeyOf(j)' = KeyOf(j)
  BY DEF KeyOf
<1>2. KeyOf(i) \in Keys /\ Wanted(i)
  BY <1>0, KeyOfUpdate DEF Wanted
<1>3. CASE i \in dropped \union missed
  BY <1>3 DEF Safe, GivenUp
<1>4. CASE Lost(i)
  <2>1. PICK j \in expired \union refused : j >= i /\ KeyOf(j) = KeyOf(i)
    BY <1>4 DEF Lost
  <2>2. j \in expired' \union refused' /\ KeyOf(j)' = KeyOf(i)'
    BY <1>0, <1>1, <2>1
  <2>3. Lost(i)'
    BY <2>1, <2>2 DEF Lost
  <2>4. QED
    BY <2>3 DEF Safe, GivenUp
<1>5. CASE Held(KeyOf(i)) >= i
  <2>1. PICK k \in Keys : k = KeyOf(i) /\ k = KeyOf(i)'
    BY <1>1, <1>2
  <2>2. CASE Held(k)' = Held(k)
    <3>1. Held(k)' >= i
      BY <1>5, <2>1, <2>2
    <3>2. QED
      BY <2>1, <3>1 DEF Safe
  <2>3. CASE Held(k) \in expired' \union refused' /\ Held(k) \in 1..Len(stream)
             /\ KeyOf(Held(k)) = k
    <3>1. PICK j \in 1..Len(stream) : j = Held(k)
      BY <2>3
    <3>2. j \in expired' \union refused' /\ j >= i /\ KeyOf(j)' = KeyOf(i)'
      BY <1>1, <1>5, <2>1, <2>3, <3>1
    <3>3. Lost(i)'
      BY <3>2 DEF Lost
    <3>4. QED
      BY <3>3 DEF Safe, GivenUp
  <2>4. QED
    BY <2>2, <2>3
<1>6. QED
  BY <1>2, <1>3, <1>4, <1>5 DEF Safe, GivenUp

(* A step that leaves the queue, the loop and the tables alone. *)
LEMMA QuietLoop ==
  ASSUME GTypeOK, UNCHANGED <<stream, missed, messages, pending, dropped, expired, refused>>
  PROVE  \A i : Safe(i)' <=> Safe(i)
BY DEF Safe, Wanted, GivenUp, Lost, Held, KeyOf

(* The queue moves while there is no loop: an update that ages out is      *)
(* given up, one that arrives is not confirmed.                            *)
LEMMA OutsideStep ==
  ASSUME GatewayInv, stage # "serve", Outside
  PROVE  GatewayInv'
<1>0. GTypeOK /\ BatchOK /\ OwnRows /\ TypeOK /\ ReplayOwed /\ NothingLostAcrossMaps
  BY DEF GatewayInv, GTypeOK
<1>s. stream \in Seq(Updates) /\ Len(stream) \in Nat /\ gone \in 0..Len(stream)
  BY <1>0 DEF TypeOK
<1>1. TypeOK' /\ BatchOK'
  BY <1>0, TypeStep DEF Next, Outside
<1>2. /\ UNCHANGED <<known, tables, pc, offset, dropped, stage, todo, aged, expired, refused>>
      /\ Len(stream) <= Len(stream') /\ Len(stream') \in Nat
      /\ \A i \in 1..Len(stream) : stream'[i] = stream[i]
      /\ missed \subseteq missed' /\ gone' \in {gone, gone + 1} /\ gone' <= Len(stream)
      /\ gone' = gone + 1 => gone + 1 \in missed'
  <2>1. CASE Arrive
    BY <1>s, <2>1 DEF Arrive, Outside, startup, buffer, progress
  <2>2. CASE Expire
    BY <1>s, <2>2 DEF Expire, Outside, startup, buffer, progress
  <2>3. QED
    BY <2>1, <2>2 DEF Outside
<1>3. OwnRows' /\ Rows' = Rows
  BY <1>0, <1>2, RowsQuiet DEF tables
<1>4. GTypeOK'
  BY <1>0, <1>1, <1>2, <1>3 DEF GTypeOK
<1>5. \A i \in 1..Len(stream) : Safe(i) => Safe(i)'
  <2>1. \A k \in Keys : Held(k)' = Held(k)
    BY <1>2 DEF Held, tables
  <2>2. QED
    BY <1>0, <1>2, <2>1, SafeKept
<1>6. NothingLostAcrossMaps'
  <2>1. \A i \in 1..gone : Safe(i)'
    BY <1>0, <1>5, <1>s DEF NothingLostAcrossMaps
  <2>2. \A i : gone' = gone + 1 /\ i = gone + 1 => Safe(i)'
    BY <1>2 DEF Safe, GivenUp
  <2>3. ASSUME NEW i \in 1..gone' PROVE Safe(i)'
    <3>1. i \in 1..gone \/ (gone' = gone + 1 /\ i = gone + 1)
      BY <1>2, <1>s
    <3>2. QED
      BY <2>1, <2>2, <3>1
  <2>4. QED
    BY <2>3 DEF NothingLostAcrossMaps
<1>7. QED
  BY <1>0, <1>1, <1>2, <1>3, <1>4, <1>6 DEF GatewayInv, ReplayOwed, RoundSafe

(* Age, Boot and ReplayDone leave tables and queue alone. *)
LEMMA StartStep ==
  ASSUME GatewayInv, Age \/ Boot \/ ReplayDone
  PROVE  GatewayInv'
<1>0. GTypeOK /\ BatchOK /\ OwnRows /\ TypeOK /\ ReplayOwed /\ NothingLostAcrossMaps /\ RoundSafe
  BY DEF GatewayInv, GTypeOK
<1>1. UNCHANGED <<telegram, tables, pc, progress, batch, dropped, expired, refused>>
  BY DEF Age, Boot, ReplayDone, vars, buffer
<1>2. OwnRows' /\ Rows' = Rows
  BY <1>1 , <1>0, RowsQuiet DEF tables, telegram
<1>3. \A i : Safe(i)' <=> Safe(i)
  BY <1>0, <1>1, QuietLoop DEF tables, telegram
<1>4. NothingLostAcrossMaps'
  BY <1>0, <1>1, <1>3 DEF NothingLostAcrossMaps, telegram
<1>5. BatchOK'
  BY <1>0, <1>1 DEF BatchOK, Storing, telegram, progress, batch
<1>6. CASE Age
  <2>1. UNCHANGED <<known, stage, todo>> /\ aged' \subseteq Rows
    BY <1>0, <1>6 DEF Age, vars, startup, GTypeOK
  <2>2. GTypeOK' /\ ReplayOwed'
    BY <1>0, <1>1, <1>2, <2>1 DEF GTypeOK, TypeOK, ReplayOwed, telegram, tables, progress, batch
  <2>3. RoundSafe'
    BY <1>0, <1>1, <1>3, <2>1 DEF RoundSafe, Storing, Records, Route, telegram, progress, batch
  <2>4. QED
    BY <1>2, <1>4, <1>5, <2>2, <2>3 DEF GatewayInv
<1>7. CASE Boot
  <2>1. /\ stage = "down" /\ stage' = "replay" /\ pc = "down" /\ offset = 0
        /\ known' \subseteq Groups /\ todo' = known' /\ UNCHANGED aged
    BY <1>0, <1>7 DEF Boot, buffer, GTypeOK, ReplayOwed
  <2>2. GTypeOK' /\ ReplayOwed' /\ RoundSafe'
    BY <1>0, <1>1, <1>2, <2>1 DEF GTypeOK, TypeOK, ReplayOwed, RoundSafe, telegram, tables,
                                  progress, batch
  <2>3. QED
    BY <1>2, <1>4, <1>5, <2>2 DEF GatewayInv
<1>8. CASE ReplayDone
  <2>1. /\ stage = "replay" /\ stage' = "sweep" /\ pc = "down" /\ todo = {}
        /\ UNCHANGED <<known, todo, aged>>
    BY <1>0, <1>8 DEF ReplayDone, vars, buffer, GTypeOK
  <2>2. GTypeOK' /\ ReplayOwed' /\ RoundSafe'
    BY <1>0, <1>1, <1>2, <2>1 DEF GTypeOK, TypeOK, ReplayOwed, RoundSafe, telegram, tables,
                                  progress, batch
  <2>3. QED
    BY <1>2, <1>4, <1>5, <2>2 DEF GatewayInv
<1>9. QED
  BY <1>6, <1>7, <1>8

(* Rows leave the buffer for the history or for the losses. *)
LEMMA RowsLeave ==
  ASSUME GatewayInv, UNCHANGED <<telegram, known, dropped>>,
         expired \subseteq expired', refused \subseteq refused',
         NEW out \in SUBSET Rows, NEW taken \in SUBSET out,
         messages' = [k \in Keys |-> IF k \in taken THEN pending[k] ELSE messages[k]],
         pending' = [k \in Keys |-> IF k \in out THEN 0 ELSE pending[k]],
         expired' \union refused' = expired \union refused \union {pending[k] : k \in out \ taken}
  PROVE  /\ messages' \in [Keys -> 0..Len(stream)] /\ pending' \in [Keys -> 0..Len(stream)]
         /\ expired' \subseteq 1..Len(stream) /\ refused' \subseteq 1..Len(stream)
         /\ Rows' = Rows \ out /\ OwnRows'
         /\ \A i \in 1..Len(stream) : Safe(i) => Safe(i)'
         /\ NothingLostAcrossMaps'
<1>0. GTypeOK /\ OwnRows /\ TypeOK /\ NothingLostAcrossMaps
  BY DEF GatewayInv, GTypeOK
<1>n. /\ Len(stream) \in Nat /\ gone \in 0..Len(stream) /\ UNCHANGED <<stream, gone, missed>>
      /\ \A k \in Rows : k \in Keys /\ pending[k] \in 1..Len(stream) /\ KeyOf(pending[k]) = k
  BY <1>0 DEF TypeOK, Rows, OwnRows, telegram
<1>1. messages' \in [Keys -> 0..Len(stream)] /\ pending' \in [Keys -> 0..Len(stream)]
  BY <1>0, <1>n DEF TypeOK
<1>2. expired' \union refused' \subseteq 1..Len(stream)
  BY <1>0, <1>n DEF GTypeOK
<1>3. Rows' = Rows \ out
  BY <1>n DEF Rows
<1>4. OwnRows'
  <2>1. \A k \in Rows' : pending'[k] = pending[k] /\ k \in Rows
    BY <1>3, <1>n
  <2>2. QED
    BY <1>n, <2>1 DEF OwnRows, KeyOf
<1>5. \A k \in Keys : Held(k)' = Held(k) \/ (Held(k) \in expired' \union refused'
                                            /\ Held(k) \in 1..Len(stream)
                                            /\ KeyOf(Held(k)) = k)
  <2> TAKE k \in Keys
  <2>1. CASE k \in taken
    BY <1>n, <2>1 DEF Held
  <2>2. CASE k \in out \ taken
    <3>1. Held(k) = pending[k]
      BY <1>n, <2>2 DEF Held
    <3>2. QED
      BY <1>n, <2>2, <3>1
  <2>3. CASE k \notin out
    BY <2>3 DEF Held
  <2>4. QED
    BY <2>1, <2>2, <2>3
<1>6. \A i \in 1..Len(stream) : Safe(i) => Safe(i)'
  BY <1>0, <1>n, <1>5, SafeKept
<1>7. NothingLostAcrossMaps'
  BY <1>0, <1>n, <1>6 DEF NothingLostAcrossMaps
<1>8. QED
  BY <1>1, <1>2, <1>3, <1>4, <1>6, <1>7

(* A replayed chat: its rows are in the history, or the history refused    *)
(* them.                                                                   *)
LEMMA ReplayStep ==
  ASSUME GatewayInv, ReplayChat
  PROVE  GatewayInv'
<1>0. GTypeOK /\ BatchOK /\ TypeOK /\ ReplayOwed
  BY DEF GatewayInv, GTypeOK
<1>1. PICK c \in todo :
        LET rows == {k \in Rows : k[1] = c}
            taken == {k \in rows : "messages" \notin stream[pending[k]].bad}
        IN  /\ todo' = todo \ {c}
            /\ messages' = [k \in Keys |-> IF k \in taken THEN pending[k] ELSE messages[k]]
            /\ pending' = [k \in Keys |-> IF k \in rows THEN 0 ELSE pending[k]]
            /\ refused' = refused \union {pending[k] : k \in rows \ taken}
            /\ aged' = aged \ rows
  BY DEF ReplayChat
<1> DEFINE rows == {k \in Rows : k[1] = c}
           taken == {k \in rows : "messages" \notin stream[pending[k]].bad}
<1>2. /\ stage = "replay" /\ pc = "down"
      /\ UNCHANGED <<telegram, known, pc, progress, batch, dropped, stage, expired>>
  BY <1>0 DEF ReplayChat, GTypeOK
<1>3. /\ rows \in SUBSET Rows /\ taken \in SUBSET rows
      /\ expired' \union refused' = expired \union refused \union {pending[k] : k \in rows \ taken}
  BY <1>1, <1>2
<1>4. /\ messages' = [k \in Keys |-> IF k \in taken THEN pending[k] ELSE messages[k]]
      /\ pending' = [k \in Keys |-> IF k \in rows THEN 0 ELSE pending[k]]
      /\ todo' = todo \ {c} /\ aged' = aged \ rows /\ refused \subseteq refused'
      /\ \A k \in Rows : k[1] = c => k \in rows
  BY <1>1
<1> HIDE DEF rows, taken
<1>5. /\ messages' \in [Keys -> 0..Len(stream)] /\ pending' \in [Keys -> 0..Len(stream)]
      /\ expired' \subseteq 1..Len(stream) /\ refused' \subseteq 1..Len(stream)
      /\ Rows' = Rows \ rows /\ OwnRows' /\ NothingLostAcrossMaps'
  BY <1>2, <1>3, <1>4, RowsLeave
<1>6. GTypeOK'
  BY <1>0, <1>2, <1>4, <1>5 DEF GTypeOK, TypeOK, telegram, progress, batch
<1>7. BatchOK' /\ RoundSafe'
  BY <1>2 DEF BatchOK, Storing, Tables, RoundSafe
<1>8. ReplayOwed'
  BY <1>0, <1>2, <1>4, <1>5 DEF ReplayOwed, progress
<1>9. QED
  BY <1>5, <1>6, <1>7, <1>8 DEF GatewayInv

(* A sweep, at the start or beside the loop, between any two of its steps. *)
LEMMA SweepStep ==
  ASSUME GatewayInv, SweepAtStart \/ SweepTick
  PROVE  GatewayInv'
<1>0. GTypeOK /\ BatchOK /\ TypeOK /\ ReplayOwed /\ RoundSafe
  BY DEF GatewayInv, GTypeOK
<1>1. /\ pending' = [k \in Keys |-> IF k \in aged THEN 0 ELSE pending[k]]
      /\ expired' = expired \union {pending[k] : k \in aged}
      /\ aged' = {}
      /\ UNCHANGED <<telegram, messages, known, pc, progress, batch, dropped, todo, refused>>
      /\ stage \in {"sweep", "serve"} /\ stage' = "serve"
  BY DEF SweepAtStart, SweepTick, Sweep
<1>2. /\ aged \in SUBSET Rows /\ {} \in SUBSET aged
      /\ messages' = [k \in Keys |-> IF k \in {} THEN pending[k] ELSE messages[k]]
      /\ expired' \union refused' = expired \union refused \union {pending[k] : k \in aged \ {}}
  BY <1>0, <1>1 DEF GTypeOK, TypeOK
<1>3. /\ messages' \in [Keys -> 0..Len(stream)] /\ pending' \in [Keys -> 0..Len(stream)]
      /\ expired' \subseteq 1..Len(stream) /\ refused' \subseteq 1..Len(stream)
      /\ Rows' = Rows \ aged /\ OwnRows' /\ NothingLostAcrossMaps'
      /\ \A i \in 1..Len(stream) : Safe(i) => Safe(i)'
  BY <1>1, <1>2, RowsLeave
<1>4. GTypeOK'
  BY <1>0, <1>1, <1>3 DEF GTypeOK, TypeOK, telegram, progress, batch
<1>5. BatchOK'
  BY <1>0, <1>1 DEF BatchOK, Storing, telegram, progress, batch
<1>6. ReplayOwed'
  BY <1>0, <1>1, <1>3 DEF ReplayOwed, progress
<1>7. RoundSafe'
  <2>1. CASE stage = "sweep"
    <3>1. pc' = "down" /\ offset' = 0
      BY <1>0, <1>1, <2>1 DEF GTypeOK, ReplayOwed, progress
    <3>2. QED
      BY <3>1, <1>4 DEF RoundSafe, Storing, Tables, GTypeOK, TypeOK
  <2>2. CASE stage = "serve"
    <3>1. /\ UNCHANGED <<stream, known, pc, offset, first, last, at>>
          /\ Records("pending")' = Records("pending")
      BY <1>1 DEF telegram, progress, batch, Records, Route
    <3>2. Storing => first..last \subseteq 1..Len(stream)
      BY <1>0 DEF BatchOK, TypeOK
    <3>3. \A i \in 1..Len(stream) : i < offset \/ (Storing /\ i < first) => Safe(i)'
      BY <1>0, <1>3, <2>2 DEF RoundSafe
    <3>4. pc = "messages" => \A i \in Records("pending") : Safe(i)'
      BY <1>0, <1>3, <2>2, <3>2 DEF RoundSafe, Records, Storing, Tables
    <3>5. pc = "skip" => \A i \in first..last : i < at => Safe(i)'
      BY <1>0, <1>3, <2>2, <3>2 DEF RoundSafe, Storing
    <3>6. QED
      BY <3>1, <3>3, <3>4, <3>5 DEF RoundSafe, Storing
  <2>3. QED
    BY <1>1, <2>1, <2>2
<1>8. QED
  BY <1>3, <1>4, <1>5, <1>6, <1>7 DEF GatewayInv

(* The process ends, anywhere. *)
LEMMA ShutdownStep ==
  ASSUME GatewayInv, Shutdown
  PROVE  GatewayInv'
<1>0. GTypeOK /\ BatchOK /\ OwnRows /\ TypeOK /\ ReplayOwed /\ NothingLostAcrossMaps
  BY DEF GatewayInv, GTypeOK
<1>1. /\ stage' = "down" /\ todo' = {} /\ pc' = "down" /\ offset' = 0
      /\ UNCHANGED <<telegram, tables, known, dropped, aged, expired, refused>>
  <2>1. CASE Exit
    BY <2>1 DEF Shutdown, Exit, buffer
  <2>2. CASE pc = "down" /\ UNCHANGED vars
    BY <1>0, <2>2 DEF Shutdown, ReplayOwed, vars, progress, buffer
  <2>3. QED
    BY <2>1, <2>2 DEF Shutdown
<1>2. TypeOK' /\ BatchOK'
  <2>1. [Next]_vars
    BY DEF Shutdown, Next
  <2>2. QED
    BY <1>0, <2>1, TypeStep
<1>3. OwnRows' /\ Rows' = Rows
  BY <1>0, <1>1, RowsQuiet DEF tables, telegram
<1>4. GTypeOK'
  BY <1>0, <1>1, <1>2, <1>3 DEF GTypeOK, telegram
<1>5. \A i : Safe(i)' <=> Safe(i)
  BY <1>0, <1>1, QuietLoop DEF tables, telegram
<1>6. NothingLostAcrossMaps'
  BY <1>0, <1>1, <1>5 DEF NothingLostAcrossMaps, telegram
<1>7. ReplayOwed' /\ RoundSafe'
  BY <1>1 DEF ReplayOwed, RoundSafe
<1>8. QED
  BY <1>2, <1>3, <1>4, <1>6, <1>7 DEF GatewayInv

-----------------------------------------------------------------------------
(* The theorems *)

LEMMA GatewayInit == GInit => GatewayInv
<1> SUFFICES ASSUME GInit PROVE GatewayInv
  OBVIOUS
<1>1. TypeOK /\ BatchOK
  BY InitType DEF GInit
<1>2. /\ stream = <<>> /\ gone = 0 /\ offset = 0 /\ pc = "down" /\ Rows = {}
      /\ stage = "down" /\ todo = {} /\ aged = {} /\ expired = {} /\ refused = {}
  BY DEF GInit, Init, Rows
<1>3. GTypeOK /\ OwnRows /\ ReplayOwed /\ NothingLostAcrossMaps /\ RoundSafe
  BY <1>1, <1>2 DEF GTypeOK, OwnRows, ReplayOwed, NothingLostAcrossMaps, RoundSafe
<1>4. QED
  BY <1>1, <1>3 DEF GatewayInv

LEMMA StutterStep == GatewayInv /\ UNCHANGED gvars => GatewayInv'
<1> SUFFICES ASSUME GatewayInv, UNCHANGED gvars PROVE GatewayInv'
  OBVIOUS
<1>0. GTypeOK /\ BatchOK /\ OwnRows /\ TypeOK /\ ReplayOwed /\ NothingLostAcrossMaps /\ RoundSafe
  BY DEF GatewayInv, GTypeOK
<1>1. /\ UNCHANGED <<telegram, tables, known, pc, progress, batch, dropped>>
      /\ UNCHANGED <<stage, todo, aged, expired, refused>>
  BY DEF gvars, vars, startup, buffer
<1>2. OwnRows' /\ Rows' = Rows
  BY <1>0, <1>1, RowsQuiet DEF tables, telegram
<1>3. \A i : Safe(i)' <=> Safe(i)
  BY <1>0, <1>1, QuietLoop DEF tables, telegram
<1>4. TypeOK' /\ BatchOK'
  BY <1>0, <1>1, TypeStep DEF vars
<1>5. GTypeOK' /\ ReplayOwed'
  BY <1>0, <1>1, <1>2, <1>4 DEF GTypeOK, ReplayOwed, telegram, progress
<1>6. NothingLostAcrossMaps' /\ RoundSafe'
  BY <1>0, <1>1, <1>3 DEF NothingLostAcrossMaps, RoundSafe, Storing, Records, Route, telegram,
                          progress, batch
<1>7. QED
  BY <1>2, <1>4, <1>5, <1>6 DEF GatewayInv

LEMMA GatewayStep == GatewayInv /\ [GNext]_gvars => GatewayInv'
<1> SUFFICES ASSUME GatewayInv, [GNext]_gvars PROVE GatewayInv'
  OBVIOUS
<1>1. CASE stage = "serve" /\ Outside
  BY <1>1, PollStep DEF Outside
<1>2. CASE stage # "serve" /\ Outside
  BY <1>2, OutsideStep
<1>3. CASE Age \/ Boot \/ ReplayDone
  BY <1>3, StartStep
<1>4. CASE ReplayChat
  BY <1>4, ReplayStep
<1>5. CASE SweepAtStart \/ SweepTick
  BY <1>5, SweepStep
<1>6. CASE Shutdown
  BY <1>6, ShutdownStep
<1>7. CASE Poll
  BY <1>7, PollStep DEF Poll
<1>8. CASE UNCHANGED gvars
  BY <1>8, StutterStep
<1>9. QED
  BY <1>1, <1>2, <1>3, <1>4, <1>5, <1>6, <1>7, <1>8 DEF GNext

LEMMA GatewayAlways == GSpec => []GatewayInv
<1>1. GInit => GatewayInv
  BY GatewayInit
<1>2. GatewayInv /\ [GNext]_gvars => GatewayInv'
  BY GatewayStep
<1>3. QED
  BY <1>1, <1>2, PTL DEF GSpec

(* The start, the sweeps and the loop together keep their types: only      *)
(* rows that exist wait for the sweep, and nothing polls before the start  *)
(* is complete (main.go:164-246).                                          *)
THEOREM GatewayTypeCorrect == GSpec => []GTypeOK
<1>1. GatewayInv => GTypeOK
  BY DEF GatewayInv
<1>2. QED
  BY <1>1, GatewayAlways, PTL

(* However often chats are mapped and unmapped, processes killed in any    *)
(* step of their start or their loop, and sweeps run in between: what was  *)
(* confirmed of a group is held, or is one of the documented losses        *)
(* (main.go:164-246, pending.go, ingest.go).                               *)
THEOREM NothingIsLostAcrossMaps == GSpec => []NothingLostAcrossMaps
<1>1. GatewayInv => NothingLostAcrossMaps
  BY DEF GatewayInv
<1>2. QED
  BY <1>1, GatewayAlways, PTL

(* While the process polls, the history has everything confirmed of the    *)
(* chats of its map: a start that lets the loop begin has replayed all of  *)
(* it (main.go:187-217).                                                   *)
THEOREM BacklogIsRecovered == GSpec => []BacklogRecovered
<1>1. GatewayInv => BacklogRecovered
  <2> SUFFICES ASSUME GatewayInv, stage = "serve",
                      NEW i \in 1..gone, Wanted(i), stream[i].chat \in known
               PROVE  messages[KeyOf(i)] >= i \/ GivenUp(i)
    BY DEF BacklogRecovered
  <2>1. TypeOK /\ ReplayOwed /\ Safe(i)
    BY DEF GatewayInv, GTypeOK, NothingLostAcrossMaps
  <2>2. i \in 1..Len(stream)
    BY <2>1 DEF TypeOK
  <2>3. KeyOf(i) \in Keys /\ KeyOf(i)[1] \in known
    BY <2>1, <2>2, KeyOfUpdate
  <2>4. pending[KeyOf(i)] = 0
    BY <2>1, <2>3 DEF ReplayOwed, Rows
  <2>5. QED
    BY <2>1, <2>4 DEF Safe, Held
<1>2. QED
  BY <1>1, GatewayAlways, PTL

(* No sweep, at the start or on the ticker, takes a row of a chat in the   *)
(* map: such a row leaves the buffer for the history only, or because the  *)
(* history refused it (main.go:183-217).                                   *)
THEOREM SweepsSpareMapped == GSpec => SweepSparesMapped
<1>1. GatewayInv /\ [GNext]_gvars =>
        \A k \in Keys : k \in aged /\ pending'[k] = 0 /\ k[1] \in known =>
          messages'[k] = pending[k] \/ pending[k] \in refused'
  <2> SUFFICES ASSUME GatewayInv, [GNext]_gvars,
                      NEW k \in Keys, k \in aged, pending'[k] = 0, k[1] \in known
               PROVE  messages'[k] = pending[k] \/ pending[k] \in refused'
    OBVIOUS
  <2>0. TypeOK /\ BatchOK /\ OwnRows /\ ReplayOwed /\ k \in Rows /\ pending[k] # 0
    BY DEF GatewayInv, GTypeOK, Rows
  <2>1. CASE ReplayChat
    BY <2>0, <2>1 DEF ReplayChat
  <2>2. CASE SweepAtStart \/ SweepTick
    BY <2>0, <2>2 DEF SweepAtStart, SweepTick, ReplayOwed
  <2>3. CASE Poll
    <3>1. k \in Rows'
      BY <2>0, <2>3, RowsAfterRun DEF Poll
    <3>2. QED
      BY <3>1 DEF Rows
  <2>4. CASE UNCHANGED pending
    BY <2>0, <2>4
  <2>5. CASE Outside \/ Age \/ Boot \/ ReplayDone \/ Shutdown \/ UNCHANGED gvars
    BY <2>4, <2>5 DEF Outside, Arrive, Expire, Age, Boot, ReplayDone, Shutdown, Exit, gvars, vars,
                      tables
  <2>6. QED
    BY <2>1, <2>2, <2>3, <2>5 DEF GNext
<1>2. QED
  BY <1>1, GatewayAlways, PTL DEF GSpec, SweepSparesMapped
=============================================================================
