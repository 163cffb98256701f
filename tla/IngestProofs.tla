---------------------------- MODULE IngestProofs ----------------------------
(***************************************************************************)
(* Proofs about Ingest: its type invariant, that nothing is lost, that     *)
(* only poison is dropped, that the poll loop implements Delivery, that a  *)
(* redelivery undoes nothing and that the count of failures survives the   *)
(* growth of the queue.                                                    *)
(***************************************************************************)
EXTENDS Ingest, Traces

-----------------------------------------------------------------------------
(* Max over a bounded set of naturals, which is what an upsert of several  *)
(* updates of one message stores.                                          *)

LEMMA MaxOfBounded ==
  ASSUME NEW n \in Nat, NEW S \in SUBSET (0..n), S # {}
  PROVE  Max(S) \in S /\ \A y \in S : y <= Max(S)
<1> DEFINE T == {n - x : x \in S}
<1>1. T \in SUBSET Nat /\ T # {}
  <2>1. \A x \in S : x \in Nat /\ n - x \in Nat
    OBVIOUS
  <2>2. QED
    BY <2>1
<1>2. PICK t \in T : \A u \in T : t <= u
  BY <1>1, SmallestExists
<1>3. PICK x \in S : t = n - x
  OBVIOUS
<1>4. \A y \in S : y <= x
  <2> TAKE y \in S
  <2>1. n - y \in T
    OBVIOUS
  <2>2. n - x <= n - y
    BY <1>2, <1>3, <2>1
  <2>3. n \in Nat /\ x \in 0..n /\ y \in 0..n
    OBVIOUS
  <2>4. QED
    BY <2>2, <2>3
<1>5. QED
  BY <1>4 DEF Max

LEMMA MaxOfTwo ==
  ASSUME NEW a \in Nat, NEW b \in Nat
  PROVE  Max({a, b}) \in {a, b} /\ a <= Max({a, b}) /\ b <= Max({a, b})
<1>1. {a, b} \in SUBSET (0..(a + b)) /\ {a, b} # {} /\ a + b \in Nat
  OBVIOUS
<1> DEFINE S == {a, b}
<1>2. Max(S) \in S /\ \A y \in S : y <= Max(S)
  <2> HIDE DEF S
  <2>1. S \in SUBSET (0..(a + b)) /\ S # {} /\ a + b \in Nat
    BY <1>1 DEF S
  <2>2. QED
    BY <2>1, MaxOfBounded
<1>3. QED
  BY <1>2

LEMMA MinOfTwo ==
  ASSUME NEW a \in Nat, NEW b \in Nat
  PROVE  Min({a, b}) \in {a, b} /\ Min({a, b}) <= a /\ Min({a, b}) <= b
<1> DEFINE S == {a, b}
<1>1. \E x \in S : \A y \in S : x <= y
  OBVIOUS
<1>2. Min(S) \in S /\ \A y \in S : Min(S) <= y
  <2> HIDE DEF S
  <2>1. QED
    BY <1>1 DEF Min
<1>3. QED
  BY <1>2

-----------------------------------------------------------------------------
(* An upsert writes, for every message among the updates, the last of      *)
(* them, and leaves every other row alone.                                 *)
IsUpsert(rows, ids, n) ==
  /\ Upserted(rows, ids) \in [Keys -> 0..n]
  /\ \A k \in Keys :
       (\A i \in ids : KeyOf(i) # k) => Upserted(rows, ids)[k] = rows[k]
  /\ \A k \in Keys, i \in ids : KeyOf(i) = k => i <= Upserted(rows, ids)[k]

LEMMA UpsertedRows ==
  ASSUME NEW n \in Nat, NEW ids \in SUBSET (0..n),
         NEW rows \in [Keys -> 0..n]
  PROVE  IsUpsert(rows, ids, n)
<1> DEFINE W(k) == {i \in ids : KeyOf(i) = k}
<1>1. \A k \in Keys : Upserted(rows, ids)[k] = IF W(k) = {} THEN rows[k] ELSE Max(W(k))
  BY DEF Upserted
<1>2. \A k \in Keys : W(k) # {} => Max(W(k)) \in W(k) /\ \A y \in W(k) : y <= Max(W(k))
  <2> TAKE k \in Keys
  <2>1. W(k) \in SUBSET (0..n)
    OBVIOUS
  <2> HIDE DEF W
  <2>2. QED
    BY <2>1, MaxOfBounded
<1>3. \A k \in Keys : Upserted(rows, ids)[k] \in 0..n
  BY <1>1, <1>2
<1>4. Upserted(rows, ids) \in [Keys -> 0..n]
  BY <1>3 DEF Upserted
<1>5. QED
  BY <1>1, <1>2, <1>4 DEF IsUpsert

-----------------------------------------------------------------------------
(* The records of a batch *)

LEMMA RouteCases ==
  ASSUME NEW u
  PROVE  /\ Route(u) \in {"messages", "pending", "none"}
         /\ Route(u) = "messages" => u.chat \in known
         /\ Route(u) = "pending" => u.chat \notin known
         /\ Route(u) = "none" => ~u.body \/ (u.chat \notin known /\ u.chat \notin Groups)
  BY DEF Route

LEMMA KeyOfUpdate ==
  ASSUME TypeOK, NEW i \in 1..Len(stream)
  PROVE  /\ stream[i] \in Update
         /\ KeyOf(i) \in Keys /\ KeyOf(i)[1] = stream[i].chat
<1>1. stream[i] \in Updates
  BY DEF TypeOK
<1>2. stream[i] \in Update
  BY <1>1, IngestAssumption DEF IngestAssumption
<1>3. QED
  BY <1>2 DEF Update, KeyOf, Keys

LEMMA RecordsInBatch ==
  ASSUME NEW table
  PROVE  Records(table) \subseteq first..last
  BY DEF Records

-----------------------------------------------------------------------------
(* Type correctness *)

LEMMA InitType == Init => TypeOK /\ BatchOK
<1> SUFFICES ASSUME Init PROVE TypeOK /\ BatchOK
  OBVIOUS
<1>1. Len(stream) = 0 /\ stream \in Seq(Updates)
  BY DEF Init
<1>2. BatchOK
  BY DEF Init, BatchOK, Storing, Tables
<1>3. messages \in [Keys -> 0..Len(stream)] /\ pending \in [Keys -> 0..Len(stream)]
  BY <1>1 DEF Init
<1>4. QED
  BY <1>1, <1>2, <1>3, IngestAssumption DEF Init, TypeOK, IngestAssumption

LEMMA TypeStep == TypeOK /\ BatchOK /\ [Next]_vars => TypeOK' /\ BatchOK'
<1> SUFFICES ASSUME TypeOK, BatchOK, [Next]_vars PROVE TypeOK' /\ BatchOK'
  OBVIOUS
<1> USE IngestAssumption DEF IngestAssumption
<1>0. Len(stream) \in Nat
  BY DEF TypeOK
<1>1. CASE Arrive
  <2>1. /\ stream' \in Seq(Updates)
        /\ Len(stream') = Len(stream) + 1
    BY <1>1 DEF Arrive, TypeOK
  <2>2. UNCHANGED <<gone, missed, tables, known, pc, progress, batch, dropped>>
    BY <1>1 DEF Arrive
  <2>3. messages' \in [Keys -> 0..Len(stream')] /\ pending' \in [Keys -> 0..Len(stream')]
    BY <1>0, <2>1, <2>2 DEF TypeOK, tables
  <2>4. BatchOK'
    BY <1>0, <2>1, <2>2 DEF TypeOK, BatchOK, Storing, progress, batch
  <2>5. QED
    BY <1>0, <2>1, <2>2, <2>3, <2>4 DEF TypeOK, progress, batch, tables
<1>2. CASE Expire
  <2>1. TypeOK'
    BY <1>0, <1>2 DEF Expire, TypeOK, tables, progress, batch
  <2>2. BatchOK'
    BY <1>0, <1>2 DEF Expire, TypeOK, BatchOK, Storing, tables, progress, batch
  <2>3. QED
    BY <2>1, <2>2
<1>3. CASE Start
  BY <1>0, <1>3 DEF Start, TypeOK, BatchOK, Storing, Tables, telegram, tables, progress, batch
<1>4. CASE Exit
  BY <1>0, <1>4 DEF Exit, TypeOK, BatchOK, Storing, Tables, telegram, tables
<1>5. CASE DeleteWebhook
  BY <1>0, <1>5 DEF DeleteWebhook, TypeOK, BatchOK, Storing, Tables, telegram, tables,
                    progress, batch
<1>6. Confirmed \in gone..Len(stream) /\ offset <= Confirmed + 1
  BY <1>0, MaxOfTwo DEF Confirmed, TypeOK
<1>7. CASE PollNothing
  BY <1>0, <1>6, <1>7 DEF PollNothing, TypeOK, BatchOK, Storing, Tables, tables, progress, batch
<1>8. CASE PollBatch
  <2>1. last' \in (Confirmed + 1)..Len(stream)
    <3>1. Confirmed \in Nat /\ Confirmed + Limit \in Nat /\ Confirmed + 1 <= Confirmed + Limit
      BY <1>0, <1>6 DEF TypeOK
    <3>2. last' \in {Confirmed + Limit, Len(stream)} /\ last' <= Len(stream)
      BY <1>0, <1>8, <3>1, MinOfTwo DEF PollBatch
    <3>3. Confirmed + 1 <= Len(stream)
      BY <1>0, <1>8, <3>1 DEF PollBatch
    <3>4. QED
      BY <1>0, <3>1, <3>2, <3>3
  <2>2. TypeOK'
    BY <1>0, <1>6, <1>8, <2>1 DEF PollBatch, TypeOK, Tables, tables, progress
  <2>3. BatchOK'
    BY <1>0, <1>6, <1>8, <2>1 DEF PollBatch, TypeOK, BatchOK, Storing, Tables, progress
  <2>4. QED
    BY <2>2, <2>3
<1>9. ASSUME NEW ids \in SUBSET (first..last), Storing
      PROVE  /\ Upserted(messages, ids) \in [Keys -> 0..Len(stream)]
             /\ Upserted(pending, ids) \in [Keys -> 0..Len(stream)]
  <2>1. ids \in SUBSET (0..Len(stream))
    BY <1>0, <1>9 DEF TypeOK, BatchOK
  <2>2. IsUpsert(messages, ids, Len(stream)) /\ IsUpsert(pending, ids, Len(stream))
    BY <1>0, <2>1, UpsertedRows DEF TypeOK
  <2>3. QED
    BY <2>2 DEF IsUpsert
<1>10. CASE UpsertPendingBatch
  <2>1. pending' \in [Keys -> 0..Len(stream)]
    BY <1>9, <1>10, RecordsInBatch DEF UpsertPendingBatch, Storing, Tables
  <2>2. TypeOK'
    BY <1>0, <1>10, <2>1 DEF UpsertPendingBatch, TypeOK, Tables, telegram, progress, batch
  <2>3. BatchOK'
    BY <1>10 DEF UpsertPendingBatch, BatchOK, Storing, Tables, telegram, progress, batch
  <2>4. QED
    BY <2>2, <2>3
<1>11. CASE UpsertBatch
  <2>1. messages' \in [Keys -> 0..Len(stream)]
    BY <1>9, <1>11, RecordsInBatch DEF UpsertBatch, Storing, Tables
  <2>2. last + 1 \in 0..(Len(stream) + 1)
    BY <1>0, <1>11 DEF UpsertBatch, TypeOK
  <2>3. TypeOK'
    BY <1>0, <1>11, <2>1, <2>2 DEF UpsertBatch, Advance, TypeOK, Tables, telegram
  <2>4. BatchOK'
    BY <1>11 DEF UpsertBatch, Advance, BatchOK, Storing, Tables
  <2>5. QED
    BY <2>3, <2>4
<1>12. Fails \in 0..(Retries + 1)
  <2>1. Retries + 1 \in Nat /\ (IF failedFrom = first THEN storeFails + 1 ELSE 1) \in Nat
    BY DEF TypeOK
  <2> DEFINE n == IF failedFrom = first THEN storeFails + 1 ELSE 1
  <2>2. Min({Retries + 1, n}) \in {Retries + 1, n} /\ Min({Retries + 1, n}) <= Retries + 1
    <3> HIDE DEF n
    <3>1. n \in Nat
      BY <2>1 DEF n
    <3>2. QED
      BY <2>1, <3>1, MinOfTwo
  <2>3. QED
    BY <2>1, <2>2 DEF Fails
<1>13. CASE BatchRejected
  <2>1. first \in 0..Len(stream) /\ first <= last
    BY <1>13 DEF BatchRejected, TypeOK, BatchOK, Storing
  <2>2. TypeOK'
    BY <1>0, <1>12, <1>13, <2>1 DEF BatchRejected, PersistFailed, Retry, TypeOK, Tables,
                                     telegram, tables
  <2>3. BatchOK'
    BY <1>0, <1>13, <2>1 DEF BatchRejected, PersistFailed, Retry, TypeOK, BatchOK, Storing,
                             Tables, telegram, tables
  <2>4. QED
    BY <2>2, <2>3
<1>14. CASE BatchUnstorable
  BY <1>0, <1>12, <1>14 DEF BatchUnstorable, PersistFailed, Retry, TypeOK, BatchOK, Storing,
                            Tables, telegram, tables
<1>15. CASE SkipRecord
  <2>1. Storing /\ at \in first..last /\ last <= Len(stream)
    BY <1>15 DEF SkipRecord, BatchOK, Storing, TypeOK
  <2>2. /\ messages' \in [Keys -> 0..Len(stream)]
        /\ pending' \in [Keys -> 0..Len(stream)]
    <3>1. {at} \in SUBSET (first..last)
      BY <2>1
    <3>2. /\ messages' \in {messages, Upserted(messages, {at})}
          /\ pending' \in {pending, Upserted(pending, {at})}
      BY <1>15 DEF SkipRecord
    <3>3. QED
      BY <1>9, <2>1, <3>1, <3>2 DEF TypeOK
  <2>3. dropped' \subseteq 1..Len(stream)
    <3>1. at \in 1..Len(stream)
      BY <1>0, <2>1 DEF TypeOK, BatchOK
    <3>2. dropped' \subseteq dropped \union {at}
      BY <1>15 DEF SkipRecord
    <3>3. QED
      BY <3>1, <3>2 DEF TypeOK
  <2>4. /\ at' = at + 1
        /\ UNCHANGED <<telegram, known, pc, progress, first, last>>
    BY <1>15 DEF SkipRecord
  <2>5. at' \in 0..(Len(stream) + 1) /\ at' \in first..(last + 1)
    BY <1>0, <2>1, <2>4 DEF TypeOK
  <2>6. TypeOK'
    BY <1>0, <2>2, <2>3, <2>4, <2>5 DEF TypeOK, telegram, progress
  <2>7. BatchOK'
    BY <2>4, <2>5 DEF BatchOK, Storing, telegram, progress
  <2>8. QED
    BY <2>6, <2>7
<1>16. CASE SkipAborted
  BY <1>0, <1>16 DEF SkipAborted, Retry, TypeOK, BatchOK, Storing, Tables, telegram, tables,
                     progress
<1>17. CASE SkipDone
  <2>1. last + 1 \in 0..(Len(stream) + 1)
    BY <1>0 DEF TypeOK
  <2>2. QED
    BY <1>0, <1>17, <2>1 DEF SkipDone, Advance, TypeOK, BatchOK, Storing, Tables, telegram, tables
<1>18. CASE UNCHANGED vars
  BY <1>18 DEF vars, TypeOK, BatchOK, Storing, telegram, tables, progress, batch
<1>19. QED
  BY <1>1, <1>2, <1>3, <1>4, <1>5, <1>7, <1>8, <1>10, <1>11, <1>13, <1>14, <1>15, <1>16,
     <1>17, <1>18 DEF Next, Run

(* Run and the queue keep their types, whatever the constants: in          *)
(* particular the offset never points past the newest update (ingest.go:   *)
(* 167), so no poll confirms an update that was never delivered.           *)
THEOREM TypeCorrect == Spec => []TypeOK
<1>1. Init => TypeOK /\ BatchOK
  BY InitType
<1>2. (TypeOK /\ BatchOK) /\ [Next]_vars => (TypeOK /\ BatchOK)'
  BY TypeStep
<1>3. QED
  BY <1>1, <1>2, PTL DEF Spec

-----------------------------------------------------------------------------
(* Nothing is lost *)

(* What a settled update needs to stay settled. *)
LEMMA SettledKept ==
  ASSUME NEW i \in 1..Len(stream), Settled(i),
         stream'[i] = stream[i], missed \subseteq missed', dropped \subseteq dropped',
         Held(KeyOf(i)) >= i => Held(KeyOf(i))' >= i
  PROVE  Settled(i)'
<1>1. KeyOf(i)' = KeyOf(i)
  BY DEF KeyOf
<1>2. QED
  BY <1>1 DEF Settled

(* An update collect routes nowhere is settled as it is. *)
LEMMA UnroutedSettled ==
  ASSUME TypeOK, NEW i \in 1..Len(stream), Route(stream[i]) = "none"
  PROVE  Settled(i)
<1>1. ~stream[i].body \/ stream[i].chat \notin Groups
  BY RouteCases
<1>2. QED
  BY <1>1 DEF Settled

(* Writing records of the batch to their table: the messages written are   *)
(* held at least as new as those records, every other one as before.       *)
LEMMA HeldAfterWrite ==
  ASSUME TypeOK, BatchOK, Storing, NoBacklog, UNCHANGED <<stream, known>>,
         NEW ids \in SUBSET (first..last), NEW table \in Tables,
         \A j \in ids : Route(stream[j]) = table,
         messages' = IF table = "messages" THEN Upserted(messages, ids) ELSE messages,
         pending' = IF table = "pending" THEN Upserted(pending, ids) ELSE pending
  PROVE  /\ NoBacklog'
         /\ \A k \in Keys : (\A j \in ids : KeyOf(j) # k) => Held(k)' = Held(k)
         /\ \A k \in Keys, j \in ids : KeyOf(j) = k => Held(k)' >= j /\ Held(k)' >= first
<1>1. Len(stream) \in Nat /\ ids \in SUBSET (0..Len(stream)) /\ ids \in SUBSET (1..Len(stream))
  BY DEF TypeOK, BatchOK
<1>2. \A j \in ids : j \in Nat /\ j >= first /\ first >= 1 /\ first \in Nat
  BY DEF TypeOK, BatchOK
<1>3. \A j \in ids : KeyOf(j)[1] = stream[j].chat
  BY <1>1, KeyOfUpdate
<1>w. IsUpsert(messages, ids, Len(stream)) /\ IsUpsert(pending, ids, Len(stream))
  BY <1>1, UpsertedRows DEF TypeOK
<1>n. \A n \in 0..Len(stream) : n \in Nat
  BY <1>1
<1>4. CASE table = "messages"
  <2>1. pending' = pending /\ messages' = Upserted(messages, ids)
    BY <1>4
  <2>2. \A j \in ids : KeyOf(j)[1] \in known
    BY <1>3, <1>4, RouteCases
  <2>3. \A k \in Keys, j \in ids : KeyOf(j) = k => pending'[k] = 0
    BY <2>1, <2>2 DEF NoBacklog
  <2>4. /\ \A k \in Keys : (\A j \in ids : KeyOf(j) # k) => messages'[k] = messages[k]
        /\ \A k \in Keys, j \in ids : KeyOf(j) = k => j <= messages'[k]
        /\ \A k \in Keys : messages'[k] \in Nat
    BY <1>w, <1>n, <2>1 DEF IsUpsert
  <2>5. \A k \in Keys, j \in ids : KeyOf(j) = k => messages'[k] >= j /\ messages'[k] >= first
    BY <1>2, <2>4
  <2>6. QED
    BY <2>1, <2>3, <2>4, <2>5 DEF Held, NoBacklog
<1>5. CASE table = "pending"
  <2>1. messages' = messages /\ pending' = Upserted(pending, ids)
    BY <1>5
  <2>2. \A j \in ids : KeyOf(j)[1] \notin known
    BY <1>3, <1>5, RouteCases
  <2>3. /\ \A k \in Keys : (\A j \in ids : KeyOf(j) # k) => pending'[k] = pending[k]
        /\ \A k \in Keys, j \in ids : KeyOf(j) = k => j <= pending'[k]
        /\ \A k \in Keys : pending'[k] \in Nat
    BY <1>w, <1>n, <2>1 DEF IsUpsert
  <2>4. \A k \in Keys, j \in ids :
           KeyOf(j) = k => pending'[k] >= j /\ pending'[k] >= first /\ pending'[k] # 0
    BY <1>2, <2>3
  <2>5. NoBacklog'
    BY <2>2, <2>3 DEF NoBacklog
  <2>6. QED
    BY <2>1, <2>3, <2>4, <2>5 DEF Held
<1>6. QED
  BY <1>4, <1>5 DEF Tables

(* So what is settled in front of the batch stays settled, and a record    *)
(* written is settled.                                                     *)
LEMMA SettledAfterWrite ==
  ASSUME TypeOK, BatchOK, Storing, NoBacklog, UNCHANGED <<stream, known>>,
         missed \subseteq missed', dropped \subseteq dropped',
         NEW ids \in SUBSET (first..last), NEW table \in Tables,
         \A j \in ids : Route(stream[j]) = table,
         messages' = IF table = "messages" THEN Upserted(messages, ids) ELSE messages,
         pending' = IF table = "pending" THEN Upserted(pending, ids) ELSE pending
  PROVE  /\ NoBacklog'
         /\ \A i \in 1..Len(stream) : i < first /\ Settled(i) => Settled(i)'
         /\ \A i \in 1..Len(stream) :
              Settled(i) /\ (\A j \in ids : j >= i \/ KeyOf(j) # KeyOf(i)) => Settled(i)'
         /\ \A i \in ids : Settled(i)'
<1>1. /\ NoBacklog'
      /\ \A k \in Keys : (\A j \in ids : KeyOf(j) # k) => Held(k)' = Held(k)
      /\ \A k \in Keys, j \in ids : KeyOf(j) = k => Held(k)' >= j /\ Held(k)' >= first
  BY HeldAfterWrite
<1>2. \A i \in 1..Len(stream) : KeyOf(i) \in Keys /\ KeyOf(i)' = KeyOf(i)
  BY KeyOfUpdate DEF KeyOf
<1>3. /\ first \in Nat /\ Len(stream) \in Nat /\ ids \subseteq 1..Len(stream)
      /\ \A j \in ids : j >= first
  BY DEF TypeOK, BatchOK
<1>4. \A k \in Keys : Held(k) \in Nat /\ Held(k)' \in Nat
  <2>1. \A k \in Keys : Held(k) \in Nat
    BY DEF Held, TypeOK
  <2>2. ids \in SUBSET (0..Len(stream))
    BY <1>3
  <2>3. IsUpsert(messages, ids, Len(stream)) /\ IsUpsert(pending, ids, Len(stream))
    BY <1>3, <2>2, UpsertedRows DEF TypeOK
  <2>4. messages' \in [Keys -> 0..Len(stream)] /\ pending' \in [Keys -> 0..Len(stream)]
    BY <2>3 DEF TypeOK, IsUpsert
  <2>5. \A k \in Keys : Held(k)' \in Nat
    BY <2>4 DEF Held
  <2>6. QED
    BY <2>1, <2>5
<1>5. ASSUME NEW i \in 1..Len(stream), Settled(i),
             \/ i < first
             \/ \A j \in ids : j >= i \/ KeyOf(j) # KeyOf(i)
      PROVE  Settled(i)'
  <2>1. Held(KeyOf(i)) >= i => Held(KeyOf(i))' >= i
    <3>1. CASE \A j \in ids : KeyOf(j) # KeyOf(i)
      BY <1>1, <1>2, <3>1 DEF Held
    <3>2. CASE \E j \in ids : KeyOf(j) = KeyOf(i)
      <4>1. PICK k \in Keys : k = KeyOf(i)
        BY <1>2
      <4>2. PICK j \in ids : KeyOf(j) = k /\ (i < first \/ j >= i)
        BY <1>5, <3>2, <4>1
      <4>3. Held(k)' >= j /\ Held(k)' >= first /\ Held(k)' \in Nat /\ j \in Nat /\ i \in Nat
        BY <1>1, <1>3, <1>4, <4>2
      <4>4. Held(k)' >= i
        BY <1>3, <4>2, <4>3
      <4>5. QED
        BY <1>2, <4>1, <4>4 DEF Held
    <3>3. QED
      BY <3>1, <3>2
  <2>2. QED
    BY <1>5, <2>1, SettledKept
<1>6. ASSUME NEW i \in ids PROVE Settled(i)'
  <2>1. KeyOf(i) \in Keys /\ KeyOf(i)' = KeyOf(i)
    BY <1>2, <1>3
  <2>2. Held(KeyOf(i))' >= i
    BY <1>1, <2>1 DEF Held
  <2>3. QED
    BY <2>2 DEF Settled
<1>7. QED
  BY <1>1, <1>5, <1>6

LEMMA InvInit == Init => IngestInv
<1> SUFFICES ASSUME Init PROVE IngestInv
  OBVIOUS
<1>1. TypeOK /\ BatchOK
  BY InitType
<1>2. Len(stream) = 0
  BY DEF Init
<1>3. QED
  BY <1>1, <1>2 DEF Init, IngestInv, NoBacklog, NothingLost, SettledBehind, SettledInBatch,
                    Storing, Tables

(* A step that leaves both tables alone unsettles nothing. *)
LEMMA QuietStep ==
  ASSUME TypeOK, UNCHANGED <<stream, tables, known>>,
         missed \subseteq missed', dropped \subseteq dropped'
  PROVE  /\ NoBacklog => NoBacklog'
         /\ \A i \in 1..Len(stream) : Settled(i) => Settled(i)'
<1>1. NoBacklog => NoBacklog'
  BY DEF NoBacklog, tables
<1>2. ASSUME NEW i \in 1..Len(stream), Settled(i) PROVE Settled(i)'
  <2>1. Held(KeyOf(i))' = Held(KeyOf(i))
    BY DEF Held, KeyOf, tables
  <2>2. QED
    BY <1>2, <2>1, SettledKept DEF KeyOf
<1>3. QED
  BY <1>1, <1>2

LEMMA InvStep == IngestInv /\ [Next]_vars => IngestInv'
<1> SUFFICES ASSUME IngestInv, [Next]_vars
             PROVE  NoBacklog' /\ NothingLost' /\ SettledBehind' /\ SettledInBatch'
  BY TypeStep DEF IngestInv
<1>0. TypeOK /\ BatchOK /\ NoBacklog /\ NothingLost /\ SettledBehind /\ SettledInBatch
  BY DEF IngestInv
<1>t. TypeOK' /\ BatchOK'
  BY <1>0, TypeStep
<1>n. /\ Len(stream) \in Nat /\ gone \in 0..Len(stream) /\ offset \in Nat
      /\ first \in Nat /\ last \in Nat /\ at \in Nat
  BY <1>0 DEF TypeOK
<1>1. CASE Arrive
  <2>1. /\ Len(stream') = Len(stream) + 1
        /\ \A i \in 1..Len(stream) : stream'[i] = stream[i]
    BY <1>0, <1>1 DEF Arrive, TypeOK
  <2>2. UNCHANGED <<gone, missed, tables, known, pc, progress, batch, dropped>>
    BY <1>1 DEF Arrive
  <2>3. ASSUME NEW i \in 1..Len(stream), Settled(i) PROVE Settled(i)'
    <3>1. stream'[i] = stream[i]
      BY <2>1
    <3>2. Held(KeyOf(i))' = Held(KeyOf(i))
      BY <2>2, <3>1 DEF Held, KeyOf, tables
    <3>3. KeyOf(i)' = KeyOf(i)
      BY <3>1 DEF KeyOf
    <3>4. QED
      BY <2>2, <2>3, <3>1, <3>2, <3>3, SettledKept
  <2>4. NoBacklog' /\ NothingLost'
    BY <1>0, <1>n, <2>2, <2>3 DEF NoBacklog, NothingLost, tables
  <2>5. SettledBehind'
    <3>1. SUFFICES ASSUME NEW i \in 1..Len(stream'),
                          i < offset \/ (Storing /\ i < first)
                   PROVE  Settled(i)'
      BY <2>2 DEF SettledBehind, Storing, progress, batch
    <3>2. i \in 1..Len(stream)
      BY <1>0, <1>n, <2>1, <3>1 DEF TypeOK, BatchOK
    <3>3. QED
      BY <1>0, <2>3, <3>1, <3>2 DEF SettledBehind
  <2>6. SettledInBatch'
    <3>1. ASSUME pc \in {"messages", "skip"} PROVE first..last \subseteq 1..Len(stream)
      BY <1>0, <1>n, <3>1 DEF BatchOK, Storing, Tables
    <3>2. ASSUME pc = "messages" PROVE Records("pending")' = Records("pending")
      BY <2>1, <2>2, <3>1, <3>2 DEF Records, Route, batch
    <3>3. QED
      BY <1>0, <2>2, <2>3, <3>1, <3>2 DEF SettledInBatch, Records, batch
  <2>7. QED
    BY <2>4, <2>5, <2>6
<1>2. ASSUME UNCHANGED <<stream, tables, known, dropped>>, missed \subseteq missed'
      PROVE  NoBacklog' /\ \A i \in 1..Len(stream) : Settled(i) => Settled(i)'
  BY <1>0, <1>2, QuietStep
<1>3. CASE Expire
  <2>1. /\ NoBacklog' /\ \A i \in 1..Len(stream) : Settled(i) => Settled(i)'
        /\ gone' = gone + 1 /\ gone' <= Len(stream)
        /\ UNCHANGED <<stream, known, pc, progress, batch>>
    BY <1>2, <1>3, <1>n DEF Expire
  <2>2. \A i \in {gone + 1} : Settled(i)'
    BY <1>3 DEF Expire, Settled
  <2>3. NothingLost'
    BY <1>0, <1>n, <2>1, <2>2 DEF NothingLost
  <2>4. SettledBehind'
    BY <1>0, <2>1 DEF SettledBehind, Storing, progress, batch
  <2>5. SettledInBatch'
    <3>1. ASSUME pc \in {"messages", "skip"} PROVE first..last \subseteq 1..Len(stream)
      BY <1>0, <1>n, <3>1 DEF BatchOK, Storing, Tables
    <3>2. Records("pending")' = Records("pending")
      BY <2>1 DEF Records, Route, batch
    <3>3. QED
      BY <1>0, <2>1, <3>1, <3>2 DEF SettledInBatch, Records, batch
  <2>6. QED
    BY <2>1, <2>3, <2>4, <2>5
<1>4. CASE Start \/ Exit \/ DeleteWebhook \/ BatchUnstorable \/ SkipAborted
  <2>1. /\ UNCHANGED <<stream, gone, missed, tables, known, dropped>>
        /\ offset' \in {0, offset} /\ pc' \in {"down", "webhook", "poll"}
    BY <1>4 DEF Start, Exit, DeleteWebhook, BatchUnstorable, SkipAborted, PersistFailed, Retry,
                telegram, progress
  <2>2. NoBacklog' /\ \A i \in 1..Len(stream) : Settled(i) => Settled(i)'
    BY <1>2, <2>1
  <2>3. QED
    BY <1>0, <1>n, <2>1, <2>2 DEF NothingLost, SettledBehind, SettledInBatch, Storing, Tables
<1>5. CASE PollNothing \/ PollBatch
  <2>1. /\ UNCHANGED <<stream, missed, tables, known, dropped, offset>>
        /\ gone' = Confirmed /\ pc' \in {"poll", "pending"}
        /\ pc' = "pending" => first' = Confirmed + 1
    BY <1>5 DEF PollNothing, PollBatch, progress
  <2>2. NoBacklog' /\ \A i \in 1..Len(stream) : Settled(i) => Settled(i)'
    BY <1>2, <2>1
  <2>3. Confirmed \in gone..Len(stream) /\ \A i \in 1..Confirmed : i <= gone \/ i < offset
    <3>1. Confirmed \in {gone, IF offset = 0 THEN 0 ELSE offset - 1} /\ gone <= Confirmed
      <4>1. gone \in Nat /\ (IF offset = 0 THEN 0 ELSE offset - 1) \in Nat
        BY <1>n
      <4>2. QED
        BY <4>1, MaxOfTwo DEF Confirmed
    <3>2. QED
      BY <1>0, <1>n, <3>1 DEF TypeOK
  <2>4. \A i \in 1..Confirmed : Settled(i)'
    BY <1>0, <1>n, <2>2, <2>3 DEF NothingLost, SettledBehind
  <2>5. QED
    BY <1>0, <1>n, <2>1, <2>2, <2>3, <2>4 DEF NothingLost, SettledBehind, SettledInBatch,
                                              Storing, Tables
<1>6. CASE BatchRejected
  <2>1. /\ UNCHANGED <<stream, gone, missed, tables, known, dropped, offset>>
        /\ pc \in Tables
        /\ \/ pc' = "poll"
           \/ pc' = "skip" /\ at' = first /\ UNCHANGED <<first, last>>
    BY <1>6 DEF BatchRejected, PersistFailed, Retry, telegram
  <2>2. NoBacklog' /\ \A i \in 1..Len(stream) : Settled(i) => Settled(i)'
    BY <1>2, <2>1
  <2>3. QED
    BY <1>0, <1>n, <2>1, <2>2 DEF NothingLost, SettledBehind, SettledInBatch, Storing, Tables
<1>7. CASE SkipDone
  <2>1. /\ UNCHANGED <<stream, gone, missed, tables, known, dropped>>
        /\ pc = "skip" /\ at > last /\ offset' = last + 1 /\ pc' = "poll"
    BY <1>7 DEF SkipDone, Advance, telegram
  <2>2. NoBacklog' /\ \A i \in 1..Len(stream) : Settled(i) => Settled(i)'
    BY <1>2, <2>1
  <2>3. \A i \in 1..Len(stream) : i < last + 1 => Settled(i)
    BY <1>0, <1>n, <2>1 DEF SettledBehind, SettledInBatch, Storing
  <2>4. QED
    BY <1>0, <1>n, <2>1, <2>2, <2>3 DEF NothingLost, SettledBehind, SettledInBatch,
                                         Storing, Tables
<1>8. ASSUME Storing, missed' = missed, gone' = gone, stream' = stream,
             \A i \in 1..Len(stream) : i < first /\ Settled(i) => Settled(i)'
      PROVE  /\ NothingLost'
             /\ \A i \in 1..Len(stream) : i < offset \/ i < first => Settled(i)'
  <2>1. \A i \in 1..Len(stream) : i < offset \/ i < first => i < first /\ Settled(i)
    BY <1>0, <1>8, <1>n DEF SettledBehind, BatchOK
  <2>2. \A i \in 1..gone : i >= first => i \in missed'
    BY <1>0, <1>8, <1>n DEF BatchOK
  <2>3. ASSUME NEW i \in 1..gone PROVE Settled(i)'
    <3>1. CASE i >= first
      BY <2>2, <3>1 DEF Settled
    <3>2. CASE i < first
      BY <1>8, <1>n, <2>1, <3>2
    <3>3. QED
      BY <1>n, <3>1, <3>2
  <2>4. QED
    BY <1>8, <2>1, <2>3 DEF NothingLost
<1>9. CASE UpsertPendingBatch
  <2>1. /\ pc = "pending" /\ pc' = "messages" /\ Storing /\ Storing'
        /\ UNCHANGED <<stream, gone, missed, messages, known, progress, batch, dropped>>
        /\ pending' = Upserted(pending, Records("pending"))
    BY <1>9 DEF UpsertPendingBatch, Storing, Tables, telegram
  <2>2. /\ NoBacklog'
        /\ \A i \in 1..Len(stream) : i < first /\ Settled(i) => Settled(i)'
        /\ \A i \in Records("pending") : Settled(i)'
    <3>1. /\ Records("pending") \in SUBSET (first..last)
          /\ \A j \in Records("pending") : Route(stream[j]) = "pending"
          /\ "pending" \in Tables
      BY DEF Records, Tables
    <3>2. QED
      BY <1>0, <2>1, <3>1, SettledAfterWrite
  <2>3. NothingLost' /\ \A i \in 1..Len(stream) : i < offset \/ i < first => Settled(i)'
    BY <1>8, <2>1, <2>2
  <2>4. Records("pending")' = Records("pending")
    BY <2>1 DEF Records, Route, batch
  <2>5. QED
    BY <2>1, <2>2, <2>3, <2>4 DEF SettledBehind, SettledInBatch, progress, batch
<1>10. CASE UpsertBatch
  <2>1. /\ pc = "messages" /\ pc' = "poll" /\ Storing /\ offset' = last + 1
        /\ UNCHANGED <<stream, gone, missed, pending, known, dropped>>
        /\ messages' = Upserted(messages, Records("messages"))
    BY <1>10 DEF UpsertBatch, Advance, Storing, Tables, telegram
  <2>2. /\ NoBacklog'
        /\ \A i \in 1..Len(stream) : i < first /\ Settled(i) => Settled(i)'
        /\ \A i \in 1..Len(stream) :
             /\ Settled(i)
             /\ \A j \in Records("messages") : j >= i \/ KeyOf(j) # KeyOf(i)
             => Settled(i)'
        /\ \A i \in Records("messages") : Settled(i)'
    <3>1. /\ Records("messages") \in SUBSET (first..last)
          /\ \A j \in Records("messages") : Route(stream[j]) = "messages"
          /\ "messages" \in Tables
      BY DEF Records, Tables
    <3>2. QED
      BY <1>0, <2>1, <3>1, SettledAfterWrite
  <2>3. NothingLost' /\ \A i \in 1..Len(stream) : i < offset \/ i < first => Settled(i)'
    BY <1>8, <2>1, <2>2
  <2>4. ASSUME NEW i \in first..last PROVE Settled(i)'
    <3>1. i \in 1..Len(stream) /\ Records("messages") \subseteq 1..Len(stream)
      BY <1>0, <1>n, <2>1 DEF BatchOK, Records
    <3>2. CASE Route(stream[i]) = "messages"
      BY <2>2, <3>2 DEF Records
    <3>3. CASE Route(stream[i]) = "pending"
      <4>1. Settled(i)
        BY <1>0, <2>1, <3>3 DEF SettledInBatch, Records
      <4>2. \A j \in Records("messages") : KeyOf(j) # KeyOf(i)
        <5>1. stream[i].chat \notin known
          BY <3>3, RouteCases
        <5>2. \A j \in Records("messages") : stream[j].chat \in known
          BY RouteCases DEF Records
        <5>3. QED
          BY <5>1, <5>2 DEF KeyOf
      <4>3. QED
        BY <2>2, <3>1, <4>1, <4>2
    <3>4. CASE Route(stream[i]) = "none"
      BY <2>1, <3>4, RouteCases DEF Settled
    <3>5. QED
      BY <3>2, <3>3, <3>4, RouteCases
  <2>5. \A i \in 1..Len(stream) : i < last + 1 => Settled(i)'
    BY <1>n, <2>3, <2>4
  <2>6. QED
    BY <2>1, <2>2, <2>3, <2>5 DEF SettledBehind, SettledInBatch, Storing, Tables
<1>11. CASE SkipRecord
  <2> DEFINE table == Route(stream[at])
             accepted == table # "none" /\ ~Rejects(table, at)
  <2>1. /\ pc = "skip" /\ pc' = "skip" /\ Storing /\ Storing' /\ at \in first..last
        /\ at' = at + 1
        /\ UNCHANGED <<stream, gone, missed, known, progress, first, last>>
        /\ dropped \subseteq dropped'
    BY <1>0, <1>11, <1>n DEF SkipRecord, BatchOK, Storing, telegram
  <2>2. at \in 1..Len(stream)
    BY <1>0, <1>n, <2>1 DEF BatchOK
  <2>3. /\ NoBacklog'
        /\ \A i \in 1..Len(stream) : i < first /\ Settled(i) => Settled(i)'
        /\ \A i \in 1..Len(stream) : i < at /\ Settled(i) => Settled(i)'
        /\ \A i \in {at} : Settled(i)'
    <3>1. CASE accepted
      <4>1. /\ table \in Tables /\ {at} \in SUBSET (first..last)
            /\ \A j \in {at} : Route(stream[j]) = table
            /\ messages' = IF table = "messages" THEN Upserted(messages, {at}) ELSE messages
            /\ pending' = IF table = "pending" THEN Upserted(pending, {at}) ELSE pending
        BY <1>11, <2>1, <3>1, RouteCases DEF SkipRecord, Tables
      <4> HIDE DEF table
      <4>2. /\ NoBacklog'
            /\ \A i \in 1..Len(stream) : i < first /\ Settled(i) => Settled(i)'
            /\ \A i \in 1..Len(stream) :
                 Settled(i) /\ (\A j \in {at} : j >= i \/ KeyOf(j) # KeyOf(i)) => Settled(i)'
            /\ \A i \in {at} : Settled(i)'
        BY <1>0, <2>1, <4>1, SettledAfterWrite
      <4>3. QED
        BY <1>n, <4>2
    <3>2. CASE ~accepted
      <4>1. UNCHANGED tables /\ (table # "none" => at \in dropped')
        BY <1>11, <3>2 DEF SkipRecord, tables
      <4>2. NoBacklog' /\ \A i \in 1..Len(stream) : Settled(i) => Settled(i)'
        BY <1>0, <2>1, <4>1, QuietStep
      <4>3. \A i \in {at} : Settled(i)'
        <5>1. CASE table = "none"
          BY <1>0, <2>2, <4>2, <5>1, UnroutedSettled
        <5>2. CASE table # "none"
          BY <4>1, <5>2 DEF Settled
        <5>3. QED
          BY <5>1, <5>2
      <4>4. QED
        BY <4>2, <4>3
    <3>3. QED
      BY <3>1, <3>2
  <2>4. NothingLost' /\ \A i \in 1..Len(stream) : i < offset \/ i < first => Settled(i)'
    BY <1>8, <2>1, <2>3
  <2>5. SettledBehind'
    BY <2>1, <2>4 DEF SettledBehind, progress
  <2>6. SettledInBatch'
    <3>1. \A i \in first..last : i < at + 1 => Settled(i)'
      <4> TAKE i \in first..last
      <4>1. i \in 1..Len(stream) /\ i \in Nat
        BY <1>0, <1>n, <2>1 DEF BatchOK
      <4>2. CASE i < at
        BY <1>0, <2>1, <2>3, <4>1, <4>2 DEF SettledInBatch
      <4>3. CASE i = at
        BY <2>3, <4>3
      <4>4. QED
        BY <1>n, <4>1, <4>2, <4>3
    <3>2. QED
      BY <2>1, <3>1 DEF SettledInBatch
  <2>7. QED
    BY <2>3, <2>4, <2>5, <2>6
<1>12. CASE UNCHANGED vars
  <2>1. UNCHANGED <<stream, gone, missed, tables, known, pc, progress, batch, dropped>>
    BY <1>12 DEF vars, telegram
  <2>2. QED
    BY <1>0, <2>1 DEF NoBacklog, NothingLost, SettledBehind, SettledInBatch, Storing, Settled,
                      Held, KeyOf, Records, Route, tables, progress, batch
<1>13. QED
  BY <1>1, <1>3, <1>4, <1>5, <1>6, <1>7, <1>9, <1>10, <1>11, <1>12 DEF Next, Run

(* An update Telegram no longer delivers is held, was rejected by the      *)
(* database itself, or aged out: in every run of every length, for every   *)
(* batch limit and retry count (ingest.go:1-3, README "Restarts").         *)
THEOREM NothingIsLost == Spec => []NothingLost
<1>1. Init => IngestInv
  BY InvInit
<1>2. IngestInv /\ [Next]_vars => IngestInv'
  BY InvStep
<1>3. IngestInv => NothingLost
  BY DEF IngestInv
<1>4. QED
  BY <1>1, <1>2, <1>3, PTL DEF Spec

-----------------------------------------------------------------------------
(* Only poison is dropped *)

LEMMA PoisonKept ==
  ASSUME TypeOK, UNCHANGED known, NEW i \in 1..Len(stream), stream'[i] = stream[i]
  PROVE  Poison(i)' = Poison(i)
BY DEF Poison, Route

LEMMA PoisonStep == TypeOK /\ BatchOK /\ PoisonOnly /\ [Next]_vars => PoisonOnly'
<1> SUFFICES ASSUME TypeOK, BatchOK, PoisonOnly, [Next]_vars
             PROVE  PoisonOnly'
  OBVIOUS
<1>0. /\ Len(stream) \in Nat /\ first \in Nat /\ last \in Nat /\ at \in Nat /\ Retries \in Nat
      /\ dropped \subseteq 1..Len(stream)
  BY IngestAssumption DEF TypeOK
<1>t. TypeOK'
  BY TypeStep
<1>s. Storing => first..last \subseteq 1..Len(stream)
  BY <1>0 DEF BatchOK
<1>1. CASE Arrive
  <2>1. PICK u \in Updates : stream' = Append(stream, u)
    BY <1>1 DEF Arrive
  <2>2. \A i \in 1..Len(stream) : stream'[i] = stream[i]
    BY <2>1 DEF TypeOK
  <2>3. UNCHANGED <<known, pc, first, last, failedFrom, storeFails, dropped>>
    BY <1>1 DEF Arrive, progress, batch
  <2>4. \A i \in 1..Len(stream) : Poison(i)' = Poison(i)
    BY <2>2, <2>3, PoisonKept
  <2>5. QED
    BY <1>0, <1>s, <2>3, <2>4 DEF PoisonOnly, Storing
<1>2. CASE UNCHANGED <<stream, known, dropped>> /\ pc' # "skip"
  BY <1>2 DEF PoisonOnly, Poison, Route
<1>3. CASE BatchRejected
  <2>1. PICK i \in Records(pc) : Rejects(pc, i)
    BY <1>3 DEF BatchRejected
  <2>2. i \in first..last /\ Poison(i)
    BY <2>1 DEF Records, Rejects, Poison
  <2>3. /\ UNCHANGED <<stream, known, dropped>>
        /\ failedFrom' = first /\ storeFails' = Fails
        /\ pc' = "skip" => ~(Fails < Retries) /\ UNCHANGED <<first, last>>
    BY <1>3 DEF BatchRejected, PersistFailed, Retry, telegram
  <2>4. storeFails' \in Nat
    BY <1>0, <1>t DEF TypeOK
  <2>5. pc' = "skip" => storeFails' >= Retries
    BY <1>0, <2>3, <2>4
  <2>6. QED
    BY <2>2, <2>3, <2>5 DEF PoisonOnly, Poison, Route
<1>4. CASE SkipRecord
  <2>1. pc = "skip" /\ at \in first..last
    BY <1>0, <1>4 DEF SkipRecord, BatchOK, Storing
  <2>2. UNCHANGED <<stream, known, pc, first, last, failedFrom, storeFails>>
    BY <1>4 DEF SkipRecord, telegram, progress
  <2>3. dropped' = dropped \/ (dropped' = dropped \union {at} /\ Poison(at))
    <3>1. CASE Route(stream[at]) = "none"
      BY <1>4, <3>1 DEF SkipRecord
    <3>2. CASE Route(stream[at]) # "none" /\ ~Rejects(Route(stream[at]), at)
      BY <1>4, <3>2 DEF SkipRecord
    <3>3. CASE Route(stream[at]) # "none" /\ Rejects(Route(stream[at]), at)
      BY <1>4, <3>3 DEF SkipRecord, Rejects, Poison
    <3>4. QED
      BY <3>1, <3>2, <3>3
  <2>4. QED
    BY <2>2, <2>3 DEF PoisonOnly, Poison, Route
<1>5. CASE UNCHANGED <<stream, known, dropped, pc, first, last, failedFrom, storeFails>>
  BY <1>5 DEF PoisonOnly, Poison, Route
<1>6. CASE Run
  <2>1. CASE Start
    BY <1>2, <2>1 DEF Start, telegram
  <2>2. CASE DeleteWebhook
    BY <1>2, <2>2 DEF DeleteWebhook, telegram
  <2>3. CASE PollNothing
    BY <1>2, <2>3 DEF PollNothing
  <2>4. CASE PollBatch
    BY <1>2, <2>4 DEF PollBatch
  <2>5. CASE UpsertPendingBatch
    BY <1>2, <2>5 DEF UpsertPendingBatch, telegram
  <2>6. CASE UpsertBatch
    BY <1>2, <2>6 DEF UpsertBatch, Advance, telegram
  <2>7. CASE BatchUnstorable
    BY <1>2, <2>7 DEF BatchUnstorable, PersistFailed, Retry, telegram
  <2>8. CASE SkipAborted
    BY <1>2, <2>8 DEF SkipAborted, Retry, telegram
  <2>9. CASE SkipDone
    BY <1>2, <2>9 DEF SkipDone, Advance, telegram
  <2>10. QED
    BY <1>3, <1>4, <1>6, <2>1, <2>2, <2>3, <2>4, <2>5, <2>6, <2>7, <2>8, <2>9 DEF Run
<1>7. CASE Expire
  BY <1>5, <1>7 DEF Expire, progress, batch
<1>8. CASE Exit
  BY <1>2, <1>8 DEF Exit, telegram
<1>9. CASE UNCHANGED vars
  BY <1>5, <1>9 DEF vars, telegram, progress, batch
<1>10. QED
  BY <1>1, <1>6, <1>7, <1>8, <1>9 DEF Next

(* A message is only ever dropped because the database rejects that very   *)
(* message, and a batch is taken apart only around one, after Retries      *)
(* failures: no outage, however long, loses anything (ingest.go:155-166,   *)
(* 216-238).                                                               *)
THEOREM OnlyPoisonIsDropped == Spec => []PoisonOnly
<1>1. Init => TypeOK /\ BatchOK /\ PoisonOnly
  <2>1. Init => PoisonOnly
    BY DEF Init, PoisonOnly
  <2>2. QED
    BY <2>1, InitType
<1>2. (TypeOK /\ BatchOK /\ PoisonOnly) /\ [Next]_vars => (TypeOK /\ BatchOK /\ PoisonOnly)'
  BY TypeStep, PoisonStep
<1>3. QED
  BY <1>1, <1>2, PTL DEF Spec

-----------------------------------------------------------------------------
(* The loop implements Delivery *)

LEMMA SettledSame ==
  ASSUME NEW i \in 1..Len(stream), stream'[i] = stream[i], UNCHANGED <<tables, dropped>>,
         i \in missed' <=> i \in missed
  PROVE  Settled(i)' <=> Settled(i)
<1>1. KeyOf(i)' = KeyOf(i)
  BY DEF KeyOf
<1>2. Held(KeyOf(i))' = Held(KeyOf(i))
  BY <1>1 DEF Held, tables
<1>3. QED
  BY <1>1, <1>2 DEF Settled

LEMMA ConfirmedBounds ==
  ASSUME TypeOK
  PROVE  /\ Confirmed \in gone..Len(stream)
         /\ \A i \in (gone + 1)..Confirmed : i < offset
<1> DEFINE n == IF offset = 0 THEN 0 ELSE offset - 1
<1>1. n \in 0..Len(stream) /\ gone \in 0..Len(stream) /\ Len(stream) \in Nat /\ offset \in Nat
  BY DEF TypeOK
<1>2. Confirmed = Max({gone, n}) /\ \A i \in 1..n : i < offset
  BY <1>1 DEF Confirmed
<1> HIDE DEF n
<1>3. Confirmed \in {gone, n} /\ gone <= Confirmed
  BY <1>1, <1>2, MaxOfTwo
<1>4. CASE Confirmed = gone
  BY <1>1, <1>4
<1>5. CASE Confirmed = n
  <2>1. Confirmed \in gone..Len(stream)
    BY <1>1, <1>3, <1>5
  <2>2. ASSUME NEW i \in (gone + 1)..Confirmed PROVE i < offset
    BY <1>1, <1>2, <1>5
  <2>3. QED
    BY <2>1, <2>2
<1>6. QED
  BY <1>3, <1>4, <1>5

LEMMA QueueStep == IngestInv /\ [Next]_vars => [Queue!Next]_(Queue!vars)
<1> DEFINE Ids == {i \in 1..Len(stream) : Settled(i)}
<1> SUFFICES ASSUME IngestInv, [Next]_vars
             PROVE  Queue!Next \/ UNCHANGED <<Len(stream), gone, Ids>>
  BY DEF Queue!vars
<1>0. TypeOK /\ NothingLost /\ SettledBehind
  BY DEF IngestInv
<1>t. IngestInv' /\ TypeOK' /\ NothingLost'
  BY InvStep DEF IngestInv
<1>n. Len(stream) \in Nat /\ gone \in 0..Len(stream) /\ offset \in Nat
  BY <1>0 DEF TypeOK
<1>1. CASE Arrive
  <2>1. /\ Len(stream)' = Len(stream) + 1
        /\ \A i \in 1..Len(stream) : stream'[i] = stream[i]
        /\ UNCHANGED <<gone, missed, tables, dropped>>
    BY <1>0, <1>1 DEF Arrive, TypeOK
  <2>2. \A i \in 1..Len(stream) : Settled(i)' <=> Settled(i)
    BY <2>1, SettledSame
  <2>3. Ids' \in {Ids, Ids \union {Len(stream) + 1}}
    BY <1>n, <2>1, <2>2
  <2>4. Queue!Arrive
    BY <2>1, <2>3 DEF Queue!Arrive
  <2>5. QED
    BY <2>4 DEF Queue!Next
<1>2. CASE Expire
  <2>1. /\ UNCHANGED <<stream, tables, dropped>>
        /\ gone < Len(stream) /\ gone' = gone + 1
        /\ missed' = missed \union {gone + 1}
    BY <1>2 DEF Expire
  <2>2. \A i \in 1..Len(stream) : i # gone + 1 => (Settled(i)' <=> Settled(i))
    BY <2>1, SettledSame
  <2>3. \A i \in {gone + 1} : Settled(i)'
    BY <2>1 DEF Settled
  <2>4. Ids' = Ids \union {gone + 1}
    BY <1>n, <2>1, <2>2, <2>3
  <2>5. Queue!Expire
    BY <2>1, <2>4 DEF Queue!Expire
  <2>6. QED
    BY <2>5 DEF Queue!Next
<1>3. CASE PollNothing \/ PollBatch
  <2>1. UNCHANGED <<stream, tables, missed, dropped>> /\ gone' = Confirmed
    BY <1>3 DEF PollNothing, PollBatch
  <2>2. \A i \in 1..Len(stream) : Settled(i)' <=> Settled(i)
    BY <2>1, SettledSame
  <2>3. Ids' = Ids
    BY <2>1, <2>2
  <2>4. gone' \in gone..Len(stream) /\ \A i \in (gone + 1)..gone' : i < offset
    BY <1>0, <2>1, ConfirmedBounds
  <2>5. \A i \in (gone + 1)..gone' : i \in Ids
    BY <1>0, <1>n, <2>4 DEF SettledBehind
  <2>6. Queue!Confirm
    BY <2>1, <2>3, <2>4, <2>5 DEF Queue!Confirm
  <2>7. QED
    BY <2>6 DEF Queue!Next
<1>4. CASE UNCHANGED <<stream, gone>>
  <2>1. \A i \in 1..gone : Settled(i)'
    BY <1>4, <1>t DEF NothingLost
  <2>2. /\ Ids' \subseteq 1..Len(stream)
        /\ \A i \in 1..gone : i \in Ids'
    BY <1>4, <1>n, <2>1
  <2>3. Queue!Settle
    BY <1>4, <2>2 DEF Queue!Settle
  <2>4. QED
    BY <2>3 DEF Queue!Next
<1>5. CASE Exit \/ Start \/ DeleteWebhook \/ UpsertPendingBatch \/ UpsertBatch \/ UNCHANGED vars
  <2>1. UNCHANGED <<stream, gone>>
    BY <1>5 DEF Exit, Start, DeleteWebhook, UpsertPendingBatch, UpsertBatch, vars, telegram
  <2>2. QED
    BY <1>4, <2>1
<1>6. CASE BatchRejected \/ BatchUnstorable \/ SkipRecord \/ SkipAborted \/ SkipDone
  <2>1. UNCHANGED <<stream, gone>>
    BY <1>6 DEF BatchRejected, BatchUnstorable, PersistFailed, SkipRecord, SkipAborted, SkipDone,
                telegram
  <2>2. QED
    BY <1>4, <2>1
<1>7. QED
  BY <1>1, <1>2, <1>3, <1>5, <1>6 DEF Next, Run

(* The poll loop, with its two transactions per batch, its retries, its    *)
(* replay and its crashes, consumes the queue at least once: every step is *)
(* one of Delivery's, or none (ingest.go:104-238).                         *)
THEOREM Implements == Spec => ImplementsDelivery
<1>1. Init => Queue!Init
  <2>1. SUFFICES ASSUME Init PROVE Queue!Init
    OBVIOUS
  <2>2. Len(stream) = 0 /\ gone = 0
    BY <2>1 DEF Init
  <2>3. QED
    BY <2>2 DEF Queue!Init
<1>2. Init => IngestInv
  BY InvInit
<1>3. IngestInv /\ [Next]_vars => IngestInv'
  BY InvStep
<1>4. IngestInv /\ [Next]_vars => [Queue!Next]_(Queue!vars)
  BY QueueStep
<1>5. QED
  BY <1>1, <1>2, <1>3, <1>4, PTL DEF Spec, ImplementsDelivery, Queue!Spec

-----------------------------------------------------------------------------
(* Redelivered batches are absorbed *)

LEMMA UpsertedRow ==
  ASSUME NEW n \in Nat, NEW ids \in SUBSET (0..n), NEW rows, NEW k \in Keys
  PROVE  /\ (\A i \in ids : KeyOf(i) # k) => Upserted(rows, ids)[k] = rows[k]
         /\ (\E i \in ids : KeyOf(i) = k) =>
              /\ Upserted(rows, ids)[k] \in ids /\ KeyOf(Upserted(rows, ids)[k]) = k
              /\ \A i \in ids : KeyOf(i) = k => i <= Upserted(rows, ids)[k]
<1> DEFINE writes == {i \in ids : KeyOf(i) = k}
<1>1. Upserted(rows, ids)[k] = IF writes = {} THEN rows[k] ELSE Max(writes)
  BY DEF Upserted
<1>2. writes \in SUBSET (0..n)
  OBVIOUS
<1>3. writes # {} => Max(writes) \in writes /\ \A i \in writes : i <= Max(writes)
  <2> HIDE DEF writes
  <2>1. QED
    BY <1>2, MaxOfBounded
<1>4. QED
  BY <1>1, <1>3

(* An upsert of records of the batch in hand writes updates of their own   *)
(* message, within reach.                                                  *)
LEMMA WriteWithinReach ==
  ASSUME TypeOK, BatchOK, BatchReach, Storing,
         NEW rows \in [Keys -> 0..Len(stream)], OwnWrites(rows), WithinReach(rows),
         NEW ids \in SUBSET (first..last), \A i \in ids : stream[i].body
  PROVE  /\ OwnWrites(Upserted(rows, ids))
         /\ \A k \in Keys : /\ Upserted(rows, ids)[k] <= last
                            /\ Upserted(rows, ids)[k] <= gone + Limit
<1>0. /\ Len(stream) \in Nat /\ ids \in SUBSET (0..Len(stream)) /\ last \in Nat /\ gone \in Nat
      /\ Limit \in Nat /\ \A i \in ids : i \in Nat /\ i <= last
  BY IngestAssumption DEF IngestAssumption, TypeOK, BatchOK
<1>1. \A k \in Keys : Upserted(rows, ids)[k] = rows[k]
                      \/ \E i \in ids : KeyOf(i) = k /\ Upserted(rows, ids)[k] = i
  BY <1>0, UpsertedRow
<1>2. OwnWrites(Upserted(rows, ids))
  BY <1>1 DEF OwnWrites
<1>3. \A k \in Keys : rows[k] <= last /\ rows[k] <= gone + Limit
  BY DEF WithinReach
<1>4. \A i \in ids : i <= last /\ i <= gone + Limit
  BY <1>0 DEF BatchReach
<1>5. QED
  BY <1>1, <1>2, <1>3, <1>4

(* An upsert of all records of a table only ever replaces a row by a later *)
(* write: an earlier one that was in reach is among the records again.     *)
LEMMA WriteGrows ==
  ASSUME TypeOK, BatchOK, Storing, NEW table \in Tables,
         NEW rows \in [Keys -> 0..Len(stream)], OwnWrites(rows), WithinReach(rows),
         NEW k \in Keys
  PROVE  Upserted(rows, Records(table))[k] >= rows[k]
<1> DEFINE ids == Records(table)
           new == Upserted(rows, ids)[k]
<1>0. /\ Len(stream) \in Nat /\ first \in Nat /\ last \in Nat /\ first >= 1
      /\ last <= Len(stream) /\ rows[k] \in Nat
  BY DEF TypeOK, BatchOK
<1>1. ids \in SUBSET (first..last) /\ ids \in SUBSET (0..Len(stream))
  BY <1>0 DEF Records
<1>2. CASE \A i \in ids : KeyOf(i) # k
  <2>1. Upserted(rows, ids)[k] = rows[k]
    <3> HIDE DEF ids
    <3>1. QED
      BY <1>0, <1>1, <1>2, UpsertedRow
  <2>2. QED
    BY <1>0, <2>1
<1>3. CASE \E i \in ids : KeyOf(i) = k
  <2>1. /\ new \in ids /\ KeyOf(new) = k
        /\ \A i \in ids : KeyOf(i) = k => i <= new
    BY <1>0, <1>1, <1>3, UpsertedRow
  <2>2. new \in first..last /\ Route(stream[new]) = table
    BY <2>1 DEF Records
  <2>3. CASE rows[k] < first
    BY <1>0, <2>2, <2>3
  <2>4. CASE rows[k] >= first
    <3>1. rows[k] \in first..last /\ KeyOf(rows[k]) = k /\ stream[rows[k]].body
      BY <1>0, <2>4 DEF OwnWrites, WithinReach
    <3>2. stream[rows[k]].chat = stream[new].chat
      BY <2>1, <3>1 DEF KeyOf
    <3>3. rows[k] \in ids
      BY <2>2, <3>1, <3>2 DEF Records, Route, Tables
    <3>4. QED
      BY <1>0, <2>1, <2>2, <3>1, <3>3
  <2>5. QED
    BY <1>0, <2>3, <2>4
<1>4. QED
  BY <1>2, <1>3

LEMMA AbsorbInit == Init => AbsorbInv
<1> SUFFICES ASSUME Init PROVE AbsorbInv
  OBVIOUS
<1>1. TypeOK /\ BatchOK
  BY InitType
<1>2. ~Storing /\ \A k \in Keys : messages[k] = 0 /\ pending[k] = 0
  BY DEF Init, Storing, Tables
<1>3. QED
  BY <1>1, <1>2, IngestAssumption
     DEF AbsorbInv, BatchReach, OwnWrites, WithinReach, IngestAssumption, TypeOK

LEMMA AbsorbStep == AbsorbInv /\ [Next]_vars => AbsorbInv'
<1> SUFFICES ASSUME AbsorbInv, [Next]_vars PROVE AbsorbInv'
  OBVIOUS
<1>0. /\ TypeOK /\ BatchOK /\ BatchReach /\ OwnWrites(messages) /\ OwnWrites(pending)
      /\ WithinReach(messages) /\ WithinReach(pending)
  BY DEF AbsorbInv
<1>t. TypeOK' /\ BatchOK'
  BY <1>0, TypeStep
<1>n. /\ Len(stream) \in Nat /\ gone \in Nat /\ gone' \in Nat /\ Limit \in Nat /\ last \in Nat
      /\ \A k \in Keys : messages[k] \in 0..Len(stream) /\ pending[k] \in 0..Len(stream)
  <2>1. stream \in Seq(Updates) /\ stream' \in Seq(Updates)
    BY <1>0, <1>t DEF TypeOK
  <2>2. gone \in 0..Len(stream) /\ gone' \in 0..Len(stream') /\ last \in 0..Len(stream)
    BY <1>0, <1>t DEF TypeOK
  <2>3. QED
    BY <1>0, <2>1, <2>2, IngestAssumption DEF IngestAssumption, TypeOK
<1>1. ASSUME UNCHANGED tables, gone <= gone',
             \A i \in 1..Len(stream) : stream'[i] = stream[i],
             Storing' => Storing /\ last' = last
      PROVE  AbsorbInv'
  <2>1. \A k \in Keys : /\ messages[k] # 0 => messages[k] \in 1..Len(stream)
                        /\ pending[k] # 0 => pending[k] \in 1..Len(stream)
    BY <1>n
  <2>2. OwnWrites(messages)' /\ OwnWrites(pending)'
    BY <1>0, <1>1, <2>1 DEF OwnWrites, KeyOf, tables
  <2>3. WithinReach(messages)' /\ WithinReach(pending)'
    BY <1>0, <1>1, <1>n DEF WithinReach, tables
  <2>4. BatchReach'
    <3>1. ASSUME Storing' PROVE last' <= gone' + Limit
      <4>1. /\ last' = last /\ last <= gone + Limit /\ gone <= gone'
            /\ gone \in Nat /\ gone' \in Nat /\ Limit \in Nat /\ last \in Nat
        BY <1>0, <1>1, <1>n, <3>1 DEF BatchReach
      <4>2. \A a, b, c, d \in Nat : a <= b + c /\ b <= d => a <= d + c
        OBVIOUS
      <4>3. last <= gone' + Limit
        BY <4>1, <4>2, Zenon
      <4>4. QED
        BY <4>1, <4>3, Zenon
    <3>2. QED
      BY <3>1 DEF BatchReach
  <2>5. QED
    BY <1>t, <2>2, <2>3, <2>4 DEF AbsorbInv
<1>2. CASE Arrive \/ Expire
  <2>1. UNCHANGED tables /\ UNCHANGED <<pc, last>> /\ gone <= gone'
    BY <1>2, <1>n DEF Arrive, Expire, batch
  <2>2. \A i \in 1..Len(stream) : stream'[i] = stream[i]
    BY <1>0, <1>2 DEF Arrive, Expire, TypeOK
  <2>3. QED
    BY <1>1, <2>1, <2>2 DEF Storing
<1>3. CASE \/ Start \/ Exit \/ DeleteWebhook \/ PollNothing \/ BatchRejected \/ BatchUnstorable
           \/ SkipAborted \/ SkipDone \/ UNCHANGED vars
  <2>1. UNCHANGED tables /\ UNCHANGED stream
    BY <1>3 DEF Start, Exit, DeleteWebhook, PollNothing, BatchRejected, BatchUnstorable,
                PersistFailed, SkipAborted, SkipDone, vars, telegram
  <2>2. gone <= gone'
    <3>1. CASE PollNothing
      BY <1>0, <1>n, <3>1, ConfirmedBounds DEF PollNothing, TypeOK
    <3>2. CASE ~PollNothing
      BY <1>3, <1>n, <3>2 DEF Start, Exit, DeleteWebhook, BatchRejected, BatchUnstorable,
                              PersistFailed, SkipAborted, SkipDone, vars, telegram
    <3>3. QED
      BY <3>1, <3>2
  <2>3. Storing' => Storing /\ last' = last
    BY <1>3 DEF Start, Exit, DeleteWebhook, PollNothing, BatchRejected, BatchUnstorable,
                Retry, SkipAborted, SkipDone, Advance, vars, batch, Storing, Tables
  <2>4. QED
    BY <1>1, <2>1, <2>2, <2>3
<1>4. CASE PollBatch
  <2>1. /\ UNCHANGED <<stream, tables>> /\ gone' = Confirmed
        /\ last' = Min({Confirmed + Limit, Len(stream)})
    BY <1>4 DEF PollBatch
  <2>2. gone <= gone' /\ Confirmed \in Nat
    BY <1>0, <1>n, <2>1, ConfirmedBounds DEF TypeOK
  <2>3. last' \in {Confirmed + Limit, Len(stream)} /\ last' <= Confirmed + Limit
    BY <1>n, <2>1, <2>2, MinOfTwo
  <2>4. BatchReach'
    BY <2>1, <2>3 DEF BatchReach
  <2>5. OwnWrites(messages)' /\ OwnWrites(pending)'
    BY <1>0, <2>1 DEF OwnWrites, KeyOf, tables
  <2>6. WithinReach(messages)' /\ WithinReach(pending)'
    <3>1. /\ \A k \in Keys : messages[k] <= gone + Limit /\ pending[k] <= gone + Limit
          /\ messages' = messages /\ pending' = pending
      BY <1>0, <2>1 DEF WithinReach, tables
    <3>2. ASSUME NEW n \in 0..Len(stream), n <= gone + Limit
          PROVE  n <= gone' + Limit /\ n <= last'
      BY <1>n, <2>1, <2>2, <2>3, <3>2
    <3>3. \A k \in Keys : /\ messages[k] <= gone' + Limit /\ messages[k] <= last'
                          /\ pending[k] <= gone' + Limit /\ pending[k] <= last'
      BY <1>n, <3>1, <3>2
    <3>4. QED
      BY <3>1, <3>3 DEF WithinReach
  <2>7. QED
    BY <1>t, <2>4, <2>5, <2>6 DEF AbsorbInv
<1>5. ASSUME NEW ids \in SUBSET (first..last), \A i \in ids : stream[i].body, Storing,
             UNCHANGED <<stream, gone>>, Storing' => last' = last,
             \/ pending' = pending /\ messages' \in {messages, Upserted(messages, ids)}
             \/ messages' = messages /\ pending' = Upserted(pending, ids)
      PROVE  AbsorbInv'
  <2>1. /\ OwnWrites(messages') /\ OwnWrites(pending')
        /\ \A k \in Keys : /\ messages'[k] <= last /\ messages'[k] <= gone + Limit
                           /\ pending'[k] <= last /\ pending'[k] <= gone + Limit
    <3>1. /\ OwnWrites(Upserted(messages, ids)) /\ OwnWrites(Upserted(pending, ids))
          /\ \A k \in Keys : /\ Upserted(messages, ids)[k] <= last
                             /\ Upserted(messages, ids)[k] <= gone + Limit
                             /\ Upserted(pending, ids)[k] <= last
                             /\ Upserted(pending, ids)[k] <= gone + Limit
      <4>1. messages \in [Keys -> 0..Len(stream)] /\ pending \in [Keys -> 0..Len(stream)]
        BY <1>0 DEF TypeOK
      <4>2. QED
        BY <1>0, <1>5, <4>1, WriteWithinReach
    <3>2. QED
      BY <1>0, <1>5, <3>1 DEF WithinReach
  <2>2. OwnWrites(messages)' /\ OwnWrites(pending)'
    BY <1>5, <2>1 DEF OwnWrites, KeyOf
  <2>3. WithinReach(messages)' /\ WithinReach(pending)' /\ BatchReach'
    BY <1>0, <1>5, <2>1 DEF WithinReach, BatchReach
  <2>4. QED
    BY <1>t, <2>2, <2>3 DEF AbsorbInv
<1>6. CASE UpsertPendingBatch
  <2>1. Records("pending") \in SUBSET (first..last) /\ \A i \in Records("pending") : stream[i].body
    BY DEF Records, Route
  <2>2. QED
    BY <1>5, <1>6, <2>1 DEF UpsertPendingBatch, Storing, Tables, telegram, batch
<1>7. CASE UpsertBatch
  <2>1. Records("messages") \in SUBSET (first..last) /\ \A i \in Records("messages") : stream[i].body
    BY DEF Records, Route
  <2>2. QED
    BY <1>5, <1>7, <2>1 DEF UpsertBatch, Advance, Storing, Tables, telegram
<1>8. CASE SkipRecord
  <2>1. Storing /\ at \in first..last
    BY <1>0, <1>8 DEF SkipRecord, BatchOK, Storing, TypeOK
  <2>2. UNCHANGED <<stream, gone, last>>
    BY <1>8 DEF SkipRecord, telegram
  <2>3. CASE UNCHANGED tables
    <3>1. {} \in SUBSET (first..last) /\ \A i \in {} : stream[i].body
      OBVIOUS
    <3>2. pending' = pending /\ messages' = messages
      BY <2>3 DEF tables
    <3>3. QED
      BY <1>5, <2>1, <2>2, <3>1, <3>2
  <2>4. CASE /\ stream[at].body
             /\ \/ messages' = Upserted(messages, {at}) /\ pending' = pending
                \/ messages' = messages /\ pending' = Upserted(pending, {at})
    <3>1. {at} \in SUBSET (first..last) /\ \A i \in {at} : stream[i].body
      BY <2>1, <2>4
    <3>2. QED
      BY <1>5, <2>1, <2>2, <2>4, <3>1
  <2>5. QED
    BY <1>8, <2>3, <2>4 DEF SkipRecord, Route, tables
<1>9. QED
  BY <1>2, <1>3, <1>4, <1>6, <1>7, <1>8 DEF Next, Run

(* A batch stored again, whole or in part, undoes nothing: outside the     *)
(* message-by-message replay no row is ever replaced by an earlier write   *)
(* of its message, whatever was redelivered, cut off or aged out in        *)
(* between (ingest.go:104-189, store.go:164-236).                          *)
THEOREM RedeliveryIsAbsorbed == Spec => RedeliveryAbsorbed
<1> DEFINE Grows == pc # "skip" => \A k \in Keys : /\ messages'[k] >= messages[k]
                                                   /\ pending'[k] >= pending[k]
<1>1. AbsorbInv /\ [Next]_vars => Grows
  <2> SUFFICES ASSUME AbsorbInv, [Next]_vars, pc # "skip", NEW k \in Keys
               PROVE  messages'[k] >= messages[k] /\ pending'[k] >= pending[k]
    OBVIOUS
  <2>0. /\ TypeOK /\ BatchOK /\ OwnWrites(messages) /\ OwnWrites(pending)
        /\ WithinReach(messages) /\ WithinReach(pending)
    BY DEF AbsorbInv
  <2>1. /\ messages \in [Keys -> 0..Len(stream)] /\ pending \in [Keys -> 0..Len(stream)]
        /\ messages[k] \in Nat /\ pending[k] \in Nat /\ {"messages", "pending"} = Tables
    BY <2>0 DEF TypeOK, Tables
  <2>2. CASE UpsertPendingBatch
    <3>1. Storing /\ messages' = messages /\ pending' = Upserted(pending, Records("pending"))
      BY <2>2 DEF UpsertPendingBatch, Storing, Tables
    <3>2. Upserted(pending, Records("pending"))[k] >= pending[k]
      BY <2>0, <2>1, <3>1, WriteGrows
    <3>3. QED
      BY <2>1, <3>1, <3>2
  <2>3. CASE UpsertBatch
    <3>1. Storing /\ pending' = pending /\ messages' = Upserted(messages, Records("messages"))
      BY <2>3 DEF UpsertBatch, Storing, Tables
    <3>2. Upserted(messages, Records("messages"))[k] >= messages[k]
      BY <2>0, <2>1, <3>1, WriteGrows
    <3>3. QED
      BY <2>1, <3>1, <3>2
  <2>4. CASE UNCHANGED tables
    BY <2>1, <2>4 DEF tables
  <2>5. UpsertPendingBatch \/ UpsertBatch \/ UNCHANGED tables
    BY DEF Next, Run, Arrive, Expire, Exit, Start, DeleteWebhook, PollNothing, PollBatch,
           BatchRejected, BatchUnstorable, PersistFailed, SkipRecord, SkipAborted, SkipDone, vars
  <2>6. QED
    BY <2>2, <2>3, <2>4, <2>5
<1>2. Init => AbsorbInv
  BY AbsorbInit
<1>3. AbsorbInv /\ [Next]_vars => AbsorbInv'
  BY AbsorbStep
<1>4. QED
  BY <1>1, <1>2, <1>3, PTL DEF Spec, RedeliveryAbsorbed

(* Updates piling up behind a failing batch never reset its count: it only *)
(* falls when the process ends, the batch is settled, or another update    *)
(* has become the first of the queue (ingest.go:148-166).                  *)
THEOREM CountOutlivesGrowth == Spec => CountSurvivesGrowth
<1>1. TypeOK /\ BatchOK /\ PoisonOnly /\ [Next]_vars =>
        (storeFails' < storeFails =>
           pc' = "down" \/ offset' > failedFrom \/ first # failedFrom)
  <2> SUFFICES ASSUME TypeOK, BatchOK, PoisonOnly, [Next]_vars,
                      storeFails' < storeFails, pc' # "down", first = failedFrom
               PROVE  offset' > failedFrom
    OBVIOUS
  <2>1. storeFails \in Nat /\ storeFails <= Retries + 1 /\ Retries \in Nat
    BY IngestAssumption DEF IngestAssumption, TypeOK
  <2>2. storeFails' # storeFails
    BY <2>1
  <2>3. CASE BatchRejected \/ BatchUnstorable
    <3>1. storeFails' = Min({Retries + 1, storeFails + 1})
      BY <2>3 DEF BatchRejected, BatchUnstorable, PersistFailed, Fails
    <3>2. storeFails' \in {Retries + 1, storeFails + 1}
      BY <2>1, <3>1, MinOfTwo
    <3>3. QED
      BY <2>1, <3>2
  <2>4. CASE SkipDone
    <3>1. pc = "skip" /\ offset' = last + 1
      BY <2>4 DEF SkipDone, Advance
    <3>2. failedFrom = first /\ first <= last /\ first \in Nat /\ last \in Nat
      BY <3>1 DEF PoisonOnly, BatchOK, Storing, TypeOK
    <3>3. QED
      BY <3>1, <3>2
  <2>5. QED
    BY <2>2, <2>3, <2>4 DEF Next, Run, Arrive, Expire, Exit, Start, DeleteWebhook, PollNothing,
       PollBatch, UpsertPendingBatch, UpsertBatch, SkipRecord, SkipAborted, progress, vars
<1>2. Init => TypeOK /\ BatchOK /\ PoisonOnly
  <2>1. Init => PoisonOnly
    BY DEF Init, PoisonOnly
  <2>2. QED
    BY <2>1, InitType
<1>3. (TypeOK /\ BatchOK /\ PoisonOnly) /\ [Next]_vars => (TypeOK /\ BatchOK /\ PoisonOnly)'
  BY TypeStep, PoisonStep
<1>4. QED
  BY <1>1, <1>2, <1>3, PTL DEF Spec, CountSurvivesGrowth
=============================================================================
