---------------------------- MODULE ReadingProofs ---------------------------
(***************************************************************************)
(* The readers of the log, for any number of groups, messages and agents.  *)
(* Triage: its variables keep their types, a cursor never moves back       *)
(* behind an agent, and no message is taken off the list unseen.  History: *)
(* for any limit and any range, a client that follows the cursors reads    *)
(* every message once.  Search: whatever the texts and the query are, a    *)
(* message that spells the query out is found, and the loose pass answers  *)
(* only when there is none.  Thread: an answer that is not cut misses      *)
(* nothing, and a cut one is unbroken around the anchor.                   *)
(***************************************************************************)
EXTENDS Triage, History, Search, Thread, Traces, FiniteSetTheorems, SequenceTheorems

-----------------------------------------------------------------------------
(* The log *)

LEMMA StoredTyped ==
  ASSUME LogFacts, NEW i \in Stored
  PROVE  /\ i \in Ids /\ i \in 1..Len(written)
         /\ written[i].sent \in Nat \ {0} /\ row[i] \in Nat \ {0}
<1> USE LogAssumption DEF LogFacts
<1>1. i \in 1..Len(written) /\ row[i] # 0
  BY DEF Stored
<1>2. i \in Ids
  BY <1>1 DEF Ids
<1>3. written[i] \in Message
  BY <1>1
<1>4. written[i].sent \in Times
  BY <1>3 DEF Message
<1> QED
  BY <1>1, <1>2, <1>4 DEF Times

LEMMA StoredFinite ==
  ASSUME LogFacts, NEW S, S \subseteq Stored
  PROVE  IsFiniteSet(S) /\ Cardinality(S) \in Nat
<1>1. Len(written) \in Nat
  BY DEF LogFacts
<1>2. IsFiniteSet(1..Len(written))
  BY <1>1, FS_Interval
<1>3. S \in SUBSET (1..Len(written))
  BY DEF Stored
<1>4. IsFiniteSet(S)
  BY <1>2, <1>3, FS_Subset
<1> QED
  BY <1>4, FS_CardinalityType

(* ORDER BY sent, id puts any two stored messages in an order.             *)
LEMMA EarlierOrders ==
  ASSUME LogFacts
  PROVE  /\ \A i \in Stored : ~Earlier(i, i)
         /\ \A i, j \in Stored : i = j \/ Earlier(i, j) \/ Earlier(j, i)
         /\ \A i, j, k \in Stored : Earlier(i, j) /\ Earlier(j, k) => Earlier(i, k)
<1>1. \A i \in Stored : i \in Ids /\ written[i].sent \in Nat /\ row[i] \in Nat \ {0}
  BY StoredTyped
<1>2. \A i, j \in Stored : row[i] = row[j] => i = j
  BY <1>1 DEF LogFacts
<1> QED
  BY <1>1, <1>2 DEF Earlier

(* What was stored before a step of the log is stored after it, with the   *)
(* time and the row it had.                                                *)
LEMMA LogKeeps ==
  ASSUME LogFacts, LogNext
  PROVE  /\ LogFacts'
         /\ \A i \in Stored : /\ i \in Stored' /\ written'[i] = written[i]
                              /\ row'[i] = row[i]
<1> USE LogAssumption DEF LogFacts
<1>1. CASE Tick
  BY <1>1 DEF Tick, Times, Stored
<1>2. CASE Write
  <2>1. PICK m \in Messages : written' = Append(written, m)
    BY <1>2 DEF Write
  <2>2. /\ written' \in Seq(Messages) /\ Len(written') = Len(written) + 1
        /\ Len(written') <= MaxMessages
        /\ \A i \in 1..Len(written) : written'[i] = written[i]
    BY <1>2, <2>1 DEF Write
  <2>3. UNCHANGED <<now, row, lastRow>>
    BY <1>2 DEF Write
  <2>4. LogFacts'
    BY <2>2, <2>3
  <2>5. \A i \in Stored : i \in 1..Len(written) /\ row[i] # 0
    BY DEF Stored
  <2>6. \A i \in Stored : i \in Stored' /\ written'[i] = written[i] /\ row'[i] = row[i]
    BY <2>2, <2>3, <2>5 DEF Stored
  <2> QED
    BY <2>4, <2>6
<1>3. CASE Store
  <2>1. PICK k \in 1..Len(written) : row[k] = 0 /\ row' = [row EXCEPT ![k] = lastRow + 1]
    BY <1>3 DEF Store
  <2>2. lastRow' = lastRow + 1 /\ UNCHANGED <<now, written>>
    BY <1>3 DEF Store
  <2>3. k \in Ids
    BY DEF Ids
  <2>4. \A i \in Ids : row'[i] = IF i = k THEN lastRow + 1 ELSE row[i]
    BY <2>1
  <2>5. row' \in [Ids -> 0..lastRow']
    <3>1. \A i \in Ids : row'[i] \in 0..lastRow'
      BY <2>2, <2>4
    <3>2. row' = [i \in Ids |-> row'[i]]
      BY <2>1
    <3> QED
      BY <3>1, <3>2
  <2>6. \A i, j \in Ids : row'[i] # 0 /\ row'[i] = row'[j] => i = j
    BY <2>4
  <2>7. \A i \in Stored : i \in Ids /\ i # k
    BY <2>1 DEF Stored, Ids
  <2>8. \A i \in Stored : i \in Stored' /\ row'[i] = row[i]
    BY <2>2, <2>4, <2>7 DEF Stored
  <2> QED
    BY <2>2, <2>5, <2>6, <2>8
<1> QED
  BY <1>1, <1>2, <1>3 DEF LogNext

-----------------------------------------------------------------------------
(* Triage *)

TriageMove == (LogNext /\ UNCHANGED triage) \/ TriageNext

(* Message ids follow dates; what is not written has no row. *)
InOrder ==
  /\ \A i, j \in 1..Len(written) : i < j => written[i].sent <= written[j].sent
  /\ \A i \in 1..Len(written) : written[i].sent <= now
  /\ \A i \in Ids : i > Len(written) => row[i] = 0

(* A cursor, and what a mark is about to set it to, is a stored message of *)
(* the group.                                                              *)
CursorsStored ==
  /\ \A c \in Chats : cursors[c] # 0 => cursors[c] \in Stored /\ written[cursors[c]].chat = c
  /\ \A a \in Agents : marking[a] # Nobody =>
       marking[a].id \in Stored /\ written[marking[a].id].chat = marking[a].chat

(* Neither seen nor stored out of order. *)
Unseen(i) == i \in Stored /\ ~written[i].bot /\ i \notin shown /\ ~Late(i)

(* What nobody has seen lies above the cursor, above every page of its     *)
(* group and above every mark under way.                                   *)
UnseenAbove ==
  \A i \in Stored : Unseen(i) =>
    /\ cursors[written[i].chat] < i
    /\ \A a \in Agents : \A p \in page[a] : written[p].chat = written[i].chat => p < i
    /\ \A a \in Agents : marking[a] # Nobody /\ marking[a].chat = written[i].chat => marking[a].id < i

TriageInv == TriageTypeOK /\ InOrder /\ CursorsStored /\ UnseenAbove

-----------------------------------------------------------------------------
LEMMA InitInv == LogInit /\ TriageInit => TriageInv
<1> SUFFICES ASSUME LogInit, TriageInit PROVE TriageInv
  OBVIOUS
<1> USE LogAssumption DEF LogInit, TriageInit, Ids
<1>1. Stored = {}
  BY DEF Stored
<1>2. TriageTypeOK
  BY <1>1 DEF TriageTypeOK, Times
<1>3. InOrder
  BY DEF InOrder
<1>4. CursorsStored
  BY DEF CursorsStored
<1>5. UnseenAbove
  BY <1>1 DEF UnseenAbove
<1> QED
  BY <1>2, <1>3, <1>4, <1>5 DEF TriageInv

LEMMA WrittenTyped ==
  ASSUME TriageTypeOK
  PROVE  \A i \in 1..Len(written) :
           written[i].chat \in Chats /\ written[i].sent \in Nat /\ written[i].bot \in BOOLEAN
<1>1. written \in Seq(Messages)
  BY DEF TriageTypeOK
<1>2. \A m \in Messages : m.chat \in Chats /\ m.sent \in Times /\ m.bot \in BOOLEAN
  <2>1. \A m \in Message : m.chat \in Chats /\ m.sent \in Times /\ m.bot \in BOOLEAN
    BY DEF Message
  <2> QED
    BY <2>1, LogAssumption
<1>3. Times \subseteq Nat
  BY LogAssumption DEF Times
<1>4. \A i \in 1..Len(written) : written[i] \in Messages
  BY <1>1
<1> QED
  BY <1>2, <1>3, <1>4

(* A tick and a write leave the stored messages as they were. *)
LEMMA WriteKeeps ==
  ASSUME TriageTypeOK, InOrder, Write
  PROVE  /\ Stored' = Stored
         /\ \A i \in 1..Len(written) : written'[i] = written[i]
         /\ Len(written') = Len(written) + 1
         /\ written' \in Seq(Messages)
         /\ written'[Len(written) + 1].sent = now
<1> USE LogAssumption DEF Write, TriageTypeOK, InOrder, Ids
<1>1. PICK m \in Messages : m.sent = now /\ written' = Append(written, m)
  OBVIOUS
<1>2. \A i \in 1..Len(written) : written'[i] = written[i]
  BY <1>1
<1>3. Len(written') = Len(written) + 1 /\ written'[Len(written) + 1] = m /\ written' \in Seq(Messages)
  BY <1>1
<1>4. Stored' = Stored
  <2>1. row' = row /\ Len(written') <= MaxMessages /\ Len(written) \in Nat
    BY <1>3
  <2>2. row[Len(written) + 1] = 0
    BY <2>1, <1>3
  <2> QED
    BY <1>3, <2>1, <2>2 DEF Stored
<1> QED
  BY <1>1, <1>2, <1>3, <1>4
(* So they change nothing the invariant says of pages, cursors and marks.  *)
LEMMA LogStepKeeps ==
  ASSUME TriageInv, UNCHANGED triage, UNCHANGED <<row, lastRow>>,
         Stored' = Stored, InOrder', now' \in Times,
         written' \in Seq(Messages), Len(written') <= MaxMessages,
         Len(written) <= Len(written'),
         \A i \in 1..Len(written) : written'[i] = written[i]
  PROVE  TriageInv'
<1> USE DEF triage
<1>1. \A i \in Stored : i \in 1..Len(written) /\ written'[i] = written[i]
  BY DEF Stored
<1>2. TriageTypeOK'
  BY DEF TriageInv, TriageTypeOK
<1>3. CursorsStored'
  BY <1>1 DEF TriageInv, CursorsStored
<1>4. UnseenAbove'
  <2>1. \A i \in Stored : Late(i)' <=> Late(i)
    BY <1>1 DEF Late
  <2>2. \A i \in Stored : Unseen(i)' <=> Unseen(i)
    BY <1>1, <2>1 DEF Unseen
  <2>3. \A a \in Agents : \A p \in page[a] : p \in Stored
    BY DEF TriageInv, TriageTypeOK
  <2> QED
    BY <1>1, <2>2, <2>3 DEF TriageInv, UnseenAbove
<1> QED
  BY <1>2, <1>3, <1>4 DEF TriageInv

LEMMA TickInv == TriageInv /\ Tick /\ UNCHANGED triage => TriageInv'
<1> SUFFICES ASSUME TriageInv, Tick, UNCHANGED triage PROVE TriageInv'
  OBVIOUS
<1> USE LogAssumption
<1>1. written' = written /\ row' = row /\ lastRow' = lastRow /\ now' = now + 1 /\ now < MaxTime
  BY DEF Tick
<1>2. Stored' = Stored
  BY <1>1 DEF Stored
<1>3. now \in Nat /\ now' \in Times
  BY <1>1 DEF TriageInv, TriageTypeOK, Times
<1>4. \A i \in 1..Len(written) : written[i].sent \in Nat
  BY WrittenTyped DEF TriageInv
<1>5. InOrder'
  BY <1>1, <1>3, <1>4 DEF TriageInv, InOrder
<1> QED
  BY <1>1, <1>2, <1>3, <1>5, LogStepKeeps DEF TriageInv, TriageTypeOK

LEMMA WriteInv == TriageInv /\ Write /\ UNCHANGED triage => TriageInv'
<1> SUFFICES ASSUME TriageInv, Write, UNCHANGED triage PROVE TriageInv'
  OBVIOUS
<1> USE LogAssumption
<1>1. /\ Stored' = Stored
      /\ \A i \in 1..Len(written) : written'[i] = written[i]
      /\ Len(written') = Len(written) + 1
      /\ written' \in Seq(Messages)
      /\ written'[Len(written) + 1].sent = now
  BY WriteKeeps DEF TriageInv
<1>2. /\ now' = now /\ row' = row /\ lastRow' = lastRow
      /\ Len(written) < MaxMessages /\ Len(written) \in Nat /\ now \in Times
  BY DEF Write, TriageInv, TriageTypeOK
<1>3. \A i \in 1..Len(written) : written[i].sent <= now
  BY DEF TriageInv, InOrder
<1>4. now <= now
  BY <1>2 DEF Times
<1>5. InOrder'
  <2>1. \A i \in 1..Len(written') : i \in 1..Len(written) \/ i = Len(written) + 1
    BY <1>1, <1>2
  <2>2. \A i \in 1..Len(written') : written'[i].sent <= now'
    BY <1>1, <1>2, <1>3, <1>4, <2>1
  <2>3. ASSUME NEW i \in 1..Len(written'), NEW j \in 1..Len(written'), i < j
        PROVE  written'[i].sent <= written'[j].sent
    <3>1. i \in 1..Len(written)
      BY <2>1, <2>3, <1>1, <1>2
    <3>2. CASE j \in 1..Len(written)
      BY <3>1, <3>2, <2>3, <1>1 DEF TriageInv, InOrder
    <3>3. CASE j = Len(written) + 1
      BY <3>1, <3>3, <1>1, <1>3
    <3> QED
      BY <3>2, <3>3, <2>1
  <2>4. \A i \in Ids : i > Len(written') => row'[i] = 0
    BY <1>1, <1>2 DEF TriageInv, InOrder, Ids
  <2> QED
    BY <2>2, <2>3, <2>4 DEF InOrder
<1> QED
  BY <1>1, <1>2, <1>5, LogStepKeeps

(* A row for a message that had none: if anything of its group that was    *)
(* listed, or marked, was written after it, it is late.                    *)
LEMMA StoreInv == TriageInv /\ Store /\ UNCHANGED triage => TriageInv'
<1> SUFFICES ASSUME TriageInv, Store, UNCHANGED triage PROVE TriageInv'
  OBVIOUS
<1> USE LogAssumption DEF triage
<1>1. PICK n \in 1..Len(written) : row[n] = 0 /\ row' = [row EXCEPT ![n] = lastRow + 1]
  BY DEF Store
<1>2. lastRow' = lastRow + 1 /\ now' = now /\ written' = written
  BY DEF Store
<1>3. n \in Ids /\ Len(written) <= MaxMessages /\ Len(written) \in Nat
  BY <1>1 DEF TriageInv, TriageTypeOK, Ids
<1>4. lastRow \in Nat /\ row \in [Ids -> 0..lastRow]
  BY DEF TriageInv, TriageTypeOK
<1>5. row'[n] = lastRow + 1 /\ \A i \in Ids : i # n => row'[i] = row[i]
  BY <1>1, <1>3, <1>4
<1>6. Stored \subseteq Ids /\ n \notin Stored
  BY <1>1, <1>3 DEF Stored, Ids
<1>7. Stored' = Stored \union {n}
  <2>1. \A i \in 1..Len(written) : i \in Ids
    BY <1>3 DEF Ids
  <2> QED
    BY <1>1, <1>2, <1>4, <1>5, <2>1 DEF Stored
<1>8. TriageTypeOK'
  <2>1. row' \in [Ids -> 0..lastRow']
    BY <1>1, <1>2, <1>3, <1>4
  <2> QED
    BY <1>2, <1>4, <1>7, <2>1 DEF TriageInv, TriageTypeOK
<1>9. InOrder'
  BY <1>1, <1>2, <1>3, <1>5 DEF TriageInv, InOrder
<1>10. CursorsStored'
  BY <1>2, <1>7 DEF TriageInv, CursorsStored
<1>11. ASSUME NEW i \in Stored, Late(i) PROVE Late(i)'
  BY <1>2, <1>5, <1>6, <1>7, <1>11 DEF Late
<1>12. ASSUME NEW j \in Stored, written[j].chat = written[n].chat, j > n PROVE Late(n)'
  <2>1. j \in Ids /\ j # n /\ row[j] \in 0..lastRow
    BY <1>4, <1>6
  <2>2. row'[j] < row'[n]
    BY <1>4, <1>5, <2>1
  <2> QED
    BY <1>2, <1>7, <1>12, <2>2 DEF Late
<1>13. UnseenAbove'
  <2> SUFFICES ASSUME NEW i \in Stored', Unseen(i)'
               PROVE  /\ cursors[written[i].chat] < i
                      /\ \A a \in Agents : \A p \in page[a] : written[p].chat = written[i].chat => p < i
                      /\ \A a \in Agents :
                           marking[a] # Nobody /\ marking[a].chat = written[i].chat => marking[a].id < i
    BY <1>2 DEF UnseenAbove
  <2>1. CASE i \in Stored
    BY <2>1, <1>2, <1>11 DEF Unseen, TriageInv, UnseenAbove
  <2>2. CASE i = n
    <3>1. \A j \in Stored : written[j].chat = written[n].chat => j < n
      <4>1. ~Late(n)'
        BY <2>2 DEF Unseen
      <4>2. \A j \in Stored : j \in Nat /\ j # n
        BY <1>6 DEF Ids
      <4>3. n \in Nat /\ \A j \in Stored : written[j].chat = written[n].chat => ~(j > n)
        BY <1>1, <1>12, <4>1
      <4>4. QED
        BY <4>2, <4>3
    <3>2. \A a \in Agents : \A p \in page[a] : p \in Stored
      BY DEF TriageInv, TriageTypeOK
    <3>3. written[n].chat \in Chats /\ n > 0
      BY WrittenTyped DEF TriageInv
    <3>4. cursors[written[n].chat] \in Nat
      BY <3>3 DEF TriageInv, TriageTypeOK
    <3>5. cursors[written[n].chat] < n
      BY <3>1, <3>3, <3>4 DEF TriageInv, CursorsStored
    <3>6. \A a \in Agents : marking[a] # Nobody /\ marking[a].chat = written[n].chat => marking[a].id < n
      BY <3>1 DEF TriageInv, CursorsStored
    <3> QED
      BY <2>2, <3>1, <3>2, <3>5, <3>6
  <2> QED
    BY <2>1, <2>2, <1>7
<1> QED
  BY <1>8, <1>9, <1>10, <1>13 DEF TriageInv
-----------------------------------------------------------------------------
(* Whoever a page leaves out comes after all of it.                        *)
LEMMA ListNewInv == ASSUME NEW a \in Agents, TriageInv, ListNew(a) PROVE TriageInv'
<1> USE LogAssumption
<1>1. PICK chats \in {Chats} \union {{c} : c \in Chats}, P \in SUBSET Stored :
        /\ P \subseteq Unread(chats)
        /\ \A i \in P, j \in Unread(chats) \ P : Earlier(i, j)
        /\ page' = [page EXCEPT ![a] = P]
        /\ shown' = shown \union P
  BY DEF ListNew, IsListing, Unread
<1>2. UNCHANGED <<now, written, row, lastRow, cursors, marking, told>>
  BY DEF ListNew, log
<1>3. Stored' = Stored /\ Unread(chats) \subseteq Stored
  BY <1>2 DEF Stored, Unread
<1>4. page \in [Agents -> SUBSET Stored] /\ shown \subseteq Stored
  BY DEF TriageInv, TriageTypeOK
<1>5. page'[a] = P /\ \A b \in Agents : b # a => page'[b] = page[b]
  BY <1>1, <1>4
<1>6. TriageTypeOK'
  <2>1. page' \in [Agents -> SUBSET Stored'] /\ shown' \subseteq Stored'
    BY <1>1, <1>3, <1>4
  <2> QED
    BY <1>2, <1>3, <2>1 DEF TriageInv, TriageTypeOK
<1>7. InOrder'
  BY <1>2 DEF TriageInv, InOrder
<1>8. CursorsStored'
  BY <1>2, <1>3 DEF TriageInv, CursorsStored
<1>9. \A i \in Stored : Late(i)' <=> Late(i)
  BY <1>2, <1>3 DEF Late
<1>10. ASSUME NEW i \in Stored, Unseen(i)' PROVE Unseen(i) /\ i \notin P
  BY <1>1, <1>2, <1>9, <1>10 DEF Unseen
<1>11. ASSUME NEW i \in Stored, Unseen(i), i \notin P,
              NEW p \in P, written[p].chat = written[i].chat
       PROVE  p < i
  <2>1. i \in 1..Len(written) /\ p \in 1..Len(written) /\ Len(written) <= MaxMessages /\ p \in Stored
    BY <1>3 DEF Stored, TriageInv, TriageTypeOK
  <2>2. i \in Nat /\ p \in Nat /\ i # p /\ i \in Ids /\ p \in Ids
    BY <2>1, <1>11 DEF Ids, TriageInv, TriageTypeOK
  <2>3. written[p].chat \in chats
    BY <1>1 DEF Unread
  <2>4. i \in Unread(chats)
    <3>1. cursors[written[i].chat] < i
      BY <1>11 DEF TriageInv, UnseenAbove
    <3> QED
      BY <1>11, <2>3, <3>1 DEF Unread, Unseen, TriageInv, TriageTypeOK
  <2>5. Earlier(p, i)
    BY <1>1, <1>11, <2>4
  <2>6. SUFFICES ASSUME i < p PROVE FALSE
    BY <2>2
  <2>7. written[i].sent <= written[p].sent
    BY <2>1, <2>6 DEF TriageInv, InOrder
  <2>8. written[i].sent \in Nat /\ written[p].sent \in Nat
    BY <2>1, WrittenTyped DEF TriageInv
  <2>9. row[p] < row[i]
    BY <2>5, <2>7, <2>8 DEF Earlier
  <2> QED
    BY <1>11, <2>1, <2>6, <2>9 DEF Unseen, Late
<1>12. UnseenAbove'
  <2> SUFFICES ASSUME NEW i \in Stored, Unseen(i)'
               PROVE  /\ cursors[written[i].chat] < i
                      /\ \A b \in Agents : \A p \in page'[b] : written[p].chat = written[i].chat => p < i
                      /\ \A b \in Agents :
                           marking[b] # Nobody /\ marking[b].chat = written[i].chat => marking[b].id < i
    BY <1>2, <1>3 DEF UnseenAbove
  <2>1. Unseen(i) /\ i \notin P
    BY <1>10
  <2>2. \A b \in Agents : \A p \in page[b] : written[p].chat = written[i].chat => p < i
    BY <2>1 DEF TriageInv, UnseenAbove
  <2>3. \A p \in P : written[p].chat = written[i].chat => p < i
    BY <2>1, <1>11
  <2> QED
    BY <2>1, <2>2, <2>3, <1>5 DEF TriageInv, UnseenAbove
<1> QED
  BY <1>6, <1>7, <1>8, <1>12 DEF TriageInv

LEMMA LookUpInv == ASSUME NEW a \in Agents, TriageInv, LookUp(a) PROVE TriageInv'
<1> USE LogAssumption
<1>1. PICK c \in Chats, n \in page[a] :
        /\ n \in Stored /\ written[n].chat = c
        /\ marking' = [marking EXCEPT ![a] = [chat |-> c, id |-> n]]
  BY DEF LookUp
<1>2. UNCHANGED <<now, written, row, lastRow, cursors, page, shown, told>>
  BY DEF LookUp, log
<1>3. Stored' = Stored
  BY <1>2 DEF Stored
<1>4. marking \in [Agents -> Marks \union {Nobody}]
  BY DEF TriageInv, TriageTypeOK
<1>5. marking'[a] = [chat |-> c, id |-> n] /\ \A b \in Agents : b # a => marking'[b] = marking[b]
  BY <1>1, <1>4
<1>6. n \in Ids
  BY <1>1 DEF Stored, Ids, TriageInv, TriageTypeOK
<1>7. TriageTypeOK'
  <2>1. marking' \in [Agents -> Marks \union {Nobody}]
    BY <1>1, <1>4, <1>6 DEF Marks
  <2> QED
    BY <1>2, <1>3, <2>1 DEF TriageInv, TriageTypeOK
<1>8. InOrder'
  BY <1>2 DEF TriageInv, InOrder
<1>9. CursorsStored'
  BY <1>1, <1>2, <1>3, <1>5 DEF TriageInv, CursorsStored
<1>10. UnseenAbove'
  <2>1. \A i \in Stored : Late(i)' <=> Late(i)
    BY <1>2, <1>3 DEF Late
  <2>2. \A i \in Stored : Unseen(i)' <=> Unseen(i)
    BY <1>2, <1>3, <2>1 DEF Unseen
  <2>3. ASSUME NEW i \in Stored, Unseen(i), NEW b \in Agents,
               marking'[b] # Nobody, marking'[b].chat = written[i].chat
        PROVE  marking'[b].id < i
    BY <1>1, <1>5, <2>3 DEF TriageInv, UnseenAbove
  <2> QED
    BY <1>2, <1>3, <2>2, <2>3 DEF TriageInv, UnseenAbove
<1> QED
  BY <1>7, <1>8, <1>9, <1>10 DEF TriageInv

(* A mark that ends, whether or not it moved the cursor. *)
LEMMA MarkEnds ==
  ASSUME NEW a \in Agents, TriageInv, marking[a] # Nobody,
         marking' = [marking EXCEPT ![a] = Nobody],
         UNCHANGED <<log, page, shown>>,
         \/ cursors' = cursors
         \/ cursors' = [cursors EXCEPT ![marking[a].chat] = Further(cursors[marking[a].chat], marking[a].id)],
         told' \in [Chats -> 0..MaxMessages]
  PROVE  TriageInv'
<1> USE LogAssumption
<1>1. UNCHANGED <<now, written, row, lastRow, page, shown>>
  BY DEF log
<1>2. Stored' = Stored
  BY <1>1 DEF Stored
<1>3. marking \in [Agents -> Marks \union {Nobody}] /\ cursors \in [Chats -> 0..MaxMessages]
  BY DEF TriageInv, TriageTypeOK
<1>4. marking'[a] = Nobody /\ \A b \in Agents : b # a => marking'[b] = marking[b]
  BY <1>3
<1>5. marking[a].chat \in Chats /\ marking[a].id \in Ids
  BY <1>3 DEF Marks
<1>6. ASSUME NEW c \in Chats
      PROVE  \/ cursors'[c] = cursors[c]
             \/ c = marking[a].chat /\ cursors'[c] = marking[a].id
  BY <1>3, <1>5 DEF Further
<1>7. cursors' \in [Chats -> 0..MaxMessages]
  BY <1>3, <1>5 DEF Further, Ids
<1>8. TriageTypeOK'
  <2>1. marking' \in [Agents -> Marks \union {Nobody}]
    BY <1>3
  <2> QED
    BY <1>1, <1>2, <1>7, <2>1 DEF TriageInv, TriageTypeOK
<1>9. InOrder'
  BY <1>1 DEF TriageInv, InOrder
<1>10. CursorsStored'
  BY <1>1, <1>2, <1>4, <1>6 DEF TriageInv, CursorsStored
<1>11. UnseenAbove'
  <2>1. \A i \in Stored : Late(i)' <=> Late(i)
    BY <1>1, <1>2 DEF Late
  <2>2. \A i \in Stored : Unseen(i)' <=> Unseen(i)
    BY <1>1, <1>2, <2>1 DEF Unseen
  <2>3. \A i \in Stored : written[i].chat \in Chats
    BY WrittenTyped DEF TriageInv, Stored
  <2>4. ASSUME NEW i \in Stored, Unseen(i) PROVE cursors'[written[i].chat] < i
    BY <1>6, <2>3, <2>4 DEF TriageInv, UnseenAbove
  <2>5. ASSUME NEW i \in Stored, Unseen(i), NEW b \in Agents,
               marking'[b] # Nobody, marking'[b].chat = written[i].chat
        PROVE  marking'[b].id < i
    BY <1>4, <2>5 DEF TriageInv, UnseenAbove
  <2> QED
    BY <1>1, <1>2, <2>2, <2>4, <2>5 DEF TriageInv, UnseenAbove
<1> QED
  BY <1>8, <1>9, <1>10, <1>11 DEF TriageInv

LEMMA SetCursorInv == ASSUME NEW a \in Agents, TriageInv, SetCursor(a) PROVE TriageInv'
<1> USE LogAssumption
<1>1. told \in [Chats -> 0..MaxMessages] /\ cursors \in [Chats -> 0..MaxMessages]
  BY DEF TriageInv, TriageTypeOK
<1>2. marking[a] \in Marks
  BY DEF SetCursor, TriageInv, TriageTypeOK
<1>3. told' \in [Chats -> 0..MaxMessages]
  BY <1>1, <1>2 DEF SetCursor, Marks, Further, Ids
<1> QED
  BY <1>3, MarkEnds DEF SetCursor

LEMMA MarkFailsInv == ASSUME NEW a \in Agents, TriageInv, MarkFails(a) PROVE TriageInv'
  BY MarkEnds DEF MarkFails, TriageInv, TriageTypeOK

LEMMA StutterInv == TriageInv /\ UNCHANGED tvars => TriageInv'
<1> SUFFICES ASSUME TriageInv, UNCHANGED tvars PROVE TriageInv'
  OBVIOUS
<1>1. UNCHANGED <<now, written, row, lastRow, cursors, page, marking, shown, told>>
  BY DEF tvars, log, triage
<1>2. Stored' = Stored
  BY <1>1 DEF Stored
<1>3. \A i \in Stored : Late(i)' <=> Late(i)
  BY <1>1, <1>2 DEF Late
<1> QED
  BY <1>1, <1>2, <1>3 DEF TriageInv, TriageTypeOK, InOrder, CursorsStored, UnseenAbove, Unseen

(* TriageInv is inductive. *)
THEOREM TriageInvariant == TriageSpec => []TriageInv
<1>1. LogInit /\ TriageInit => TriageInv
  BY InitInv
<1>2. TriageInv /\ [TriageMove]_tvars => TriageInv'
  <2> SUFFICES ASSUME TriageInv, [TriageMove]_tvars PROVE TriageInv'
    OBVIOUS
  <2>1. CASE LogNext /\ UNCHANGED triage
    BY <2>1, TickInv, WriteInv, StoreInv DEF LogNext
  <2>2. CASE TriageNext
    BY <2>2, ListNewInv, LookUpInv, SetCursorInv, MarkFailsInv DEF TriageNext
  <2>3. CASE UNCHANGED tvars
    BY <2>3, StutterInv
  <2> QED
    BY <2>1, <2>2, <2>3 DEF TriageMove
<1> QED
  BY <1>1, <1>2, PTL DEF TriageSpec, TriageMove

(* The triage cursor, pages and marks keep their types (store.go:324-401,  *)
(* tools.go:361-414).                                                      *)
THEOREM TriageTypeCorrect == TriageSpec => []TriageTypeOK
<1>1. TriageInv => TriageTypeOK
  BY DEF TriageInv
<1> QED
  BY <1>1, TriageInvariant, PTL

(* However many agents list and mark, a message at or below its cursor was *)
(* shown to somebody or was stored out of order (store.go:353-401).        *)
THEOREM NothingIsHidden == TriageSpec => []NothingHidden
<1>1. TriageInv => NothingHidden
  <2> SUFFICES ASSUME TriageInv, NEW i \in Stored, ~written[i].bot, i <= cursors[written[i].chat],
                      i \notin shown, ~Late(i)
               PROVE  FALSE
    BY DEF NothingHidden
  <2>1. cursors[written[i].chat] < i
    BY DEF TriageInv, UnseenAbove, Unseen
  <2>2. i \in 1..Len(written) /\ Len(written) \in Nat
    BY DEF Stored, TriageInv, TriageTypeOK
  <2>3. written[i].chat \in Chats
    BY <2>2, WrittenTyped DEF TriageInv
  <2>4. cursors[written[i].chat] \in 0..MaxMessages
    BY <2>3 DEF TriageInv, TriageTypeOK
  <2> QED
    BY <2>1, <2>2, <2>4, LogAssumption
<1> QED
  BY <1>1, TriageInvariant, PTL

(* What anybody was told is handled stays below the cursor, whichever      *)
(* marks overlap (store.go:338-351).                                       *)
THEOREM HandledStaysHandled == TriageSpec => []HandledStays
<1>1. LogInit /\ TriageInit => HandledStays
  BY LogAssumption DEF TriageInit, HandledStays
<1>2. TriageInv /\ HandledStays /\ [TriageMove]_tvars => HandledStays'
  <2> SUFFICES ASSUME TriageInv, HandledStays, [TriageMove]_tvars PROVE HandledStays'
    OBVIOUS
  <2>1. told \in [Chats -> 0..MaxMessages] /\ cursors \in [Chats -> 0..MaxMessages]
    BY DEF TriageInv, TriageTypeOK
  <2>2. ASSUME NEW a \in Agents, SetCursor(a) PROVE HandledStays'
    <3>1. marking[a] \in Marks
      BY <2>2 DEF SetCursor, TriageInv, TriageTypeOK
    <3> DEFINE m == marking[a]
               at == Further(cursors[m.chat], m.id)
    <3>2. /\ cursors' = [cursors EXCEPT ![m.chat] = at]
          /\ told' = [told EXCEPT ![m.chat] = IF at > @ THEN at ELSE @]
      BY <2>2 DEF SetCursor
    <3>9. m \in Marks
      BY <3>1
    <3> HIDE DEF m
    <3>3. m.chat \in Chats /\ m.id \in Nat /\ at >= cursors[m.chat] /\ at \in Nat
      BY <2>1, <3>1, <3>9, LogAssumption DEF Marks, Ids, Further
    <3>4. \A c \in Chats : told[c] \in Nat /\ cursors[c] \in Nat /\ told[c] <= cursors[c]
      BY <2>1, LogAssumption DEF HandledStays
    <3>5. told'[m.chat] <= cursors'[m.chat]
      BY <2>1, <3>2, <3>3, <3>4
    <3>6. \A c \in Chats \ {m.chat} : told'[c] = told[c] /\ cursors'[c] = cursors[c]
      BY <2>1, <3>2
    <3> QED
      BY <3>4, <3>5, <3>6 DEF HandledStays
  <2>3. CASE UNCHANGED <<cursors, told>>
    BY <2>3 DEF HandledStays
  <2> QED
    BY <2>2, <2>3 DEF TriageMove, triage, tvars, TriageNext, ListNew, LookUp, MarkFails
<1> QED
  BY <1>1, <1>2, TriageInvariant, PTL DEF TriageSpec, TriageMove

-----------------------------------------------------------------------------
(* History *)

HistoryMove == (LogNext /\ UNCHANGED history) \/ HistoryNext

(* A cursor splits the table: what was read does not lie before it, and    *)
(* what is still due does.                                                 *)
CursorFits ==
  before # NoCursor =>
    /\ before \in [sent : Nat, row : Nat]
    /\ \A n \in 1..Len(pages) : \A i \in pages[n] : ~Older(i, before)
    /\ \A i \in due : Older(i, before) \/ \E n \in 1..Len(pages) : i \in pages[n]

HistoryInv ==
  /\ LogFacts
  /\ request \in Requests
  /\ due \subseteq InRange(request, request.from)
  /\ pages \in Seq(SUBSET Stored)
  /\ CursorFits
  /\ NothingSkipped
  /\ PagesGoBack

-----------------------------------------------------------------------------
(* So a step of the log leaves the order of what is stored, what is older  *)
(* than a cursor, and what a range holds already, as they were.            *)
LEMMA LogStepWalk ==
  ASSUME HistoryInv, LogNext, UNCHANGED history
  PROVE  HistoryInv'
<1>1. /\ LogFacts'
      /\ \A i \in Stored : /\ i \in Stored' /\ written'[i] = written[i]
                           /\ row'[i] = row[i]
  BY LogKeeps DEF HistoryInv
<1>2. UNCHANGED <<request, before, pages, due>>
  BY DEF history
<1>3. (request \in Requests)'
  BY <1>2 DEF HistoryInv, Requests
<1>4. due \subseteq Stored /\ \A n \in 1..Len(pages) : pages[n] \subseteq Stored
  BY DEF HistoryInv, InRange
<1>5. (due \subseteq InRange(request, request.from))'
  BY <1>1, <1>2 DEF HistoryInv, InRange
<1>6. (pages \in Seq(SUBSET Stored))'
  <2>1. Stored \subseteq Stored'
    BY <1>1
  <2>2. pages \in Seq(SUBSET Stored)
    BY DEF HistoryInv
  <2>3. pages \in Seq(SUBSET (Stored'))
    BY <2>1, <2>2
  <2> QED
    BY <2>3, <1>2
<1>7. \A i \in Stored : Older(i, before)' <=> Older(i, before)
  BY <1>1, <1>2 DEF Older
<1>8. CursorFits'
  BY <1>2, <1>4, <1>7 DEF HistoryInv, CursorFits
<1>9. NothingSkipped'
  BY <1>2 DEF HistoryInv, NothingSkipped, NoCursor
<1>10. PagesGoBack'
  BY <1>1, <1>2, <1>4 DEF HistoryInv, PagesGoBack, Earlier
<1> QED
  BY <1>1, <1>3, <1>5, <1>6, <1>8, <1>9, <1>10 DEF HistoryInv

-----------------------------------------------------------------------------
(* What a page leaves of the listing it cuts lies before its cursor, and   *)
(* what it holds does not.  Without a cursor it leaves nothing.            *)
LEMMA CursorSplits ==
  ASSUME LogFacts, NEW S, S \subseteq Stored, NEW limit \in Nat, NEW P, NEW cursor,
         IsPage(S, limit, P), NextCursor(P, limit, cursor)
  PROVE  /\ cursor = NoCursor \/ cursor \in [sent : Nat, row : Nat]
         /\ cursor = NoCursor => P = S
         /\ cursor # NoCursor => /\ \A i \in P : ~Older(i, cursor)
                                /\ \A i \in S \ P : Older(i, cursor)
<1>1. CASE Cardinality(P) < limit /\ cursor = NoCursor
  BY <1>1 DEF IsPage
<1>2. CASE \E i \in P : /\ \A j \in P \ {i} : Earlier(i, j)
                        /\ cursor = [sent |-> written[i].sent, row |-> row[i]]
  <2>1. PICK i \in P : /\ \A j \in P \ {i} : Earlier(i, j)
                      /\ cursor = [sent |-> written[i].sent, row |-> row[i]]
    BY <1>2
  <2>2. \A j \in S : written[j].sent \in Nat \ {0} /\ row[j] \in Nat \ {0}
    BY StoredTyped
  <2>3. P \subseteq S
    BY DEF IsPage
  <2>4. cursor \in [sent : Nat, row : Nat] /\ cursor # NoCursor
    BY <2>1, <2>2, <2>3 DEF NoCursor
  <2>5. cursor.sent = written[i].sent /\ cursor.row = row[i]
    BY <2>1
  <2>6. \A j \in P : ~Older(j, cursor)
    BY <2>1, <2>2, <2>3, <2>4, <2>5 DEF Older, Earlier
  <2>7. \A j \in S \ P : Older(j, cursor)
    BY <2>1, <2>2, <2>3, <2>5 DEF Older, Earlier, IsPage
  <2> QED
    BY <2>4, <2>6, <2>7
<1> QED
  BY <1>1, <1>2 DEF NextCursor

LEMMA FirstStep ==
  ASSUME HistoryInv, pages = <<>>, NEW r \in Requests, FirstPage(r)
  PROVE  HistoryInv'
<1> DEFINE S == InRange(r, DefaultFrom(r))
<1>1. PICK P \in SUBSET S :
        /\ IsPage(S, r.limit, P) /\ pages' = Append(pages, P) /\ NextCursor(P, r.limit, before')
  BY DEF FirstPage, ReadPage
<1>2. UNCHANGED <<now, written, row, lastRow>> /\ request' = r
  BY DEF FirstPage, log
<1>3. LogFacts /\ LogFacts'
  BY <1>2 DEF HistoryInv, LogFacts
<1>4. r.from \in Nat /\ r.to \in Nat /\ r.limit \in Nat
  BY LogAssumption, HistoryAssumption DEF Requests
<1>5. S \subseteq Stored
  BY DEF InRange
<1>6. due' = S
  BY DEF FirstPage, DefaultFrom
<1>7. pages' = <<P>> /\ Len(pages') = 1 /\ pages'[1] = P
  BY <1>1
<1>8. /\ before' = NoCursor \/ before' \in [sent : Nat, row : Nat]
      /\ before' = NoCursor => P = S
      /\ before' # NoCursor => /\ \A i \in P : ~Older(i, before')
                              /\ \A i \in S \ P : Older(i, before')
  BY <1>1, <1>3, <1>4, <1>5, CursorSplits
<1>9. \A i : Older(i, before)' <=> Older(i, before')
  BY <1>2 DEF Older
<1>10. Stored' = Stored /\ NoCursor' = NoCursor
  BY <1>2 DEF Stored, NoCursor
<1>11. (due \subseteq InRange(request, request.from))'
  <2>1. now \in Nat
    BY <1>3, LogAssumption DEF LogFacts, Times
  <2>2. \A i \in Stored : written[i].sent \in Nat
    BY <1>3, StoredTyped
  <2>3. InRange(r, DefaultFrom(r)) \subseteq InRange(r, r.from)
    BY <1>4, <2>1, <2>2, HistoryAssumption DEF InRange, DefaultFrom
  <2>4. InRange(request, request.from)' = InRange(r, r.from)
    BY <1>2, <1>10 DEF InRange
  <2> QED
    BY <1>6, <2>3, <2>4
<1>12. CursorFits'
  BY <1>6, <1>7, <1>8, <1>9, <1>10 DEF CursorFits
<1>13. NothingSkipped'
  BY <1>6, <1>7, <1>8, <1>10 DEF NothingSkipped
<1>14. PagesGoBack'
  BY <1>7 DEF PagesGoBack
<1>15. (pages \in Seq(SUBSET Stored))'
  BY <1>1, <1>5, <1>7, <1>10
<1>16. (request \in Requests)'
  BY <1>2 DEF Requests
<1> QED
  BY <1>3, <1>11, <1>12, <1>13, <1>14, <1>15, <1>16 DEF HistoryInv

LEMMA NextStep ==
  ASSUME HistoryInv, NextPage
  PROVE  HistoryInv'
<1> DEFINE S == {i \in InRange(request, request.from) : Older(i, before)}
<1>1. PICK P \in SUBSET S :
        /\ IsPage(S, request.limit, P) /\ pages' = Append(pages, P)
        /\ NextCursor(P, request.limit, before')
  BY DEF NextPage, ReadPage
<1>2. UNCHANGED <<now, written, row, lastRow, request, due>>
  BY DEF NextPage, log
<1>3. LogFacts /\ LogFacts'
  BY <1>2 DEF HistoryInv, LogFacts
<1>4. request.limit \in Nat
  BY HistoryAssumption DEF Requests, HistoryInv
<1>5. S \subseteq Stored
  BY DEF InRange
<1>6. Stored' = Stored /\ NoCursor' = NoCursor
  BY <1>2 DEF Stored, NoCursor
<1>7. /\ pages \in Seq(SUBSET Stored) /\ pages' \in Seq(SUBSET Stored)
      /\ Len(pages') = Len(pages) + 1 /\ pages'[Len(pages) + 1] = P
      /\ \A n \in 1..Len(pages) : pages'[n] = pages[n]
  BY <1>1, <1>5 DEF HistoryInv
<1>8. /\ before' = NoCursor \/ before' \in [sent : Nat, row : Nat]
      /\ before' = NoCursor => P = S
      /\ before' # NoCursor => /\ \A i \in P : ~Older(i, before')
                              /\ \A i \in S \ P : Older(i, before')
  <2> DEFINE limit == request.limit
  <2>1. IsPage(S, limit, P) /\ NextCursor(P, limit, before') /\ limit \in Nat
    BY <1>1, <1>4
  <2> HIDE DEF S, limit
  <2> QED
    BY <1>3, <1>5, <2>1, CursorSplits
<1>9. \A i : Older(i, before)' <=> Older(i, before')
  BY <1>2 DEF Older
<1>10. /\ before # NoCursor /\ before \in [sent : Nat, row : Nat]
       /\ \A n \in 1..Len(pages) : \A i \in pages[n] : ~Older(i, before)
       /\ \A i \in due : i \in S \/ \E n \in 1..Len(pages) : i \in pages[n]
  BY DEF NextPage, HistoryInv, CursorFits
<1>11. \A i \in due : i \in P \/ i \in S \ P \/ \E n \in 1..Len(pages) : i \in pages[n]
  BY <1>10
(* Read and due: on the new page, before it, or on the pages there were.   *)
<1>12. \A i \in due : i \in S \ P \/ \E n \in 1..Len(pages') : i \in pages'[n]
  BY <1>7, <1>11
<1>13. \A n \in 1..Len(pages) : \A i \in P, j \in pages[n] : i # j /\ Earlier(i, j)
  <2> SUFFICES ASSUME NEW n \in 1..Len(pages), NEW i \in P, NEW j \in pages[n]
               PROVE  i # j /\ Earlier(i, j)
    OBVIOUS
  <2>1. i \in Stored /\ j \in Stored
    BY <1>5, <1>7
  <2>2. /\ written[i].sent \in Nat /\ row[i] \in Nat
        /\ written[j].sent \in Nat /\ row[j] \in Nat
    BY <1>3, <2>1, StoredTyped
  <2>3. Older(i, before) /\ ~Older(j, before)
    BY <1>1, <1>10
  <2> QED
    BY <1>10, <2>2, <2>3 DEF Older, Earlier
<1>14. CursorFits'
  <2> SUFFICES ASSUME before' # NoCursor
               PROVE  /\ before' \in [sent : Nat, row : Nat]
                      /\ \A n \in 1..Len(pages') : \A i \in pages'[n] : ~Older(i, before')
                      /\ \A i \in due : Older(i, before') \/ \E n \in 1..Len(pages') : i \in pages'[n]
    BY <1>2, <1>6, <1>9 DEF CursorFits
  <2>1. \A i \in P : ~Older(i, before')
    BY <1>8
  <2>2. \A i \in due : Older(i, before') \/ \E n \in 1..Len(pages') : i \in pages'[n]
    BY <1>8, <1>12
  <2>3. ASSUME NEW n \in 1..Len(pages), NEW j \in pages[n] PROVE ~Older(j, before')
    <3>1. \E i \in P : before' = [sent |-> written[i].sent, row |-> row[i]]
      BY <1>1 DEF NextCursor
    <3>2. PICK i \in P : before' = [sent |-> written[i].sent, row |-> row[i]]
      BY <3>1
    <3>3. Earlier(i, j)
      BY <1>13
    <3>4. i \in Stored /\ j \in Stored
      BY <1>5, <1>7
    <3>5. /\ written[i].sent \in Nat /\ row[i] \in Nat
          /\ written[j].sent \in Nat /\ row[j] \in Nat
      BY <1>3, <3>4, StoredTyped
    <3> QED
      BY <3>2, <3>3, <3>5 DEF Older, Earlier
  <2>4. \A n \in 1..Len(pages') : \A i \in pages'[n] : ~Older(i, before')
    BY <1>7, <2>1, <2>3
  <2> QED
    BY <1>8, <2>2, <2>4
<1>15. NothingSkipped'
  BY <1>2, <1>6, <1>8, <1>12 DEF NothingSkipped
<1>16. PagesGoBack'
  <2> SUFFICES ASSUME NEW n \in 1..Len(pages'), NEW m \in 1..(n - 1),
                      NEW i \in pages'[n], NEW j \in pages'[m]
               PROVE  i # j /\ Earlier(i, j)
    BY <1>2 DEF PagesGoBack, Earlier
  <2>1. m \in 1..Len(pages) /\ j \in pages[m]
    BY <1>7
  <2>2. CASE n = Len(pages) + 1
    BY <1>7, <1>13, <2>1, <2>2
  <2>3. CASE n \in 1..Len(pages)
    BY <1>7, <2>1, <2>3 DEF HistoryInv, PagesGoBack
  <2> QED
    BY <1>7, <2>2, <2>3
<1>17. (due \subseteq InRange(request, request.from))'
  BY <1>2, <1>6 DEF HistoryInv, InRange
<1>18. (pages \in Seq(SUBSET Stored))'
  BY <1>6, <1>7
<1>19. (request \in Requests)'
  BY <1>2 DEF HistoryInv, Requests
<1> QED
  BY <1>3, <1>14, <1>15, <1>16, <1>17, <1>18, <1>19 DEF HistoryInv

-----------------------------------------------------------------------------
LEMMA Begins == LogInit /\ HistoryInit => HistoryInv
<1> SUFFICES ASSUME LogInit, HistoryInit PROVE HistoryInv
  OBVIOUS
<1>1. LogFacts
  BY LogAssumption DEF LogInit, LogFacts, Times
<1>2. CursorFits /\ NothingSkipped /\ PagesGoBack /\ pages \in Seq(SUBSET Stored)
  BY DEF HistoryInit, CursorFits, NothingSkipped, PagesGoBack
<1>3. due \subseteq InRange(request, request.from)
  BY DEF HistoryInit
<1>4. request \in Requests
  BY LogAssumption, HistoryAssumption DEF HistoryInit, Requests
<1> QED
  BY <1>1, <1>2, <1>3, <1>4 DEF HistoryInv

(* The invariant behind both properties of the walk. *)
THEOREM WalkInvariant == HistorySpec => []HistoryInv
<1>1. HistoryInv /\ [HistoryMove]_hvars => HistoryInv'
  <2> SUFFICES ASSUME HistoryInv, [HistoryMove]_hvars PROVE HistoryInv'
    OBVIOUS
  <2>1. CASE LogNext /\ UNCHANGED history
    BY <2>1, LogStepWalk
  <2>2. CASE NextPage
    BY <2>2, NextStep
  <2>3. CASE pages = <<>> /\ \E r \in Requests : FirstPage(r)
    BY <2>3, FirstStep
  <2>4. CASE UNCHANGED hvars
    BY <2>4 DEF hvars, log, history, HistoryInv, LogFacts, CursorFits, NothingSkipped,
       PagesGoBack, Requests, InRange, Stored, Older, Earlier, NoCursor
  <2> QED
    BY <2>1, <2>2, <2>3, <2>4 DEF HistoryMove, HistoryNext
<1> QED
  BY Begins, <1>1, PTL DEF HistorySpec, HistoryMove

(* A client that followed the cursors to the end has read everything its   *)
(* range held when it began (store.go:403-439, tools.go:441-476).          *)
THEOREM WalkSkipsNothing == HistorySpec => []NothingSkipped
BY WalkInvariant, PTL DEF HistoryInv

(* Every page lies wholly before the pages read earlier, whatever was      *)
(* stored between them (store.go:411-439).                                 *)
THEOREM WalkGoesBack == HistorySpec => []PagesGoBack
BY WalkInvariant, PTL DEF HistoryInv

-----------------------------------------------------------------------------
(* Strings: the characters of a query or a text                            *)

LEMMA SeqGrows == ASSUME NEW A, NEW B, A \subseteq B, NEW s \in Seq(A) PROVE s \in Seq(B)
  OBVIOUS

LEMMA StringOf == ASSUME NEW E, NEW s \in Seq(E) PROVE IsString(s)
<1>1. Len(s) \in Nat /\ s \in [1..Len(s) -> E] /\ DOMAIN s = 1..Len(s)
  OBVIOUS
<1> DEFINE R == {s[k] : k \in DOMAIN s}
<1>2. s \in [1..Len(s) -> R]
  BY <1>1
<1> HIDE DEF R
<1>3. s \in Seq(R)
  BY <1>1, <1>2
<1> QED
  BY <1>3 DEF IsString, R

-----------------------------------------------------------------------------
(* Cutting a string into pieces *)

Cuts(E) == [done : Seq(Seq(E)), cur : Seq(E)]
NoCut == [done |-> <<>>, cur |-> <<>>]
Cutting(E, kept) == [x \in Cuts(E) |-> [c \in E |-> Took(x, c, kept)]]

LEMMA FlushTyped == ASSUME NEW E, NEW x \in Cuts(E) PROVE flush(x) \in Seq(Seq(E))
<1>1. x.done \in Seq(Seq(E)) /\ x.cur \in Seq(E)
  BY DEF Cuts
<1>2. \A a, b : a \in Seq(Seq(E)) /\ b \in Seq(E) => Append(a, b) \in Seq(Seq(E))
  OBVIOUS
<1> QED
  BY <1>1, <1>2 DEF flush

LEMMA TookTyped == ASSUME NEW E, NEW kept, NEW x \in Cuts(E), NEW c \in E PROVE Took(x, c, kept) \in Cuts(E)
<1>1. x.done \in Seq(Seq(E)) /\ x.cur \in Seq(E) /\ flush(x) \in Seq(Seq(E))
  BY FlushTyped DEF Cuts
<1>2. Append(x.cur, c) \in Seq(E) /\ <<>> \in Seq(E)
  BY <1>1
<1> QED
  BY <1>1, <1>2 DEF Took, Cuts

LEMMA CuttingTyped == ASSUME NEW E, NEW kept PROVE Cutting(E, kept) \in [Cuts(E) -> [E -> Cuts(E)]]
  BY TookTyped DEF Cutting

LEMMA NoCutTyped == ASSUME NEW E PROVE NoCut \in Cuts(E)
  BY DEF NoCut, Cuts

(* g[n] is how far the cutting is after n characters.                      *)
IsCut(g, E, s, kept) ==
  /\ g \in [0..Len(s) -> Cuts(E)] /\ g[0] = NoCut
  /\ \A n \in 1..Len(s) : g[n] = Took(g[n - 1], s[n], kept)

(* The recursive function behind Pieces does what its equations say.       *)
LEMMA PiecesTrace ==
  ASSUME NEW E, NEW kept, NEW s \in Seq(E)
  PROVE  \E g : IsCut(g, E, s, kept) /\ Pieces(s, kept) = flush(g[Len(s)])
<1> DEFINE upTo == CHOOSE g : g = [n \in 0..Len(s) |->
                     IF n = 0 THEN [done |-> <<>>, cur |-> <<>>] ELSE Took(g[n - 1], s[n], kept)]
<1>1. PICK g \in [0..Len(s) -> Cuts(E)] : IsTrace(g, Cutting(E, kept), NoCut, s)
  BY CuttingTyped, NoCutTyped, TraceExists
<1>2. \A n \in 1..Len(s) : n - 1 \in 0..Len(s) /\ s[n] \in E
  OBVIOUS
<1>3. g[0] = NoCut /\ \A n \in 1..Len(s) : g[n] = Took(g[n - 1], s[n], kept)
  <2>1. ASSUME NEW n \in 1..Len(s) PROVE g[n] = Took(g[n - 1], s[n], kept)
    <3>1. g[n - 1] \in Cuts(E) /\ s[n] \in E
      BY <1>2
    <3>2. g[n] = Cutting(E, kept)[g[n - 1]][s[n]]
      BY <1>1 DEF IsTrace
    <3> QED
      BY <3>1, <3>2 DEF Cutting
  <2> QED
    BY <1>1, <2>1 DEF IsTrace
<1>4. g = [n \in 0..Len(s) |-> IF n = 0 THEN [done |-> <<>>, cur |-> <<>>] ELSE Took(g[n - 1], s[n], kept)]
  <2>1. g = [n \in 0..Len(s) |-> g[n]]
    OBVIOUS
  <2>2. \A n \in 0..Len(s) : n = 0 \/ n \in 1..Len(s)
    OBVIOUS
  <2>3. \A n \in 0..Len(s) : g[n] = IF n = 0 THEN [done |-> <<>>, cur |-> <<>>] ELSE Took(g[n - 1], s[n], kept)
    BY <1>3, <2>2 DEF NoCut
  <2> QED
    BY <2>1, <2>3
<1>5. upTo = [n \in 0..Len(s) |-> IF n = 0 THEN [done |-> <<>>, cur |-> <<>>] ELSE Took(upTo[n - 1], s[n], kept)]
  BY <1>4, Zenon
<1>6. Pieces(s, kept) = flush(upTo[Len(s)])
  BY Zenon DEF Pieces
<1> HIDE DEF upTo
<1>7. upTo[0] = NoCut /\ \A n \in 1..Len(s) : upTo[n] = Took(upTo[n - 1], s[n], kept)
  <2>1. 0 \in 0..Len(s) /\ \A n \in 1..Len(s) : n \in 0..Len(s) /\ n # 0
    OBVIOUS
  <2> QED
    BY <1>5, <2>1 DEF NoCut
<1> DEFINE S == {n \in Nat : upTo[n] = g[n]}
<1>8. 0 \in S
  BY <1>3, <1>7
<1>9. ASSUME NEW k \in 0..(Len(s) - 1), k \in S PROVE k + 1 \in S
  <2>1. k + 1 \in 1..Len(s) /\ (k + 1) - 1 = k /\ k + 1 \in Nat
    BY <1>9
  <2>2. upTo[k + 1] = Took(upTo[k], s[k + 1], kept) /\ g[k + 1] = Took(g[k], s[k + 1], kept)
    BY <1>3, <1>7, <2>1
  <2>3. upTo[k] = g[k]
    BY <1>9
  <2>4. upTo[k + 1] = g[k + 1]
    BY <2>2, <2>3
  <2> QED
    BY <2>1, <2>4
<1> HIDE DEF S
<1>10. Len(s) \in Nat /\ Len(s) \in 0..Len(s)
  OBVIOUS
<1>11. \A n \in 0..Len(s) : n \in S
  BY <1>8, <1>9, <1>10, Induction
<1>12. upTo[Len(s)] = g[Len(s)]
  BY <1>10, <1>11 DEF S
<1> QED
  BY <1>3, <1>6, <1>12 DEF IsCut

LEMMA PiecesTyped == ASSUME NEW E, NEW kept, NEW s \in Seq(E) PROVE Pieces(s, kept) \in Seq(Seq(E))
<1>1. PICK g : IsCut(g, E, s, kept) /\ Pieces(s, kept) = flush(g[Len(s)])
  BY PiecesTrace
<1>2. g[Len(s)] \in Cuts(E)
  BY <1>1 DEF IsCut
<1> QED
  BY <1>1, <1>2, FlushTyped

-----------------------------------------------------------------------------
(* Where strings occur                                                     *)

LEMMA PartOf ==
  ASSUME NEW E, NEW t \in Seq(E), NEW k \in Nat, NEW n \in Nat, k + n <= Len(t)
  PROVE  /\ SubSeq(t, k + 1, k + n) \in Seq(E) /\ Len(SubSeq(t, k + 1, k + n)) = n
         /\ \A m \in 1..n : SubSeq(t, k + 1, k + n)[m] = t[k + m]
  OBVIOUS

OccursFrom(s, t, k) == k + Len(s) <= Len(t) /\ \A m \in 1..Len(s) : t[k + m] = s[m]

LEMMA OccursAt ==
  ASSUME NEW E, NEW s \in Seq(E), NEW t \in Seq(E)
  PROVE  Occurs(s, t) <=> \E k \in Nat : OccursFrom(s, t, k)
<1>0. Len(s) \in Nat /\ Len(t) \in Nat
  OBVIOUS
<1>1. ASSUME Occurs(s, t)
      PROVE  \E k \in Nat : OccursFrom(s, t, k)
  <2>1. PICK k \in 0..(Len(t) - Len(s)) : SubSeq(t, k + 1, k + Len(s)) = s
    BY <1>1 DEF Occurs
  <2>2. k \in Nat /\ k + Len(s) <= Len(t)
    BY <1>0
  <2> DEFINE u == SubSeq(t, k + 1, k + Len(s))
  <2>3. \A m \in 1..Len(s) : u[m] = t[k + m]
    BY <1>0, <2>2, PartOf
  <2>4. u = s
    BY <2>1
  <2> HIDE DEF u
  <2> QED
    BY <2>2, <2>3, <2>4 DEF OccursFrom
<1>2. ASSUME NEW k \in Nat, OccursFrom(s, t, k)
      PROVE  Occurs(s, t)
  <2> DEFINE u == SubSeq(t, k + 1, k + Len(s))
  <2>1. u \in Seq(E) /\ Len(u) = Len(s) /\ \A m \in 1..Len(s) : u[m] = s[m]
    BY <1>0, <1>2, PartOf DEF OccursFrom
  <2> HIDE DEF u
  <2>2. u = s
    BY <2>1, SeqEqual
  <2>3. k \in 0..(Len(t) - Len(s))
    BY <1>0, <1>2 DEF OccursFrom
  <2> QED
    BY <2>2, <2>3 DEF Occurs, u
<1> QED
  BY <1>1, <1>2

LEMMA OccursThrough ==
  ASSUME NEW E, NEW a \in Seq(E), NEW b \in Seq(E), NEW c \in Seq(E), Occurs(a, b), Occurs(b, c)
  PROVE  Occurs(a, c)
<1>1. PICK k \in Nat : OccursFrom(a, b, k)
  BY OccursAt, Zenon
<1>2. PICK j \in Nat : OccursFrom(b, c, j)
  BY OccursAt, Zenon
<1>3. Len(a) \in Nat /\ Len(b) \in Nat /\ Len(c) \in Nat
  OBVIOUS
<1>4. j + k \in Nat /\ (j + k) + Len(a) <= Len(c)
  BY <1>1, <1>2, <1>3 DEF OccursFrom
<1>5. ASSUME NEW m \in 1..Len(a) PROVE c[(j + k) + m] = a[m]
  <2>1. k + m \in 1..Len(b) /\ j + (k + m) = (j + k) + m
    BY <1>1, <1>3 DEF OccursFrom
  <2> QED
    BY <1>1, <1>2, <2>1 DEF OccursFrom
<1>6. OccursFrom(a, c, j + k)
  BY <1>4, <1>5 DEF OccursFrom
<1> QED
  BY <1>4, <1>6, OccursAt, Zenon

LEMMA OccursInside ==
  ASSUME NEW E, NEW a \in Seq(E), NEW s \in Seq(E), NEW b \in Seq(E)
  PROVE  (a \o s) \o b \in Seq(E) /\ Occurs(s, (a \o s) \o b)
<1> DEFINE t == (a \o s) \o b
<1>1. /\ t \in Seq(E) /\ Len(a) \in Nat /\ Len(s) \in Nat /\ Len(b) \in Nat
      /\ Len(t) = Len(a) + Len(s) + Len(b)
      /\ \A m \in 1..Len(s) : t[Len(a) + m] = s[m]
  OBVIOUS
<1> HIDE DEF t
<1>2. Len(a) + Len(s) <= Len(t)
  BY <1>1
<1>3. OccursFrom(s, t, Len(a))
  BY <1>1, <1>2 DEF OccursFrom
<1>4. Occurs(s, t)
  BY <1>1, <1>3, OccursAt, Zenon
<1> QED
  BY <1>1, <1>4 DEF t

-----------------------------------------------------------------------------
(* The words of a string are words of every string it occurs whole in      *)

Behind(d, y) == [done |-> Glued(d, y.done), cur |-> y.cur]

LEMMA TookBehind ==
  ASSUME NEW E, NEW kept, NEW d \in Seq(Seq(E)), NEW y \in Cuts(E), NEW c
  PROVE  /\ flush(Behind(d, y)) = Glued(d, flush(y))
         /\ Took(Behind(d, y), c, kept) = Behind(d, Took(y, c, kept))
<1>1. y.done \in Seq(Seq(E)) /\ y.cur \in Seq(E)
  BY DEF Cuts
<1>2. Append(Glued(d, y.done), y.cur) = Glued(d, Append(y.done, y.cur))
  BY <1>1, GluedAppend
<1>3. flush(Behind(d, y)) = Glued(d, flush(y))
  BY <1>2 DEF flush, Behind
<1>4. CASE c \in kept
  BY <1>3, <1>4 DEF Took, Behind
<1>5. CASE c \notin kept
  <2>1. Took(Behind(d, y), c, kept) = [done |-> flush(Behind(d, y)), cur |-> <<>>]
    BY <1>5 DEF Took
  <2>2. Took(y, c, kept) = [done |-> flush(y), cur |-> <<>>]
    BY <1>5 DEF Took
  <2> QED
    BY <1>3, <2>1, <2>2 DEF Behind
<1> QED
  BY <1>3, <1>4, <1>5

LEMMA FlushStarts ==
  ASSUME NEW E, NEW x \in Cuts(E), NEW w \in Seq(Seq(E)), NEW z \in Seq(Seq(E)), x.done = Glued(w, z)
  PROVE  \E y \in Seq(Seq(E)) : flush(x) = Glued(w, y)
<1>1. x.cur \in Seq(E)
  BY DEF Cuts
<1>2. CASE x.cur = <<>>
  BY <1>2 DEF flush
<1>3. CASE x.cur # <<>>
  <2>1. Append(Glued(w, z), x.cur) = Glued(w, Append(z, x.cur))
    BY <1>1, GluedAppend
  <2>2. Append(z, x.cur) \in Seq(Seq(E))
    <3> DEFINE F == Seq(E)
               c == x.cur
    <3>1. z \in Seq(F) /\ c \in F
      BY <1>1
    <3> HIDE DEF F, c
    <3>2. Append(z, c) \in Seq(F)
      BY <3>1
    <3> QED
      BY <3>2 DEF F, c
  <2> QED
    BY <1>3, <2>1, <2>2 DEF flush
<1> QED
  BY <1>2, <1>3

LEMMA WordsTrace ==
  ASSUME NEW E, NEW s \in Seq(E)
  PROVE  \E g : IsCut(g, E, s, Letters) /\ Words(s) = flush(g[Len(s)])
BY PiecesTrace DEF Words

LEMMA WordsWhole ==
  ASSUME NEW E, NEW s \in Seq(E), NEW t \in Seq(E), s # <<>>, OccursWhole(s, t)
  PROVE  Occurs(Words(s), Words(t))
<1> DEFINE P == Seq(Seq(E))
           l == Len(s)
<1>1. PICK k \in 0..(Len(t) - l) :
        /\ SubSeq(t, k + 1, k + l) = s
        /\ k > 0 => ~(t[k] \in Letters /\ s[1] \in Letters)
        /\ k + l < Len(t) => ~(t[k + l + 1] \in Letters /\ s[l] \in Letters)
  BY DEF OccursWhole
<1>2. /\ l \in Nat /\ l >= 1 /\ Len(t) \in Nat /\ k \in Nat /\ k + l <= Len(t)
      /\ \A m \in 1..l : s[m] \in E
      /\ \A n \in 1..Len(t) : t[n] \in E
  BY <1>1
<1>3. \A m \in 1..l : t[k + m] = s[m]
  BY <1>1, <1>2, PartOf
<1>41. PICK g : IsCut(g, E, t, Letters) /\ Words(t) = flush(g[Len(t)])
  BY WordsTrace
<1>51. PICK h : IsCut(h, E, s, Letters) /\ Words(s) = flush(h[l])
  BY WordsTrace
<1> HIDE DEF l
<1>4. /\ g \in [0..Len(t) -> Cuts(E)] /\ g[0] = NoCut
      /\ \A n \in 1..Len(t) : g[n] = Took(g[n - 1], t[n], Letters)
      /\ Words(t) = flush(g[Len(t)])
  BY <1>41 DEF IsCut
<1>5. /\ h \in [0..l -> Cuts(E)] /\ h[0] = NoCut
      /\ \A m \in 1..l : h[m] = Took(h[m - 1], s[m], Letters)
      /\ Words(s) = flush(h[l])
  BY <1>51 DEF IsCut, l
(* A character that is no letter ends the piece in hand. *)
<1>6. \A n \in 1..Len(t) : t[n] \notin Letters => g[n].cur = <<>> /\ g[n].done = flush(g[n - 1])
  <2>1. ASSUME NEW n \in 1..Len(t), t[n] \notin Letters PROVE g[n].cur = <<>> /\ g[n].done = flush(g[n - 1])
    <3>1. g[n] = Took(g[n - 1], t[n], Letters)
      BY <1>4
    <3> QED
      BY <2>1, <3>1 DEF Took
  <2> QED
    BY <2>1
<1> DEFINE d == IF s[1] \in Letters THEN g[k].done ELSE flush(g[k])
<1>7. d \in P
  <2>1. k \in 0..Len(t)
    BY <1>2
  <2>2. g[k] \in Cuts(E)
    BY <1>4, <2>1
  <2>3. flush(g[k]) \in P /\ g[k].done \in P
    BY <2>2, FlushTyped DEF Cuts
  <2> QED
    BY <2>3
<1>8. g[k + 1] = Behind(d, h[1])
  <2>1. /\ k + 1 \in 1..Len(t) /\ (k + 1) - 1 = k /\ 1 \in 1..l /\ 1 - 1 = 0 /\ t[k + 1] = s[1]
    BY <1>2, <1>3
  <2>2. g[k + 1] = Took(g[k], s[1], Letters) /\ h[1] = Took(NoCut, s[1], Letters)
    BY <1>4, <1>5, <2>1
  <2>3. Glued(d, <<>>) = d
    BY <1>7, GluedNothing
  <2>4. CASE s[1] \in Letters
    <3>1. g[k].cur = <<>>
      <4>1. CASE k = 0
        BY <1>4, <4>1 DEF NoCut
      <4>2. CASE k # 0
        <5>1. k \in 1..Len(t) /\ t[k] \notin Letters
          BY <1>1, <1>2, <2>4, <4>2
        <5> QED
          BY <1>6, <5>1
      <4> QED
        BY <4>1, <4>2
    <3> QED
      BY <2>2, <2>3, <2>4, <3>1 DEF Took, NoCut, Behind
  <2>5. CASE s[1] \notin Letters
    <3>1. flush(NoCut) = <<>> /\ d = flush(g[k])
      BY <2>5 DEF flush, NoCut
    <3> HIDE DEF d
    <3> QED
      BY <2>2, <2>3, <2>5, <3>1 DEF Took, Behind
  <2> QED
    BY <2>4, <2>5
<1> HIDE DEF d, P
<1>9. \A m \in 1..l : g[k + m] = Behind(d, h[m])
  <2> DEFINE S == {n \in Nat : g[k + (n + 1)] = Behind(d, h[n + 1])}
  <2>1. 0 \in S
    BY <1>8
  <2>2. ASSUME NEW n \in 0..((l - 1) - 1), n \in S PROVE n + 1 \in S
    <3> DEFINE m == n + 1
    <3>1. /\ m \in 1..l /\ m + 1 \in 1..l /\ (m + 1) - 1 = m /\ n + 1 \in Nat /\ m \in 0..l
          /\ k + (m + 1) \in 1..Len(t) /\ (k + (m + 1)) - 1 = k + m
      <4>1. n \in Nat /\ n + 1 <= l - 1
        BY <1>2, <2>2
      <4>2. m \in Nat /\ m >= 1 /\ m + 1 <= l /\ k + (m + 1) <= Len(t)
        BY <1>2, <4>1
      <4> HIDE DEF m
      <4>3. m \in 1..l /\ m + 1 \in 1..l /\ (m + 1) - 1 = m /\ m \in 0..l
        BY <1>2, <4>2
      <4>4. k + (m + 1) \in 1..Len(t) /\ (k + (m + 1)) - 1 = k + m
        BY <1>2, <4>2
      <4>5. n + 1 \in Nat
        BY <4>1
      <4> QED
        BY <4>3, <4>4, <4>5
    <3>2. /\ g[k + (m + 1)] = Took(g[k + m], s[m + 1], Letters)
          /\ h[m + 1] = Took(h[m], s[m + 1], Letters)
          /\ h[m] \in Cuts(E) /\ s[m + 1] \in E
      BY <1>2, <1>3, <1>4, <1>5, <3>1
    <3>3. g[k + m] = Behind(d, h[m])
      BY <2>2
    <3> HIDE DEF m
    <3>4. g[k + (m + 1)] = Behind(d, h[m + 1])
      <4> DEFINE y == h[m]
                 c == s[m + 1]
      <4>1. y \in Cuts(E) /\ c \in E /\ d \in Seq(Seq(E))
        BY <1>7, <3>2 DEF P
      <4>2. g[k + (m + 1)] = Took(Behind(d, y), c, Letters)
        BY <3>2, <3>3
      <4>3. h[m + 1] = Took(y, c, Letters)
        BY <3>2
      <4> HIDE DEF y, c
      <4>4. Took(Behind(d, y), c, Letters)
              = Behind(d, Took(y, c, Letters))
        BY <4>1, TookBehind
      <4> QED
        BY <4>2, <4>3, <4>4
    <3> QED
      BY <3>1, <3>4 DEF m
  <2>3. \A n \in 0..(l - 1) : n \in S
    <3>1. l - 1 \in Nat
      BY <1>2
    <3> HIDE DEF S
    <3> QED
      BY <2>1, <2>2, <3>1, Induction
  <2>4. ASSUME NEW m \in 1..l PROVE g[k + m] = Behind(d, h[m])
    <3>1. m - 1 \in 0..(l - 1) /\ (m - 1) + 1 = m
      BY <1>2
    <3> QED
      BY <2>3, <3>1
  <2> QED
    BY <2>4
<1> DEFINE w == Glued(d, Words(s))
<1>10. flush(g[k + l]) = w
  <2>1. l \in 1..l /\ h[l] \in Cuts(E)
    BY <1>2, <1>5
  <2> QED
    <3> DEFINE y == h[l]
    <3>1. y \in Cuts(E) /\ s[l] \in E /\ d \in Seq(Seq(E))
      BY <1>2, <1>7, <2>1 DEF P
    <3>2. g[k + l] = Behind(d, y)
      BY <1>9, <2>1
    <3>3. w = Glued(d, flush(y))
      BY <1>5
    <3> HIDE DEF y, w
    <3>4. flush(Behind(d, y)) = Glued(d, flush(y))
      BY <3>1, TookBehind
    <3> QED
      BY <3>2, <3>3, <3>4
<1>11. Words(s) \in P /\ Words(t) \in P /\ w \in P
  <2>1. Words(s) \in P /\ Words(t) \in P
    BY PiecesTyped DEF Words, P
  <2>2. \A a, b \in P : Glued(a, b) \in P
    BY GluedTyped DEF P
  <2> QED
    BY <1>7, <2>1, <2>2
<1> HIDE DEF w
(* What was cut off up to the end of s stays in front of what comes after. *)
<1>12. \E z \in P : Words(t) = Glued(w, z)
  <2>1. CASE k + l = Len(t)
    <3>1. Words(t) = w
      BY <1>4, <1>10, <2>1
    <3>2. Glued(w, <<>>) = w /\ <<>> \in P
      BY <1>11, GluedNothing DEF P
    <3> QED
      BY <3>1, <3>2
  <2>2. CASE k + l # Len(t)
    <3> DEFINE e == k + l + 1
               Starts(n) == \E z \in P : g[n].done = Glued(w, z)
               S == {n \in Nat : Starts(e + n)}
    <3>1. e \in 1..Len(t) /\ e - 1 = k + l /\ k + l \in 1..Len(t) /\ e \in Nat /\ k + l < Len(t)
      BY <1>2, <2>2
    <3>2. g[e].done = w
      <4>1. g[e] = Took(g[k + l], t[e], Letters)
        BY <1>4, <3>1
      <4>2. CASE t[e] \notin Letters
        BY <1>6, <1>10, <3>1, <4>2
      <4>3. CASE t[e] \in Letters
        <5>1. s[l] \notin Letters /\ t[k + l] = s[l]
          BY <1>1, <1>2, <1>3, <3>1, <4>3
        <5>2. g[k + l].cur = <<>>
          BY <1>6, <3>1, <5>1
        <5> QED
          BY <1>10, <4>1, <4>3, <5>2 DEF Took, flush
      <4> QED
        BY <4>2, <4>3
    <3>3. 0 \in S
      <4>1. Glued(w, <<>>) = w /\ <<>> \in P
        BY <1>11, GluedNothing DEF P
      <4> QED
        BY <3>1, <3>2, <4>1
    <3>4. ASSUME NEW n \in 0..(Len(t) - e - 1), n \in S PROVE n + 1 \in S
      <4> DEFINE j == e + n
      <4>1. /\ j \in 0..Len(t) /\ j + 1 \in 1..Len(t) /\ (j + 1) - 1 = j /\ n + 1 \in Nat
            /\ e + (n + 1) = j + 1
        BY <1>2, <3>1, <3>4
      <4>2. PICK z \in P : g[j].done = Glued(w, z)
        BY <3>4
      <4> HIDE DEF j
      <4>3. g[j] \in Cuts(E) /\ g[j + 1] = Took(g[j], t[j + 1], Letters)
        BY <1>4, <4>1
      <4>4. g[j + 1].done \in {g[j].done, flush(g[j])}
        BY <4>3 DEF Took
      <4>5. \E y \in P : g[j + 1].done = Glued(w, y)
        <5>1. \E y \in P : flush(g[j]) = Glued(w, y)
          BY <1>11, <4>2, <4>3, FlushStarts DEF P
        <5> QED
          BY <4>2, <4>4, <5>1
      <4> QED
        BY <4>1, <4>5
    <3>5. \A n \in 0..(Len(t) - e) : n \in S
      <4>1. Len(t) - e \in Nat
        BY <1>2, <3>1
      <4> HIDE DEF S
      <4> QED
        BY <3>3, <3>4, <4>1, Induction
    <3>6. Starts(Len(t))
      <4>1. Len(t) - e \in 0..(Len(t) - e) /\ e + (Len(t) - e) = Len(t)
        BY <1>2, <3>1
      <4> QED
        BY <3>5, <4>1
    <3>7. g[Len(t)] \in Cuts(E)
      BY <1>2, <1>4
    <3>8. PICK z \in P : g[Len(t)].done = Glued(w, z)
      BY <3>6
    <3>9. \E y \in P : flush(g[Len(t)]) = Glued(w, y)
      BY <1>11, <3>7, <3>8, FlushStarts DEF P
    <3> QED
      BY <1>4, <3>9
  <2> QED
    BY <2>1, <2>2
<1> QED
  <2>1. PICK z \in P : Words(t) = Glued(w, z)
    BY <1>12
  <2>2. \A a, u, b \in P : Occurs(u, Glued(Glued(a, u), b))
    <3> HIDE DEF P
    <3> SUFFICES ASSUME NEW a \in P, NEW u \in P, NEW b \in P PROVE Occurs(u, Glued(Glued(a, u), b))
      OBVIOUS
    <3>1. Occurs(u, (a \o u) \o b)
      BY OccursInside DEF P
    <3> QED
      BY <3>1 DEF Glued
  <2>3. Occurs(Words(s), Glued(Glued(d, Words(s)), z))
    BY <1>7, <1>11, <2>2
  <2> QED
    BY <2>1, <2>3 DEF w

-----------------------------------------------------------------------------
(* A query, its terms and its needle are strings                           *)

LEMMA TrimTyped == ASSUME NEW E, NEW s \in Seq(E) PROVE Trim(s) \in Seq(E)
<1> DEFINE inner == {k \in DOMAIN s : s[k] # Blank}
           first == CHOOSE k \in inner : \A j \in inner : k <= j
           last == CHOOSE k \in inner : \A j \in inner : j <= k
<1>1. DOMAIN s = 1..Len(s) /\ Len(s) \in Nat
  OBVIOUS
<1>2. CASE inner = {}
  <2>1. Trim(s) = <<>>
    BY <1>2 DEF Trim
  <2> QED
    BY <2>1
<1>3. CASE inner # {}
  <2>1. Trim(s) = SubSeq(s, first, last)
    BY <1>3 DEF Trim
  <2>2. inner \in SUBSET Nat /\ inner \in SUBSET (0..Len(s)) /\ inner \subseteq 1..Len(s)
    BY <1>1
  <2> HIDE DEF inner
  <2>3. first \in inner
    BY <1>3, <2>2, SmallestExists
  <2>4. last \in inner
    <3>1. \E x \in inner : \A y \in inner : y <= x
      BY <1>1, <1>3, <2>2, LargestExists
    <3> QED
      BY <3>1
  <2>5. first \in 1..Len(s) /\ last \in 1..Len(s)
    BY <2>2, <2>3, <2>4
  <2> HIDE DEF first, last
  <2>6. SubSeq(s, first, last) \in Seq(E)
    BY <1>1, <2>5
  <2> QED
    BY <2>1, <2>6
<1> QED
  BY <1>2, <1>3

Unquoting(E) == [x \in Seq(E) |-> [c \in E |-> IF c = Quote THEN x ELSE Append(x, c)]]

LEMMA UnquotedTyped == ASSUME NEW E, NEW s \in Seq(E) PROVE Unquoted(s) \in Seq(E) /\ Unquoted(<<>>) = <<>>
<1>1. ASSUME NEW z \in Seq(E) PROVE Unquoted(z) \in Seq(E) /\ (Len(z) = 0 => Unquoted(z) = <<>>)
  <2> DEFINE upTo == CHOOSE g : g = [n \in 0..Len(z) |->
                       IF n = 0 THEN <<>> ELSE IF z[n] = Quote THEN g[n - 1] ELSE Append(g[n - 1], z[n])]
  <2>1. Unquoting(E) \in [Seq(E) -> [E -> Seq(E)]] /\ <<>> \in Seq(E)
    BY DEF Unquoting
  <2>2. PICK g \in [0..Len(z) -> Seq(E)] : IsTrace(g, Unquoting(E), <<>>, z)
    BY <2>1, TraceExists
  <2>3. \A n \in 1..Len(z) : n - 1 \in 0..Len(z) /\ z[n] \in E
    OBVIOUS
  <2>4. g[0] = <<>> /\ \A n \in 1..Len(z) : g[n] = IF z[n] = Quote THEN g[n - 1] ELSE Append(g[n - 1], z[n])
    <3>1. ASSUME NEW n \in 1..Len(z) PROVE g[n] = IF z[n] = Quote THEN g[n - 1] ELSE Append(g[n - 1], z[n])
      <4>1. g[n - 1] \in Seq(E) /\ z[n] \in E
        BY <2>3
      <4>2. g[n] = Unquoting(E)[g[n - 1]][z[n]]
        BY <2>2 DEF IsTrace
      <4> QED
        BY <4>1, <4>2 DEF Unquoting
    <3> QED
      BY <2>2, <3>1 DEF IsTrace
  <2>5. g = [n \in 0..Len(z) |-> IF n = 0 THEN <<>> ELSE IF z[n] = Quote THEN g[n - 1] ELSE Append(g[n - 1], z[n])]
    <3>1. g = [n \in 0..Len(z) |-> g[n]]
      OBVIOUS
    <3>2. \A n \in 0..Len(z) : n = 0 \/ n \in 1..Len(z)
      OBVIOUS
    <3>3. \A n \in 0..Len(z) : g[n] = IF n = 0 THEN <<>> ELSE IF z[n] = Quote THEN g[n - 1] ELSE Append(g[n - 1], z[n])
      BY <2>4, <3>2
    <3> QED
      BY <3>1, <3>3
  <2>6. upTo = [n \in 0..Len(z) |-> IF n = 0 THEN <<>> ELSE IF z[n] = Quote THEN upTo[n - 1] ELSE Append(upTo[n - 1], z[n])]
    BY <2>5, Zenon
  <2>7. Unquoted(z) = upTo[Len(z)]
    BY Zenon DEF Unquoted
  <2> HIDE DEF upTo
  <2>8. upTo[0] = <<>> /\ \A n \in 1..Len(z) : upTo[n] = IF z[n] = Quote THEN upTo[n - 1] ELSE Append(upTo[n - 1], z[n])
    <3>1. 0 \in 0..Len(z) /\ \A n \in 1..Len(z) : n \in 0..Len(z) /\ n # 0
      OBVIOUS
    <3> QED
      BY <2>6, <3>1
  <2> DEFINE S == {n \in Nat : upTo[n] = g[n]}
  <2>9. 0 \in S
    BY <2>4, <2>8
  <2>10. ASSUME NEW k \in 0..(Len(z) - 1), k \in S PROVE k + 1 \in S
    <3>1. k + 1 \in 1..Len(z) /\ (k + 1) - 1 = k /\ k + 1 \in Nat
      BY <2>10
    <3>2. /\ upTo[k + 1] = IF z[k + 1] = Quote THEN upTo[k] ELSE Append(upTo[k], z[k + 1])
          /\ g[k + 1] = IF z[k + 1] = Quote THEN g[k] ELSE Append(g[k], z[k + 1])
      BY <2>4, <2>8, <3>1
    <3>3. upTo[k] = g[k]
      BY <2>10
    <3>4. upTo[k + 1] = g[k + 1]
      BY <3>2, <3>3
    <3> QED
      BY <3>1, <3>4
  <2> HIDE DEF S
  <2>11. Len(z) \in Nat /\ Len(z) \in 0..Len(z)
    OBVIOUS
  <2>12. \A n \in 0..Len(z) : n \in S
    BY <2>9, <2>10, <2>11, Induction
  <2>13. Unquoted(z) = g[Len(z)]
    BY <2>7, <2>11, <2>12 DEF S
  <2> QED
    BY <2>4, <2>11, <2>13
<1>2. <<>> \in Seq(E) /\ Len(<<>>) = 0
  OBVIOUS
<1> QED
  BY <1>1, <1>2

LEMMA NeedleTyped == ASSUME NEW E, NEW q \in Seq(E) PROVE needle(q) \in Seq(E) /\ needle(<<>>) = <<>>
<1>1. Trim(<<>>) = <<>>
  BY DEF Trim
<1> QED
  BY <1>1, UnquotedTyped, TrimTyped DEF needle

LEMMA TermsAreStrings == ASSUME NEW E, NEW q \in Seq(E), NEW t \in splitTerms(q) PROVE IsString(t)
<1> DEFINE InQuote(k) == Cardinality({j \in 1..k : q[j] = Quote}) % 2 = 1
           marked == [k \in DOMAIN q |-> [char |-> q[k], in |-> InQuote(k)]]
           Ends(c) == c.char = Quote \/ (c.char = Blank /\ ~c.in)
           Chars(p) == [k \in DOMAIN p |-> p[k].char]
           M == {marked[k] : k \in DOMAIN marked}
           kept == {c \in M : ~Ends(c)}
           terms == Pieces(marked, kept)
<1>1. splitTerms(q) = {Chars(terms[n]) : n \in DOMAIN terms}
  BY DEF splitTerms
<1>2. marked \in Seq(M)
  <2>1. Len(q) \in Nat /\ DOMAIN q = 1..Len(q)
    OBVIOUS
  <2>2. DOMAIN marked = 1..Len(q)
    BY <2>1
  <2>3. marked \in [1..Len(q) -> M]
    BY <2>2
  <2> HIDE DEF M, marked
  <2> QED
    BY <2>1, <2>3
<1> HIDE DEF M, kept, marked
<1>3. terms \in Seq(Seq(M))
  BY <1>2, PiecesTyped
<1> HIDE DEF terms
<1>4. PICK n \in DOMAIN terms : t = Chars(terms[n])
  BY <1>1
<1>5. terms[n] \in Seq(M)
  BY <1>3, <1>4
<1> DEFINE p == terms[n]
           C == {p[k].char : k \in DOMAIN p}
<1>6. p \in Seq(M) /\ t = [k \in DOMAIN p |-> p[k].char]
  BY <1>4, <1>5
<1> HIDE DEF p
<1>7. Len(p) \in Nat /\ DOMAIN p = 1..Len(p)
  BY <1>6
<1>8. t \in [1..Len(p) -> C]
  BY <1>6, <1>7
<1>9. t \in Seq(C)
  BY <1>7, <1>8
<1> QED
  BY <1>9, StringOf

-----------------------------------------------------------------------------
(* Search.  For the order of the passes, it does not matter what they match *)
(* on: Match, Like and how a query is split into terms stay closed.        *)

SearchMove == (LogNext /\ UNCHANGED <<text, searching>>) \/ SearchNext

FirstLiteral(i) ==
  Match(text[i], ftsQuery(asked.query)) /\ Like(text[i], literalTerms(asked.query))

HasNeedle(i) == Like(text[i], {needle(asked.query)})

Literal(i) == HasNeedle(i) \/ FirstLiteral(i)

(* What a pass that found nothing has shown of the messages that are there *)
(* all along: none is what it was looking for.  A query of no words passes *)
(* over the first of them.                                                 *)
SearchInv ==
  /\ LogFacts
  /\ text \in [Ids -> Texts]
  /\ asked.limit \in Nat \ {0}
  /\ steady \subseteq Stored
  /\ step \in {"idle", "match"} => hits = {}
  /\ step = "like" /\ ~swallowed =>
       /\ hits = {}
       /\ ftsQuery(asked.query) = {} \/ \A i \in steady \intersect Candidates : ~FirstLiteral(i)
  /\ step = "loose" /\ ~swallowed => \A i \in steady \intersect Candidates : ~Literal(i)
  /\ LooseLast

LEMMA LooseLastMeans ==
  LooseLast <=> (step = "done" /\ ~swallowed =>
                   \/ \A j \in hits \intersect steady : Literal(j)
                   \/ \A i \in steady \intersect Candidates : ~Literal(i))
BY DEF LooseLast, Literal, HasNeedle, FirstLiteral

LEMMA LooseLastMeansNext ==
  LooseLast' <=> (step' = "done" /\ ~swallowed' =>
                    \/ \A j \in hits' \intersect steady' : Literal(j)'
                    \/ \A i \in steady' \intersect Candidates' : ~Literal(i)')
BY DEF LooseLast, Literal, HasNeedle, FirstLiteral

(* A page that is empty had nothing to choose from. *)
LEMMA EmptyPage ==
  ASSUME NEW S, NEW P \in Newest(S), asked.limit \in Nat \ {0}
  PROVE  P \subseteq S /\ (P = {} => S = {})
<1>1. P \subseteq S /\ (P # S => Cardinality(P) = asked.limit)
  BY DEF Newest
<1>2. Cardinality({}) = 0
  BY FS_EmptySet
<1>3. QED
  BY <1>1, <1>2

LEMMA SearchBegins == LogInit /\ SearchInit => SearchInv
<1> SUFFICES ASSUME LogInit, SearchInit PROVE SearchInv
  OBVIOUS
<1>1. LogFacts
  BY LogAssumption DEF LogInit, LogFacts, Times
<1>2. LooseLast
  BY DEF SearchInit, LooseLast
<1>3. QED
  BY <1>1, <1>2 DEF SearchInit, SearchInv

(* A message that is stored is not among those that were there when the    *)
(* search began; an edited one no longer is.                               *)
LEMMA WriterStep ==
  ASSUME SearchInv, LogFacts', text' \in [Ids -> Texts],
         \A i \in Stored : i \in Stored' /\ written'[i] = written[i],
         UNCHANGED <<step, asked, hits, swallowed>>, steady' \subseteq steady,
         \A i \in steady' : text'[i] = text[i]
  PROVE  SearchInv'
<1>1. steady' \subseteq Stored /\ steady \subseteq Stored /\ steady' \subseteq Stored'
  BY DEF SearchInv
<1>2. steady' \intersect Candidates' \subseteq steady \intersect Candidates
  BY <1>1 DEF Candidates
<1>3. \A i \in steady' : (Literal(i)' <=> Literal(i)) /\ (FirstLiteral(i)' <=> FirstLiteral(i))
  BY DEF Literal, HasNeedle, FirstLiteral
<1>4. LooseLast'
  BY <1>2, <1>3, LooseLastMeans, LooseLastMeansNext DEF SearchInv
<1>5. /\ step = "like" /\ ~swallowed =>
            ftsQuery(asked.query) = {} \/ \A i \in steady' \intersect Candidates' : ~FirstLiteral(i)'
      /\ step = "loose" /\ ~swallowed =>
            \A i \in steady' \intersect Candidates' : ~Literal(i)'
  BY <1>2, <1>3 DEF SearchInv
<1>6. QED
  BY <1>1, <1>4, <1>5 DEF SearchInv

(* A pass, or a search that begins, reads: rows and texts stay.            *)
LEMMA PassStep ==
  ASSUME SearchInv, SearchNext, ~Edit
  PROVE  SearchInv'
<1>0. /\ UNCHANGED <<log, text>> /\ LogFacts' /\ Stored' = Stored /\ written' = written
      /\ asked.limit \in Nat \ {0} /\ steady \subseteq Stored /\ text' \in [Ids -> Texts]
  BY DEF SearchNext, Search, FirstPass, FirstPassFails, NoNeedle, LikePass, LoosePass, PassFails,
         SearchInv, LogFacts, log, Stored
<1>1. CASE Search
  <2>1. /\ step = "idle" /\ step' \in {"done", "like", "match"} /\ steady' = Stored
        /\ step' = "like" => ftsQuery(asked'.query) = {}
        /\ asked'.limit \in Nat \ {0} /\ hits' = {} /\ swallowed' = swallowed
    BY <1>1, SearchAssumption DEF Search, SearchInv, SearchAssumption
  <2>2. LooseLast'
    BY <2>1, LooseLastMeansNext
  <2>3. QED
    BY <1>0, <2>1, <2>2 DEF SearchInv
<1>2. ASSUME UNCHANGED <<asked, steady>>
      PROVE  /\ Candidates' = Candidates
             /\ \A i : (Literal(i)' <=> Literal(i)) /\ (FirstLiteral(i)' <=> FirstLiteral(i))
  BY <1>0, <1>2 DEF Candidates, Literal, HasNeedle, FirstLiteral
<1>3. CASE FirstPass
  <2>1. PICK P \in Newest({i \in Candidates : FirstLiteral(i)}) : hits' = P
    BY <1>3 DEF FirstPass, FirstLiteral
  <2>2. /\ \A i \in hits' : FirstLiteral(i)
        /\ hits' = {} => \A i \in Candidates : ~FirstLiteral(i)
    BY <1>0, <2>1, EmptyPage
  <2>3. /\ step' = IF hits' = {} THEN "like" ELSE "done"
        /\ UNCHANGED <<asked, swallowed, steady>>
    BY <1>3 DEF FirstPass
  <2>4. \A i \in hits' : Literal(i)'
    BY <1>2, <2>2, <2>3 DEF Literal
  <2>5. LooseLast'
    BY <2>4, LooseLastMeansNext
  <2>6. QED
    BY <1>0, <1>2, <2>2, <2>3, <2>5 DEF SearchInv
<1>4. CASE FirstPassFails \/ PassFails
  <2>1. step' \in {"like", "failed"} /\ (step' = "like" => swallowed')
        /\ UNCHANGED <<asked, steady>>
    BY <1>4 DEF FirstPassFails, PassFails
  <2>2. LooseLast'
    BY <2>1, LooseLastMeansNext
  <2>3. QED
    BY <1>0, <2>1, <2>2 DEF SearchInv
<1>5. CASE NoNeedle
  <2>1. step = "like" /\ step' = "done" /\ UNCHANGED <<asked, hits, swallowed, steady>>
    BY <1>5 DEF NoNeedle
  <2>2. ~swallowed' => hits' = {}
    BY <2>1 DEF SearchInv
  <2>3. LooseLast'
    BY <2>2, LooseLastMeansNext
  <2>4. QED
    BY <1>0, <2>1, <2>3 DEF SearchInv
<1>6. CASE LikePass
  <2>1. PICK P \in Newest({i \in Candidates : HasNeedle(i)}) : hits' = P
    BY <1>6 DEF LikePass, HasNeedle
  <2>2. /\ \A i \in hits' : HasNeedle(i)
        /\ hits' = {} => \A i \in Candidates : ~HasNeedle(i)
    BY <1>0, <2>1, EmptyPage
  <2>3. /\ step = "like"
        /\ step' = IF hits' # {} \/ literalTerms(asked.query) = {} THEN "done" ELSE "loose"
        /\ UNCHANGED <<asked, swallowed, steady>>
    BY <1>6 DEF LikePass
  <2>4. \A i \in hits' : Literal(i)'
    BY <1>2, <2>2, <2>3 DEF Literal
  <2>5. LooseLast'
    BY <2>4, LooseLastMeansNext
  <2>6. ASSUME step' = "loose", ~swallowed
        PROVE  \A i \in steady' \intersect Candidates' : ~Literal(i)'
    <3>1. hits' = {} /\ ftsQuery(asked.query) # {}
      BY <2>3, <2>6 DEF literalTerms
    <3>2. \A i \in steady \intersect Candidates : ~FirstLiteral(i)
      BY <2>3, <2>6, <3>1 DEF SearchInv
    <3>3. QED
      BY <1>2, <2>2, <2>3, <3>1, <3>2 DEF Literal
  <2>7. QED
    BY <1>0, <2>3, <2>5, <2>6 DEF SearchInv
<1>7. CASE LoosePass
  <2>1. step = "loose" /\ step' = "done" /\ UNCHANGED <<asked, swallowed, steady>>
    BY <1>7 DEF LoosePass
  <2>2. LooseLast'
    BY <1>2, <2>1, LooseLastMeansNext DEF SearchInv
  <2>3. QED
    BY <1>0, <2>1, <2>2 DEF SearchInv
<1>8. QED
  BY <1>1, <1>3, <1>4, <1>5, <1>6, <1>7 DEF SearchNext

LEMMA SearchStep == SearchInv /\ [SearchMove]_svars => SearchInv'
<1> SUFFICES ASSUME SearchInv, [SearchMove]_svars PROVE SearchInv'
  OBVIOUS
<1>1. CASE LogNext /\ UNCHANGED <<text, searching>>
  <2>1. LogFacts' /\ \A i \in Stored : i \in Stored' /\ written'[i] = written[i]
    BY <1>1, LogKeeps DEF SearchInv
  <2>2. text' \in [Ids -> Texts] /\ UNCHANGED <<text, step, asked, hits, swallowed, steady>>
    BY <1>1 DEF searching, SearchInv
  <2>3. QED
    BY <2>1, <2>2, WriterStep
<1>2. CASE Edit
  <2>0. LogFacts
    BY DEF SearchInv
  <2>1. PICK e \in 1..Len(written), t \in Texts :
          text' = [text EXCEPT ![e] = t] /\ steady' = steady \ {e}
    BY <1>2 DEF Edit
  <2>2. /\ UNCHANGED <<log, step, asked, hits, swallowed>>
        /\ steady \subseteq Stored /\ text \in [Ids -> Texts]
    BY <1>2 DEF Edit, SearchInv
  <2>3. text' \in [Ids -> Texts]
    BY <2>1, <2>2
  <2>4. \A i \in steady' : text'[i] = text[i]
    <3>1. \A i \in Stored : i \in Ids
      BY <2>0, LogAssumption DEF Stored, Ids, LogFacts, LogAssumption
    <3>2. QED
      BY <2>1, <2>2, <3>1
  <2>5. LogFacts' /\ Stored' = Stored /\ written' = written /\ steady' \subseteq steady
    BY <2>0, <2>1, <2>2 DEF log, LogFacts, Stored
  <2>6. QED
    BY <2>2, <2>3, <2>4, <2>5, WriterStep
<1>3. CASE SearchNext /\ ~Edit
  BY <1>3, PassStep
<1>4. CASE UNCHANGED svars
  <2>1. LogFacts' /\ Stored' = Stored /\ written' = written /\ UNCHANGED <<text, searching>>
    BY <1>4 DEF svars, log, SearchInv, LogFacts, Stored
  <2>2. text' \in [Ids -> Texts] /\ UNCHANGED <<text, step, asked, hits, swallowed, steady>>
    BY <1>4 DEF svars, searching, SearchInv
  <2>3. QED
    BY <2>1, <2>2, WriterStep
<1>5. QED
  BY <1>1, <1>2, <1>3, <1>4 DEF SearchMove, SearchNext

(* "Only when the literal reading finds nothing anywhere does the loose    *)
(* MATCH get a turn", for any texts, query, limit and writers between the  *)
(* passes: a hit without the query's punctuation means that no message     *)
(* that was there all along has it (search.go:28-100).                     *)
THEOREM LooseIsLast == SearchSpec => []LooseLast
<1>1. LogInit /\ SearchInit => SearchInv
  BY SearchBegins
<1>2. SearchInv /\ [SearchMove]_svars => SearchInv'
  BY SearchStep
<1>3. SearchInv => LooseLast
  BY DEF SearchInv
<1>4. QED
  BY <1>1, <1>2, <1>3, PTL DEF SearchSpec, SearchMove

-----------------------------------------------------------------------------
(* Whoever spells the query out                                            *)

Spelled(i) == needle(asked.query) # <<>> /\ OccursWhole(needle(asked.query), text[i])

FoundAmong(P, i) == i \in P \/ (Cardinality(P) = asked.limit /\ \A j \in P : Earlier(i, j))

(* The loose pass runs after a LIKE pass in vain, whether or not the first *)
(* pass failed; and the hits are stored, so that none of them moves.       *)
SpelledInv ==
  /\ IsString(asked.query)
  /\ hits \subseteq Stored
  /\ step = "loose" => \A i \in steady \intersect Candidates : ~HasNeedle(i)
  /\ SpelledFound

LEMMA SpelledFoundMeans ==
  SpelledFound <=> (step = "done" /\ ReadsAlike(asked.query) =>
                      \A i \in steady \intersect Candidates : Spelled(i) => FoundAmong(hits, i))
BY DEF SpelledFound, Spelled, FoundAmong

LEMMA SpelledFoundMeansNext ==
  SpelledFound' <=> (step' = "done" /\ ReadsAlike(asked'.query) =>
                       \A i \in steady' \intersect Candidates' : Spelled(i)' => FoundAmong(hits, i)')
BY DEF SpelledFound, Spelled, FoundAmong

(* A page leaves out only what is older than all of it, once it is full.   *)
LEMMA PageFinds ==
  ASSUME NEW S, NEW P \in Newest(S)
  PROVE  P \subseteq S /\ \A i \in S : FoundAmong(P, i)
BY DEF Newest, FoundAmong

LEMMA SpelledHasNeedle == ASSUME NEW i, Spelled(i) PROVE HasNeedle(i)
<1>1. Occurs(needle(asked.query), text[i])
  BY DEF Spelled, OccursWhole, Occurs
<1> QED
  BY <1>1 DEF HasNeedle, Like

(* Whoever has the needle has what the query's terms ask for as well: the  *)
(* words of the needle, and its punctuation.                               *)
LEMMA SpelledIsLiteral ==
  ASSUME NEW i, Spelled(i), ReadsAlike(asked.query), IsString(asked.query), IsString(text[i])
  PROVE  FirstLiteral(i)
<1> DEFINE q == asked.query
           s == text[i]
           E == {q[k] : k \in DOMAIN q} \union {s[k] : k \in DOMAIN s}
<1>1. q \in Seq(E) /\ s \in Seq(E)
  <2>1. q \in Seq({q[k] : k \in DOMAIN q}) /\ s \in Seq({s[k] : k \in DOMAIN s})
    BY DEF IsString
  <2> QED
    BY <2>1, SeqGrows
<1>2. /\ needle(q) # <<>> /\ OccursWhole(needle(q), s)
      /\ \A t \in ftsQuery(q) : Occurs(Words(t), Words(needle(q)))
      /\ \A t \in literalTerms(q) : Occurs(t, needle(q))
  BY DEF Spelled, ReadsAlike
<1> HIDE DEF q, s, E
<1>3. needle(q) \in Seq(E)
  BY <1>1, NeedleTyped
<1>4. Occurs(needle(q), s) /\ Occurs(Words(needle(q)), Words(s))
  <2>1. Occurs(needle(q), s)
    BY <1>2 DEF OccursWhole, Occurs
  <2> QED
    BY <1>1, <1>2, <1>3, <2>1, WordsWhole
<1>5. ASSUME NEW t \in ftsQuery(q)
      PROVE  \E F : /\ t \in Seq(F) /\ needle(q) \in Seq(F) /\ s \in Seq(F)
                    /\ Words(t) \in Seq(Seq(F)) /\ Words(needle(q)) \in Seq(Seq(F))
                    /\ Words(s) \in Seq(Seq(F))
  <2> DEFINE R == {t[k] : k \in DOMAIN t}
             F == E \union R
  <2>1. t \in Seq(R)
    <3>1. IsString(t)
      BY <1>1, TermsAreStrings DEF ftsQuery
    <3> QED
      BY <3>1 DEF IsString
  <2> HIDE DEF R
  <2>2. t \in Seq(F) /\ needle(q) \in Seq(F) /\ s \in Seq(F)
    BY <1>1, <1>3, <2>1, SeqGrows
  <2> HIDE DEF F
  <2>3. Words(t) \in Seq(Seq(F)) /\ Words(needle(q)) \in Seq(Seq(F)) /\ Words(s) \in Seq(Seq(F))
    BY <2>2, PiecesTyped DEF Words
  <2> QED
    BY <2>2, <2>3
<1>6. \A t \in ftsQuery(q) : Occurs(Words(t), Words(s))
  <2>1. SUFFICES ASSUME NEW t \in ftsQuery(q) PROVE Occurs(Words(t), Words(s))
    OBVIOUS
  <2>2. PICK F : /\ Words(t) \in Seq(Seq(F)) /\ Words(needle(q)) \in Seq(Seq(F))
                 /\ Words(s) \in Seq(Seq(F))
    BY <1>5
  <2> DEFINE W == Seq(F)
  <2>3. Words(t) \in Seq(W) /\ Words(needle(q)) \in Seq(W) /\ Words(s) \in Seq(W)
    BY <2>2
  <2> HIDE DEF W
  <2> QED
    BY <1>2, <1>4, <2>3, OccursThrough
<1>7. \A t \in literalTerms(q) : Occurs(t, s)
  <2>1. SUFFICES ASSUME NEW t \in literalTerms(q) PROVE Occurs(t, s)
    OBVIOUS
  <2>2. t \in ftsQuery(q)
    BY DEF literalTerms
  <2>3. PICK F : t \in Seq(F) /\ needle(q) \in Seq(F) /\ s \in Seq(F)
    BY <1>5, <2>2
  <2> QED
    BY <1>2, <1>4, <2>3, OccursThrough
<1> QED
  BY <1>6, <1>7 DEF FirstLiteral, Match, Like, q, s

-----------------------------------------------------------------------------
LEMMA SpelledBegins == SearchInit => SpelledInv
<1> SUFFICES ASSUME SearchInit PROVE SpelledInv
  OBVIOUS
<1>1. IsString(<<>>)
  BY DEF IsString
<1> QED
  BY <1>1 DEF SearchInit, SpelledInv, SpelledFound

(* A writer leaves the hits, and what was there all along, where they are  *)
(* in the order.                                                           *)
LEMMA WriterLeavesFound ==
  ASSUME SearchInv, SpelledInv, UNCHANGED <<step, asked, hits>>, steady' \subseteq steady,
         \A i \in Stored : i \in Stored' /\ written'[i] = written[i] /\ row'[i] = row[i],
         \A i \in steady' : text'[i] = text[i]
  PROVE  SpelledInv'
<1>1. steady \subseteq Stored /\ hits \subseteq Stored /\ hits' \subseteq Stored'
  BY DEF SearchInv, SpelledInv
<1>2. steady' \intersect Candidates' \subseteq steady \intersect Candidates
  BY <1>1 DEF Candidates
<1>3. \A i \in steady' : (HasNeedle(i)' <=> HasNeedle(i)) /\ (Spelled(i)' <=> Spelled(i))
  BY DEF HasNeedle, Spelled
<1>4. \A i \in steady : FoundAmong(hits, i) => FoundAmong(hits, i)'
  BY <1>1 DEF FoundAmong, Earlier
<1>5. SpelledFound'
  BY <1>2, <1>3, <1>4, SpelledFoundMeans, SpelledFoundMeansNext DEF SpelledInv
<1> QED
  BY <1>1, <1>2, <1>3, <1>5 DEF SpelledInv

LEMMA PassFinds ==
  ASSUME SearchInv, SpelledInv, SearchNext, ~Edit
  PROVE  SpelledInv'
<1>1. /\ UNCHANGED <<log, text>> /\ Stored' = Stored /\ steady \subseteq Stored
      /\ hits \subseteq Stored /\ Candidates \subseteq Stored
  BY DEF SearchNext, Search, FirstPass, FirstPassFails, NoNeedle, LikePass, LoosePass, PassFails,
         SearchInv, SpelledInv, log, Stored, Candidates
<1>2. \A i \in Candidates : IsString(text[i])
  <2>1. \A i \in Stored : text[i] \in Texts
    BY StoredTyped DEF SearchInv
  <2> QED
    BY <1>1, <2>1, SearchAssumption DEF SearchAssumption
<1>3. CASE Search
  <2>1. PICK raw \in Queries : asked'.query = Trim(raw)
    BY <1>3 DEF Search
  <2>2. /\ step' \in {"done", "like", "match"} /\ (step' = "done" => Trim(raw) = <<>>)
        /\ hits' = hits
    BY <1>3, <2>1 DEF Search
  <2>3. IsString(asked'.query) /\ needle(<<>>) = <<>>
    <3>1. raw \in Seq({raw[k] : k \in DOMAIN raw})
      BY SearchAssumption DEF SearchAssumption, IsString
    <3> QED
      BY <2>1, <3>1, TrimTyped, StringOf, NeedleTyped
  <2>4. SpelledFound'
    BY <2>1, <2>2, <2>3, SpelledFoundMeansNext DEF Spelled
  <2> QED
    BY <1>1, <2>2, <2>3, <2>4 DEF SpelledInv
<1>4. ASSUME UNCHANGED <<asked, steady>>, hits' \subseteq Stored,
             step' = "loose" => \A i \in steady \intersect Candidates : ~HasNeedle(i),
             step' = "done" /\ ReadsAlike(asked.query) =>
               \A i \in steady \intersect Candidates : Spelled(i) => FoundAmong(hits', i)
      PROVE  SpelledInv'
  <2>1. /\ Candidates' = Candidates
        /\ \A i : (HasNeedle(i)' <=> HasNeedle(i)) /\ (Spelled(i)' <=> Spelled(i))
        /\ \A i : FoundAmong(hits', i) => FoundAmong(hits, i)'
    BY <1>1, <1>4 DEF Candidates, HasNeedle, Spelled, FoundAmong, Earlier, log
  <2>2. SpelledFound'
    BY <1>4, <2>1, SpelledFoundMeansNext
  <2> QED
    BY <1>1, <1>4, <2>1, <2>2 DEF SpelledInv
<1>5. CASE FirstPass
  <2>1. PICK P \in Newest({i \in Candidates : FirstLiteral(i)}) : hits' = P
    BY <1>5 DEF FirstPass, FirstLiteral
  <2>2. step' \in {"like", "done"} /\ UNCHANGED <<asked, steady>>
    BY <1>5 DEF FirstPass
  <2>3. hits' \subseteq Candidates /\ \A i \in Candidates : FirstLiteral(i) => FoundAmong(hits', i)
    BY <2>1, PageFinds
  <2>4. ReadsAlike(asked.query) => \A i \in Candidates : Spelled(i) => FirstLiteral(i)
    BY <1>2, SpelledIsLiteral DEF SpelledInv
  <2> QED
    BY <1>1, <1>4, <2>2, <2>3, <2>4
<1>6. CASE FirstPassFails \/ PassFails
  BY <1>1, <1>4, <1>6 DEF FirstPassFails, PassFails
<1>7. CASE NoNeedle
  <2>1. needle(asked.query) = <<>> /\ step' = "done" /\ UNCHANGED <<asked, hits, steady>>
    BY <1>7 DEF NoNeedle
  <2>2. \A i : ~Spelled(i)
    BY <2>1 DEF Spelled
  <2> QED
    BY <1>1, <1>4, <2>1, <2>2
<1>8. CASE LikePass
  <2>1. PICK P \in Newest({i \in Candidates : HasNeedle(i)}) : hits' = P
    BY <1>8 DEF LikePass, HasNeedle
  <2>2. UNCHANGED <<asked, steady>> /\ (step' = "loose" => hits' = {})
    BY <1>8 DEF LikePass
  <2>3. hits' \subseteq Candidates /\ \A i \in Candidates : HasNeedle(i) => FoundAmong(hits', i)
    BY <2>1, PageFinds
  <2>4. hits' = {} => \A i \in Candidates : ~HasNeedle(i)
    BY <2>1, EmptyPage DEF SearchInv
  <2> QED
    BY <1>1, <1>4, <2>2, <2>3, <2>4, SpelledHasNeedle
<1>9. CASE LoosePass
  <2>1. PICK P \in Newest({i \in Candidates : Match(text[i], ftsQuery(asked.query))}) : hits' = P
    BY <1>9 DEF LoosePass
  <2>2. step = "loose" /\ step' = "done" /\ UNCHANGED <<asked, steady>>
    BY <1>9 DEF LoosePass
  <2>3. hits' \subseteq Candidates
    BY <2>1, PageFinds
  <2>4. \A i \in steady \intersect Candidates : ~Spelled(i)
    BY <2>2, SpelledHasNeedle DEF SpelledInv
  <2> QED
    BY <1>1, <1>4, <2>2, <2>3, <2>4
<1> QED
  BY <1>3, <1>5, <1>6, <1>7, <1>8, <1>9 DEF SearchNext

LEMMA SpelledStep == SearchInv /\ SpelledInv /\ [SearchMove]_svars => SpelledInv'
<1> SUFFICES ASSUME SearchInv, SpelledInv, [SearchMove]_svars PROVE SpelledInv'
  OBVIOUS
<1>1. CASE LogNext /\ UNCHANGED <<text, searching>>
  BY <1>1, LogKeeps, WriterLeavesFound DEF searching, SearchInv
<1>2. CASE Edit
  <2>1. PICK e \in 1..Len(written), t \in Texts :
          text' = [text EXCEPT ![e] = t] /\ steady' = steady \ {e}
    BY <1>2 DEF Edit
  <2>2. UNCHANGED <<log, step, asked, hits, swallowed>> /\ text \in [Ids -> Texts]
    BY <1>2 DEF Edit, SearchInv
  <2>3. steady' \subseteq steady /\ \A i \in steady' : text'[i] = text[i]
    <3>1. \A i \in steady : i \in Ids
      BY StoredTyped DEF SearchInv
    <3> QED
      BY <2>1, <2>2, <3>1
  <2> QED
    BY <2>2, <2>3, WriterLeavesFound DEF log, Stored
<1>3. CASE SearchNext /\ ~Edit
  BY <1>3, PassFinds
<1>4. CASE UNCHANGED svars
  BY <1>4, WriterLeavesFound DEF svars, searching, log, Stored
<1> QED
  BY <1>1, <1>2, <1>3, <1>4 DEF SearchMove, SearchNext

(* For any texts and queries that read alike without their quotes, and     *)
(* whatever is stored and edited between the passes: a message that was    *)
(* there all along and spells the query out is among the hits, or newer    *)
(* ones fill the limit (search.go:28-100).                                 *)
THEOREM SpelledIsFound == SearchSpec => []SpelledFound
<1>1. LogInit /\ SearchInit => SearchInv /\ SpelledInv
  BY SearchBegins, SpelledBegins
<1>2. SearchInv /\ SpelledInv /\ [SearchMove]_svars => (SearchInv /\ SpelledInv)'
  BY SearchStep, SpelledStep
<1>3. SpelledInv => SpelledFound
  BY DEF SpelledInv
<1> QED
  BY <1>1, <1>2, <1>3, PTL DEF SearchSpec, SearchMove

-----------------------------------------------------------------------------
(* Thread *)

ThreadMove == (LogNext /\ UNCHANGED call) \/ ThreadNext

-----------------------------------------------------------------------------
(* The cut *)

Place(S, i) == Cardinality({j \in S : Earlier(j, i)})

(* The places of a set of n messages are 0..n - 1, in their order.         *)
LEMMA PlacesInOrder ==
  ASSUME LogFacts, NEW S, S \subseteq Stored
  PROVE  /\ \A i \in S : Place(S, i) \in 0..(Cardinality(S) - 1)
         /\ \A i, j \in S : Earlier(i, j) => Place(S, i) < Place(S, j)
         /\ \A n \in 0..(Cardinality(S) - 1) : \E i \in S : Place(S, i) = n
<1> DEFINE Ahead(i) == {j \in S : Earlier(j, i)}
<1>1. IsFiniteSet(S) /\ Cardinality(S) \in Nat
  BY StoredFinite
<1>2. ASSUME NEW i \in S
      PROVE  /\ Ahead(i) \in SUBSET S /\ i \notin Ahead(i)
             /\ IsFiniteSet(Ahead(i)) /\ Cardinality(Ahead(i)) \in 0..(Cardinality(S) - 1)
  <2>1. Ahead(i) \in SUBSET S /\ i \notin Ahead(i)
    BY EarlierOrders
  <2>2. /\ IsFiniteSet(Ahead(i)) /\ Cardinality(Ahead(i)) <= Cardinality(S)
        /\ Cardinality(S) # Cardinality(Ahead(i))
    BY <1>1, <2>1, FS_Subset
  <2>3. Cardinality(Ahead(i)) \in Nat
    BY <2>2, FS_CardinalityType
  <2> QED
    BY <1>1, <2>1, <2>2, <2>3
<1>3. ASSUME NEW i \in S, NEW j \in S, Earlier(i, j)
      PROVE  Cardinality(Ahead(i)) < Cardinality(Ahead(j))
  <2>1. Ahead(i) \in SUBSET Ahead(j) /\ Ahead(i) # Ahead(j)
    <3>1. i \in Ahead(j) /\ i \notin Ahead(i)
      BY <1>2, <1>3
    <3>2. \A k \in Ahead(i) : k \in Ahead(j)
      BY <1>3, EarlierOrders
    <3> QED
      BY <3>1, <3>2
  <2>2. IsFiniteSet(Ahead(j))
    BY <1>2
  <2>3. /\ Cardinality(Ahead(i)) <= Cardinality(Ahead(j))
        /\ Cardinality(Ahead(i)) # Cardinality(Ahead(j))
    BY <2>1, <2>2, FS_Subset
  <2>4. \A k \in S : Cardinality(Ahead(k)) \in Int
    <3> HIDE DEF Ahead
    <3> QED
      BY <1>1, <1>2
  <2> QED
    BY <2>3, <2>4
<1>4. \A n \in 0..(Cardinality(S) - 1) : \E i \in S : Cardinality(Ahead(i)) = n
  <2> DEFINE T == 0..(Cardinality(S) - 1)
             f == [i \in S |-> Cardinality(Ahead(i))]
  <2>1. f \in [S -> T]
    BY <1>2
  <2>2. \A i, j \in S : f[i] = f[j] => i = j
    <3>1. SUFFICES ASSUME NEW i \in S, NEW j \in S, i # j
                   PROVE  f[i] # f[j]
      OBVIOUS
    <3>2. Earlier(i, j) \/ Earlier(j, i)
      BY <3>1, EarlierOrders
    <3>3. f[i] < f[j] \/ f[j] < f[i]
      BY <1>3, <3>2
    <3>4. \A k \in S : f[k] \in Int
      BY <1>1, <2>1
    <3> QED
      BY <3>3, <3>4
  <2>3. f \in Injection(S, T)
    BY <2>1, <2>2 DEF Injection, IsInjective
  <2>4. IsFiniteSet(T) /\ Cardinality(T) = Cardinality(S)
    BY <1>1, FS_Interval
  <2> HIDE DEF T, f
  <2>5. f \in Surjection(S, T)
    BY <2>3, <2>4, FS_Injection
  <2>6. \A n \in T : \E i \in S : f[i] = n
    BY <2>5 DEF Surjection
  <2> QED
    BY <2>6 DEF T, f
<1> QED
  BY <1>2, <1>3, <1>4 DEF Place

(* Cap of the messages, the anchor among them, in one piece.               *)
LEMMA CapAroundCuts ==
  ASSUME LogFacts, NEW S, S \subseteq Stored, anchor \in S, Cardinality(S) > Cap
  PROVE  /\ CapAround(S) \subseteq S /\ anchor \in CapAround(S)
         /\ Cardinality(CapAround(S)) = Cap
         /\ Unbroken(CapAround(S), S)
<1> DEFINE n == Cardinality(S)
           at == Place(S, anchor)
           centred == IF at > Cap \div 2 THEN at - Cap \div 2 ELSE 0
           start == IF centred > n - Cap THEN n - Cap ELSE centred
           R == CapAround(S)
<1>1. n \in Nat /\ at \in 0..(n - 1) /\ Cap \in Nat \ {0} /\ n > Cap
  BY StoredFinite, PlacesInOrder, ThreadAssumption
<1>2. Cap \div 2 \in Nat /\ Cap \div 2 < Cap
  BY <1>1
<1>3. start \in Nat /\ start <= at /\ at < start + Cap /\ start + Cap <= n
  <2> HIDE DEF n, at
  <2> QED
    BY <1>1, <1>2
<1>4. R = {i \in S : start <= Place(S, i) /\ Place(S, i) < start + Cap}
  BY DEF CapAround, Place
<1> HIDE DEF start, R, n, at
<1>5. R \subseteq S /\ anchor \in R
  BY <1>3, <1>4 DEF at
<1>6. \A i \in S : Place(S, i) \in Int
  BY PlacesInOrder, <1>1 DEF n
<1>7. Unbroken(R, S)
  <2>1. SUFFICES ASSUME NEW i \in R, NEW j \in S, NEW k \in R, Earlier(i, j), Earlier(j, k)
                 PROVE  j \in R
    BY DEF Unbroken
  <2>2. Place(S, i) < Place(S, j) /\ Place(S, j) < Place(S, k)
    BY <1>5, <2>1, PlacesInOrder
  <2>3. start <= Place(S, i) /\ Place(S, k) < start + Cap
    BY <1>4
  <2>4. Place(S, i) \in Int /\ Place(S, j) \in Int /\ Place(S, k) \in Int
    BY <1>5, <1>6
  <2>5. start <= Place(S, j) /\ Place(S, j) < start + Cap
    BY <2>2, <2>3, <2>4, <1>1, <1>3
  <2> QED
    BY <2>5, <1>4
<1>8. Cardinality(R) = Cap
  <2> DEFINE T == start..(start + Cap - 1)
             f == [i \in R |-> Place(S, i)]
  <2>1. IsFiniteSet(T) /\ Cardinality(T) = Cap
    BY <1>1, <1>3, FS_Interval
  <2>2. f \in [R -> T]
    BY <1>1, <1>3, <1>4, <1>6
  <2>3. \A i, j \in R : f[i] = f[j] => i = j
    <3>1. SUFFICES ASSUME NEW i \in R, NEW j \in R, i # j
                   PROVE  f[i] # f[j]
      OBVIOUS
    <3>2. Earlier(i, j) \/ Earlier(j, i)
      BY <1>5, <3>1, EarlierOrders
    <3>3. Place(S, i) < Place(S, j) \/ Place(S, j) < Place(S, i)
      BY <1>5, <3>2, PlacesInOrder
    <3>4. Place(S, i) \in Int /\ Place(S, j) \in Int
      BY <1>5, <1>6
    <3> QED
      BY <3>3, <3>4
  <2>4. \A m \in T : \E i \in R : f[i] = m
    <3>1. SUFFICES ASSUME NEW m \in T
                   PROVE  \E i \in R : Place(S, i) = m
      OBVIOUS
    <3>2. m \in 0..(n - 1) /\ start <= m /\ m < start + Cap
      BY <1>1, <1>3
    <3>3. PICK i \in S : Place(S, i) = m
      BY <3>2, PlacesInOrder DEF n
    <3> QED
      BY <3>2, <3>3, <1>4
  <2>5. f \in Injection(R, T) /\ f \in Surjection(R, T)
    BY <2>2, <2>3, <2>4 DEF Injection, IsInjective, Surjection
  <2> HIDE DEF T, f
  <2> QED
    BY <2>1, <2>5, FS_Injection
<1> QED
  BY <1>5, <1>7, <1>8 DEF R

-----------------------------------------------------------------------------
(* The walk *)

(* A step of the log moves nothing the call has collected or has left out. *)
LEMMA LogStepThread ==
  ASSUME ThreadInv, LogNext, UNCHANGED call
  PROVE  ThreadInv'
<1>1. /\ LogFacts'
      /\ \A i \in Stored : /\ i \in Stored' /\ written'[i] = written[i]
                           /\ row'[i] = row[i]
  BY LogKeeps DEF ThreadInv
<1>2. UNCHANGED <<pc, anchor, current, core, frontier, span, result, truncated, base>>
  BY DEF call
<1>3. /\ base \subseteq Stored /\ core \subseteq Stored /\ span \subseteq Stored
      /\ pc # "idle" => anchor \in Stored
  BY DEF ThreadInv, Collecting
<1>4. \A i, j \in Stored : Earlier(i, j)' <=> Earlier(i, j)
  BY <1>1 DEF Earlier
<1>5. pc # "idle" => \A j \in base : InWindow(core, j)' <=> InWindow(core, j)
  BY <1>1, <1>2, <1>3 DEF InWindow
<1>6. Collecting'
  BY <1>1, <1>2, <1>3 DEF ThreadInv, Collecting
<1>7. Climbed' /\ Descended' /\ WalkOver'
  BY <1>1, <1>2, <1>3 DEF ThreadInv, Climbed, Descended, WalkOver, Exhausted
<1>8. FilledBefore'
  <2>1. SUFFICES ASSUME pc \in {"after", "merge", "done"}, NEW j \in base \ span,
                        InWindow(core, j)', ~Earlier(anchor, j)'
                 PROVE  \E P \in SUBSET span : /\ Cardinality(P) = Cap + 1
                                              /\ \A p \in P : Earlier(j, p)' /\ ~Earlier(anchor, p)'
    BY <1>2 DEF FilledBefore
  <2>2. InWindow(core, j) /\ ~Earlier(anchor, j) /\ anchor \in Stored /\ j \in Stored
    BY <2>1, <1>1, <1>2, <1>3, <1>5 DEF Earlier
  <2>3. PICK P \in SUBSET span : /\ Cardinality(P) = Cap + 1
                                 /\ \A p \in P : Earlier(j, p) /\ ~Earlier(anchor, p)
    BY <2>1, <2>2 DEF ThreadInv, FilledBefore
  <2> QED
    <3>1. \A p \in P : p \in Stored
      BY <1>3
    <3> QED
      BY <2>2, <2>3, <3>1, <1>1, <1>2 DEF Earlier
<1>9. FilledAfter'
  <2>1. SUFFICES ASSUME pc \in {"merge", "done"}, NEW j \in base \ span,
                        InWindow(core, j)', Earlier(anchor, j)'
                 PROVE  \E P \in SUBSET span : /\ Cardinality(P) = Cap + 1
                                              /\ \A p \in P : Earlier(p, j)' /\ Earlier(anchor, p)'
    BY <1>2 DEF FilledAfter
  <2>2. InWindow(core, j) /\ Earlier(anchor, j) /\ anchor \in Stored /\ j \in Stored
    BY <2>1, <1>1, <1>2, <1>3, <1>5 DEF Earlier
  <2>3. PICK P \in SUBSET span : /\ Cardinality(P) = Cap + 1
                                 /\ \A p \in P : Earlier(p, j) /\ Earlier(anchor, p)
    BY <2>1, <2>2 DEF ThreadInv, FilledAfter
  <2> QED
    <3>1. \A p \in P : p \in Stored
      BY <1>3
    <3> QED
      BY <2>2, <2>3, <3>1, <1>1, <1>2 DEF Earlier
<1>10. Answered'
  <2>1. pc = "done" => result \subseteq Stored
    BY <1>3 DEF ThreadInv, Answered
  <2> QED
    BY <1>2, <1>3, <1>4, <2>1 DEF ThreadInv, Answered, Unbroken
<1> QED
  BY <1>1, <1>6, <1>7, <1>8, <1>9, <1>10 DEF ThreadInv

LEMMA BeginStep ==
  ASSUME ThreadInv, Begin
  PROVE  ThreadInv'
<1> USE DEF Begin, ThreadInv
<1>1. UNCHANGED log /\ pc' = "chain" /\ anchor' \in Stored
  OBVIOUS
<1>2. LogFacts' /\ Stored' = Stored
  BY <1>1 DEF log, LogFacts, Stored
<1>3. Collecting'
  BY <1>2 DEF Collecting
<1>4. Climbed' /\ Descended' /\ WalkOver' /\ FilledBefore' /\ FilledAfter' /\ Answered'
  BY <1>1 DEF Climbed, Descended, WalkOver, FilledBefore, FilledAfter, Answered
<1> QED
  BY <1>2, <1>3, <1>4

LEMMA ClimbStep ==
  ASSUME ThreadInv, Climb
  PROVE  ThreadInv'
<1> USE DEF Climb, ThreadInv
<1>1. UNCHANGED log /\ pc = "chain" /\ pc' = "chain"
  OBVIOUS
<1>2. LogFacts' /\ Stored' = Stored /\ written' = written
  BY <1>1 DEF log, LogFacts, Stored
<1>3. Collecting'
  BY <1>2 DEF Collecting
<1>4. Climbed' /\ Descended' /\ WalkOver' /\ FilledBefore' /\ FilledAfter' /\ Answered'
  BY <1>1 DEF Climbed, Descended, WalkOver, FilledBefore, FilledAfter, Answered
<1> QED
  BY <1>2, <1>3, <1>4

LEMMA RootStep ==
  ASSUME ThreadInv, Root
  PROVE  ThreadInv'
<1> USE DEF Root, ThreadInv
<1>1. UNCHANGED log /\ pc = "chain" /\ pc' = "replies"
  OBVIOUS
<1>2. LogFacts' /\ Stored' = Stored /\ written' = written
  BY <1>1 DEF log, LogFacts, Stored
<1>3. Collecting'
  BY <1>2 DEF Collecting
<1>4. Climbed'
  BY <1>2 DEF Collecting, Climbed
<1>5. Descended'
  BY <1>2 DEF Descended
<1>6. WalkOver' /\ FilledBefore' /\ FilledAfter' /\ Answered'
  BY <1>1 DEF WalkOver, FilledBefore, FilledAfter, Answered
<1> QED
  BY <1>2, <1>3, <1>4, <1>5, <1>6

(* A query that returns its limit may leave replies out: the core has come *)
(* to the cap then.                                                        *)
LEMMA DescendStep ==
  ASSUME ThreadInv, Descend
  PROVE  ThreadInv'
<1> DEFINE Replies == {i \in Stored : written[i].reply \in frontier}
<1>1. UNCHANGED log /\ pc = "replies" /\ UNCHANGED <<pc, anchor, current, span, result, truncated, base>>
  BY DEF Descend
<1>2. LogFacts' /\ Stored' = Stored /\ written' = written
  BY <1>1 DEF log, LogFacts, Stored, ThreadInv
<1>3. PICK R \in SUBSET Replies : /\ IsHead(Replies, Cap, Earlier, R)
                                 /\ core' = core \union R /\ frontier' = R \ core
  BY DEF Descend
<1>4. Collecting'
  BY <1>1, <1>2, <1>3 DEF Collecting, ThreadInv
<1>5. Climbed'
  BY <1>1, <1>2, <1>3 DEF Collecting, Climbed, ThreadInv
<1>6. Descended'
  <2>1. CASE R = Replies
    <3>1. \A i \in base : written[i].reply \in core \ frontier => i \in core
      BY <1>1 DEF Descend, Exhausted, ThreadInv, Descended
    <3>2. core' \ frontier' = core
      BY <1>3
    <3>3. base \subseteq Stored
      BY DEF ThreadInv, Collecting
    <3>4. \A i \in base : written[i].reply \in core => i \in core'
      BY <2>1, <1>3, <3>1, <3>3
    <3> QED
      BY <1>1, <1>2, <3>2, <3>4 DEF Descended
  <2>2. CASE R # Replies
    <3>1. Cardinality(R) = Cap
      BY <1>3, <2>2 DEF IsHead
    <3>2. core' \subseteq Stored /\ R \in SUBSET core'
      BY <1>3 DEF ThreadInv, Collecting
    <3>3. IsFiniteSet(core')
      BY <3>2, StoredFinite DEF ThreadInv
    <3>4. Cardinality(core') >= Cap
      BY <3>1, <3>2, <3>3, FS_Subset, FS_CardinalityType, ThreadAssumption
    <3> QED
      BY <3>4 DEF Descended
  <2> QED
    BY <2>1, <2>2
<1>7. WalkOver' /\ FilledBefore' /\ FilledAfter' /\ Answered'
  BY <1>1 DEF WalkOver, FilledBefore, FilledAfter, Answered
<1> QED
  BY <1>2, <1>4, <1>5, <1>6, <1>7 DEF ThreadInv

LEMMA CollectedStep ==
  ASSUME ThreadInv, Collected
  PROVE  ThreadInv'
<1> USE DEF Collected, ThreadInv
<1>1. UNCHANGED log /\ pc = "replies" /\ pc' = "before"
  OBVIOUS
<1>2. LogFacts' /\ Stored' = Stored /\ written' = written
  BY <1>1 DEF log, LogFacts, Stored
<1>3. Collecting'
  BY <1>2 DEF Collecting
<1>4. Climbed' /\ Descended' /\ WalkOver'
  BY <1>1, <1>2 DEF Climbed, Descended, WalkOver, Exhausted
<1>5. FilledBefore' /\ FilledAfter' /\ Answered'
  BY <1>1 DEF FilledBefore, FilledAfter, Answered
<1> QED
  BY <1>2, <1>3, <1>4, <1>5

LEMMA FillBeforeStep ==
  ASSUME ThreadInv, FillBefore
  PROVE  ThreadInv'
<1> DEFINE Q == {i \in SpanWindow : ~Earlier(anchor, i)}
<1>1. UNCHANGED log /\ pc = "before" /\ pc' = "after"
      /\ UNCHANGED <<anchor, current, core, frontier, result, truncated, base>>
  BY DEF FillBefore
<1>2. LogFacts' /\ Stored' = Stored /\ UNCHANGED <<written, row>>
  BY <1>1 DEF log, LogFacts, Stored, ThreadInv
<1>3. PICK P \in SUBSET Q : IsHead(Q, Cap + 1, Later, P) /\ span' = P
  BY DEF FillBefore
<1>4. Collecting'
  BY <1>1, <1>2, <1>3 DEF Collecting, ThreadInv, SpanWindow
<1>5. Climbed' /\ Descended' /\ WalkOver'
  BY <1>1, <1>2 DEF ThreadInv, Climbed, Descended, WalkOver, Exhausted
<1>6. FilledBefore'
  <2>1. SUFFICES ASSUME NEW j \in base \ P, InWindow(core, j), ~Earlier(anchor, j)
                 PROVE  /\ Cardinality(P) = Cap + 1
                        /\ \A p \in P : Earlier(j, p) /\ ~Earlier(anchor, p)
    BY <1>1, <1>2, <1>3 DEF FilledBefore, InWindow, Earlier
  <2>2. j \in Q \ P
    BY <2>1 DEF SpanWindow, ThreadInv, Collecting
  <2> QED
    BY <1>3, <2>2 DEF IsHead, Later
<1>7. FilledAfter' /\ Answered'
  BY <1>1 DEF FilledAfter, Answered
<1> QED
  BY <1>2, <1>4, <1>5, <1>6, <1>7 DEF ThreadInv

LEMMA FillAfterStep ==
  ASSUME ThreadInv, FillAfter
  PROVE  ThreadInv'
<1> DEFINE Q == {i \in SpanWindow : Earlier(anchor, i)}
<1>1. UNCHANGED log /\ pc = "after" /\ pc' = "merge"
      /\ UNCHANGED <<anchor, current, core, frontier, result, truncated, base>>
  BY DEF FillAfter
<1>2. LogFacts' /\ Stored' = Stored /\ UNCHANGED <<written, row>>
  BY <1>1 DEF log, LogFacts, Stored, ThreadInv
<1>3. PICK P \in SUBSET Q : IsHead(Q, Cap + 1, Earlier, P) /\ span' = span \union P
  BY DEF FillAfter
<1>4. Collecting'
  BY <1>1, <1>2, <1>3 DEF Collecting, ThreadInv, SpanWindow
<1>5. Climbed' /\ Descended' /\ WalkOver'
  BY <1>1, <1>2 DEF ThreadInv, Climbed, Descended, WalkOver, Exhausted
<1>6. /\ \A j : InWindow(core, j)' <=> InWindow(core, j)
      /\ \A j : Earlier(anchor, j)' <=> Earlier(anchor, j)
      /\ \A j, p : Earlier(j, p)' <=> Earlier(j, p)
  BY <1>1, <1>2 DEF InWindow, Earlier
<1>7. FilledBefore'
  <2>1. \A j \in base \ span : InWindow(core, j) /\ ~Earlier(anchor, j) =>
          \E H \in SUBSET span : /\ Cardinality(H) = Cap + 1
                                /\ \A p \in H : Earlier(j, p) /\ ~Earlier(anchor, p)
    BY <1>1 DEF ThreadInv, FilledBefore
  <2>2. SUFFICES ASSUME NEW j \in base \ span', InWindow(core, j), ~Earlier(anchor, j)
                 PROVE  \E H \in SUBSET span' :
                          /\ Cardinality(H) = Cap + 1
                          /\ \A p \in H : Earlier(j, p) /\ ~Earlier(anchor, p)
    BY <1>1, <1>6 DEF FilledBefore
  <2> QED
    BY <1>3, <2>1, <2>2
<1>8. FilledAfter'
  <2>1. SUFFICES ASSUME NEW j \in base \ span', InWindow(core, j), Earlier(anchor, j)
                 PROVE  \E H \in SUBSET span' :
                          /\ Cardinality(H) = Cap + 1
                          /\ \A p \in H : Earlier(p, j) /\ Earlier(anchor, p)
    BY <1>1, <1>6 DEF FilledAfter
  <2>2. j \in Q \ P
    BY <2>1, <1>3 DEF SpanWindow, ThreadInv, Collecting
  <2> QED
    BY <1>3, <2>2 DEF IsHead
<1>9. Answered'
  BY <1>1 DEF Answered
<1> QED
  BY <1>2, <1>4, <1>5, <1>7, <1>8, <1>9 DEF ThreadInv

LEMMA MergeStep ==
  ASSUME ThreadInv, Merge
  PROVE  ThreadInv'
<1> DEFINE S == core \union span
<1>1. UNCHANGED log /\ pc = "merge" /\ pc' = "done"
      /\ UNCHANGED <<anchor, current, core, frontier, span, base>>
  BY DEF Merge
<1>2. LogFacts' /\ Stored' = Stored /\ UNCHANGED <<written, row>>
  BY <1>1 DEF log, LogFacts, Stored, ThreadInv
<1>3. Collecting'
  BY <1>1, <1>2 DEF Collecting, ThreadInv
<1>4. Climbed' /\ Descended' /\ WalkOver'
  BY <1>1, <1>2 DEF ThreadInv, Climbed, Descended, WalkOver, Exhausted
<1>5. FilledBefore'
  BY <1>1, <1>2 DEF ThreadInv, FilledBefore, InWindow, Earlier
<1>6. FilledAfter'
  BY <1>1, <1>2 DEF ThreadInv, FilledAfter, InWindow, Earlier
<1>7. Answered'
  <2>1. S \subseteq Stored /\ anchor \in S /\ LogFacts
    BY <1>1 DEF ThreadInv, Collecting
  <2>2. Cardinality(S) \in Nat /\ Cap \in Nat
    BY <2>1, StoredFinite, ThreadAssumption
  <2>3. /\ truncated' <=> Cardinality(S) > Cap
        /\ result' = IF Cardinality(S) > Cap THEN CapAround(S) ELSE S
    BY DEF Merge
  <2>4. CASE Cardinality(S) > Cap
    <3>1. /\ result' \subseteq S /\ anchor \in result' /\ Cardinality(result') = Cap
          /\ Unbroken(CapAround(S), S) /\ truncated'
      BY <2>1, <2>3, <2>4, CapAroundCuts
    <3>2. Unbroken(result, S)'
      BY <3>1, <1>1, <1>2, <2>3, <2>4 DEF Unbroken, Earlier
    <3>3. Cardinality(result') <= Cap
      BY <2>2, <3>1
    <3> QED
      BY <1>1, <3>1, <3>2, <3>3 DEF Answered
  <2>5. CASE ~(Cardinality(S) > Cap)
    <3>1. result' = S /\ ~truncated'
      BY <2>3, <2>5
    <3>2. Unbroken(result, S)'
      BY <3>1, <1>1 DEF Unbroken
    <3>3. Cardinality(S) <= Cap
      BY <2>2, <2>5
    <3> QED
      BY <1>1, <2>1, <3>1, <3>2, <3>3 DEF Answered
  <2> QED
    BY <2>4, <2>5
<1> QED
  BY <1>2, <1>3, <1>4, <1>5, <1>6, <1>7 DEF ThreadInv

LEMMA ThreadInductive == ThreadSpec => []ThreadInv
<1>1. LogInit /\ ThreadInit => ThreadInv
  <2> USE LogAssumption
  <2>1. LogInit => LogFacts
    BY DEF LogInit, LogFacts, Times
  <2> QED
    BY <2>1 DEF ThreadInit, ThreadInv, Collecting, Climbed, Descended, WalkOver,
                FilledBefore, FilledAfter, Answered
<1>2. ThreadInv /\ [ThreadMove]_thvars => ThreadInv'
  <2> SUFFICES ASSUME ThreadInv, [ThreadMove]_thvars
               PROVE  ThreadInv'
    OBVIOUS
  <2>1. CASE LogNext /\ UNCHANGED call
    BY <2>1, LogStepThread
  <2>2. CASE ThreadNext
    BY <2>2, BeginStep, ClimbStep, RootStep, DescendStep, CollectedStep,
       FillBeforeStep, FillAfterStep, MergeStep DEF ThreadNext
  <2>3. CASE UNCHANGED thvars
    <3>1. UNCHANGED <<now, written, row, lastRow>> /\ UNCHANGED call
      BY <2>3 DEF thvars, log
    <3>2. LogFacts' /\ Collecting' /\ Climbed' /\ Descended' /\ WalkOver'
      BY <3>1 DEF call, ThreadInv, LogFacts, Collecting, Climbed, Descended, WalkOver,
                  Exhausted, Stored
    <3>3. FilledBefore'
      BY <3>1 DEF call, ThreadInv, FilledBefore, InWindow, Earlier
    <3>4. FilledAfter'
      BY <3>1 DEF call, ThreadInv, FilledAfter, InWindow, Earlier
    <3>5. Answered'
      BY <3>1 DEF call, ThreadInv, Answered, Unbroken, Earlier
    <3> QED
      BY <3>2, <3>3, <3>4, <3>5 DEF ThreadInv
  <2> QED
    BY <2>1, <2>2, <2>3 DEF ThreadMove
<1> QED
  BY <1>1, <1>2, PTL DEF ThreadSpec, ThreadMove

-----------------------------------------------------------------------------
(* The answer *)

(* A core whose walk came to its end is closed both ways, so that no chain *)
(* that meets the anchor's leaves it.                                      *)
LEMMA CoreHoldsConversation ==
  ASSUME ThreadInv, pc = "done", Cardinality(core) < Cap
  PROVE  Conversation(base) \subseteq core
<1>1. /\ core \subseteq Stored /\ frontier \subseteq core /\ anchor \in base \intersect core
  BY DEF ThreadInv, Collecting
<1>2. Cardinality(core) \in Nat /\ Cap \in Nat
  BY <1>1, StoredFinite, ThreadAssumption DEF ThreadInv
<1>3. frontier = {}
  BY <1>2 DEF ThreadInv, WalkOver, Exhausted
<1>4. \A i \in base : written[i].reply \in core => i \in core
  BY <1>2, <1>3 DEF ThreadInv, Descended
<1>5. \A x \in core : written[x].reply \in base => written[x].reply \in core
  BY DEF ThreadInv, Climbed
<1>6. Chain(base, anchor) \subseteq core
  <2> DEFINE C == base \intersect core
  <2>1. C \in SUBSET base /\ anchor \in C
    BY <1>1
  <2>2. \A j \in C : written[j].reply \in base => written[j].reply \in C
    BY <1>5
  <2> HIDE DEF C
  <2>3. Chain(base, anchor) \subseteq C
    BY <2>1, <2>2 DEF Chain
  <2> QED
    BY <2>3 DEF C
<1>7. ASSUME NEW i \in base \ core
      PROVE  Chain(base, i) \intersect core = {}
  <2> DEFINE C == base \ core
  <2>1. C \in SUBSET base /\ i \in C
    BY <1>7
  <2>2. \A j \in C : written[j].reply \in base => written[j].reply \in C
    BY <1>4
  <2> HIDE DEF C
  <2>3. Chain(base, i) \subseteq C
    BY <2>1, <2>2 DEF Chain
  <2> QED
    BY <2>3 DEF C
<1> QED
  BY <1>6, <1>7 DEF Conversation

LEMMA AnswerIsWhole ==
  ASSUME ThreadInv
  PROVE  WholeConversation
<1>1. SUFFICES ASSUME pc = "done", ~truncated, Cardinality(core) < Cap, NEW i \in base,
                      i \in Conversation(base) \/ InWindow(Conversation(base), i)
               PROVE  i \in result
  BY DEF WholeConversation
<1>2. /\ result = core \union span /\ Cardinality(result) <= Cap
      /\ result \subseteq Stored /\ base \subseteq Stored /\ anchor \in base
  BY <1>1 DEF ThreadInv, Answered, Collecting
<1>3. Conversation(base) \subseteq core
  BY <1>1, CoreHoldsConversation
<1>4. CASE i \in core
  BY <1>2, <1>4
<1>5. CASE i \notin core /\ i \notin span
  <2>1. InWindow(core, i)
    BY <1>1, <1>3, <1>5 DEF InWindow
  <2>2. PICK P \in SUBSET span : Cardinality(P) = Cap + 1
    <3>1. CASE Earlier(anchor, i)
      BY <1>1, <1>5, <2>1, <3>1 DEF ThreadInv, FilledAfter
    <3>2. CASE ~Earlier(anchor, i)
      BY <1>1, <1>5, <2>1, <3>2 DEF ThreadInv, FilledBefore
    <3> QED
      BY <3>1, <3>2
  <2>3. IsFiniteSet(result) /\ Cardinality(result) \in Nat
    BY <1>2, StoredFinite DEF ThreadInv
  <2>4. P \in SUBSET result
    BY <1>2
  <2>5. Cardinality(P) <= Cardinality(result)
    BY <2>3, <2>4, FS_Subset
  <2> QED
    BY <1>2, <2>2, <2>3, <2>5, ThreadAssumption
<1> QED
  BY <1>2, <1>4, <1>5

(* What an uncut span fill left out lies farther off than Cap + 1 messages *)
(* that the answer would have to hold.                                     *)
LEMMA AnswerIsAroundAnchor ==
  ASSUME ThreadInv
  PROVE  CutAroundAnchor
<1>1. SUFFICES ASSUME pc = "done"
               PROVE  CutAroundAnchor
  BY DEF CutAroundAnchor
<1> DEFINE S == core \union span
<1>2. /\ anchor \in result /\ result \subseteq S /\ S \subseteq Stored /\ base \subseteq Stored
      /\ Cardinality(result) <= Cap /\ Unbroken(result, S)
      /\ truncated => Cardinality(result) = Cap
  BY <1>1 DEF ThreadInv, Answered, Collecting
<1>3. IsFiniteSet(result) /\ Cardinality(result) \in Nat
  BY <1>2, StoredFinite DEF ThreadInv
<1>4. ASSUME NEW P \in SUBSET result, Cardinality(P) = Cap + 1
      PROVE  FALSE
  BY <1>2, <1>3, <1>4, FS_Subset, ThreadAssumption
<1>5. /\ \A i \in Stored : ~Earlier(i, i)
      /\ \A i, j \in Stored : i = j \/ Earlier(i, j) \/ Earlier(j, i)
      /\ \A i, j, k \in Stored : Earlier(i, j) /\ Earlier(j, k) => Earlier(i, k)
  BY EarlierOrders DEF ThreadInv
<1> HIDE DEF S
<1>6. ASSUME NEW i \in result, NEW j \in base \ result, InWindow(core, j),
             Earlier(i, j), Earlier(j, anchor)
      PROVE  FALSE
  <2>1. j \notin S
    BY <1>2, <1>6 DEF Unbroken
  <2>2. ~Earlier(anchor, j)
    BY <1>2, <1>5, <1>6
  <2>3. PICK P \in SUBSET span : /\ Cardinality(P) = Cap + 1
                                 /\ \A p \in P : Earlier(j, p) /\ ~Earlier(anchor, p)
    BY <1>1, <1>6, <2>1, <2>2 DEF ThreadInv, FilledBefore, S
  <2>4. \A p \in P : p \in result
    <3>1. SUFFICES ASSUME NEW p \in P
                   PROVE  p \in result
      OBVIOUS
    <3>2. p \in S /\ p \in Stored
      BY <1>2 DEF S
    <3>3. Earlier(i, p) /\ (p = anchor \/ Earlier(p, anchor))
      BY <1>2, <1>5, <1>6, <2>3, <3>2
    <3> QED
      BY <1>2, <3>2, <3>3 DEF Unbroken
  <2> QED
    BY <1>4, <2>3, <2>4
<1>7. ASSUME NEW i \in result, NEW j \in base \ result, InWindow(core, j),
             Earlier(anchor, j), Earlier(j, i)
      PROVE  FALSE
  <2>1. j \notin S
    BY <1>2, <1>7 DEF Unbroken
  <2>2. PICK P \in SUBSET span : /\ Cardinality(P) = Cap + 1
                                 /\ \A p \in P : Earlier(p, j) /\ Earlier(anchor, p)
    BY <1>1, <1>7, <2>1 DEF ThreadInv, FilledAfter, S
  <2>3. \A p \in P : p \in result
    <3>1. SUFFICES ASSUME NEW p \in P
                   PROVE  p \in result
      OBVIOUS
    <3>2. p \in S /\ p \in Stored
      BY <1>2 DEF S
    <3>3. Earlier(p, i)
      BY <1>2, <1>5, <1>7, <2>2, <3>2
    <3> QED
      BY <1>2, <2>2, <3>2, <3>3 DEF Unbroken
  <2> QED
    BY <1>4, <2>2, <2>3
<1> QED
  BY <1>1, <1>2, <1>6, <1>7 DEF CutAroundAnchor

(* "Walks the reply_to chain up to its root, adds everything that replies  *)
(* to any member, then every message sent between": whatever is stored     *)
(* between its queries, an answer that is not cut misses nothing of it     *)
(* (README.md:57-61, thread.go:25-29).                                     *)
THEOREM ConversationIsWhole == ThreadSpec => []WholeConversation
<1>1. ThreadInv => WholeConversation
  BY AnswerIsWhole
<1> QED
  BY <1>1, ThreadInductive, PTL

(* "A busy window cannot cut away the very message the caller asked        *)
(* about": for any cap, the anchor is in every answer, and a cut one holds *)
(* Cap messages with no gap between them (thread.go:66-73, 129-132).       *)
THEOREM CutsAreAroundAnchor == ThreadSpec => []CutAroundAnchor
<1>1. ThreadInv => CutAroundAnchor
  BY AnswerIsAroundAnchor
<1> QED
  BY <1>1, ThreadInductive, PTL
=============================================================================
