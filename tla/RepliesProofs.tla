---------------------------- MODULE RepliesProofs ---------------------------
(***************************************************************************)
(* Proofs about Replies: no call of send_reply posts twice, what it        *)
(* reports is true, and the cache of the newest message is right.          *)
(***************************************************************************)
EXTENDS Replies, Traces

LEMMA OnceInit == Init => OnceInv
<1> SUFFICES ASSUME Init PROVE OnceInv
  OBVIOUS
<1>1. group \in Seq(Calls \union {Member}) /\ Written = {}
  BY DEF Init, Written
<1>2. QED
  BY <1>1 DEF Init, OnceInv, AtMostOnce

(* A new message in the group is the last one. *)
LEMMA PostedStep ==
  ASSUME group \in Seq(Calls \union {Member}), NEW author \in Calls \union {Member},
         Posted(author)
  PROVE  /\ group' \in Seq(Calls \union {Member})
         /\ Written' = Written \union {Len(group) + 1}
         /\ \A i \in Written : i # Len(group) + 1 /\ group'[i] = group[i]
         /\ group'[Len(group) + 1] = author
<1>1. group' = Append(group, author)
  BY DEF Posted
<1>2. Len(group) \in Nat /\ Len(group') = Len(group) + 1
  BY <1>1
<1>3. QED
  BY <1>1, <1>2 DEF Written

(* A request goes out only for a call whose earlier requests were declined *)
(* or that has made none.                                                  *)
LEMMA SendStep ==
  ASSUME OnceInv, NEW c \in Calls, wire[c] # "posted", UNCHANGED group,
         NEW attempt \in {"html", "plain"}, Send(c, attempt)
  PROVE  OnceInv'
<1>1. /\ wire' = [wire EXCEPT ![c] = "sent"]
      /\ pc' = [pc EXCEPT ![c] = attempt]
      /\ Written' = Written
  BY DEF Send, Written
<1>2. \A i \in Written : group[i] # c
  BY DEF OnceInv
<1>3. QED
  BY <1>1, <1>2 DEF OnceInv, AtMostOnce

LEMMA OnceStep == OnceInv /\ [Next]_vars => OnceInv'
<1> SUFFICES ASSUME OnceInv, [Next]_vars
             PROVE  OnceInv'
  OBVIOUS
<1>1. CASE Write
  <2>1. /\ group' \in Seq(Calls \union {Member})
        /\ Written' = Written \union {Len(group) + 1}
        /\ \A i \in Written : i # Len(group) + 1 /\ group'[i] = group[i]
        /\ group'[Len(group) + 1] = Member
    BY <1>1, PostedStep DEF Write, OnceInv
  <2>2. UNCHANGED <<wire, pc>>
    BY <1>1 DEF Write, calls
  <2>3. \A c \in Calls : \A i \in Written' : group'[i] = c => i \in Written /\ group[i] = c
    BY <2>1, RepliesAssumption
  <2>4. QED
    BY <2>1, <2>2, <2>3 DEF OnceInv, AtMostOnce
<1>2. ASSUME NEW c \in Calls, Deliver(c) PROVE OnceInv'
  <2>1. /\ group' \in Seq(Calls \union {Member})
        /\ Written' = Written \union {Len(group) + 1}
        /\ \A i \in Written : i # Len(group) + 1 /\ group'[i] = group[i]
        /\ group'[Len(group) + 1] = c
    BY <1>2, PostedStep DEF Deliver, OnceInv
  <2>2. wire[c] = "sent" /\ wire' = [wire EXCEPT ![c] = "posted"] /\ UNCHANGED pc
    BY <1>2 DEF Deliver, calls
  <2>3. \A i \in Written : group[i] # c
    BY <2>2 DEF OnceInv
  <2>4. \A d \in Calls : \A i \in Written' :
           group'[i] = d => IF d = c THEN i = Len(group) + 1 ELSE i \in Written /\ group[i] = d
    BY <2>1, <2>3
  <2>5. \A d \in Calls : pc'[d] = "new" => wire'[d] = "none"
    BY <2>2 DEF OnceInv
  <2>6. \A d \in Calls : \A i \in Written' : group'[i] = d => wire'[d] = "posted"
    BY <2>2, <2>4 DEF OnceInv
  <2>7. AtMostOnce'
    BY <2>4 DEF OnceInv, AtMostOnce
  <2>8. QED
    BY <2>1, <2>2, <2>5, <2>6, <2>7 DEF OnceInv
<1>3. ASSUME NEW c \in Calls, Decline(c) PROVE OnceInv'
  <2>1. PICK code \in {"bad", "flood", "refused"} : wire' = [wire EXCEPT ![c] = code]
    BY <1>3 DEF Decline
  <2>2. wire[c] = "sent" /\ UNCHANGED <<group, pc>>
    BY <1>3 DEF Decline, calls
  <2>3. \A i \in Written : group[i] # c
    BY <2>2 DEF OnceInv
  <2>4. QED
    BY <2>1, <2>2, <2>3 DEF OnceInv, AtMostOnce, Written
<1>4. ASSUME NEW c \in Calls, SendReply(c) \/ SendAgain(c) \/ FallBack(c) PROVE OnceInv'
  <2>1. wire[c] # "posted" /\ UNCHANGED group
    BY <1>4 DEF SendReply, SendAgain, FallBack, OnceInv
  <2>2. Send(c, "html") \/ Send(c, "plain")
    BY <1>4 DEF SendReply, SendAgain, FallBack, Posting
  <2>3. QED
    BY <2>1, <2>2, SendStep
<1>5. ASSUME UNCHANGED <<group, wire>>, pc' \in [Calls -> {"new", "html", "plain", "log", "note", "done"}],
             \A c \in Calls : pc'[c] = "new" => pc[c] = "new"
      PROVE  OnceInv'
  BY <1>5 DEF OnceInv, AtMostOnce, Written
<1>6. ASSUME NEW c \in Calls,
             GiveUp(c) \/ Answered(c) \/ LogReply(c) \/ LogFailed(c) \/ NoteReply(c)
      PROVE  OnceInv'
  <2>1. UNCHANGED <<group, wire>>
    BY <1>6 DEF GiveUp, Answered, LogReply, LogFailed, NoteReply, telegram
  <2>2. PICK where \in {"log", "note", "done"} : pc' = [pc EXCEPT ![c] = where]
    BY <1>6 DEF GiveUp, Answered, LogReply, LogFailed, NoteReply, Return
  <2>3. QED
    BY <1>5, <2>1, <2>2 DEF OnceInv
<1>7. CASE Crash
  BY <1>5, <1>7 DEF Crash, telegram, OnceInv
<1>8. CASE Edit \/ TrackLatest \/ StoreBatch \/ NoteBatch \/ UNCHANGED vars
  <2>1. UNCHANGED <<group, wire, pc>>
    BY <1>8 DEF Edit, TrackLatest, StoreBatch, NoteBatch, vars, telegram, calls
  <2>2. QED
    BY <1>5, <2>1 DEF OnceInv
<1>9. QED
  BY <1>1, <1>2, <1>3, <1>4, <1>6, <1>7, <1>8 DEF Next

(* One call of send_reply leaves one message in the group at most, however *)
(* many calls there are and whatever is lost, late or killed on the way    *)
(* (tools.go:254-276, client.go:211-241).                                  *)
THEOREM PostedAtMostOnce == Spec => []AtMostOnce
<1>1. Init => OnceInv
  BY OnceInit
<1>2. OnceInv /\ [Next]_vars => OnceInv'
  BY OnceStep
<1>3. OnceInv => AtMostOnce
  BY DEF OnceInv
<1>4. QED
  BY <1>1, <1>2, <1>3, PTL DEF Spec

-----------------------------------------------------------------------------
(* What noteLatest makes of a batch                                        *)

LEMMA LastOfBatch ==
  ASSUME NEW batch \in SUBSET Text, batch # {}
  PROVE  \E t \in batch : \A s \in batch : s.id <= t.id
<1> DEFINE Gaps == {MaxMessages - t.id : t \in batch}
<1>0. MaxMessages \in Nat /\ \A t \in batch : t.id \in 1..MaxMessages
  BY RepliesAssumption DEF RepliesAssumption, Text, Ids
<1>1. Gaps \in SUBSET Nat /\ Gaps # {}
  <2>1. \A t \in batch : MaxMessages - t.id \in Nat
    BY <1>0
  <2>2. QED
    BY <2>1
<1>2. PICK g \in Gaps : \A h \in Gaps : g <= h
  BY <1>1, SmallestExists
<1>3. PICK t \in batch : g = MaxMessages - t.id
  OBVIOUS
<1>4. ASSUME NEW s \in batch PROVE s.id <= t.id
  <2>1. MaxMessages - t.id <= MaxMessages - s.id
    BY <1>2, <1>3
  <2>2. QED
    BY <1>0, <2>1
<1>5. QED
  BY <1>4

(* noteLatest takes the last message of the batch or leaves the cache, and *)
(* what it leaves behind of the batch is older than the result.            *)
LEMMA NotedResult ==
  ASSUME cache \in Text \union {Nothing}, NEW batch \in SUBSET Text
  PROVE  /\ Noted(batch) \in Text \union {Nothing}
         /\ Noted(batch) \in batch \/ Noted(batch) = cache
         /\ Noted(batch).id >= cache.id
         /\ \A t \in batch : t.id <= Noted(batch).id
         /\ \A t \in batch : t.id = Noted(batch).id => Noted(batch) \in batch
<1> DEFINE candidates == {t \in batch : t.id >= cache.id}
<1>1. /\ cache.id \in Nat
      /\ \A t \in batch : t.id \in Nat
  BY RepliesAssumption DEF RepliesAssumption, Text, Nothing, Ids
<1>2. CASE candidates = {}
  <2>1. Noted(batch) = cache
    BY <1>2 DEF Noted
  <2>2. QED
    BY <1>1, <1>2, <2>1
<1>3. CASE candidates # {}
  <2>1. \E t \in candidates : \A s \in candidates : s.id <= t.id
    BY <1>3, LastOfBatch
  <2>2. Noted(batch) = CHOOSE t \in candidates : \A s \in candidates : s.id <= t.id
    BY <1>3 DEF Noted
  <2>3. Noted(batch) \in candidates /\ \A s \in candidates : s.id <= Noted(batch).id
    BY <2>1, <2>2
  <2>4. ASSUME NEW t \in batch PROVE t.id <= Noted(batch).id
    BY <1>1, <2>3
  <2>5. QED
    BY <1>1, <2>3, <2>4
<1>4. QED
  BY <1>2, <1>3

LEMMA NewestResult ==
  ASSUME rows \in [Ids -> 0..MaxVersions]
  PROVE  /\ Stored = {} => Newest = Nothing
         /\ Stored # {} => /\ Newest.id \in Stored
                           /\ Newest = [id |-> Newest.id, version |-> rows[Newest.id]]
                           /\ \A i \in Stored : i <= Newest.id
         /\ Newest \in Text \union {Nothing}
<1> DEFINE batch == {[id |-> i, version |-> rows[i]] : i \in Stored}
<1>0. MaxMessages \in Nat /\ MaxVersions \in Nat /\ Stored \subseteq 1..MaxMessages
  BY RepliesAssumption DEF RepliesAssumption, Stored, Ids
<1>1. batch \in SUBSET Text
  BY <1>0 DEF Text, Stored, Ids
<1>2. CASE Stored = {}
  BY <1>2 DEF Newest
<1>3. CASE Stored # {}
  <2>1. PICK m \in Stored : \A i \in Stored : i <= m
    <3>1. PICK t \in batch : \A s \in batch : s.id <= t.id
      BY <1>1, <1>3, LastOfBatch
    <3>2. PICK m \in Stored : t = [id |-> m, version |-> rows[m]]
      OBVIOUS
    <3>3. ASSUME NEW i \in Stored PROVE i <= m
      <4>1. [id |-> i, version |-> rows[i]] \in batch
        OBVIOUS
      <4>2. QED
        BY <3>1, <3>2, <4>1
    <3>4. QED
      BY <3>3
  <2>2. Max(Stored) \in Stored /\ \A i \in Stored : i <= Max(Stored)
    <3>1. \E x \in Stored : \A y \in Stored : x >= y
      BY <1>0, <2>1
    <3> HIDE DEF batch
    <3>2. QED
      BY <1>0, <3>1 DEF Max
  <2>3. Newest = [id |-> Max(Stored), version |-> rows[Max(Stored)]]
    BY <1>3 DEF Newest
  <2>4. Newest \in Text
    BY <1>0, <2>2, <2>3 DEF Text, Stored, Ids
  <2>5. QED
    BY <1>3, <2>2, <2>3, <2>4
<1>4. QED
  BY <1>2, <1>3

-----------------------------------------------------------------------------
(* Type correctness, and why reports are true and the cache is right       *)

LEMMA RepliesInit == Init => RepliesInv
<1> SUFFICES ASSUME Init PROVE RepliesInv
  OBVIOUS
<1>1. group \in Seq(Calls \union {Member}) /\ Len(group) = 0
  BY DEF Init
<1>2. MaxMessages \in Nat /\ MaxVersions \in Nat
  BY RepliesAssumption DEF RepliesAssumption
<1>3. TypeOK
  <2>1. 0 <= MaxMessages /\ 0 \in 0..MaxMessages /\ 0 \in 0..MaxVersions
    BY <1>2
  <2>2. /\ answer \in [Calls -> 0..MaxMessages]
        /\ texts \in [Ids -> 0..MaxVersions] /\ rows \in [Ids -> 0..MaxVersions]
    BY <2>1 DEF Init
  <2>3. QED
    BY <1>1, <2>1, <2>2 DEF Init, TypeOK
<1>4. Stored = {} /\ CacheInv
  BY DEF Init, Stored, CacheInv, ShownIsStored, Nothing
<1>5. \A c \in Calls : CallInv(c)
  BY DEF Init, CallInv, Unlogged
<1>6. QED
  BY <1>3, <1>4, <1>5, OnceInit DEF RepliesInv

(* A message of a call is the one it was answered with.                    *)
LEMMA OwnMessage ==
  ASSUME OnceInv, NEW c \in Calls, CallInv(c), NEW i \in Written, group[i] = c
  PROVE  wire[c] = "posted" /\ i = answer[c]
BY DEF OnceInv, AtMostOnce, CallInv

LEMMA RepliesType == RepliesInv /\ [Next]_vars => TypeOK'
<1> SUFFICES ASSUME RepliesInv, [Next]_vars PROVE TypeOK'
  OBVIOUS
<1>0. TypeOK /\ \A c \in Calls : CallInv(c)
  BY DEF RepliesInv
<1>c. MaxMessages \in Nat /\ MaxVersions \in Nat \ {0} /\ Member \notin Calls
  BY RepliesAssumption DEF RepliesAssumption
<1>1. ASSUME NEW author \in Calls \union {Member}, Posted(author)
      PROVE  /\ group' \in Seq(Calls \union {Member}) /\ Len(group') <= MaxMessages
             /\ texts' \in [Ids -> 0..MaxVersions]
             /\ Len(group) + 1 \in 1..MaxMessages
  <2>1. Len(group) \in Nat /\ Len(group') = Len(group) + 1
    BY <1>0, <1>1 DEF TypeOK, Posted
  <2>2. Len(group) + 1 \in 1..MaxMessages /\ group' = Append(group, author)
    BY <1>1, <1>c, <2>1 DEF Posted
  <2>3. texts' = [texts EXCEPT ![Len(group) + 1] = 1] /\ 1 \in 0..MaxVersions
    BY <1>1, <1>c DEF Posted
  <2>4. texts' \in [Ids -> 0..MaxVersions]
    BY <1>0, <2>3 DEF TypeOK
  <2>5. QED
    BY <1>0, <1>c, <2>1, <2>2, <2>4 DEF TypeOK
<1>2. CASE Write
  BY <1>0, <1>1, <1>2 DEF Write, TypeOK, latest, calls
<1>3. CASE Edit
  <2>1. PICK i \in ByMembers : texts[i] < MaxVersions /\ texts' = [texts EXCEPT ![i] = @ + 1]
    BY <1>3 DEF Edit
  <2>2. i \in Ids
    BY <1>0, <1>c DEF ByMembers, Written, TypeOK, Ids
  <2>3. texts' \in [Ids -> 0..MaxVersions]
    BY <1>0, <1>c, <2>1, <2>2 DEF TypeOK
  <2>4. QED
    BY <1>0, <1>3, <2>3 DEF Edit, TypeOK, latest, calls
<1>4. CASE TrackLatest
  <2>1. cache' \in Text \union {Nothing} /\ loaded' \in BOOLEAN
    BY <1>0, <1>4, NewestResult DEF TrackLatest, TypeOK
  <2>2. QED
    BY <1>0, <1>4, <2>1 DEF TrackLatest, TypeOK, telegram, calls
<1>5. CASE Crash
  BY <1>0, <1>5 DEF Crash, TypeOK, telegram
<1>6. CASE StoreBatch
  <2>1. PICK ids \in SUBSET ByMembers \ {{}} : \E batch \in [ids -> 1..MaxVersions] :
           /\ rows' = [i \in Ids |-> IF i \in ids THEN batch[i] ELSE rows[i]]
           /\ noting' = {[id |-> i, version |-> batch[i]] : i \in ids}
    BY <1>6 DEF StoreBatch
  <2>a. PICK batch \in [ids -> 1..MaxVersions] :
           /\ rows' = [i \in Ids |-> IF i \in ids THEN batch[i] ELSE rows[i]]
           /\ noting' = {[id |-> i, version |-> batch[i]] : i \in ids}
    BY <2>1
  <2>2. ids \subseteq Ids
    BY <1>0, <1>c DEF ByMembers, Written, TypeOK, Ids
  <2>3. rows' \in [Ids -> 0..MaxVersions] /\ noting' \subseteq Text
    BY <1>0, <1>c, <2>a, <2>2 DEF TypeOK, Text
  <2>4. QED
    BY <1>0, <1>6, <2>3 DEF StoreBatch, TypeOK, telegram, latest, calls
<1>7. CASE NoteBatch
  <2>1. cache' \in Text \union {Nothing} /\ noting' = {}
    BY <1>0, <1>7, NotedResult DEF NoteBatch, TypeOK
  <2>2. QED
    BY <1>0, <1>7, <2>1 DEF NoteBatch, TypeOK, telegram, calls
<1>8. ASSUME NEW c \in Calls, Deliver(c) PROVE TypeOK'
  <2>1. answer' = [answer EXCEPT ![c] = Len(group) + 1] /\ wire' = [wire EXCEPT ![c] = "posted"]
    BY <1>8 DEF Deliver
  <2>2. Len(group) + 1 \in 0..MaxMessages /\ Len(group) + 1 # 0
    BY <1>0, <1>1, <1>8 DEF Deliver
  <2>3. answer' \in [Calls -> 0..MaxMessages] /\ \A d \in Calls : answer[d] # 0 => answer'[d] # 0
    BY <1>0, <2>1, <2>2 DEF TypeOK
  <2>4. QED
    BY <1>0, <1>1, <1>8, <2>1, <2>3 DEF Deliver, TypeOK, latest, calls
<1>9. ASSUME NEW c \in Calls,
             Decline(c) \/ SendReply(c) \/ SendAgain(c) \/ FallBack(c)
      PROVE  TypeOK'
  <2>1. CASE Decline(c)
    BY <1>0, <2>1 DEF Decline, TypeOK, latest, calls
  <2>2. CASE SendReply(c)
    BY <1>0, <2>2 DEF SendReply, Send, TypeOK, latest
  <2>3. CASE SendAgain(c)
    BY <1>0, <2>3 DEF SendAgain, Send, Posting, TypeOK, latest
  <2>4. CASE FallBack(c)
    BY <1>0, <2>4 DEF FallBack, Send, TypeOK, latest
  <2>5. QED
    BY <1>9, <2>1, <2>2, <2>3, <2>4
<1>10. ASSUME NEW c \in Calls, GiveUp(c) \/ LogFailed(c) PROVE TypeOK'
  BY <1>0, <1>10 DEF GiveUp, LogFailed, Return, TypeOK, telegram, latest
<1>11. ASSUME NEW c \in Calls, Answered(c) PROVE TypeOK'
  <2>1. answer[c] # 0
    BY <1>0, <1>11 DEF Answered, CallInv, Written
  <2>2. QED
    BY <1>0, <1>11, <2>1 DEF Answered, TypeOK, telegram, latest
<1>12. ASSUME NEW c \in Calls, LogReply(c) PROVE TypeOK'
  <2>1. rows' \in [Ids -> 0..MaxVersions]
    <3>1. rows' = [rows EXCEPT ![answer[c]] = 1] /\ 1 \in 0..MaxVersions
      BY <1>12, <1>c DEF LogReply
    <3>2. QED
      BY <1>0, <3>1 DEF TypeOK
  <2>2. QED
    BY <1>0, <1>12, <2>1 DEF LogReply, TypeOK, telegram, latest
<1>13. ASSUME NEW c \in Calls, NoteReply(c) PROVE TypeOK'
  <2>1. {[id |-> answer[c], version |-> 1]} \in SUBSET Text
    BY <1>0, <1>13, <1>c DEF NoteReply, TypeOK, Text, Ids
  <2>2. cache' \in Text \union {Nothing}
    BY <1>0, <1>13, <2>1, NotedResult DEF NoteReply, TypeOK
  <2>3. QED
    BY <1>0, <1>13, <2>2 DEF NoteReply, Return, TypeOK, telegram
<1>14. CASE UNCHANGED vars
  BY <1>0, <1>14 DEF vars, TypeOK, telegram, latest, calls
<1>15. QED
  BY <1>2, <1>3, <1>4, <1>5, <1>6, <1>7, <1>8, <1>9, <1>10, <1>11, <1>12, <1>13, <1>14 DEF Next

(* A step keeps what holds of a call if it leaves the call and the row of  *)
(* its message alone.                                                      *)
Grows == Written \subseteq Written' /\ \A i \in Written : group'[i] = group[i]

LEMMA GroupGrows == TypeOK /\ [Next]_vars => Grows
<1> SUFFICES ASSUME TypeOK, [Next]_vars PROVE Grows
  OBVIOUS
<1>1. ASSUME NEW author \in Calls \union {Member}, Posted(author) PROVE Grows
  <2>1. group \in Seq(Calls \union {Member})
    BY DEF TypeOK
  <2>2. QED
    BY <1>1, <2>1, PostedStep DEF Grows
<1>2. ASSUME UNCHANGED group PROVE Grows
  BY <1>2 DEF Grows, Written
<1>3. CASE Write
  BY <1>1, <1>3 DEF Write
<1>4. ASSUME NEW c \in Calls, Deliver(c) PROVE Grows
  BY <1>1, <1>4 DEF Deliver
<1>5. ASSUME NEW c \in Calls,
             \/ Decline(c) \/ SendReply(c) \/ SendAgain(c) \/ FallBack(c) \/ GiveUp(c)
             \/ Answered(c) \/ LogReply(c) \/ LogFailed(c) \/ NoteReply(c)
      PROVE  Grows
  BY <1>2, <1>5 DEF Decline, SendReply, SendAgain, FallBack, GiveUp, Answered, LogReply,
                    LogFailed, NoteReply, telegram
<1>6. CASE Edit \/ TrackLatest \/ Crash \/ StoreBatch \/ NoteBatch \/ UNCHANGED vars
  BY <1>2, <1>6 DEF Edit, TrackLatest, Crash, StoreBatch, NoteBatch, vars, telegram
<1>7. QED
  BY <1>3, <1>4, <1>5, <1>6 DEF Next

LEMMA CallKept ==
  ASSUME Grows, NEW c \in Calls, CallInv(c), pc'[c] = pc[c], wire'[c] = wire[c],
         answer'[c] = answer[c], result'[c] = result[c],
         wire[c] = "posted" => rows'[answer[c]] = rows[answer[c]]
  PROVE  CallInv(c)'
BY DEF Grows, CallInv, Unlogged

LEMMA CallStep == RepliesInv /\ [Next]_vars => \A c \in Calls : CallInv(c)'
<1> SUFFICES ASSUME RepliesInv, [Next]_vars, NEW c \in Calls PROVE CallInv(c)'
  OBVIOUS
<1>0. TypeOK /\ OnceInv /\ CacheInv /\ \A d \in Calls : CallInv(d)
  BY DEF RepliesInv
<1>g. Grows
  BY <1>0, GroupGrows
<1>c. Member \notin Calls
  BY RepliesAssumption DEF RepliesAssumption
<1>1. CASE Write \/ Edit \/ TrackLatest \/ NoteBatch \/ UNCHANGED vars
  <2>1. UNCHANGED <<wire, answer, rows, pc, result>>
    BY <1>1 DEF Write, Edit, TrackLatest, NoteBatch, vars, telegram, calls
  <2>2. QED
    BY <1>0, <1>g, <2>1, CallKept
<1>2. CASE Crash
  <2>1. /\ UNCHANGED <<group, wire, answer, rows, result>>
        /\ pc'[c] = IF pc[c] = "new" THEN "new" ELSE "done"
    BY <1>2 DEF Crash, telegram
  <2>2. QED
    BY <1>0, <1>g, <2>1 DEF CallInv, Unlogged, Grows
<1>3. CASE StoreBatch
  <2>1. UNCHANGED <<wire, answer, pc, result>>
    BY <1>3 DEF StoreBatch, telegram, calls
  <2>2. \A i \in Ids : i \notin ByMembers => rows'[i] = rows[i]
    BY <1>3 DEF StoreBatch
  <2>3. wire[c] = "posted" => answer[c] \in Ids /\ answer[c] \notin ByMembers
    BY <1>0, <1>c, RepliesAssumption DEF RepliesAssumption, CallInv, ByMembers, Written, TypeOK, Ids
  <2>4. QED
    BY <1>0, <1>g, <2>1, <2>2, <2>3, CallKept
<1>4. ASSUME NEW d \in Calls, d # c,
             \/ Deliver(d) \/ Decline(d) \/ SendReply(d) \/ SendAgain(d) \/ FallBack(d)
             \/ GiveUp(d) \/ Answered(d) \/ LogReply(d) \/ LogFailed(d) \/ NoteReply(d)
      PROVE  CallInv(c)'
  <2>1. /\ pc'[c] = pc[c] /\ wire'[c] = wire[c]
        /\ answer'[c] = answer[c] /\ result'[c] = result[c]
    BY <1>0, <1>4 DEF Deliver, Decline, SendReply, SendAgain, FallBack, GiveUp, Answered,
                      LogReply, LogFailed, NoteReply, Send, Return, TypeOK, telegram, calls
  <2>2. CASE LogReply(d)
    <3>1. rows' = [rows EXCEPT ![answer[d]] = 1] /\ pc[d] = "log"
      BY <2>2 DEF LogReply
    <3>2. group[answer[d]] = d /\ (wire[c] = "posted" => group[answer[c]] = c)
      BY <1>0, <3>1 DEF CallInv
    <3>3. wire[c] = "posted" => rows'[answer[c]] = rows[answer[c]]
      BY <1>0, <1>4, <3>1, <3>2 DEF TypeOK
    <3>4. QED
      BY <1>0, <1>g, <2>1, <3>3, CallKept
  <2>3. CASE ~LogReply(d)
    <3>1. UNCHANGED rows
      BY <1>4, <2>3 DEF Deliver, Decline, SendReply, SendAgain, FallBack, GiveUp, Answered,
                        LogFailed, NoteReply, telegram
    <3>2. QED
      BY <1>0, <1>g, <2>1, <3>1, CallKept
  <2>4. QED
    BY <2>2, <2>3
<1>5. CASE Deliver(c)
  <2>1. /\ wire[c] = "sent" /\ wire'[c] = "posted" /\ answer'[c] = Len(group) + 1
        /\ UNCHANGED <<rows, pc, result>>
    BY <1>0, <1>5 DEF Deliver, TypeOK, calls
  <2>2. Len(group) + 1 \in Written' /\ Len(group) + 1 \notin Written /\ group'[Len(group) + 1] = c
    BY <1>0, <1>5, PostedStep DEF Deliver, TypeOK
  <2>3. rows[Len(group) + 1] = 0
    <3>1. Len(group) + 1 \in Ids
      BY <1>0, <1>5, RepliesAssumption DEF RepliesAssumption, Deliver, Posted, TypeOK, Ids
    <3>2. Len(group) + 1 \notin Stored
      BY <1>0, <2>2 DEF CacheInv
    <3>3. QED
      BY <3>1, <3>2 DEF Stored
  <2>4. QED
    BY <1>0, <2>1, <2>2, <2>3 DEF CallInv, Unlogged
<1>6. CASE Decline(c)
  <2>1. wire[c] = "sent" /\ wire'[c] # "posted" /\ UNCHANGED <<rows, pc, result>>
    BY <1>0, <1>6 DEF Decline, TypeOK, calls
  <2>2. QED
    BY <1>0, <2>1 DEF CallInv, Unlogged
<1>7. CASE SendReply(c) \/ SendAgain(c) \/ FallBack(c)
  <2>1. /\ wire'[c] = "sent" /\ pc'[c] \in {"html", "plain"} /\ UNCHANGED <<rows, result>>
        /\ pc[c] # "done"
    BY <1>0, <1>7 DEF SendReply, SendAgain, FallBack, Send, Posting, TypeOK
  <2>2. QED
    BY <1>0, <2>1 DEF CallInv, Unlogged
<1>8. CASE GiveUp(c)
  <2>1. /\ pc[c] \in {"html", "plain"} /\ pc'[c] = "done" /\ result'[c] = "error"
        /\ UNCHANGED <<group, wire, answer, rows>>
    BY <1>0, <1>8 DEF GiveUp, Posting, Return, TypeOK, telegram
  <2>2. QED
    BY <1>0, <1>g, <2>1 DEF CallInv, Unlogged, Grows
<1>9. CASE Answered(c)
  <2>1. /\ pc[c] \in {"html", "plain"} /\ pc'[c] = "log" /\ wire[c] = "posted"
        /\ UNCHANGED <<group, wire, answer, rows, result>>
    BY <1>0, <1>9 DEF Answered, Posting, TypeOK, telegram
  <2>2. QED
    BY <1>0, <1>g, <2>1 DEF CallInv, Unlogged, Grows
<1>10. CASE LogReply(c)
  <2>1. /\ pc[c] = "log" /\ pc'[c] = "note" /\ rows' = [rows EXCEPT ![answer[c]] = 1]
        /\ UNCHANGED <<group, wire, answer, result>>
    BY <1>0, <1>10 DEF LogReply, TypeOK, telegram
  <2>2. rows'[answer[c]] = 1
    <3>1. answer[c] \in Ids
      BY <1>0, <2>1, RepliesAssumption DEF RepliesAssumption, TypeOK, CallInv, Ids, Written
    <3>2. QED
      BY <1>0, <2>1, <3>1 DEF TypeOK
  <2>3. QED
    BY <1>0, <1>g, <2>1, <2>2 DEF CallInv, Unlogged, Grows
<1>11. CASE LogFailed(c) \/ NoteReply(c)
  <2>1. /\ pc'[c] = "done" /\ UNCHANGED <<group, wire, answer, rows>>
        /\ \/ pc[c] = "log" /\ result'[c] = "warning"
           \/ pc[c] = "note" /\ result'[c] = "ok"
    BY <1>0, <1>11 DEF LogFailed, NoteReply, Return, TypeOK, telegram
  <2>2. QED
    BY <1>0, <1>g, <2>1 DEF CallInv, Unlogged, Grows
<1>12. QED
  BY <1>1, <1>2, <1>3, <1>4, <1>5, <1>6, <1>7, <1>8, <1>9, <1>10, <1>11 DEF Next

(* A step keeps what holds of the cache if it changes neither the rows nor *)
(* the cache and takes nothing away that is still to be noted.             *)
LEMMA CacheKept ==
  ASSUME TypeOK, Grows, CacheInv, UNCHANGED <<rows, cache, noting>>, loaded' => loaded,
         Pending \subseteq Pending'
  PROVE  CacheInv'
<1>1. Stored' = Stored
  BY DEF Stored
<1>2. ByMembers \subseteq ByMembers'
  BY DEF Grows, ByMembers
<1>3. QED
  BY <1>1, <1>2 DEF Grows, CacheInv, ShownIsStored

(* Noting takes from what is still to be noted only what it has noted.     *)
LEMMA CacheNoted ==
  ASSUME TypeOK, Grows, CacheInv, UNCHANGED <<rows, loaded>>, noting' \in {noting, {}},
         NEW batch \in SUBSET Text, \A t \in batch : rows[t.id] = t.version,
         cache' = Noted(batch),
         \A t \in Pending : t \in Pending' \/ t \in batch
  PROVE  CacheInv'
<1>1. /\ cache \in Text \union {Nothing} /\ rows \in [Ids -> 0..MaxVersions]
      /\ Stored' = Stored /\ ByMembers \subseteq ByMembers'
  BY DEF TypeOK, Stored, Grows, ByMembers
<1>2. /\ cache' \in batch \/ cache' = cache
      /\ cache'.id >= cache.id
      /\ \A t \in batch : t.id <= cache'.id
      /\ \A t \in batch : t.id = cache'.id => cache' \in batch
  BY <1>1, NotedResult
<1>3. ShownIsStored'
  <2>1. CASE cache' = cache
    BY <2>1 DEF CacheInv, ShownIsStored
  <2>2. CASE cache' \in batch
    BY <2>2, RepliesAssumption DEF RepliesAssumption, ShownIsStored, Text
  <2>3. QED
    BY <1>2, <2>1, <2>2
<1>4. ASSUME loaded, NEW i \in Stored, i >= cache'.id,
             cache' # [id |-> i, version |-> rows[i]]
      PROVE  [id |-> i, version |-> rows[i]] \in Pending'
  <2> DEFINE t == [id |-> i, version |-> rows[i]]
  <2>0. i \in Nat /\ cache.id \in Nat /\ cache'.id \in Nat
    BY <1>1, <1>2, RepliesAssumption DEF RepliesAssumption, Stored, Ids, Text, Nothing
  <2>1. t \notin batch
    <3>1. SUFFICES ASSUME t \in batch PROVE FALSE
      OBVIOUS
    <3>2. cache' \in batch /\ cache'.id = i
      BY <1>2, <1>4, <2>0, <3>1
    <3>3. cache' = t
      BY <3>1, <3>2 DEF Text
    <3>4. QED
      BY <1>4, <3>3
  <2>2. cache # t
    <3>1. SUFFICES ASSUME cache = t PROVE FALSE
      OBVIOUS
    <3>2. cache'.id = i /\ cache' \in batch
      BY <1>2, <1>4, <2>0, <3>1
    <3>3. cache' = t
      BY <3>2 DEF Text
    <3>4. QED
      BY <1>4, <3>3
  <2>3. t \in Pending
    BY <1>2, <1>4, <2>0, <2>2 DEF CacheInv
  <2>4. QED
    BY <2>1, <2>3
<1>5. QED
  BY <1>1, <1>3, <1>4 DEF CacheInv, Grows

LEMMA CacheStep == RepliesInv /\ [Next]_vars => CacheInv'
<1> SUFFICES ASSUME RepliesInv, [Next]_vars PROVE CacheInv'
  OBVIOUS
<1>0. TypeOK /\ OnceInv /\ CacheInv /\ \A d \in Calls : CallInv(d)
  BY DEF RepliesInv
<1>g. Grows
  BY <1>0, GroupGrows
<1>c. Member \notin Calls /\ MaxMessages \in Nat /\ MaxVersions \in Nat \ {0}
  BY RepliesAssumption DEF RepliesAssumption
<1>w. Written \subseteq Ids
  BY <1>0, <1>c DEF TypeOK, Written, Ids
<1>1. CASE Write \/ Edit \/ UNCHANGED vars
  <2>1. UNCHANGED <<answer, rows, cache, loaded, noting, pc>>
    BY <1>1 DEF Write, Edit, vars, telegram, latest, calls
  <2>2. QED
    BY <1>0, <1>g, <2>1, CacheKept DEF Pending
<1>2. CASE TrackLatest
  <2>1. /\ UNCHANGED <<group, rows, noting, pc, answer>>
        /\ \/ cache' = Newest
           \/ cache' = Nothing /\ ~loaded'
    BY <1>2 DEF TrackLatest, telegram, calls
  <2>2. Stored' = Stored /\ ByMembers' = ByMembers /\ Written' = Written
    BY <2>1 DEF Stored, ByMembers, Written
  <2>3. CASE cache' = Newest
    <3>1. Stored = {} => cache'.id = 0
      BY <1>0, <2>3, NewestResult DEF TypeOK, Nothing
    <3>2. Stored # {} => /\ cache'.id \in Stored
                         /\ cache' = [id |-> cache'.id, version |-> rows[cache'.id]]
                         /\ \A i \in Stored : i <= cache'.id
      BY <1>0, <2>3, NewestResult DEF TypeOK
    <3>3. ShownIsStored'
      BY <2>1, <3>1, <3>2 DEF ShownIsStored, Stored
    <3>4. \A i \in Stored : i >= cache'.id => cache' = [id |-> i, version |-> rows[i]]
      <4>1. \A i \in Stored : i \in Nat
        BY <1>c DEF Stored, Ids
      <4>2. QED
        BY <3>2, <4>1
    <3>5. QED
      BY <1>0, <2>1, <2>2, <3>3, <3>4 DEF CacheInv
  <2>4. CASE cache' = Nothing /\ ~loaded'
    BY <1>0, <2>1, <2>2, <2>4 DEF CacheInv, ShownIsStored, Nothing
  <2>5. QED
    BY <2>1, <2>3, <2>4
<1>3. CASE Crash
  BY <1>0, <1>3 DEF Crash, CacheInv, ShownIsStored, Nothing, Stored, Written, telegram
<1>4. CASE StoreBatch
  <2>1. PICK ids \in SUBSET ByMembers \ {{}} : \E batch \in [ids -> 1..MaxVersions] :
           /\ rows' = [i \in Ids |-> IF i \in ids THEN batch[i] ELSE rows[i]]
           /\ noting' = {[id |-> i, version |-> batch[i]] : i \in ids}
    BY <1>4 DEF StoreBatch
  <2>2. PICK batch \in [ids -> 1..MaxVersions] :
           /\ rows' = [i \in Ids |-> IF i \in ids THEN batch[i] ELSE rows[i]]
           /\ noting' = {[id |-> i, version |-> batch[i]] : i \in ids}
    BY <2>1
  <2>3. /\ noting = {} /\ UNCHANGED <<group, answer, pc, cache, loaded>>
        /\ Written' = Written /\ ByMembers' = ByMembers
    BY <1>4 DEF StoreBatch, telegram, latest, calls, Written, ByMembers
  <2>4. ids \subseteq Written /\ ids \subseteq Ids /\ ids \subseteq ByMembers
    BY <1>w DEF ByMembers
  <2>5. \A i \in Ids : i \in Stored' <=> i \in Stored \/ i \in ids
    BY <1>c, <2>2 DEF Stored
  <2>6. Stored' \subseteq Written'
    BY <1>0, <2>3, <2>4, <2>5 DEF CacheInv, Stored
  <2>7. \A t \in noting' : rows'[t.id] = t.version /\ t.id \in ByMembers'
    BY <2>2, <2>3, <2>4
  <2>8. ShownIsStored'
    <3>1. cache.id # 0 => cache.id \in Ids
      BY <1>0 DEF TypeOK, Text, Nothing
    <3>2. QED
      BY <1>0, <1>c, <2>2, <2>3, <3>1 DEF CacheInv, ShownIsStored
  <2>9. ASSUME loaded', NEW i \in Stored', i >= cache'.id,
               cache' # [id |-> i, version |-> rows'[i]]
        PROVE  [id |-> i, version |-> rows'[i]] \in Pending'
    <3>1. CASE i \in ids
      BY <2>2, <2>4, <3>1 DEF Pending
    <3>2. CASE i \notin ids
      <4>1. i \in Stored /\ rows'[i] = rows[i]
        BY <2>2, <2>5, <3>2 DEF Stored
      <4>2. [id |-> i, version |-> rows[i]] \in Pending
        BY <1>0, <2>3, <2>9, <4>1 DEF CacheInv
      <4>3. QED
        BY <2>3, <4>1, <4>2 DEF Pending
    <3>3. QED
      BY <3>1, <3>2
  <2>10. QED
    BY <2>6, <2>7, <2>8, <2>9 DEF CacheInv
<1>5. CASE NoteBatch
  <2>1. /\ UNCHANGED <<rows, loaded, pc, answer>> /\ noting' = {} /\ cache' = Noted(noting)
        /\ noting \in SUBSET Text
    BY <1>0, <1>5 DEF NoteBatch, TypeOK, telegram, calls
  <2>2. \A t \in Pending : t \in Pending' \/ t \in noting
    BY <2>1 DEF Pending
  <2>3. \A t \in noting : rows[t.id] = t.version
    BY <1>0 DEF CacheInv
  <2>4. QED
    BY <1>0, <1>g, <2>1, <2>2, <2>3, CacheNoted
<1>6. ASSUME NEW c \in Calls,
             \/ Deliver(c) \/ Decline(c) \/ SendReply(c) \/ SendAgain(c) \/ FallBack(c)
             \/ GiveUp(c) \/ Answered(c) \/ LogFailed(c)
      PROVE  CacheInv'
  <2>1. UNCHANGED <<rows, cache, loaded, noting>>
    BY <1>6 DEF Deliver, Decline, SendReply, SendAgain, FallBack, GiveUp, Answered, LogFailed,
                telegram, latest
  <2>2. ASSUME NEW d \in Calls, pc[d] = "note" PROVE pc'[d] = "note" /\ answer'[d] = answer[d]
    <3>1. /\ pc[c] # "note" /\ \A e \in Calls : e # c => pc'[e] = pc[e] /\ answer'[e] = answer[e]
      BY <1>0, <1>6 DEF Deliver, Decline, SendReply, SendAgain, FallBack, GiveUp, Answered,
                        LogFailed, Send, Return, Posting, TypeOK, CallInv, telegram, calls
    <3>2. QED
      BY <2>2, <3>1
  <2>3. Pending \subseteq Pending'
    BY <2>1, <2>2 DEF Pending
  <2>4. QED
    BY <1>0, <1>g, <2>1, <2>3, CacheKept
<1>7. ASSUME NEW c \in Calls, LogReply(c) PROVE CacheInv'
  <2>1. /\ rows' = [rows EXCEPT ![answer[c]] = 1] /\ UNCHANGED <<group, answer, cache, loaded, noting>>
        /\ pc' = [pc EXCEPT ![c] = "note"] /\ pc[c] = "log"
        /\ Written' = Written /\ ByMembers' = ByMembers
    BY <1>7 DEF LogReply, telegram, latest, Written, ByMembers
  <2>2. answer[c] \in Written /\ group[answer[c]] = c /\ answer[c] \in Ids /\ answer[c] \notin ByMembers
    BY <1>0, <1>c, <1>w, <2>1 DEF CallInv, ByMembers
  <2>3. /\ rows'[answer[c]] = 1
        /\ \A i \in Ids : i # answer[c] => rows'[i] = rows[i]
        /\ \A i \in Ids : rows[i] # 0 => rows'[i] # 0
        /\ \A i \in Stored' : i \in Stored \/ i = answer[c]
    BY <1>0, <2>1, <2>2 DEF TypeOK, Stored
  <2>4. Stored' \subseteq Written'
    BY <1>0, <2>1, <2>2, <2>3 DEF CacheInv
  <2>5. \A t \in noting' : rows'[t.id] = t.version /\ t.id \in ByMembers'
    BY <1>0, <1>w, <2>1, <2>2, <2>3 DEF CacheInv, ByMembers
  <2>6. ShownIsStored'
    BY <1>0, <2>1, <2>3 DEF CacheInv, ShownIsStored, TypeOK, Text, Nothing
  <2>7. Pending' = Pending \union {[id |-> answer[c], version |-> 1]}
    <3>1. \A d \in Calls : pc'[d] = "note" <=> pc[d] = "note" \/ d = c
      BY <1>0, <2>1 DEF TypeOK
    <3>2. QED
      BY <2>1, <3>1 DEF Pending
  <2>8. ASSUME loaded', NEW i \in Stored', i >= cache'.id,
               cache' # [id |-> i, version |-> rows'[i]]
        PROVE  [id |-> i, version |-> rows'[i]] \in Pending'
    <3>1. CASE i = answer[c]
      BY <2>3, <2>7, <3>1
    <3>2. CASE i # answer[c]
      <4>1. i \in Stored /\ rows'[i] = rows[i]
        BY <2>3, <3>2 DEF Stored
      <4>2. QED
        BY <1>0, <2>1, <2>7, <2>8, <4>1 DEF CacheInv
    <3>3. QED
      BY <3>1, <3>2
  <2>9. QED
    BY <2>4, <2>5, <2>6, <2>8 DEF CacheInv
<1>8. ASSUME NEW c \in Calls, NoteReply(c) PROVE CacheInv'
  <2> DEFINE t == [id |-> answer[c], version |-> 1]
  <2>1. /\ UNCHANGED <<rows, loaded, noting, answer>> /\ cache' = Noted({t})
        /\ pc' = [pc EXCEPT ![c] = "done"] /\ pc[c] = "note"
    BY <1>8 DEF NoteReply, Return, telegram
  <2>2. t \in Text /\ rows[t.id] = t.version
    BY <1>0, <1>c, <1>w, <2>1 DEF CallInv, Text
  <2>3. \A s \in Pending : s \in Pending' \/ s \in {t}
    <3>1. \A d \in Calls : d # c => pc'[d] = pc[d]
      BY <1>0, <2>1 DEF TypeOK
    <3>2. QED
      BY <2>1, <3>1 DEF Pending
  <2> HIDE DEF t
  <2>4. QED
    BY <1>0, <1>g, <2>1, <2>2, <2>3, CacheNoted
<1>9. QED
  BY <1>1, <1>2, <1>3, <1>4, <1>5, <1>6, <1>7, <1>8 DEF Next

LEMMA RepliesStep == RepliesInv /\ [Next]_vars => RepliesInv'
BY RepliesType, OnceStep, CallStep, CacheStep DEF RepliesInv

LEMMA RepliesAlways == Spec => []RepliesInv
<1>1. RepliesInv /\ [Next]_vars => RepliesInv'
  BY RepliesStep
<1>2. QED
  BY <1>1, RepliesInit, PTL DEF Spec

(* The variables keep their types, and a call that logs has a message to   *)
(* log, for any number of calls and messages.                              *)
THEOREM RepliesTypeCorrect == Spec => []TypeOK
<1>1. RepliesInv => TypeOK
  BY DEF RepliesInv
<1>2. QED
  BY <1>1, RepliesAlways, PTL

(* What a caller is told stays true: no later write, redelivery or late    *)
(* request turns a report into a lie (tools.go:245-252).                   *)
THEOREM ReportsAreHonest == Spec => []ReportHonest
<1>1. RepliesInv => ReportHonest
  <2> SUFFICES ASSUME RepliesInv, NEW c \in Calls
               PROVE  LET own == {i \in Written : group[i] = c}
                          logged == {i \in own : rows[i] # 0}
                      IN  /\ result[c] = "ok" => logged # {}
                          /\ result[c] = "warning" => own # {} /\ logged = {}
                          /\ result[c] = "error" => logged = {}
    BY DEF ReportHonest
  <2>1. CallInv(c) /\ OnceInv
    BY DEF RepliesInv
  <2>2. \A i \in Written : group[i] = c => wire[c] = "posted" /\ i = answer[c]
    BY <2>1, OwnMessage
  <2>3. wire[c] = "posted" => answer[c] \in Written /\ group[answer[c]] = c
    BY <2>1 DEF CallInv
  <2>4. QED
    BY <2>1, <2>2, <2>3 DEF CallInv, Unlogged
<1>2. QED
  BY <1>1, RepliesAlways, PTL

(* Whatever the public endpoint shows is committed (store.go:208-211).     *)
THEOREM ShownAlwaysStored == Spec => []ShownIsStored
<1>1. RepliesInv => ShownIsStored
  BY DEF RepliesInv, CacheInv
<1>2. QED
  BY <1>1, RepliesAlways, PTL

(* When every writer has noted what it committed, a chat whose load        *)
(* succeeded shows what a restart would load, in whatever order its        *)
(* writers committed and noted (latest.go:8-58).                           *)
THEOREM NewestAlwaysShown == Spec => []NewestShown
<1>1. RepliesInv => NewestShown
  <2> SUFFICES ASSUME RepliesInv, Quiet, loaded PROVE cache = Newest
    BY DEF NewestShown
  <2>1. TypeOK /\ CacheInv
    BY DEF RepliesInv
  <2>2. Pending = {}
    BY DEF Quiet, Pending
  <2>3. \A i \in Stored : i >= cache.id => cache = [id |-> i, version |-> rows[i]]
    BY <2>1, <2>2 DEF CacheInv
  <2>4. cache.id # 0 => cache.id \in Stored
    BY <2>1 DEF CacheInv, ShownIsStored, TypeOK, Text, Nothing, Stored
  <2>5. CASE Stored = {}
    <3>1. Newest = Nothing
      BY <2>1, <2>5, NewestResult DEF TypeOK
    <3>2. cache = Nothing
      BY <2>1, <2>4, <2>5, RepliesAssumption DEF RepliesAssumption, TypeOK, Text, Ids
    <3>3. QED
      BY <3>1, <3>2
  <2>6. CASE Stored # {}
    <3>1. /\ Newest.id \in Stored /\ Newest = [id |-> Newest.id, version |-> rows[Newest.id]]
          /\ \A i \in Stored : i <= Newest.id
      BY <2>1, <2>6, NewestResult DEF TypeOK
    <3>2. Newest.id >= cache.id
      BY <2>4, <3>1, RepliesAssumption DEF RepliesAssumption, Stored, Ids
    <3>3. QED
      BY <2>3, <3>1, <3>2
  <2>7. QED
    BY <2>5, <2>6
<1>2. QED
  BY <1>1, RepliesAlways, PTL

(* The message shown never gives way to an older one while the process     *)
(* lives, whichever of two writers is the last to note (latest.go:42-57).  *)
THEOREM LatestOnlyForward == Spec => LatestNeverBack
<1>1. RepliesInv /\ [Next]_vars => [up /\ up' => cache'.id >= cache.id]_vars
  <2> SUFFICES ASSUME RepliesInv, [Next]_vars, up, up' PROVE cache'.id >= cache.id
    OBVIOUS
  <2>0. TypeOK /\ \A c \in Calls : CallInv(c)
    BY DEF RepliesInv
  <2>1. cache.id \in Nat
    BY <2>0, RepliesAssumption DEF RepliesAssumption, TypeOK, Text, Nothing, Ids
  <2>2. CASE NoteBatch
    BY <2>0, <2>2, NotedResult DEF NoteBatch, TypeOK
  <2>3. ASSUME NEW c \in Calls, NoteReply(c) PROVE cache'.id >= cache.id
    <3>1. {[id |-> answer[c], version |-> 1]} \in SUBSET Text
      BY <2>0, <2>3, RepliesAssumption DEF RepliesAssumption, NoteReply, TypeOK, Text, Ids
    <3>2. QED
      BY <2>0, <2>3, <3>1, NotedResult DEF NoteReply, TypeOK
  <2>4. CASE UNCHANGED cache
    BY <2>1, <2>4
  <2>5. ~TrackLatest /\ ~Crash
    BY DEF TrackLatest, Crash
  <2>6. NoteBatch \/ (\E c \in Calls : NoteReply(c)) \/ UNCHANGED cache
    BY <2>5 DEF Next, Write, Edit, StoreBatch, Deliver, Decline, SendReply, SendAgain, FallBack,
                GiveUp, Answered, LogReply, LogFailed, vars, latest
  <2>7. QED
    BY <2>2, <2>3, <2>4, <2>6
<1>2. QED
  BY <1>1, RepliesAlways, PTL DEF Spec, LatestNeverBack
=============================================================================
