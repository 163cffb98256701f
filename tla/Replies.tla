------------------------------ MODULE Replies -------------------------------
(***************************************************************************)
(* send_reply calls next to the poll loop, in one public group: what they  *)
(* post, what they log, and the cache of the newest message both of them   *)
(* fill after they have committed.                                         *)
(*                                                                         *)
(* A message is named by its position in group, its message id, and its    *)
(* text by a version, 1 and one more per edit.  wire is the sendMessage    *)
(* request a call has on its way and what Telegram did with it, so that a  *)
(* request whose caller has given up may still be carried out.  The poll   *)
(* loop is reduced to the batches it stores: any texts members ever wrote, *)
(* since a batch may be delivered again (Ingest has the whole of it).      *)
(***************************************************************************)
EXTENDS Naturals, Sequences, FiniteSetsExt

CONSTANTS
  Calls,        \* calls of send_reply, each answering in the group once
  MaxMessages,  \* bound: messages in the group
  MaxVersions   \* bound: texts per message

Ids == 1..MaxMessages
Member == "member"

ASSUME RepliesAssumption ==
  MaxMessages \in Nat /\ MaxVersions \in Nat \ {0} /\ Member \notin Calls

VARIABLES
  \* the group, at Telegram
  group,    \* who wrote each message: a call, or a member
  texts,    \* Ids -> how many versions of the message there have been
  wire,     \* Calls -> "none", "sent", or what became of the request
  answer,   \* Calls -> the id of the message posted, 0: none
  \* the database: Ids -> version stored, 0: no row
  rows,
  \* one process
  up,
  cache,    \* the newest message as Latest shows it, id 0: none
  loaded,   \* TrackLatest read it at startup
  noting,   \* the batch UpsertBatch has committed and not noted yet
  pc,       \* Calls -> where sendReply is
  waited,   \* Calls -> this request was sent again after a 429
  result    \* Calls -> what the caller was told

telegram == <<group, texts, wire, answer>>
latest == <<cache, loaded>>
calls == <<pc, waited, result>>
vars == <<telegram, rows, up, latest, noting, calls>>

Text == [id : Ids, version : 1..MaxVersions]
Nothing == [id |-> 0, version |-> 0]

Written == 1..Len(group)
ByMembers == {i \in Written : group[i] = Member}
Stored == {i \in Ids : rows[i] # 0}

(* The row with the highest message id. *)
Newest == IF Stored = {} THEN Nothing ELSE [id |-> Max(Stored), version |-> rows[Max(Stored)]]

-----------------------------------------------------------------------------
Init ==
  /\ group = <<>> /\ texts = [i \in Ids |-> 0]
  /\ wire = [c \in Calls |-> "none"] /\ answer = [c \in Calls |-> 0]
  /\ rows = [i \in Ids |-> 0]
  /\ up = FALSE /\ cache = Nothing /\ loaded = FALSE /\ noting = {}
  /\ pc = [c \in Calls |-> "new"] /\ waited = [c \in Calls |-> FALSE]
  /\ result = [c \in Calls |-> "none"]

Posted(author) ==
  /\ Len(group) < MaxMessages
  /\ group' = Append(group, author)
  /\ texts' = [texts EXCEPT ![Len(group) + 1] = 1]

Write == Posted(Member) /\ UNCHANGED <<wire, answer, rows, up, latest, noting, calls>>

Edit ==
  /\ \E i \in ByMembers : texts[i] < MaxVersions /\ texts' = [texts EXCEPT ![i] = @ + 1]
  /\ UNCHANGED <<group, wire, answer, rows, up, latest, noting, calls>>

Deliver(c) ==
  /\ wire[c] = "sent"
  /\ Posted(c)
  /\ wire' = [wire EXCEPT ![c] = "posted"]
  /\ answer' = [answer EXCEPT ![c] = Len(group) + 1]
  /\ UNCHANGED <<rows, up, latest, noting, calls>>

(* Nothing is delivered: a 400, a 429, or any other error. *)
Decline(c) ==
  /\ wire[c] = "sent"
  /\ \E code \in {"bad", "flood", "refused"} : wire' = [wire EXCEPT ![c] = code]
  /\ UNCHANGED <<group, texts, answer, rows, up, latest, noting, calls>>

-----------------------------------------------------------------------------
(* trackPublic, before any writer runs; a chat that does not load is left  *)
(* to its next message.                                                    *)
TrackLatest ==
  /\ ~up /\ up' = TRUE
  /\ \/ cache' = Newest /\ loaded' = TRUE
     \/ cache' = Nothing /\ loaded' = FALSE
  /\ UNCHANGED <<telegram, rows, noting, calls>>

(* The process dies; the calls it was serving are answered by nobody. *)
Crash ==
  /\ up /\ up' = FALSE
  /\ cache' = Nothing /\ loaded' = FALSE /\ noting' = {}
  /\ pc' = [c \in Calls |-> IF pc[c] = "new" THEN "new" ELSE "done"]
  /\ UNCHANGED <<telegram, rows, waited, result>>

(* Mutant of Noted: the last writer to get the lock is the newest. *)
NotedUnordered(batch) ==
  IF batch = {} THEN cache
  ELSE CHOOSE t \in batch : \A s \in batch : s.id <= t.id

(* Mutant of Noted: an edit of the newest message is not taken over. *)
NotedOnce(batch) ==
  LET candidates == {t \in batch : t.id > cache.id}
  IN  IF candidates = {} THEN cache
      ELSE CHOOSE t \in candidates : \A s \in candidates : s.id <= t.id

(* noteLatest, over committed messages with distinct ids. *)
Noted(batch) ==
  LET candidates == {t \in batch : t.id >= cache.id}
  IN  IF candidates = {} THEN cache
      ELSE CHOOSE t \in candidates : \A s \in candidates : s.id <= t.id

(* UpsertBatch by the poll loop: the commit... *)
StoreBatch ==
  /\ up /\ noting = {}
  /\ \E ids \in SUBSET ByMembers \ {{}} : \E batch \in [ids -> 1..MaxVersions] :
       /\ \A i \in ids : batch[i] <= texts[i]
       /\ rows' = [i \in Ids |-> IF i \in ids THEN batch[i] ELSE rows[i]]
       /\ noting' = {[id |-> i, version |-> batch[i]] : i \in ids}
  /\ UNCHANGED <<telegram, up, latest, calls>>

(* ... and the cache, under its own lock. *)
NoteBatch ==
  /\ noting # {}
  /\ cache' = Noted(noting) /\ noting' = {}
  /\ UNCHANGED <<telegram, rows, up, loaded, calls>>

-----------------------------------------------------------------------------
Send(c, attempt) ==
  /\ pc' = [pc EXCEPT ![c] = attempt]
  /\ wire' = [wire EXCEPT ![c] = "sent"]

Return(c, what) ==
  /\ pc' = [pc EXCEPT ![c] = "done"]
  /\ result' = [result EXCEPT ![c] = what]

Posting(c) == pc[c] \in {"html", "plain"}

SendReply(c) ==
  /\ up /\ pc[c] = "new"
  /\ Send(c, "html")
  /\ UNCHANGED <<group, texts, answer, rows, up, latest, noting, waited, result>>

(* call sends the request again after the first 429. *)
SendAgain(c) ==
  /\ Posting(c) /\ wire[c] = "flood" /\ ~waited[c]
  /\ waited' = [waited EXCEPT ![c] = TRUE]
  /\ Send(c, pc[c])
  /\ UNCHANGED <<group, texts, answer, rows, up, latest, noting, result>>

(* "Only a 400 is retried". *)
FallBack(c) ==
  /\ pc[c] = "html" /\ wire[c] = "bad"
  /\ waited' = [waited EXCEPT ![c] = FALSE]
  /\ Send(c, "plain")
  /\ UNCHANGED <<group, texts, answer, rows, up, latest, noting, result>>

(* Mutant of GiveUp: the plain text is tried after any failure. *)
GiveUpRetries(c) ==
  /\ pc[c] = "html"
  /\ waited' = [waited EXCEPT ![c] = FALSE]
  /\ Send(c, "plain")
  /\ UNCHANGED <<group, texts, answer, rows, up, latest, noting, result>>

(* The call fails for good: an error that is not retried, an answer that   *)
(* is lost or late, a client that hangs up while Telegram is waited for.   *)
(* An answer that got through is handled above.                            *)
GiveUp(c) ==
  /\ Posting(c)
  /\ Return(c, "error")
  /\ UNCHANGED <<telegram, rows, up, latest, noting, waited>>

(* Mutant of Answered: any answer without a transport error is a message. *)
AnsweredEarly(c) ==
  /\ Posting(c) /\ wire[c] \in {"posted", "refused"}
  /\ pc' = [pc EXCEPT ![c] = "log"]
  /\ UNCHANGED <<telegram, rows, up, latest, noting, waited, result>>

Answered(c) ==
  /\ Posting(c) /\ wire[c] = "posted"
  /\ pc' = [pc EXCEPT ![c] = "log"]
  /\ UNCHANGED <<telegram, rows, up, latest, noting, waited, result>>

(* UpsertMessage; the caller's context no longer matters. *)
LogReply(c) ==
  /\ pc[c] = "log"
  /\ rows' = [rows EXCEPT ![answer[c]] = 1]
  /\ pc' = [pc EXCEPT ![c] = "note"]
  /\ UNCHANGED <<telegram, up, latest, noting, waited, result>>

(* Mutant of LogFailed: the reply is shown although it was rolled back. *)
LogFailedNotes(c) ==
  /\ pc[c] = "log"
  /\ cache' = Noted({[id |-> answer[c], version |-> 1]})
  /\ Return(c, "warning")
  /\ UNCHANGED <<telegram, rows, up, loaded, noting, waited>>

(* Mutant of LogFailed: the missing log is not worth a warning. *)
LogFailedSilently(c) ==
  /\ pc[c] = "log"
  /\ Return(c, "ok")
  /\ UNCHANGED <<telegram, rows, up, latest, noting, waited>>

LogFailed(c) ==
  /\ pc[c] = "log"
  /\ Return(c, "warning")
  /\ UNCHANGED <<telegram, rows, up, latest, noting, waited>>

NoteReply(c) ==
  /\ pc[c] = "note"
  /\ cache' = Noted({[id |-> answer[c], version |-> 1]})
  /\ Return(c, "ok")
  /\ UNCHANGED <<telegram, rows, up, loaded, noting, waited>>

Next ==
  \/ Write \/ Edit \/ TrackLatest \/ Crash \/ StoreBatch \/ NoteBatch
  \/ \E c \in Calls :
       \/ Deliver(c) \/ Decline(c)
       \/ SendReply(c) \/ SendAgain(c) \/ FallBack(c) \/ GiveUp(c)
       \/ Answered(c) \/ LogReply(c) \/ LogFailed(c) \/ NoteReply(c)

Spec == Init /\ [][Next]_vars

-----------------------------------------------------------------------------
TypeOK ==
  /\ group \in Seq(Calls \union {Member}) /\ Len(group) <= MaxMessages
  /\ texts \in [Ids -> 0..MaxVersions]
  /\ wire \in [Calls -> {"none", "sent", "posted", "bad", "flood", "refused"}]
  /\ answer \in [Calls -> 0..MaxMessages]
  /\ rows \in [Ids -> 0..MaxVersions]
  /\ up \in BOOLEAN /\ loaded \in BOOLEAN
  /\ cache \in Text \union {Nothing}
  /\ noting \subseteq Text
  /\ pc \in [Calls -> {"new", "html", "plain", "log", "note", "done"}]
  /\ waited \in [Calls -> BOOLEAN]
  /\ result \in [Calls -> {"none", "ok", "warning", "error"}]
  /\ \A c \in Calls : pc[c] \in {"log", "note"} => answer[c] # 0

(* "Only a 400 is retried: it means telegram delivered nothing, so the     *)
(* second attempt cannot double post": one call leaves one message in the  *)
(* group at most, through both attempts and both 429 retries, and even if  *)
(* Telegram carries out a request after the call has given it up           *)
(* (tools.go:254-276, client.go:212-241).                                  *)
AtMostOnce ==
  \A c \in Calls : \A i, j \in Written : group[i] = c /\ group[j] = c => i = j

(* What the caller is told is true of the group and the history: "ok", the *)
(* reply is in both; a warning, it was delivered but is missing from the   *)
(* history; an error, the history does not have it (tools.go:245-252).     *)
ReportHonest ==
  \A c \in Calls :
    LET own == {i \in Written : group[i] = c}
        logged == {i \in own : rows[i] # 0}
    IN  /\ result[c] = "ok" => logged # {}
        /\ result[c] = "warning" => own # {} /\ logged = {}
        /\ result[c] = "error" => logged = {}

(* What the public endpoint shows is in the history: nothing is cached     *)
(* before its commit or in spite of its rollback (store.go:208-211).       *)
ShownIsStored == cache.id # 0 => rows[cache.id] # 0

Quiet == up /\ noting = {} /\ \A c \in Calls : pc[c] # "note"

(* "Newest is the highest telegram message id, the order the live update   *)
(* in UpsertBatch follows too, so a restart never changes the answer":     *)
(* when no writer is between its commit and the cache, the cache is what   *)
(* the next start would load, whichever order two writers came in          *)
(* (latest.go:8-58).                                                       *)
NewestShown == Quiet /\ loaded => cache = Newest

(* The same without regard to how the start went: "Latest returns the      *)
(* newest message of a chat registered with TrackLatest" (latest.go:31).   *)
NewestAlways == Quiet /\ cache # Nothing => cache = Newest

(* The newest message never gives way to an older one while the process    *)
(* lives, not even between two writers (latest.go:42-57).                  *)
LatestNeverBack == [][up /\ up' => cache'.id >= cache.id]_vars

-----------------------------------------------------------------------------
(* Why no call posts twice: a message of a call in the group means that    *)
(* its last request is the one that was carried out, and such a request is *)
(* never followed by another one.  The inductive invariant of the proof.   *)
OnceInv ==
  /\ group \in Seq(Calls \union {Member})
  /\ wire \in [Calls -> {"none", "sent", "posted", "bad", "flood", "refused"}]
  /\ pc \in [Calls -> {"new", "html", "plain", "log", "note", "done"}]
  /\ \A c \in Calls : pc[c] = "new" => wire[c] = "none"
  /\ \A c \in Calls : \A i \in Written : group[i] = c => wire[c] = "posted"
  /\ AtMostOnce

(* What the rows say of the calls: a call that was answered knows its own  *)
(* message, and what it has reported is the state of that message's row.   *)
Unlogged(c) == wire[c] = "posted" => rows[answer[c]] = 0

CallInv(c) ==
  /\ pc[c] \in {"log", "note"} => wire[c] = "posted"
  /\ wire[c] = "posted" => answer[c] \in Written /\ group[answer[c]] = c
  /\ result[c] # "none" => pc[c] = "done"
  /\ pc[c] \in {"new", "html", "plain", "log"} => Unlogged(c)
  /\ pc[c] = "note" => rows[answer[c]] = 1
  /\ result[c] = "ok" => wire[c] = "posted" /\ rows[answer[c]] # 0
  /\ result[c] = "warning" => wire[c] = "posted" /\ Unlogged(c)
  /\ result[c] = "error" => Unlogged(c)

(* What is committed and not noted yet, by the poll loop and by the calls. *)
Pending ==
  noting \union {[id |-> answer[c], version |-> 1] : c \in {d \in Calls : pc[d] = "note"}}

(* Why the cache is right: what it lacks of the table is still on its way  *)
(* to it.                                                                  *)
CacheInv ==
  /\ Stored \subseteq Written
  /\ \A t \in noting : rows[t.id] = t.version /\ t.id \in ByMembers
  /\ ShownIsStored
  /\ loaded => \A i \in Stored :
       LET t == [id |-> i, version |-> rows[i]] IN i >= cache.id /\ cache # t => t \in Pending

RepliesInv == TypeOK /\ OnceInv /\ (\A c \in Calls : CallInv(c)) /\ CacheInv
=============================================================================
