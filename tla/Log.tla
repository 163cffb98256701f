-------------------------------- MODULE Log ---------------------------------
(***************************************************************************)
(* The messages table as its readers see it, the part of it that decides   *)
(* what a listing holds: group, author, time, links and surrogate id.      *)
(*                                                                         *)
(* A message is its message id, its position in written; Telegram numbers  *)
(* messages in the order of their dates, which have whole seconds.  A row  *)
(* may be stored long after its message was written: by a replay, by the   *)
(* edit of a message that was dropped, or when send_reply logs late.       *)
(***************************************************************************)
EXTENDS Naturals, Sequences, FiniteSets

CONSTANTS
  Chats,        \* groups, of one customer or of several
  Messages,     \* what may be written
  MaxMessages,  \* bound: messages written
  MaxTime       \* bound: seconds that pass

Ids == 1..MaxMessages
Times == 1..MaxTime

(* reply is the message answered, topic the forum topic, 0: none. *)
Message == [chat : Chats, sent : Times, bot : BOOLEAN, reply : 0..MaxMessages, topic : Nat]

ASSUME LogAssumption ==
  MaxMessages \in Nat /\ MaxTime \in Nat \ {0} /\ Messages \subseteq Message

VARIABLES
  now,      \* the second it is
  written,  \* what the groups wrote
  row,      \* Ids -> surrogate id of the stored message, 0: not stored
  lastRow   \* the highest surrogate id given

log == <<now, written, row, lastRow>>

Stored == {i \in 1..Len(written) : row[i] # 0}

(* ORDER BY sent, id. *)
Earlier(i, j) ==
  \/ written[i].sent < written[j].sent
  \/ written[i].sent = written[j].sent /\ row[i] < row[j]

-----------------------------------------------------------------------------
LogInit == now = 1 /\ written = <<>> /\ row = [i \in Ids |-> 0] /\ lastRow = 0

Tick == now < MaxTime /\ now' = now + 1 /\ UNCHANGED <<written, row, lastRow>>

Write ==
  /\ Len(written) < MaxMessages
  /\ \E m \in Messages : /\ m.sent = now /\ m.reply <= Len(written)
                         /\ written' = Append(written, m)
  /\ UNCHANGED <<now, row, lastRow>>

(* An upsert gives a message a row; one that finds the row of an earlier   *)
(* version, from which it keeps id and time, changes nothing here.         *)
Store ==
  /\ \E i \in 1..Len(written) : row[i] = 0 /\ row' = [row EXCEPT ![i] = lastRow + 1]
  /\ lastRow' = lastRow + 1
  /\ UNCHANGED <<now, written>>

LogNext == Tick \/ Write \/ Store

(* What every reader relies on: a row is stored once, under an id of its   *)
(* own.                                                                    *)
LogFacts ==
  /\ now \in Times
  /\ written \in Seq(Messages) /\ Len(written) <= MaxMessages
  /\ lastRow \in Nat /\ row \in [Ids -> 0..lastRow]
  /\ \A i, j \in Ids : row[i] # 0 /\ row[i] = row[j] => i = j
=============================================================================
