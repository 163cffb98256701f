------------------------------ MODULE Gateway -------------------------------
(***************************************************************************)
(* The process around Ingest: what cmd/tg-mcp does before the poll loop    *)
(* starts and next to it.  Every start loads a chat map the operator may   *)
(* have edited, replays the buffer of the chats it now knows into the      *)
(* history, sweeps what has waited too long, and only then polls; while it *)
(* runs a ticker repeats the sweep.  A chat may be mapped, unmapped and    *)
(* mapped again any number of times.                                       *)
(*                                                                         *)
(* One replayed chat is one transaction and one step; Buffer has its       *)
(* statements.  aged stands for the clock: the buffered rows whose         *)
(* received lies further back than the TTL.                                *)
(***************************************************************************)
EXTENDS Ingest

VARIABLES
  stage,     \* "down", "replay", "sweep" or "serve"
  todo,      \* the chats ReplayPending still has to visit
  aged,      \* the messages whose buffered row is older than the TTL
  expired,   \* history: updates whose buffered row a sweep removed
  refused    \* history: updates the history refused at their replay

startup == <<stage, todo>>
buffer == <<aged, expired, refused>>
gvars == <<vars, startup, buffer>>

Rows == {k \in Keys : pending[k] # 0}

GInit ==
  /\ Init
  /\ stage = "down" /\ todo = {}
  /\ aged = {} /\ expired = {} /\ refused = {}

(* The TTL of a buffered row runs out. *)
Age ==
  /\ \E k \in Rows \ aged : aged' = aged \union {k}
  /\ UNCHANGED <<vars, startup, expired, refused>>

(* A process starts on the chat map it finds. *)
Boot ==
  /\ stage = "down"
  /\ stage' = "replay"
  /\ known' \in SUBSET Groups
  /\ todo' = known'
  /\ UNCHANGED <<telegram, tables, pc, progress, batch, dropped, buffer>>

(* Mutant of ReplayChat: a database error skips the chat instead of ending *)
(* the start.                                                              *)
ReplayChatSkipped ==
  /\ stage = "replay"
  /\ \E c \in todo : todo' = todo \ {c}
  /\ UNCHANGED <<vars, stage, buffer>>

(* Mutant of ReplayChat: the buffer of every chat is emptied. *)
ReplayChatEmptiesAll ==
  /\ stage = "replay"
  /\ \E c \in todo :
       LET rows == {k \in Rows : k[1] = c}
           taken == {k \in rows : "messages" \notin stream[pending[k]].bad}
       IN  /\ todo' = todo \ {c}
           /\ messages' = [k \in Keys |-> IF k \in taken THEN pending[k] ELSE messages[k]]
           /\ refused' = refused \union {pending[k] : k \in rows \ taken}
  /\ pending' = [k \in Keys |-> 0]
  /\ aged' = {}
  /\ UNCHANGED <<telegram, known, pc, progress, batch, dropped, stage, expired>>

(* replayChat: the buffered rows of one chat move to the history, except   *)
(* those it refuses, and the chat's buffer is emptied.                     *)
ReplayChat ==
  /\ stage = "replay"
  /\ \E c \in todo :
       LET rows == {k \in Rows : k[1] = c}
           taken == {k \in rows : "messages" \notin stream[pending[k]].bad}
       IN  /\ todo' = todo \ {c}
           /\ messages' = [k \in Keys |-> IF k \in taken THEN pending[k] ELSE messages[k]]
           /\ pending' = [k \in Keys |-> IF k \in rows THEN 0 ELSE pending[k]]
           /\ refused' = refused \union {pending[k] : k \in rows \ taken}
           /\ aged' = aged \ rows
  /\ UNCHANGED <<telegram, known, pc, progress, batch, dropped, stage, expired>>

(* Mutant of ReplayDone: the start sweeps before everything is replayed.   *)
ReplayLater ==
  /\ stage = "replay"
  /\ stage' = "sweep"
  /\ UNCHANGED <<vars, todo, buffer>>

ReplayDone ==
  /\ stage = "replay" /\ todo = {}
  /\ stage' = "sweep"
  /\ UNCHANGED <<vars, todo, buffer>>

(* SweepPending, whoever calls it. *)
Sweep ==
  /\ pending' = [k \in Keys |-> IF k \in aged THEN 0 ELSE pending[k]]
  /\ expired' = expired \union {pending[k] : k \in aged}
  /\ aged' = {}
  /\ UNCHANGED <<telegram, messages, known, pc, progress, batch, dropped, todo, refused>>

SweepAtStart == stage = "sweep" /\ Sweep /\ stage' = "serve"

(* sweepPending's ticker, in a goroutine of its own; a failing sweep only  *)
(* waits for the next tick.                                                *)
SweepTick == stage = "serve" /\ aged # {} /\ Sweep /\ UNCHANGED stage

(* Mutant of Shutdown: the poll loop outlives the server. *)
ShutdownLeavesRun ==
  /\ stage # "down"
  /\ stage' = "down" /\ todo' = {}
  /\ UNCHANGED <<vars, buffer>>

(* The process ends at any point of its start, or with Run. *)
Shutdown ==
  /\ stage # "down"
  /\ stage' = "down" /\ todo' = {}
  /\ \/ Exit
     \/ pc = "down" /\ UNCHANGED vars
  /\ UNCHANGED buffer

(* Mutant of Poll: buffering a message again stamps received again. *)
PollRestampsReceived ==
  /\ stage = "serve"
  /\ Run
  /\ aged' = IF pc = "pending" /\ pc' = "messages"
             THEN aged \ {KeyOf(i) : i \in Records("pending")} ELSE aged
  /\ UNCHANGED <<startup, expired, refused>>

(* Polling, once the start is complete. *)
Poll ==
  /\ stage = "serve"
  /\ Run
  /\ UNCHANGED <<startup, buffer>>

Outside == (Arrive \/ Expire) /\ UNCHANGED <<startup, buffer>>

GNext ==
  \/ Outside \/ Age \/ Boot \/ ReplayChat \/ ReplayDone \/ SweepAtStart \/ SweepTick
  \/ Shutdown \/ Poll

GSpec == GInit /\ [][GNext]_gvars

-----------------------------------------------------------------------------
GTypeOK ==
  /\ TypeOK
  /\ stage \in {"down", "replay", "sweep", "serve"}
  /\ todo \subseteq known
  /\ aged \subseteq Rows
  /\ expired \subseteq 1..Len(stream)
  /\ refused \subseteq 1..Len(stream)
  /\ pc # "down" => stage = "serve"

(* Gone by one of the documented losses: rejected by the database, aged    *)
(* out of Telegram's queue, or, together with every earlier write of the   *)
(* same message, swept or refused while it was buffered.                   *)
Lost(i) == \E j \in expired \union refused : j >= i /\ KeyOf(j) = KeyOf(i)

GivenUp(i) == i \in dropped \union missed \/ Lost(i)

Wanted(i) == stream[i].body /\ stream[i].chat \in Groups

(* "Add the entry, restart, and the backlog is replayed into the           *)
(* customer's history": while the process polls, every confirmed message   *)
(* of a mapped chat is in the history, however often its chat was mapped   *)
(* and unmapped and the process killed in between (main.go:187-217).       *)
BacklogRecovered ==
  stage = "serve" =>
    \A i \in 1..gone : Wanted(i) /\ stream[i].chat \in known =>
                         messages[KeyOf(i)] >= i \/ GivenUp(i)

(* "Nothing said in the meantime is lost": a confirmed message of an       *)
(* unmapped chat is buffered or in the history from when it was mapped.    *)
Safe(i) == Wanted(i) => Held(KeyOf(i)) >= i \/ GivenUp(i)

NothingLostAcrossMaps == \A i \in 1..gone : Safe(i)

(* "Adding the chat wins over the TTL": no sweep removes a message of a    *)
(* chat in the map, also not the one at the start that learned the chat    *)
(* (main.go:183-186).                                                      *)
SweepSparesMapped ==
  [][\A k \in Keys : k \in aged /\ pending'[k] = 0 /\ k[1] \in known =>
       messages'[k] = pending[k] \/ pending[k] \in refused']_gvars

-----------------------------------------------------------------------------
(* The process is restarted, its start, for every chat, and its ticker get *)
(* through to the database again and again, and time passes; nothing is    *)
(* assumed of Telegram or the poll loop.                                   *)
GFairness ==
  /\ WF_gvars(Boot) /\ SF_gvars(ReplayDone)
  /\ \A c \in Groups : SF_gvars(ReplayChat /\ todo' = todo \ {c})
  /\ SF_gvars(SweepAtStart) /\ WF_gvars(SweepTick)
  /\ \A k \in Keys : WF_gvars(Age /\ k \in aged')

GFairSpec == GSpec /\ GFairness

(* "The TTL bounds what stays unclaimed": a buffered message leaves the    *)
(* buffer in the end, replayed or swept, however often it is edited or     *)
(* redelivered meanwhile (pending.go:34-38, main.go:219-246).              *)
BufferBounded == \A k \in Keys : []<>(pending[k] = 0)

-----------------------------------------------------------------------------
(* Why nothing is lost across maps, the inductive invariant of the proof:  *)
(* what Ingest needs of a round, with the losses of sweeps and replays     *)
(* added to those of the loop, and what a start owes the loop, no row of a *)
(* mapped chat left in the buffer.                                         *)
OwnRows == \A k \in Rows : KeyOf(pending[k]) = k

ReplayOwed ==
  /\ stage # "down" => \A k \in Rows : k[1] \in known => k[1] \in todo
  /\ stage \in {"sweep", "serve"} => todo = {}
  /\ pc = "down" => offset = 0

RoundSafe ==
  stage = "serve" =>
    /\ \A i \in 1..Len(stream) : i < offset \/ (Storing /\ i < first) => Safe(i)
    /\ pc = "messages" => \A i \in Records("pending") : Safe(i)
    /\ pc = "skip" => \A i \in first..last : i < at => Safe(i)

GatewayInv ==
  GTypeOK /\ BatchOK /\ OwnRows /\ ReplayOwed /\ NothingLostAcrossMaps /\ RoundSafe
=============================================================================
