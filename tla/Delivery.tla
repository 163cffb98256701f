------------------------------ MODULE Delivery ------------------------------
(***************************************************************************)
(* What ingestion owes the Bot API's queue, without saying how: an update  *)
(* leaves the queue only when its fate is settled, or because it aged out. *)
(* Whatever is still queued may be settled, and unsettled again by a       *)
(* redelivery, any number of times.                                        *)
(***************************************************************************)
EXTENDS Naturals

VARIABLES
  arrived,   \* updates 1..arrived were queued
  gone,      \* updates 1..gone have left the queue
  settled    \* the updates that need no further delivery

vars == <<arrived, gone, settled>>

Init == arrived = 0 /\ gone = 0 /\ settled = {}

(* An update that carries nothing to keep is settled as it arrives. *)
Arrive ==
  /\ arrived' = arrived + 1
  /\ settled' \in {settled, settled \union {arrived + 1}}
  /\ UNCHANGED gone

Expire ==
  /\ gone < arrived
  /\ gone' = gone + 1
  /\ settled' = settled \union {gone + 1}
  /\ UNCHANGED arrived

(* The tables change: what has left the queue stays settled. *)
Settle ==
  /\ settled' \subseteq 1..arrived
  /\ \A i \in 1..gone : i \in settled => i \in settled'
  /\ UNCHANGED <<arrived, gone>>

Confirm ==
  /\ gone' \in gone..arrived
  /\ \A i \in gone+1..gone' : i \in settled
  /\ UNCHANGED <<arrived, settled>>

Next == Arrive \/ Expire \/ Settle \/ Confirm

Spec == Init /\ [][Next]_vars
=============================================================================
