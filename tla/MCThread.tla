------------------------------ MODULE MCThread ------------------------------
(* One group whose messages are all written before the first of them is    *)
(* stored: in any shape of replies, with topics up to TopicMessages, up to *)
(* PlainMessages without; and MaxMessages without replies in one second,   *)
(* which is more than the span fill reads.                                 *)
EXTENDS Thread

CONSTANTS c1, TopicMessages, PlainMessages

MCChats == {c1}
MCMessages == [chat : MCChats, sent : Times, bot : {FALSE}, reply : Ids \union {0}, topic : 0..1]

(* Replies stay in the topic of what they answer; outside a forum they     *)
(* carry a thread id their root does not have.                             *)
Plausible(w) ==
  \A i \in DOMAIN w :
    /\ i > 1 => w[i].sent >= w[i - 1].sent
    /\ w[i].reply < i
    /\ w[i].reply # 0 => w[i].topic >= w[w[i].reply].topic
    /\ \A j \in DOMAIN w : w[i].reply # 0 /\ w[i].reply = w[j].reply => w[i].topic = w[j].topic

Written(n, topics) ==
  {w \in [1..n -> {m \in MCMessages : m.reply < n /\ m.topic \in topics}] : Plausible(w)}

BusySecond == [i \in Ids |-> [chat |-> c1, sent |-> 1, bot |-> FALSE, reply |-> 0, topic |-> 0]]

MCInit ==
  /\ written \in Written(TopicMessages, {0, 1}) \union Written(PlainMessages, {0}) \union {BusySecond}
  /\ now = MaxTime /\ row = [i \in Ids |-> 0] /\ lastRow = 0
  /\ ThreadInit

MCSpec == MCInit /\ [][(Store /\ UNCHANGED call) \/ ThreadNext]_thvars
=============================================================================
