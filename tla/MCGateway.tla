----------------------------- MODULE MCGateway ------------------------------
(* A small instance of Gateway: two groups that are mapped and unmapped,   *)
(* one with a message, its edit, and an edit only the history refuses.     *)
EXTENDS Gateway

CONSTANTS g1, g2, m1

MCBoth == {g1, g2}
MCMessageIds == {m1}

Text(c) == [chat |-> c, message |-> m1, body |-> TRUE, bad |-> {}]
Refusable(c) == [Text(c) EXCEPT !.bad = {"messages"}]

MCUpdates == {Text(g1), Refusable(g1), Text(g2)}
=============================================================================
