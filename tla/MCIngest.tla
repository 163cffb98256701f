------------------------------ MODULE MCIngest ------------------------------
(* Small instances of Ingest: two groups, either of which the chat map may *)
(* know, and a private chat; a message, its edit, an edit both tables      *)
(* reject, and an update that carries nothing.                             *)
EXTENDS Ingest

CONSTANTS g1, g2, p, m1, m2

MCChats == {g1, g2, p}
MCGroups == {g1, g2}
MCMessageIds == {m1, m2}

Text(c, m) == [chat |-> c, message |-> m, body |-> TRUE, bad |-> {}]
Bad(c, m) == [Text(c, m) EXCEPT !.bad = Tables]
Empty(c, m) == [Text(c, m) EXCEPT !.body = FALSE]

MCUpdates ==
  {Text(g1, m1), Text(g2, m1), Bad(g1, m1), Empty(g1, m2), Text(p, m1)}

\* without the updates that are never written
MCFewUpdates == {Text(g1, m1), Text(g2, m1), Bad(g1, m1)}

MCTwoUpdates == {Text(g1, m1), Bad(g1, m1)}
=============================================================================
