------------------------------ MODULE MCBuffer ------------------------------
(* A chat with two messages, each sound or refused in any way there is. *)
EXTENDS Buffer

CONSTANTS m1, m2

MCMessages == {m1, m2}
MCVersions == 1..2
=============================================================================
