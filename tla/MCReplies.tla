----------------------------- MODULE MCReplies ------------------------------
(* Small instances of Replies: two calls that may race each other and the  *)
(* poll loop.                                                              *)
EXTENDS Replies, TLC

CONSTANTS c1, c2

MCCalls == {c1, c2}
MCOneCall == {c1}
MCSymmetry == Permutations(MCCalls)
=============================================================================
