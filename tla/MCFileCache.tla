---------------------------- MODULE MCFileCache -----------------------------
(* Three calls, two files and a token that may be changed. *)
EXTENDS FileCache, TLC

CONSTANTS c1, c2, c3, f1, f2, k1, k2

MCCalls == {c1, c2, c3}
MCFiles == {f1, f2}
MCKeys == {k1, k2}
MCSymmetry == Permutations(MCCalls) \union Permutations(MCFiles) \union Permutations(MCKeys)
=============================================================================
