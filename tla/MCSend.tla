------------------------------- MODULE MCSend -------------------------------
(* What a call of send_reply goes through before it posts: where the reply *)
(* goes (ChatMap) and what its text becomes (Render).  The two share no    *)
(* state; part says which of them an instance steps.                       *)
EXTENDS Render, ChatMap, TLC

CONSTANTS c1, c2, c3, s1, s2, l1, l2, p1

VARIABLE part

MCTokens == {"a", ".", " ", "*", "**", "***", "code a", "["}
MCChatIds == {c1, c2, c3}
MCSlugs == {s1, s2}
MCLabels == {l1, l2}
MCAliases == {p1}
MCSymmetry == Permutations(MCChatIds) \union Permutations(MCSlugs) \union Permutations(MCLabels)

MCInit ==
  \/ part = "render" /\ Init /\ MapInit
  \/ part = "address" /\ line = <<EndOfLine>> /\ r = NewRenderer /\ outer = <<>> /\ MapInit

MCNext ==
  /\ \/ part = "render" /\ Next /\ UNCHANGED mapvars
     \/ part = "address" /\ MapNext /\ UNCHANGED rvars
  /\ UNCHANGED part

MCSpec == MCInit /\ [][MCNext]_<<rvars, mapvars, part>>
=============================================================================
