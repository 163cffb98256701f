------------------------------- MODULE Traces -------------------------------
(***************************************************************************)
(* What several of the proofs rest on: the least element of a set of       *)
(* naturals, induction up to a number, and reading a sequence from the     *)
(* left, item by item, which is what the recursive functions of the models *)
(* do.                                                                     *)
(***************************************************************************)
EXTENDS Naturals, Sequences, WellFoundedInduction, TLAPS

LEMMA SmallestExists ==
  ASSUME NEW S \in SUBSET Nat, S # {}
  PROVE  \E x \in S : \A y \in S : x <= y
<1> DEFINE R == OpToRel(<, Nat)
<1>1. PICK x \in S : \A y \in S : ~ (<<y, x>> \in R)
  <2>1. IsWellFoundedOn(R, Nat)
    BY NatLessThanWellFounded
  <2> HIDE DEF R
  <2> QED
    BY <2>1, WFMin
<1>2. \A y \in S : ~ (y < x)
  BY <1>1 DEF OpToRel
<1> QED
  BY <1>2

LEMMA LargestExists ==
  ASSUME NEW n \in Nat, NEW S \in SUBSET (0..n), S # {}
  PROVE  \E x \in S : \A y \in S : y <= x
<1> DEFINE T == {n - x : x \in S}
<1>1. T \in SUBSET Nat /\ T # {}
  <2>1. \A x \in S : n - x \in Nat
    OBVIOUS
  <2> QED
    BY <2>1
<1>2. PICK t \in T : \A u \in T : t <= u
  BY <1>1, SmallestExists
<1>3. PICK x \in S : t = n - x
  OBVIOUS
<1>4. ASSUME NEW y \in S PROVE y <= x
  <2>1. n - y \in T
    OBVIOUS
  <2>2. n - x <= n - y
    BY <1>2, <1>3, <2>1
  <2>3. x \in 0..n /\ y \in 0..n
    OBVIOUS
  <2> QED
    BY <2>2, <2>3
<1> QED
  BY <1>4

(* Induction up to n: no number is the first that S leaves out.            *)
LEMMA Induction ==
  ASSUME NEW S, NEW n \in Nat, 0 \in S, \A k \in 0..(n - 1) : k \in S => k + 1 \in S
  PROVE  \A k \in 0..n : k \in S
<1> DEFINE T == {k \in 0..n : k \notin S}
<1>1. SUFFICES ASSUME T # {}
               PROVE  FALSE
  OBVIOUS
<1>2. T \in SUBSET Nat
  OBVIOUS
<1>3. PICK x \in T : \A y \in T : x <= y
  BY <1>1, <1>2, SmallestExists
<1>4. x \in 1..n /\ x \notin S
  BY <1>3
<1>5. x - 1 \in 0..(n - 1) /\ x - 1 \notin T
  BY <1>3, <1>4
<1>6. x - 1 \in S
  BY <1>4, <1>5
<1> QED
  BY <1>4, <1>5, <1>6

(* g is what add makes of v and the items of s, one after the other.       *)
IsTrace(g, add, v, s) ==
  /\ DOMAIN g = 0..Len(s)
  /\ g[0] = v
  /\ \A n \in 1..Len(s) : g[n] = add[g[n - 1]][s[n]]

LEMMA TraceExists ==
  ASSUME NEW V, NEW E, NEW add \in [V -> [E -> V]], NEW v \in V, NEW s \in Seq(E)
  PROVE  \E g \in [0..Len(s) -> V] : IsTrace(g, add, v, s)
<1> DEFINE Upto(g, m) == /\ g \in [0..m -> V] /\ g[0] = v
                         /\ \A n \in 1..m : g[n] = add[g[n - 1]][s[n]]
           S == {m \in Nat : \E g : Upto(g, m)}
<1>1. 0 \in S
  <2>1. Upto([n \in 0..0 |-> v], 0)
    OBVIOUS
  <2> QED
    BY <2>1
<1>2. ASSUME NEW m \in 0..(Len(s) - 1), m \in S
      PROVE  m + 1 \in S
  <2>1. PICK g : Upto(g, m)
    BY <1>2
  <2> DEFINE next == add[g[m]][s[m + 1]]
             h == [n \in 0..(m + 1) |-> IF n = m + 1 THEN next ELSE g[n]]
  <2>2. m \in Nat /\ s[m + 1] \in E
    BY <1>2
  <2>3. next \in V
    BY <2>1, <2>2
  <2> HIDE DEF next
  <2>4. h \in [0..(m + 1) -> V] /\ h[m + 1] = next /\ \A n \in 0..m : h[n] = g[n]
    BY <2>1, <2>2, <2>3
  <2> HIDE DEF h
  <2>5. h[0] = v
    BY <2>1, <2>2, <2>4
  <2>6. ASSUME NEW n \in 1..(m + 1)
        PROVE  h[n] = add[h[n - 1]][s[n]]
    <3>1. CASE n = m + 1
      <4>1. n - 1 = m /\ n - 1 \in 0..m
        BY <2>2, <3>1
      <4>2. h[n] = next /\ h[n - 1] = g[m]
        BY <2>4, <3>1, <4>1
      <4> QED
        BY <3>1, <4>2 DEF next
    <3>2. CASE n # m + 1
      <4>1. n \in 1..m /\ n \in 0..m /\ n - 1 \in 0..m
        BY <2>2, <3>2
      <4>2. h[n] = g[n] /\ h[n - 1] = g[n - 1]
        BY <2>4, <4>1
      <4> QED
        BY <2>1, <4>1, <4>2
    <3> QED
      BY <3>1, <3>2
  <2>7. Upto(h, m + 1)
    BY <2>4, <2>5, <2>6
  <2> HIDE DEF Upto
  <2> QED
    BY <2>2, <2>7
<1> HIDE DEF S
<1>3. Len(s) \in S
  <2>1. Len(s) \in Nat
    OBVIOUS
  <2>2. \A m \in 0..Len(s) : m \in S
    BY <1>1, <1>2, <2>1, Induction
  <2> QED
    BY <2>1, <2>2
<1>4. PICK g : Upto(g, Len(s))
  BY <1>3 DEF S
<1> QED
  BY <1>4 DEF IsTrace

LEMMA TraceUnique ==
  ASSUME NEW add, NEW v, NEW s, Len(s) \in Nat,
         NEW g, IsTrace(g, add, v, s), NEW h, IsTrace(h, add, v, s)
  PROVE  \A n \in 0..Len(s) : g[n] = h[n]
<1> DEFINE S == {n \in Nat : g[n] = h[n]}
<1>1. 0 \in S
  BY DEF IsTrace
<1>2. ASSUME NEW k \in 0..(Len(s) - 1), k \in S
      PROVE  k + 1 \in S
  <2>1. k + 1 \in 1..Len(s) /\ (k + 1) - 1 = k
    BY <1>2
  <2>2. g[k + 1] = add[g[k]][s[k + 1]] /\ h[k + 1] = add[h[k]][s[k + 1]]
    BY <2>1 DEF IsTrace
  <2> QED
    BY <1>2, <2>1, <2>2
<1> HIDE DEF S
<1>3. \A k \in 0..Len(s) : k \in S
  BY <1>1, <1>2, Induction
<1> QED
  BY <1>3 DEF S

(* One sequence read after the other.                                      *)
LEMMA TraceOfConcat ==
  ASSUME NEW E, NEW s \in Seq(E), NEW t \in Seq(E), NEW add, NEW v,
         NEW g, IsTrace(g, add, v, s), NEW h, IsTrace(h, add, g[Len(s)], t)
  PROVE  IsTrace([n \in 0..(Len(s) + Len(t)) |-> IF n <= Len(s) THEN g[n] ELSE h[n - Len(s)]],
                 add, v, s \o t)
<1> DEFINE j == [n \in 0..(Len(s) + Len(t)) |-> IF n <= Len(s) THEN g[n] ELSE h[n - Len(s)]]
<1>1. /\ Len(s) \in Nat /\ Len(t) \in Nat /\ Len(s \o t) = Len(s) + Len(t)
      /\ \A n \in 1..Len(s) : (s \o t)[n] = s[n]
      /\ \A n \in 1..Len(t) : (s \o t)[n + Len(s)] = t[n]
  OBVIOUS
<1>2. /\ DOMAIN j = 0..Len(s \o t)
      /\ \A n \in 0..Len(s) : j[n] = g[n]
      /\ \A n \in 1..Len(t) : j[n + Len(s)] = h[n]
  BY <1>1
<1>3. j[Len(s)] = h[0]
  BY <1>1, <1>2 DEF IsTrace
<1> HIDE DEF j
<1>4. j[0] = v
  BY <1>1, <1>2 DEF IsTrace
<1>5. ASSUME NEW n \in 1..Len(s \o t)
      PROVE  j[n] = add[j[n - 1]][(s \o t)[n]]
  <2>1. CASE n <= Len(s)
    <3>1. n \in 1..Len(s) /\ n - 1 \in 0..Len(s)
      BY <1>1, <2>1
    <3> QED
      BY <1>1, <1>2, <3>1 DEF IsTrace
  <2>2. CASE n > Len(s)
    <3>1. PICK m \in 1..Len(t) : n = m + Len(s)
      <4>1. n - Len(s) \in 1..Len(t) /\ n = (n - Len(s)) + Len(s)
        BY <1>1, <2>2
      <4> QED
        BY <4>1
    <3>2. h[m] = add[h[m - 1]][t[m]]
      BY DEF IsTrace
    <3>3. j[n - 1] = h[m - 1]
      <4>1. CASE m = 1
        BY <1>1, <1>3, <3>1, <4>1
      <4>2. CASE m # 1
        <5>1. m - 1 \in 1..Len(t) /\ n - 1 = (m - 1) + Len(s)
          BY <1>1, <3>1, <4>2
        <5> QED
          BY <1>2, <5>1
      <4> QED
        BY <4>1, <4>2
    <3> QED
      BY <1>1, <1>2, <3>1, <3>2, <3>3
  <2> QED
    BY <1>1, <2>1, <2>2
<1> QED
  BY <1>1, <1>2, <1>4, <1>5 DEF IsTrace, j

(* Concatenation kept folded: the solver unfolds \o where it meets it, and *)
(* an equation between folded terms is one it can instantiate.             *)
Glued(s, t) == s \o t

LEMMA GluedAppend ==
  ASSUME NEW E, NEW d \in Seq(E), NEW s \in Seq(E), NEW c \in E
  PROVE  Append(Glued(d, s), c) = Glued(d, Append(s, c))
  BY DEF Glued

LEMMA GluedNothing == ASSUME NEW E, NEW d \in Seq(E) PROVE Glued(d, <<>>) = d
  BY DEF Glued

LEMMA GluedTyped == ASSUME NEW E, NEW d \in Seq(E), NEW s \in Seq(E) PROVE Glued(d, s) \in Seq(E)
  BY DEF Glued

LEMMA GluedAssoc ==
  ASSUME NEW E, NEW a \in Seq(E), NEW b \in Seq(E), NEW c \in Seq(E)
  PROVE  Glued(Glued(a, b), c) = Glued(a, Glued(b, c))
  BY SMTT(30) DEF Glued

(* Four in a row, put together by two and two or from the middle.          *)
LEMMA GluedInPairs ==
  ASSUME NEW E, NEW a \in Seq(E), NEW b \in Seq(E), NEW c \in Seq(E), NEW d \in Seq(E)
  PROVE  Glued(a, Glued(Glued(b, c), d)) = Glued(Glued(a, b), Glued(c, d))
<1>1. Glued(c, d) \in Seq(E)
  BY GluedTyped
<1>2. Glued(Glued(b, c), d) = Glued(b, Glued(c, d))
  BY GluedAssoc
<1>3. Glued(Glued(a, b), Glued(c, d)) = Glued(a, Glued(b, Glued(c, d)))
  BY <1>1, GluedAssoc
<1> QED
  BY <1>2, <1>3
=============================================================================
