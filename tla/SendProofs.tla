----------------------------- MODULE SendProofs -----------------------------
(***************************************************************************)
(* What a call of send_reply goes through before it posts, for any lines   *)
(* and any chat map.  Render: the stack of open emphasis never holds a run *)
(* that is already covered, the output turned back is the line as it was   *)
(* typed, and its tags are balanced.  ChatMap: a valid map leaves no group *)
(* without a name that leads back to it, a reply never lands in another    *)
(* group than the message it answers, and no message is left without a     *)
(* customer.                                                               *)
(***************************************************************************)
EXTENDS Render, ChatMap, Traces, SequenceTheorems

-----------------------------------------------------------------------------
(* Render *)

Frames == [run : 1..maxRun, buf : Seq(Items)]
Renderers == [stack : Seq(Frames), root : Seq(Items)]

(* A renderer as it can be at any token. *)
Fit(x) == x \in Renderers /\ Distinct(x.stack)

OuterFit == outer = <<>> \/ \E l \in Seq(Items), x \in Renderers : Fit(x) /\ outer = <<[line |-> l, r |-> x]>>

RenderInv ==
  /\ line \in Seq(Items) /\ line # <<>>
  /\ Fit(r)
  /\ outer = <<>> => Token # EndOfText
  /\ OuterFit

-----------------------------------------------------------------------------
(* Where a piece of output lands changes no run. *)
LEMMA WriteFit == ASSUME NEW x, Fit(x), NEW s \in Seq(Items) PROVE Fit(write(s, x))
<1>1. x.stack \in Seq(Frames) /\ x.root \in Seq(Items) 
  BY DEF Fit, Renderers
<1>2. CASE x.stack = <<>>
  <2>1. write(s, x) = [stack |-> x.stack, root |-> x.root \o s]
    BY <1>1, <1>2 DEF write
  <2> QED
    BY <1>1, <2>1 DEF Fit, Renderers
<1>3. CASE x.stack # <<>>
  <2> DEFINE n == Len(x.stack)
             f == x.stack[n]
             stack == [x.stack EXCEPT ![n] = [run |-> f.run, buf |-> f.buf \o s]]
  <2>1. n \in 1..Len(x.stack) /\ f \in Frames
    BY <1>1, <1>3
  <2>2. f.run \in 1..maxRun /\ f.buf \in Seq(Items) /\ f = [run |-> f.run, buf |-> f.buf]
    BY <2>1 DEF Frames
  <2>3. write(s, x) = [stack |-> stack, root |-> x.root]
    BY <1>3 DEF write, Last
  <2>4. [run |-> f.run, buf |-> f.buf \o s] \in Frames
    BY <2>2 DEF Frames
  <2>5. stack \in Seq(Frames) /\ Len(stack) = Len(x.stack)
    BY <1>1, <2>1, <2>4
  <2>6. \A k \in 1..Len(stack) : stack[k].run = x.stack[k].run
    BY <1>1, <2>1
  <2> HIDE DEF stack
  <2>7. Distinct(stack)
    BY <2>5, <2>6 DEF Fit, Distinct
  <2> QED
    BY <1>1, <2>3, <2>5, <2>7 DEF Fit, Renderers
<1> QED
  BY <1>2, <1>3

LEMMA PopFit ==
  ASSUME NEW x, Fit(x), x.stack # <<>>
  PROVE  Fit(pop(x)) /\ Last(x.stack).run \in 1..maxRun /\ Last(x.stack).buf \in Seq(Items)
<1>1. x.stack \in Seq(Frames) /\ x.root \in Seq(Items)
  BY DEF Fit, Renderers
<1>2. Last(x.stack) \in Frames
  BY <1>1 DEF Last
<1> DEFINE n == Len(x.stack) - 1
<1>3. n \in Nat /\ n <= Len(x.stack)
  BY <1>1
<1>4. /\ SubSeq(x.stack, 1, n) \in Seq(Frames) /\ Len(SubSeq(x.stack, 1, n)) = n
      /\ \A k \in 1..n : SubSeq(x.stack, 1, n)[k] = x.stack[k]
  BY <1>1, <1>3
<1>6. pop(x) = [stack |-> SubSeq(x.stack, 1, n), root |-> x.root]
  BY DEF pop
<1> HIDE DEF n
<1>5. Distinct(SubSeq(x.stack, 1, n))
  <2>1. \A k \in 1..n : k \in 1..Len(x.stack)
    BY <1>1, <1>3
  <2> QED
    BY <1>4, <2>1 DEF Fit, Distinct
<1>7. Fit(pop(x))
  BY <1>1, <1>4, <1>5, <1>6 DEF Fit, Renderers
<1> QED
  BY <1>2, <1>7 DEF Frames

LEMMA Singles ==
  ASSUME NEW S, NEW a \in S, NEW b \in S, NEW c \in S
  PROVE  <<a>> \in Seq(S) /\ <<a, b>> \in Seq(S) /\ <<a, b, c>> \in Seq(S)
  OBVIOUS

LEMMA TagsAreItems ==
  ASSUME NEW n
  PROVE  openTag(n) \in Seq(Items) /\ closeTag(n) \in Seq(Items) /\ <<Typed(n)>> \in Seq(Items)
<1>1. /\ "<b>" \in Items /\ "</b>" \in Items /\ "<i>" \in Items /\ "</i>" \in Items
      /\ Typed(n) \in Items
  BY DEF Items, Openers, Closers, StarRuns, Typed
<1> QED
  BY <1>1, Singles DEF openTag, closeTag

(* Closing and spilling empty the top frame into the one below it.         *)
LEMMA CloseFit == ASSUME NEW x, Fit(x), x.stack # <<>> PROVE Fit(closeTop(x)) /\ Fit(spill(x))
<1> DEFINE f == Last(x.stack)
<1>1. Fit(pop(x)) /\ f.buf \in Seq(Items)
  BY PopFit
<1>2. openTag(f.run) \o f.buf \o closeTag(f.run) \in Seq(Items) /\ <<Typed(f.run)>> \o f.buf \in Seq(Items)
  BY <1>1, TagsAreItems
<1> QED
  BY <1>1, <1>2, WriteFit DEF closeTop, spill

(* After the first close of a fused pair there is a frame left to close.   *)
LEMMA CloseLeaves ==
  ASSUME NEW x, Fit(x), Len(x.stack) >= 2 PROVE closeTop(x).stack # <<>>
<1> DEFINE f == Last(x.stack)
           s == openTag(f.run) \o f.buf \o closeTag(f.run)
<1>1. x.stack \in Seq(Frames) /\ x.stack # <<>>
  BY DEF Fit, Renderers
<1>8. Len(x.stack) \in Nat /\ Len(x.stack) >= 2
  BY <1>1
<1> DEFINE n == Len(x.stack) - 1
<1>2. n \in Nat /\ n >= 1 /\ n <= Len(x.stack)
  BY <1>8
<1>3. SubSeq(x.stack, 1, n) \in Seq(Frames) /\ Len(SubSeq(x.stack, 1, n)) = n
  BY <1>1, <1>2
<1>9. pop(x).stack = SubSeq(x.stack, 1, n)
  BY DEF pop
<1> HIDE DEF n
<1>4. pop(x).stack = SubSeq(x.stack, 1, n) /\ pop(x).stack # <<>>
  BY <1>2, <1>3, <1>9
<1>5. write(s, pop(x)).stack
        = [pop(x).stack EXCEPT ![Len(pop(x).stack)]
             = [run |-> Last(pop(x).stack).run, buf |-> Last(pop(x).stack).buf \o s]]
  BY <1>4 DEF write
<1>6. DOMAIN write(s, pop(x)).stack = 1..n
  BY <1>3, <1>4, <1>5
<1>7. closeTop(x) = write(s, pop(x))
  BY DEF closeTop
<1> QED
  BY <1>2, <1>6, <1>7

(* Only an uncovered run is opened. *)
LEMMA PushFit == ASSUME NEW n \in 1..maxRun, Fit(r), ~isOpen(n) PROVE Fit(push(n, r))
<1>1. r.stack \in Seq(Frames) /\ r.root \in Seq(Items)
  BY DEF Fit, Renderers
<1>2. [run |-> n, buf |-> <<>>] \in Frames
  BY DEF Frames
<1> DEFINE f == [run |-> n, buf |-> <<>>]
           stack == Append(r.stack, f)
<1>3. /\ stack \in Seq(Frames) /\ Len(stack) = Len(r.stack) + 1 /\ stack[Len(stack)].run = n
      /\ \A k \in 1..Len(r.stack) : stack[k] = r.stack[k]
  BY <1>1, <1>2
<1>4. r.stack = <<>> \/ (n # maxRun /\ \A k \in 1..Len(r.stack) : r.stack[k].run \notin {n, maxRun})
  BY DEF isOpen
<1>5. \A k \in 1..Len(stack) : k \in 1..Len(r.stack) \/ k = Len(stack)
  BY <1>1, <1>3
<1>6. ASSUME NEW j \in 1..Len(stack), NEW k \in 1..Len(stack), j # k
      PROVE  stack[j].run # stack[k].run /\ stack[j].run # maxRun
  <2>1. CASE j \in 1..Len(r.stack) /\ k \in 1..Len(r.stack)
    BY <1>3, <1>6, <2>1 DEF Fit, Distinct
  <2>2. CASE j = Len(stack) /\ k \in 1..Len(r.stack)
    BY <1>1, <1>3, <1>4, <2>2
  <2>3. CASE j \in 1..Len(r.stack) /\ k = Len(stack)
    BY <1>1, <1>3, <1>4, <2>3
  <2> QED
    BY <1>5, <1>6, <2>1, <2>2, <2>3
<1> HIDE DEF stack
<1>7. push(n, r) = [stack |-> stack, root |-> r.root]
  BY DEF push, stack
<1> QED
  BY <1>1, <1>3, <1>6, <1>7 DEF Fit, Renderers, Distinct

LEMMA StarredFit == ASSUME Fit(r), NEW n \in 1..4, NEW next PROVE Fit(starred(n, next))
<1>1. ASSUME fused PROVE Fit(closeTop(closeTop(r)))
  <2>1. Len(r.stack) >= 2 /\ r.stack # <<>>
    BY <1>1 DEF fused
  <2> QED
    BY <2>1, CloseFit, CloseLeaves
<1>2. ASSUME r.stack # <<>> PROVE Fit(closeTop(r))
  BY <1>2, CloseFit
<1>3. ASSUME canOpen(n, next), ~isOpen(n) PROVE Fit(push(n, r))
  BY <1>3, PushFit DEF canOpen, maxRun
<1>4. Fit(write(<<Typed(n)>>, r))
  BY WriteFit, TagsAreItems
<1> QED
  BY <1>1, <1>2, <1>3, <1>4 DEF starred

LEMMA RenderedFit ==
  ASSUME Fit(r), NEW e \in Items, NEW next PROVE Fit(rendered(e, next))
<1>3. "<code>" \in Items /\ "</code>" \in Items
  BY DEF Items, Openers, Closers
<1>1. Run(e) \in 1..4
  BY DEF Run
<1>2. <<"<code>", e, "</code>">> \in Seq(Items) /\ <<e>> \in Seq(Items)
  BY <1>3, Singles
<1> QED
  BY <1>1, <1>2, WriteFit, StarredFit DEF rendered

-----------------------------------------------------------------------------
LEMMA NewFit == Fit(NewRenderer)
  BY DEF Fit, Renderers, NewRenderer, Distinct

LEMMA TokensAreItems == Tokens \union {EndOfLine, EndOfText} \subseteq Items
  BY DEF Items, Openers, Closers

LEMMA AfterItems ==
  ASSUME NEW e
  PROVE  /\ After(e, Tokens, EndOfLine) \subseteq Items \ {EndOfText}
         /\ After(e, TextTokens, EndOfText) \subseteq Items
<1>1. EndOfText \notin Tokens \union {EndOfLine}
  BY RenderAssumption DEF StarRuns, CodeSpans, Literals, EndOfLine, EndOfText
<1> QED
  BY <1>1, TokensAreItems DEF After, TextTokens

LEMMA LastOfAppend ==
  ASSUME NEW s \in Seq(Items), NEW e \in Items
  PROVE  Append(s, e) \in Seq(Items) /\ Append(s, e) # <<>> /\ Last(Append(s, e)) = e
<1>1. Append(s, e) \in Seq(Items) /\ Len(Append(s, e)) = Len(s) + 1 /\ Len(s) \in Nat
  OBVIOUS
<1>2. Append(s, e)[Len(s) + 1] = e
  BY <1>1
<1> QED
  BY <1>1, <1>2 DEF Last

LEMMA FitNext == ASSUME NEW x, Fit(x), r' = x PROVE Fit(r)'
  BY DEF Fit, Distinct

LEMMA OuterStays == ASSUME OuterFit, outer' = outer PROVE OuterFit'
  BY DEF OuterFit, Fit, Distinct

LEMMA InitRender == Init => RenderInv
<1> SUFFICES ASSUME Init PROVE RenderInv
  OBVIOUS
<1>1. PICK first \in Tokens \union {EndOfLine} : line = <<first>>
  BY DEF Init
<1>2. first \in Items /\ first # EndOfText
  BY TokensAreItems, RenderAssumption DEF StarRuns, CodeSpans, Literals, EndOfLine, EndOfText
<1>3. line \in Seq(Items) /\ line # <<>> /\ Token # EndOfText
  <2>1. Len(<<first>>) = 1 /\ <<first>>[1] = first /\ <<first>> # <<>>
    OBVIOUS
  <2> QED
    BY <1>1, <1>2, <2>1, Singles DEF Token, Last
<1> QED
  BY <1>3, NewFit DEF Init, RenderInv, OuterFit

LEMMA NextRender == RenderInv /\ [Next]_rvars => RenderInv'
<1> SUFFICES ASSUME RenderInv, [Next]_rvars PROVE RenderInv'
  OBVIOUS
<1>1. Token \in Items
  BY DEF RenderInv, Token, Last
<1>2. CASE Step
  <2>1. PICK next \in Items :
          /\ r' = rendered(Token, next) /\ line' = Append(line, next)
          /\ outer = <<>> => next # EndOfText
    BY <1>2, AfterItems DEF Step
  <2>2. line \in Seq(Items) /\ Fit(r)
    BY DEF RenderInv
  <2>3. line' \in Seq(Items) /\ line' # <<>> /\ Token' = next
    <3>1. Append(line, next) \in Seq(Items) /\ Append(line, next) # <<>> /\ Last(Append(line, next)) = next
      BY <2>2, LastOfAppend
    <3> QED
      BY <2>1, <3>1 DEF Token, Last
  <2>4. Fit(rendered(Token, next))
    BY <1>1, <2>2, RenderedFit
  <2>5. Fit(r)'
    BY <2>1, <2>4, FitNext
  <2> QED
    BY <1>2, <2>1, <2>3, <2>5, OuterStays DEF RenderInv, Step
<1>3. CASE OpenLink
  <2>1. line' \in Seq(Items) /\ line' # <<>>
    BY <1>3, TokensAreItems DEF OpenLink, TextTokens
  <2>2. Fit(r)'
    BY <1>3, NewFit, FitNext DEF OpenLink
  <2>3. outer' = <<[line |-> line, r |-> r]>>
    BY <1>3 DEF OpenLink
  <2>4. OuterFit' /\ outer' # <<>>
    BY <2>3 DEF RenderInv, OuterFit, Fit, Distinct
  <2> QED
    BY <2>1, <2>2, <2>3, <2>4 DEF RenderInv
<1>4. CASE Spill
  <2>1. Fit(r)'
    BY <1>4, CloseFit, FitNext DEF Spill, RenderInv
  <2> QED
    BY <1>4, <2>1, OuterStays DEF Spill, RenderInv, Token, Last
<1>5. CASE CloseLink
  <2>1. PICK l \in Seq(Items), x \in Renderers : Fit(x) /\ outer = <<[line |-> l, r |-> x]>>
    BY <1>5 DEF CloseLink, RenderInv, OuterFit
  <2>2. outer[1].line = l /\ outer[1].r = x
    BY <2>1
  <2>3. line \in Seq(Items) /\ r.root \in Seq(Items)
    BY DEF RenderInv, Fit, Renderers
  <2>4. <<"<a>">> \o r.root \o <<"</a>">> \in Seq(Items)
    <3>1. "<a>" \in Items /\ "</a>" \in Items
      BY DEF Items, Openers, Closers
    <3>2. <<"<a>">> \in Seq(Items) /\ <<"</a>">> \in Seq(Items)
      BY <3>1, Singles
    <3> QED
      BY <2>3, <3>2
  <2>5. Fit(r)'
    <3>1. Fit(write(<<"<a>">> \o r.root \o <<"</a>">>, x))
      BY <2>1, <2>4, WriteFit
    <3> QED
      BY <1>5, <2>2, <3>1, FitNext DEF CloseLink
  <2>6. PICK next \in Items \ {EndOfText} : line' = l \o line \o <<next>>
    BY <1>5, <2>2, AfterItems DEF CloseLink
  <2>7. line' \in Seq(Items) /\ line' # <<>> /\ Token' = next
    <3>1. l \o line \in Seq(Items) /\ l \o line \o <<next>> = Append(l \o line, next)
      BY <2>1, <2>3
    <3> QED
      BY <2>6, <3>1, LastOfAppend DEF Token
  <2>8. outer' = <<>>
    BY <1>5 DEF CloseLink
  <2> QED
    BY <2>5, <2>6, <2>7, <2>8 DEF RenderInv, OuterFit
<1>6. CASE UNCHANGED rvars
  BY <1>6, FitNext, OuterStays DEF rvars, RenderInv, Token, Last
<1> QED
  BY <1>2, <1>3, <1>4, <1>5, <1>6 DEF Next

(* At no token of a line, however long, is emphasis open inside itself, in *)
(* the line or in a link text, so a pair that sums to three is a ** and a  *)
(* single star (tghtml.go:320-342).                                        *)
THEOREM NeverOpenTwice == Spec => []NeverInsideItself
<1>1. RenderInv => NeverInsideItself
  <2> SUFFICES ASSUME RenderInv PROVE NeverInsideItself
    OBVIOUS
  <2>1. outer # <<>> => Distinct(outer[1].r.stack)
    BY DEF RenderInv, OuterFit, Fit
  <2> QED
    BY <2>1 DEF RenderInv, Fit, NeverInsideItself
<1> QED
  BY <1>1, InitRender, NextRender, PTL DEF Spec

-----------------------------------------------------------------------------
(* Every item of a sequence replaced by a sequence of its own              *)

Joining(C, by) == [x \in Seq(C) |-> [e \in Items |-> x \o by[e]]]

LEMMA ConcatOf ==
  ASSUME NEW C
  PROVE  \A a, b, c \in Seq(C) : a \o b \in Seq(C) /\ (a \o b) \o c = a \o (b \o c)
  OBVIOUS

LEMMA JoiningTyped ==
  ASSUME NEW C, NEW by \in [Items -> Seq(C)]
  PROVE  Joining(C, by) \in [Seq(C) -> [Items -> Seq(C)]]
<1>1. \A x \in Seq(C), e \in Items : x \o by[e] \in Seq(C)
  BY ConcatOf
<1> QED
  BY <1>1 DEF Joining

(* The recursive function behind Replaced does what its equations say.     *)
LEMMA ReplacedTrace ==
  ASSUME NEW C, NEW by \in [Items -> Seq(C)], NEW s \in Seq(Items)
  PROVE  \E g \in [0..Len(s) -> Seq(C)] : IsTrace(g, Joining(C, by), <<>>, s) /\ Replaced(s, by) = g[Len(s)]
<1> DEFINE upTo == CHOOSE g : g = [n \in 0..Len(s) |-> IF n = 0 THEN <<>> ELSE g[n - 1] \o by[s[n]]]
<1>1. PICK g \in [0..Len(s) -> Seq(C)] : IsTrace(g, Joining(C, by), <<>>, s)
  <2>1. <<>> \in Seq(C)
    OBVIOUS
  <2> QED
    BY <2>1, JoiningTyped, TraceExists
<1>2. \A n \in 1..Len(s) : n - 1 \in 0..Len(s) /\ s[n] \in Items
  OBVIOUS
<1>3. \A n \in 0..Len(s) : g[n] = IF n = 0 THEN <<>> ELSE g[n - 1] \o by[s[n]]
  <2>1. g[0] = <<>>
    BY <1>1 DEF IsTrace
  <2>2. ASSUME NEW n \in 1..Len(s)
        PROVE  g[n] = g[n - 1] \o by[s[n]]
    <3>1. g[n - 1] \in Seq(C) /\ s[n] \in Items
      BY <1>2
    <3>2. g[n] = Joining(C, by)[g[n - 1]][s[n]]
      BY <1>1 DEF IsTrace
    <3> QED
      BY <3>1, <3>2 DEF Joining
  <2>3. \A n \in 0..Len(s) : n = 0 \/ n \in 1..Len(s)
    OBVIOUS
  <2> QED
    BY <2>1, <2>2, <2>3
<1>4. g = [n \in 0..Len(s) |-> IF n = 0 THEN <<>> ELSE g[n - 1] \o by[s[n]]]
  <2>1. g = [n \in 0..Len(s) |-> g[n]]
    OBVIOUS
  <2> QED
    BY <1>3, <2>1
<1>5. upTo = [n \in 0..Len(s) |-> IF n = 0 THEN <<>> ELSE upTo[n - 1] \o by[s[n]]]
  BY <1>4, Zenon
<1>6. Replaced(s, by) = upTo[Len(s)]
  BY Zenon DEF Replaced
<1> HIDE DEF upTo
<1>7. upTo[0] = <<>> /\ \A n \in 1..Len(s) : upTo[n] = upTo[n - 1] \o by[s[n]]
  <2>1. 0 \in 0..Len(s) /\ \A n \in 1..Len(s) : n \in 0..Len(s) /\ n # 0
    OBVIOUS
  <2> QED
    BY <1>5, <2>1
<1> DEFINE S == {n \in Nat : upTo[n] = g[n]}
<1>8. 0 \in S
  BY <1>1, <1>7 DEF IsTrace
<1>9. ASSUME NEW k \in 0..(Len(s) - 1), k \in S
      PROVE  k + 1 \in S
  <2>1. k + 1 \in 1..Len(s) /\ k + 1 \in 0..Len(s) /\ (k + 1) - 1 = k /\ k + 1 # 0
    BY <1>9
  <2>2. upTo[k + 1] = upTo[k] \o by[s[k + 1]]
    BY <1>7, <2>1
  <2>3. g[k + 1] = g[k] \o by[s[k + 1]]
    BY <1>3, <2>1
  <2>4. upTo[k] = g[k]
    BY <1>9
  <2>5. upTo[k + 1] = g[k + 1]
    BY <2>2, <2>3, <2>4
  <2>6. k + 1 \in Nat
    BY <2>1
  <2> QED
    BY <2>5, <2>6
<1> HIDE DEF S
<1>10. Len(s) \in S
  <2>1. Len(s) \in Nat
    OBVIOUS
  <2>2. \A k \in 0..Len(s) : k \in S
    BY <1>8, <1>9, <2>1, Induction
  <2> QED
    BY <2>1, <2>2
<1> QED
  BY <1>1, <1>6, <1>10 DEF S

LEMMA ReplacedOfTrace ==
  ASSUME NEW C, NEW by \in [Items -> Seq(C)], NEW s, s \in Seq(Items),
         NEW j, IsTrace(j, Joining(C, by), <<>>, s)
  PROVE  Replaced(s, by) = j[Len(s)]
<1>1. PICK g : IsTrace(g, Joining(C, by), <<>>, s) /\ Replaced(s, by) = g[Len(s)]
  BY ReplacedTrace
<1>2. Len(s) \in Nat /\ Len(s) \in 0..Len(s)
  OBVIOUS
<1>3. \A n \in 0..Len(s) : g[n] = j[n]
  BY <1>1, <1>2, TraceUnique
<1> QED
  BY <1>1, <1>2, <1>3

LEMMA ReplacedTyped ==
  ASSUME NEW C, NEW by \in [Items -> Seq(C)], NEW s \in Seq(Items)
  PROVE  Replaced(s, by) \in Seq(C)
<1>1. PICK g \in [0..Len(s) -> Seq(C)] : Replaced(s, by) = g[Len(s)]
  BY ReplacedTrace
<1> QED
  BY <1>1

LEMMA ReplacedEmpty ==
  ASSUME NEW C, NEW by \in [Items -> Seq(C)]
  PROVE  Replaced(<<>>, by) = <<>>
<1>1. <<>> \in Seq(Items) /\ Len(<<>>) = 0
  OBVIOUS
<1>2. PICK g \in [0..0 -> Seq(C)] : IsTrace(g, Joining(C, by), <<>>, <<>>) /\ Replaced(<<>>, by) = g[0]
  BY <1>1, ReplacedTrace
<1> QED
  BY <1>2 DEF IsTrace

LEMMA ReplacedOne ==
  ASSUME NEW C, NEW by \in [Items -> Seq(C)], NEW e \in Items
  PROVE  Replaced(<<e>>, by) = by[e]
<1> DEFINE s == <<e>>
<1>1. s \in Seq(Items) /\ Len(s) = 1 /\ s[1] = e
  OBVIOUS
<1> HIDE DEF s
<1>2. PICK g \in [0..1 -> Seq(C)] : IsTrace(g, Joining(C, by), <<>>, s) /\ Replaced(s, by) = g[1]
  BY <1>1, ReplacedTrace
<1>3. g[0] = <<>> /\ g[1] = Joining(C, by)[g[0]][e]
  BY <1>1, <1>2 DEF IsTrace
<1>4. <<>> \in Seq(C) /\ <<>> \o by[e] = by[e]
  OBVIOUS
<1> QED
  BY <1>2, <1>3, <1>4 DEF Joining, s

LEMMA ReplacedOfConcat ==
  ASSUME NEW C, NEW by \in [Items -> Seq(C)], NEW s \in Seq(Items), NEW t \in Seq(Items)
  PROVE  Replaced(s \o t, by) = Replaced(s, by) \o Replaced(t, by)
<1>1. PICK g \in [0..Len(s) -> Seq(C)] : IsTrace(g, Joining(C, by), <<>>, s) /\ Replaced(s, by) = g[Len(s)]
  BY ReplacedTrace
<1>2. PICK h \in [0..Len(t) -> Seq(C)] : IsTrace(h, Joining(C, by), <<>>, t) /\ Replaced(t, by) = h[Len(t)]
  BY ReplacedTrace
<1> DEFINE a == Replaced(s, by)
           k == [n \in 0..Len(t) |-> a \o h[n]]
           j == [n \in 0..(Len(s) + Len(t)) |-> IF n <= Len(s) THEN g[n] ELSE k[n - Len(s)]]
<1>3. a \in Seq(C)
  BY ReplacedTyped
<1>4. IsTrace(k, Joining(C, by), g[Len(s)], t)
  <2>1. k[0] = a
    BY <1>2, <1>3 DEF IsTrace
  <2>2. ASSUME NEW n \in 1..Len(t)
        PROVE  k[n] = Joining(C, by)[k[n - 1]][t[n]]
    <3>1. n \in 0..Len(t) /\ n - 1 \in 0..Len(t) /\ t[n] \in Items
      OBVIOUS
    <3>2. h[n] = h[n - 1] \o by[t[n]] /\ h[n - 1] \in Seq(C) /\ by[t[n]] \in Seq(C)
      BY <1>2, <3>1 DEF IsTrace, Joining
    <3>3. k[n] = a \o h[n] /\ k[n - 1] = a \o h[n - 1]
      BY <3>1
    <3> HIDE DEF a, k
    <3> DEFINE u == h[n - 1]
               w == by[t[n]]
    <3>7. u \in Seq(C) /\ w \in Seq(C)
      BY <3>2
    <3> HIDE DEF u, w
    <3>8. a \o u \in Seq(C) /\ (a \o u) \o w = a \o (u \o w)
      BY <1>3, <3>7, SMTT(30)
    <3>4. a \o h[n - 1] \in Seq(C) /\ (a \o h[n - 1]) \o by[t[n]] = a \o (h[n - 1] \o by[t[n]])
      BY <3>8 DEF u, w
    <3>6. k[n - 1] \in Seq(C)
      BY <3>3, <3>4
    <3>5. k[n] = k[n - 1] \o by[t[n]]
      BY <3>2, <3>3, <3>4
    <3> QED
      BY <3>1, <3>5, <3>6 DEF Joining
  <2> QED
    BY <1>1, <2>1, <2>2 DEF IsTrace
<1>5. k[Len(t)] = a \o Replaced(t, by)
  BY <1>2
<1> HIDE DEF a, k
<1>6. IsTrace(j, Joining(C, by), <<>>, s \o t)
  BY <1>1, <1>4, TraceOfConcat
<1>7. j[Len(s) + Len(t)] = k[Len(t)]
  <2>1. Len(s) \in Nat /\ Len(t) \in Nat
    OBVIOUS
  <2>2. CASE Len(t) = 0
    BY <1>4, <2>1, <2>2 DEF IsTrace
  <2>3. CASE Len(t) # 0
    BY <2>1, <2>3
  <2> QED
    BY <2>2, <2>3
<1> DEFINE u == s \o t
<1>8. u \in Seq(Items) /\ Len(u) = Len(s) + Len(t) /\ Len(u) \in Nat /\ Len(u) \in 0..Len(u)
  OBVIOUS
<1> HIDE DEF j, u
<1>9. IsTrace(j, Joining(C, by), <<>>, u)
  BY <1>6 DEF u
<1>10. Replaced(u, by) = j[Len(u)]
  BY <1>8, <1>9, ReplacedOfTrace
<1> QED
  BY <1>5, <1>7, <1>8, <1>10 DEF a, u

(* What was typed *)

Chars == Items \union {"["}

LEMMA ConcatAssoc ==
  \A a, b, c \in Seq(Chars) : a \o b \in Seq(Chars) /\ (a \o b) \o c = a \o (b \o c)
  OBVIOUS

LEMMA SourceTyped == ASSUME NEW e \in Items PROVE Source(e) \in Seq(Chars)
<1>1. "*" \in Chars /\ "[" \in Chars /\ "]" \in Chars /\ e \in Chars
  BY DEF Chars, Items, StarRuns, EndOfText
<1> QED
  BY <1>1 DEF Source

LEMMA SourcesAre ==
  /\ \A s \in Seq(Items) : Sources(s) \in Seq(Chars)
  /\ Sources(<<>>) = <<>>
  /\ \A e \in Items : Sources(<<e>>) = Source(e)
  /\ \A s, t \in Seq(Items) : Sources(s \o t) = Sources(s) \o Sources(t)
<1> DEFINE by == [e \in Items |-> Source(e)]
<1>1. by \in [Items -> Seq(Chars)]
  BY SourceTyped
<1>2. \A s : Sources(s) = Replaced(s, by)
  BY DEF Sources
<1>3. \A e \in Items : by[e] = Source(e)
  OBVIOUS
<1> HIDE DEF by
<1>4. ASSUME NEW s \in Seq(Items) PROVE Sources(s) \in Seq(Chars)
  BY <1>1, <1>2, ReplacedTyped
<1>5. Sources(<<>>) = <<>>
  BY <1>1, <1>2, ReplacedEmpty
<1>6. ASSUME NEW e \in Items PROVE Sources(<<e>>) = Source(e)
  BY <1>1, <1>2, <1>3, ReplacedOne
<1>7. ASSUME NEW s \in Seq(Items), NEW t \in Seq(Items)
      PROVE  Sources(s \o t) = Sources(s) \o Sources(t)
  BY <1>1, <1>2, ReplacedOfConcat
<1> QED
  BY <1>4, <1>5, <1>6, <1>7

LEMMA SourcesTyped == ASSUME NEW s \in Seq(Items) PROVE Sources(s) \in Seq(Chars)
  BY SourcesAre

LEMMA SourcesEmpty == Sources(<<>>) = <<>>
  BY SourcesAre

LEMMA SourcesOne == ASSUME NEW e \in Items PROVE Sources(<<e>>) = Source(e)
  BY SourcesAre

LEMMA SourcesOfConcat ==
  ASSUME NEW s \in Seq(Items), NEW t \in Seq(Items)
  PROVE  Sources(s \o t) = Sources(s) \o Sources(t)
  BY SourcesAre

LEMMA Pairs == ASSUME NEW S, NEW a \in S, NEW b \in S PROVE <<a>> \o <<b>> = <<a, b>>
<1> DEFINE s == <<a>> \o <<b>>
           t == <<a, b>>
<1>1. s \in Seq(S) /\ t \in Seq(S) /\ Len(s) = 2 /\ Len(t) = 2
  OBVIOUS
<1>2. s[1] = a /\ s[2] = b /\ t[1] = a /\ t[2] = b
  OBVIOUS
<1> HIDE DEF s, t
<1>3. \A i \in 1..2 : s[i] = t[i]
  BY <1>2
<1>4. s = t
  BY <1>1, <1>3, SeqEqual
<1> QED
  BY <1>4 DEF s, t

LEMMA Triples ==
  ASSUME NEW S, NEW a \in S, NEW b \in S, NEW c \in S
  PROVE  <<a>> \o <<b, c>> = <<a, b, c>> /\ <<a, b>> \o <<c>> = <<a, b, c>>
<1> DEFINE s == <<a>> \o <<b, c>>
           u == <<a, b>> \o <<c>>
           t == <<a, b, c>>
<1>1. s \in Seq(S) /\ t \in Seq(S) /\ u \in Seq(S) /\ Len(s) = 3 /\ Len(t) = 3 /\ Len(u) = 3
  OBVIOUS
<1>2. s[1] = a /\ s[2] = b /\ s[3] = c /\ t[1] = a /\ t[2] = b /\ t[3] = c
  OBVIOUS
<1>5. u[1] = a /\ u[2] = b /\ u[3] = c
  OBVIOUS
<1> HIDE DEF s, t, u
<1>3. \A i \in 1..3 : s[i] = t[i] /\ u[i] = t[i]
  BY <1>2, <1>5
<1>4. s = t /\ u = t
  BY <1>1, <1>3, SeqEqual
<1> QED
  BY <1>4 DEF s, t, u

LEMMA StarsTyped ==
  /\ Stars(1) = <<"*">> /\ Stars(2) = <<"*", "*">> /\ Stars(3) = <<"*", "*", "*">>
  /\ \A n \in 1..4 : Stars(n) \in Seq(Chars)
<1>1. Stars(1) = <<"*">>
  BY DEF Stars, Typed, Source, EndOfLine
<1>2. Stars(2) = <<"*", "*">>
  BY DEF Stars, Typed, Source, EndOfLine
<1>3. Stars(3) = <<"*", "*", "*">>
  BY DEF Stars, Typed, Source, EndOfLine
<1>4. \A n \in 1..4 : Typed(n) \in Items
  BY DEF Typed, Items, StarRuns
<1> QED
  BY <1>1, <1>2, <1>3, <1>4, SourceTyped DEF Stars

LEMMA SourcesOfTags ==
  /\ Sources(openTag(1)) = Stars(1) /\ Sources(openTag(2)) = Stars(2) /\ Sources(openTag(3)) = Stars(3)
  /\ Sources(closeTag(1)) = Stars(1) /\ Sources(closeTag(2)) = Stars(2) /\ Sources(closeTag(3)) = Stars(3)
<1>1. "<i>" \in Items /\ "<b>" \in Items /\ "</i>" \in Items /\ "</b>" \in Items
  BY DEF Items, Openers, Closers
<1>2. /\ Source("<i>") = <<"*">> /\ Source("<b>") = <<"*", "*">>
      /\ Source("</i>") = <<"*">> /\ Source("</b>") = <<"*", "*">>
  BY DEF Source, EndOfLine
<1>4. /\ Sources(<<"<i>">>) = Source("<i>") /\ Sources(<<"<b>">>) = Source("<b>")
      /\ Sources(<<"</i>">>) = Source("</i>") /\ Sources(<<"</b>">>) = Source("</b>")
  BY <1>1, SourcesOne
<1>5. ASSUME NEW a \in Items, NEW b \in Items
      PROVE  Sources(<<a, b>>) = Sources(<<a>>) \o Sources(<<b>>)
  <2>1. <<a>> \in Seq(Items) /\ <<b>> \in Seq(Items)
    OBVIOUS
  <2>2. <<a, b>> = <<a>> \o <<b>>
    BY Pairs
  <2> QED
    BY <2>1, <2>2, SourcesOfConcat
<1>6. Sources(<<"<b>", "<i>">>) = <<"*", "*">> \o <<"*">> /\ Sources(<<"</i>", "</b>">>) = <<"*">> \o <<"*", "*">>
  BY <1>1, <1>2, <1>4, <1>5, Zenon
<1>7. <<"*", "*">> \o <<"*">> = <<"*", "*", "*">> /\ <<"*">> \o <<"*", "*">> = <<"*", "*", "*">>
  <2>1. "*" \in {"*"}
    OBVIOUS
  <2> QED
    BY <2>1, Triples
<1>8. openTag(1) = <<"<i>">> /\ openTag(2) = <<"<b>">> /\ openTag(3) = <<"<b>", "<i>">>
  BY DEF openTag
<1>9. closeTag(1) = <<"</i>">> /\ closeTag(2) = <<"</b>">> /\ closeTag(3) = <<"</i>", "</b>">>
  BY DEF closeTag
<1> QED
  BY <1>2, <1>4, <1>6, <1>7, <1>8, <1>9, StarsTyped, Zenon

(* A context as it can be at any token, and what its opening stars and its *)
(* content were typed as.                                                  *)
LEMMA FrameTyped ==
  ASSUME NEW f \in Frames
  PROVE  /\ f.run \in 1..maxRun /\ f.buf \in Seq(Items)
         /\ Stars(f.run) \in Seq(Chars) /\ Sources(f.buf) \in Seq(Chars) /\ Open(f) \in Seq(Chars)
<1>1. f.run \in 1..maxRun /\ f.buf \in Seq(Items)
  BY DEF Frames
<1>2. Stars(f.run) \in Seq(Chars)
  BY <1>1, StarsTyped DEF maxRun
<1>3. Sources(f.buf) \in Seq(Chars)
  BY <1>1, SourcesTyped
<1> QED
  BY <1>1, <1>2, <1>3, ConcatAssoc DEF Open

(* Two contexts at most: three would need three runs, none of them maxRun. *)
LEMMA Shallow ==
  ASSUME NEW x, Fit(x)
  PROVE  /\ x.stack \in Seq(Frames) /\ x.root \in Seq(Items) /\ Sources(x.root) \in Seq(Chars)
         /\ Len(x.stack) \in {0, 1, 2}
         /\ x.stack = <<>> <=> Len(x.stack) = 0
         /\ \A k \in 1..Len(x.stack) : x.stack[k] \in Frames
<1>1. x.stack \in Seq(Frames) /\ x.root \in Seq(Items)
  BY DEF Fit, Renderers
<1>2. Len(x.stack) \in Nat /\ \A k \in 1..Len(x.stack) : x.stack[k] \in Frames
  BY <1>1
<1>3. ~(Len(x.stack) >= 3)
  <2>1. SUFFICES ASSUME Len(x.stack) >= 3
                 PROVE  FALSE
    OBVIOUS
  <2> DEFINE run(k) == x.stack[k].run
  <2>2. 1 \in 1..Len(x.stack) /\ 2 \in 1..Len(x.stack) /\ 3 \in 1..Len(x.stack)
    BY <1>2, <2>1
  <2>3. \A j, k \in 1..Len(x.stack) : j # k => run(j) # run(k) /\ run(j) # maxRun
    BY DEF Fit, Distinct
  <2>4. run(1) \in 1..maxRun /\ run(2) \in 1..maxRun /\ run(3) \in 1..maxRun
    BY <1>2, <2>2, FrameTyped
  <2> HIDE DEF run
  <2>5. run(1) # run(2) /\ run(1) # run(3) /\ run(2) # run(3)
        /\ run(1) # maxRun /\ run(2) # maxRun /\ run(3) # maxRun
    BY <2>2, <2>3
  <2> QED
    BY <2>4, <2>5 DEF maxRun
<1>4. x.stack = <<>> <=> Len(x.stack) = 0
  BY <1>1
<1>5. Len(x.stack) \in {0, 1, 2}
  <2>1. \A n \in Nat : ~(n >= 3) => n \in {0, 1, 2}
    OBVIOUS
  <2> QED
    BY <1>2, <1>3, <2>1, Zenon
<1>6. Sources(x.root) \in Seq(Chars)
  BY <1>1, SourcesTyped
<1> QED
  BY <1>1, <1>2, <1>4, <1>5, <1>6

LEMMA AsTypedTyped == ASSUME NEW x, Fit(x) PROVE AsTyped(x) \in Seq(Chars)
<1>1. ASSUME NEW k \in 1..Len(x.stack) PROVE Open(x.stack[k]) \in Seq(Chars)
  BY Shallow, FrameTyped
<1>2. CASE Len(x.stack) = 0
  BY <1>2, Shallow DEF AsTyped
<1>3. CASE Len(x.stack) = 1
  <2>1. 1 \in 1..Len(x.stack)
    BY <1>3
  <2> QED
    BY <1>1, <1>3, <2>1, Shallow, ConcatAssoc DEF AsTyped
<1>4. CASE Len(x.stack) = 2
  <2>1. 1 \in 1..Len(x.stack) /\ 2 \in 1..Len(x.stack)
    BY <1>4
  <2> QED
    BY <1>1, <1>4, <2>1, Shallow, ConcatAssoc DEF AsTyped
<1> QED
  BY <1>2, <1>3, <1>4, Shallow

(* Output lands in the innermost context, at the end of what was typed.    *)
LEMMA AsTypedWrite ==
  ASSUME NEW x, Fit(x), NEW s \in Seq(Items)
  PROVE  AsTyped(write(s, x)) = AsTyped(x) \o Sources(s)
<1> DEFINE y == write(s, x)
           n == Len(x.stack)
<1>1. Sources(s) \in Seq(Chars) /\ Sources(x.root) \in Seq(Chars) /\ x.root \in Seq(Items)
  BY Shallow, SourcesTyped
<1>2. CASE n = 0
  <2>1. x.stack = <<>>
    BY <1>2, Shallow
  <2>2. y = [stack |-> <<>>, root |-> x.root \o s]
    BY <2>1 DEF write
  <2>3. y.stack = <<>> /\ y.root = x.root \o s /\ Len(y.stack) = 0
    BY <2>2
  <2>4. AsTyped(y) = Sources(x.root \o s)
    BY <2>3 DEF AsTyped
  <2>5. AsTyped(x) = Sources(x.root)
    BY <1>2 DEF AsTyped
  <2> QED
    BY <1>1, <2>4, <2>5, SourcesOfConcat
<1>3. ASSUME n # 0
      PROVE  /\ Len(y.stack) = n /\ y.root = x.root
             /\ \A k \in 1..(n - 1) : y.stack[k] = x.stack[k]
             /\ Open(y.stack[n]) = Open(x.stack[n]) \o Sources(s)
  <2> DEFINE f == x.stack[n]
             g == [run |-> f.run, buf |-> f.buf \o s]
  <2>1. x.stack \in Seq(Frames) /\ n \in Nat /\ n \in 1..n /\ f \in Frames /\ x.stack # <<>>
    <3>1. n \in 1..n
      BY <1>3, Shallow
    <3> QED
      BY <1>3, <3>1, Shallow
  <2>2. y = [stack |-> [x.stack EXCEPT ![n] = g], root |-> x.root]
    BY <2>1 DEF write, Last
  <2>3. Open(g) = Open(f) \o Sources(s)
    <3>1. g.run = f.run /\ g.buf = f.buf \o s
      OBVIOUS
    <3>2. f.buf \in Seq(Items) /\ Stars(f.run) \in Seq(Chars) /\ Sources(f.buf) \in Seq(Chars)
      BY <2>1, FrameTyped
    <3>3. Sources(g.buf) = Sources(f.buf) \o Sources(s)
      BY <3>1, <3>2, SourcesOfConcat
    <3> DEFINE u == Stars(f.run)
               v == Sources(f.buf)
               w == Sources(s)
    <3>4. u \in Seq(Chars) /\ v \in Seq(Chars) /\ w \in Seq(Chars)
      BY <1>1, <3>2
    <3>5. Open(f) = u \o v /\ Open(g) = u \o (v \o w)
      BY <3>1, <3>3 DEF Open
    <3> HIDE DEF f, g, u, v, w
    <3>6. u \o (v \o w) = (u \o v) \o w
      BY <3>4, ConcatAssoc
    <3>7. Open(g) = Open(f) \o w
      BY <3>5, <3>6
    <3> QED
      BY <3>7 DEF w
  <2> HIDE DEF g
  <2>4. y.stack = [x.stack EXCEPT ![n] = g] /\ y.root = x.root
    BY <2>2
  <2> HIDE DEF y
  <2>5. Len(y.stack) = n /\ y.stack[n] = g /\ \A k \in 1..(n - 1) : y.stack[k] = x.stack[k]
    BY <2>1, <2>4
  <2> QED
    BY <2>3, <2>4, <2>5
<1> HIDE DEF y
<1>4. CASE n = 1
  <2>1. Open(x.stack[1]) \in Seq(Chars)
    <3>1. 1 \in 1..Len(x.stack)
      BY <1>4
    <3> QED
      BY <3>1, Shallow, FrameTyped
  <2>2. AsTyped(x) = Sources(x.root) \o Open(x.stack[1])
    BY <1>4 DEF AsTyped
  <2>3. AsTyped(y) = Sources(x.root) \o (Open(x.stack[1]) \o Sources(s))
    BY <1>3, <1>4 DEF AsTyped
  <2>4. Sources(x.root) \o (Open(x.stack[1]) \o Sources(s)) = (Sources(x.root) \o Open(x.stack[1])) \o Sources(s)
    BY <1>1, <2>1, ConcatAssoc
  <2> QED
    BY <2>2, <2>3, <2>4 DEF y
<1>5. CASE n = 2
  <2> DEFINE a == Sources(x.root) \o Open(x.stack[1])
             b == Open(x.stack[2])
  <2>1. a \in Seq(Chars) /\ b \in Seq(Chars)
    <3>1. 1 \in 1..Len(x.stack) /\ 2 \in 1..Len(x.stack)
      BY <1>5
    <3>2. Open(x.stack[1]) \in Seq(Chars) /\ Open(x.stack[2]) \in Seq(Chars)
      BY <3>1, Shallow, FrameTyped
    <3> QED
      BY <1>1, <3>2, ConcatAssoc
  <2>2. AsTyped(x) = a \o b
    BY <1>5 DEF AsTyped
  <2>3. AsTyped(y) = a \o (b \o Sources(s))
    <3>1. Len(y.stack) = 2 /\ y.root = x.root /\ y.stack[1] = x.stack[1]
          /\ Open(y.stack[2]) = b \o Sources(s)
      BY <1>3, <1>5
    <3> QED
      BY <3>1 DEF AsTyped
  <2> HIDE DEF a, b
  <2>4. a \o (b \o Sources(s)) = (a \o b) \o Sources(s)
    BY <1>1, <2>1, SMTT(30)
  <2> QED
    BY <2>2, <2>3, <2>4 DEF y
<1> QED
  BY <1>2, <1>4, <1>5, Shallow DEF y

LEMMA AsTypedPop ==
  ASSUME NEW x, Fit(x), x.stack # <<>>
  PROVE  AsTyped(x) = AsTyped(pop(x)) \o Open(Last(x.stack))
<1> DEFINE n == Len(x.stack) - 1
           p == SubSeq(x.stack, 1, n)
<1>1. x.stack \in Seq(Frames) /\ Len(x.stack) \in {1, 2} /\ n \in Nat /\ n <= Len(x.stack)
  BY Shallow
<1>2. pop(x).stack = p /\ pop(x).root = x.root
  BY DEF pop
<1>3. Len(p) = n /\ \A k \in 1..n : p[k] = x.stack[k]
  BY <1>1
<1> HIDE DEF p
<1>4. CASE Len(x.stack) = 1
  <2>1. Len(p) = 0
    BY <1>3, <1>4
  <2> QED
    BY <1>2, <1>4, <2>1 DEF AsTyped, Last
<1>5. CASE Len(x.stack) = 2
  <2>1. Len(p) = 1 /\ p[1] = x.stack[1]
    BY <1>3, <1>5
  <2>2. AsTyped(pop(x)) = Sources(x.root) \o Open(x.stack[1])
    BY <1>2, <2>1 DEF AsTyped
  <2>3. AsTyped(x) = (Sources(x.root) \o Open(x.stack[1])) \o Open(x.stack[2])
    BY <1>5 DEF AsTyped
  <2> QED
    BY <1>5, <2>2, <2>3 DEF Last
<1> QED
  BY <1>1, <1>4, <1>5

(* A context that is closed is typed with the stars at its end, one that   *)
(* spills is typed as it was.                                              *)
LEMMA AsTypedClose ==
  ASSUME NEW x, Fit(x), x.stack # <<>>
  PROVE  /\ AsTyped(closeTop(x)) = AsTyped(x) \o Stars(Last(x.stack).run)
         /\ AsTyped(spill(x)) = AsTyped(x)
<1> DEFINE f == Last(x.stack)
           p == AsTyped(pop(x))
           st == Stars(f.run)
           b == Sources(f.buf)
           o == openTag(f.run)
           c == closeTag(f.run)
           t == <<Typed(f.run)>>
<1>1. Fit(pop(x)) /\ f.run \in 1..maxRun /\ f.buf \in Seq(Items)
  BY PopFit
<1>2. p \in Seq(Chars) /\ st \in Seq(Chars) /\ b \in Seq(Chars)
  <2>1. st \in Seq(Chars)
    BY <1>1, StarsTyped DEF maxRun
  <2> QED
    BY <1>1, <2>1, AsTypedTyped, SourcesTyped
<1>3. AsTyped(x) = p \o (st \o b)
  BY AsTypedPop DEF Open
<1>4. o \in Seq(Items) /\ c \in Seq(Items) /\ t \in Seq(Items) /\ Typed(f.run) \in Items
  <2>1. Typed(f.run) \in Items
    BY DEF Typed, Items, StarRuns
  <2> QED
    BY <2>1, TagsAreItems
<1>5. o \o f.buf \in Seq(Items) /\ (o \o f.buf) \o c \in Seq(Items) /\ t \o f.buf \in Seq(Items)
  BY <1>1, <1>4
<1>6. Sources(o) = st /\ Sources(c) = st
  BY <1>1, SourcesOfTags DEF maxRun
<1>7. Sources(t) = st
  BY <1>4, SourcesOne DEF Stars
<1>8. AsTyped(closeTop(x)) = p \o Sources((o \o f.buf) \o c)
  BY <1>1, <1>5, AsTypedWrite DEF closeTop
<1>9. AsTyped(spill(x)) = p \o Sources(t \o f.buf)
  BY <1>1, <1>5, AsTypedWrite DEF spill
<1>10. Sources((o \o f.buf) \o c) = (Sources(o) \o b) \o Sources(c)
  <2>1. Sources((o \o f.buf) \o c) = Sources(o \o f.buf) \o Sources(c)
    BY <1>4, <1>5, SourcesOfConcat
  <2>2. Sources(o \o f.buf) = Sources(o) \o b
    BY <1>1, <1>4, SourcesOfConcat
  <2> QED
    BY <2>1, <2>2
<1>11. Sources(t \o f.buf) = Sources(t) \o b
  BY <1>1, <1>4, SourcesOfConcat
<1> HIDE DEF p, st, b, o, c, t
<1>12. AsTyped(spill(x)) = AsTyped(x)
  BY <1>3, <1>7, <1>9, <1>11
<1>13. AsTyped(closeTop(x)) = p \o ((st \o b) \o st)
  BY <1>6, <1>8, <1>10
<1>14. p \o ((st \o b) \o st) = (p \o (st \o b)) \o st
  <2> DEFINE d == st \o b
  <2>1. d \in Seq(Chars)
    BY <1>2
  <2> HIDE DEF d
  <2>2. p \o (d \o st) = (p \o d) \o st
    BY <1>2, <2>1, ConcatAssoc
  <2> QED
    BY <2>2 DEF d
<1>15. AsTyped(closeTop(x)) = AsTyped(x) \o st
  BY <1>3, <1>13, <1>14
<1> QED
  BY <1>12, <1>15 DEF st

(* Nothing was typed but the stars that open it.                           *)
LEMMA AsTypedPush ==
  ASSUME NEW n \in 1..maxRun, NEW x, Fit(x), Fit(push(n, x))
  PROVE  AsTyped(push(n, x)) = AsTyped(x) \o Stars(n)
<1> DEFINE f == [run |-> n, buf |-> <<>>]
           y == push(n, x)
           s == Append(x.stack, f)
<1>1. x.stack \in Seq(Frames) /\ f \in Frames
  <2>1. f \in Frames
    BY DEF Frames
  <2> QED
    BY <2>1, Shallow
<1>2. y.stack = s /\ y.root = x.root
  BY DEF push
<1>3. s # <<>> /\ Len(s) = Len(x.stack) + 1 /\ s[Len(s)] = f /\ Len(x.stack) \in Nat
  BY <1>1
<1>4. SubSeq(s, 1, Len(s) - 1) = x.stack
  BY <1>1
<1> HIDE DEF s
<1>5. pop(y).stack = x.stack /\ pop(y).root = x.root
  BY <1>2, <1>4 DEF pop
<1>6. AsTyped(pop(y)) = AsTyped(x)
  BY <1>5 DEF AsTyped
<1>7. Open(f) = Stars(n)
  <2>1. f.run = n /\ f.buf = <<>>
    OBVIOUS
  <2>2. Stars(n) \in Seq(Chars)
    BY StarsTyped DEF maxRun
  <2> HIDE DEF f
  <2>3. Open(f) = Stars(n) \o <<>>
    BY <2>1, SourcesEmpty DEF Open
  <2> QED
    BY <2>2, <2>3
<1>8. Last(y.stack) = f
  BY <1>2, <1>3 DEF Last
<1> HIDE DEF y, f
<1>9. AsTyped(y) = AsTyped(pop(y)) \o Open(f)
  BY <1>2, <1>3, <1>8, AsTypedPop DEF y
<1> QED
  BY <1>6, <1>7, <1>9 DEF y

LEMMA RunOfStars ==
  ASSUME NEW e \in StarRuns
  PROVE  Run(e) \in 1..4 /\ Typed(Run(e)) = e
<1>1. CASE e = "*"
  BY <1>1 DEF Run, Typed
<1>2. CASE e = "**"
  BY <1>2 DEF Run, Typed
<1>3. CASE e = "***"
  BY <1>3 DEF Run, Typed
<1>4. CASE e = "****"
  BY <1>4 DEF Run, Typed
<1> QED
  BY <1>1, <1>2, <1>3, <1>4 DEF StarRuns

(* The two innermost contexts that sum to three are ** and *, in whatever  *)
(* order, and *** closes both.                                             *)
LEMMA AsTypedFused ==
  ASSUME Fit(r), fused
  PROVE  AsTyped(closeTop(closeTop(r))) = AsTyped(r) \o Stars(maxRun)
<1> DEFINE x == r.stack[1]
           y == r.stack[2]
           p == pop(r)
           q == closeTop(r)
<1>1. /\ r.stack \in Seq(Frames) /\ Len(r.stack) = 2 /\ r.stack # <<>>
      /\ x \in Frames /\ y \in Frames
  <2>1. Len(r.stack) = 2
    BY Shallow DEF fused
  <2>2. 1 \in 1..Len(r.stack) /\ 2 \in 1..Len(r.stack)
    BY <2>1
  <2> QED
    BY <2>1, <2>2, Shallow
<1>2. x.run \in 1..maxRun /\ y.run \in 1..maxRun /\ y.run + x.run = maxRun
  BY <1>1, FrameTyped DEF fused
<1>3. Last(r.stack) = y
  BY <1>1 DEF Last
<1>4. Fit(q) /\ q.stack # <<>>
  BY <1>1, CloseFit, CloseLeaves
<1>5. Last(q.stack).run = x.run
  <2> DEFINE s == openTag(y.run) \o y.buf \o closeTag(y.run)
             u == SubSeq(r.stack, 1, 1)
             g == [run |-> u[1].run, buf |-> u[1].buf \o s]
  <2>1. p.stack = u
    BY <1>1 DEF pop
  <2>2. u \in Seq(Frames) /\ Len(u) = 1 /\ u[1] = x /\ u # <<>>
    BY <1>1
  <2>3. q = write(s, p)
    BY <1>3 DEF closeTop
  <2> HIDE DEF u, s, q
  <2> HIDE DEF p
  <2>6. write(s, p).stack
          = [p.stack EXCEPT ![Len(p.stack)]
               = [run |-> Last(p.stack).run, buf |-> Last(p.stack).buf \o s]]
    BY <2>1, <2>2 DEF write
  <2>7. Last(u) = u[1]
    BY <2>2 DEF Last
  <2>4. q.stack = [u EXCEPT ![1] = g]
    BY <2>1, <2>2, <2>3, <2>6, <2>7
  <2>5. Len(q.stack) = 1 /\ q.stack[1] = g
    BY <2>2, <2>4
  <2> QED
    BY <2>2, <2>5 DEF Last
<1>6. AsTyped(q) = AsTyped(r) \o Stars(y.run)
  BY <1>1, <1>3, AsTypedClose
<1> HIDE DEF q
<1>7. AsTyped(closeTop(q)) = AsTyped(q) \o Stars(x.run)
  BY <1>4, <1>5, AsTypedClose
<1>8. Stars(y.run) \o Stars(x.run) = Stars(maxRun)
  <2>1. Stars(1) \o Stars(2) = Stars(3) /\ Stars(2) \o Stars(1) = Stars(3)
    <3>1. "*" \in {"*"}
      OBVIOUS
    <3>2. <<"*", "*">> \o <<"*">> = <<"*", "*", "*">> /\ <<"*">> \o <<"*", "*">> = <<"*", "*", "*">>
      BY <3>1, Triples
    <3> QED
      BY <3>2, StarsTyped
  <2>2. (y.run = 1 /\ x.run = 2) \/ (y.run = 2 /\ x.run = 1)
    BY <1>2 DEF maxRun
  <2>3. maxRun = 3
    BY DEF maxRun
  <2> HIDE DEF x, y
  <2> QED
    BY <2>1, <2>2, <2>3
<1> DEFINE a == AsTyped(r)
           sy == Stars(y.run)
           sx == Stars(x.run)
<1>9. a \in Seq(Chars) /\ sy \in Seq(Chars) /\ sx \in Seq(Chars)
  BY <1>2, AsTypedTyped, StarsTyped DEF maxRun
<1>10. AsTyped(closeTop(q)) = (a \o sy) \o sx /\ sy \o sx = Stars(maxRun)
  BY <1>6, <1>7, <1>8
<1> HIDE DEF a, sy, sx
<1>11. (a \o sy) \o sx = a \o (sy \o sx)
  BY <1>9, ConcatAssoc
<1> QED
  BY <1>10, <1>11 DEF a, q

LEMMA AsTypedStarred ==
  ASSUME Fit(r), NEW n \in 1..4, NEW next
  PROVE  AsTyped(starred(n, next)) = AsTyped(r) \o Stars(n)
<1>1. ASSUME n = maxRun, fused
      PROVE  AsTyped(closeTop(closeTop(r))) = AsTyped(r) \o Stars(n)
  BY <1>1, AsTypedFused
<1>2. ASSUME r.stack # <<>>, Last(r.stack).run = n
      PROVE  AsTyped(closeTop(r)) = AsTyped(r) \o Stars(n)
  BY <1>2, AsTypedClose
<1>3. ASSUME canOpen(n, next), ~isOpen(n)
      PROVE  AsTyped(push(n, r)) = AsTyped(r) \o Stars(n)
  <2>1. n \in 1..maxRun
    BY <1>3 DEF canOpen, maxRun
  <2> QED
    BY <1>3, <2>1, PushFit, AsTypedPush
<1>4. AsTyped(write(<<Typed(n)>>, r)) = AsTyped(r) \o Stars(n)
  <2>1. Typed(n) \in Items
    BY DEF Typed, Items, StarRuns
  <2>2. <<Typed(n)>> \in Seq(Items) /\ Sources(<<Typed(n)>>) = Stars(n)
    BY <2>1, SourcesOne DEF Stars
  <2> QED
    BY <2>2, AsTypedWrite
<1> QED
  BY <1>1, <1>2, <1>3, <1>4 DEF starred

LEMMA AsTypedRendered ==
  ASSUME Fit(r), NEW e \in Items, NEW next
  PROVE  AsTyped(rendered(e, next)) = AsTyped(r) \o Source(e)
<1>1. CASE e \in CodeSpans /\ outer = <<>>
  <2> DEFINE s == <<"<code>", e, "</code>">>
             a == <<"<code>">>
             b == <<e>>
             c == <<"</code>">>
  <2>1. "<code>" \in Items /\ "</code>" \in Items
    BY DEF Items, Openers, Closers
  <2>2. a \in Seq(Items) /\ b \in Seq(Items) /\ c \in Seq(Items) /\ s \in Seq(Items) /\ a \o b \in Seq(Items)
    BY <2>1
  <2>3. s = (a \o b) \o c
    BY <2>1, Pairs, Triples
  <2>4. Sources(a) = <<>> /\ Sources(c) = <<>> /\ Sources(b) = Source(e) /\ Source(e) \in Seq(Chars)
    <3>1. Source("<code>") = <<>> /\ Source("</code>") = <<>>
      BY DEF Source, EndOfLine
    <3> QED
      BY <2>1, <3>1, SourcesOne, SourceTyped
  <2>5. rendered(e, next) = write(s, r)
    BY <1>1 DEF rendered
  <2> HIDE DEF s, a, b, c
  <2>6. Sources(s) = (Sources(a) \o Sources(b)) \o Sources(c)
    BY <2>2, <2>3, SourcesOfConcat
  <2>7. Sources(s) = Source(e)
    BY <2>4, <2>6
  <2> QED
    BY <2>2, <2>5, <2>7, AsTypedWrite
<1>2. CASE ~(e \in CodeSpans /\ outer = <<>>) /\ e \in StarRuns
  BY <1>2, RunOfStars, AsTypedStarred DEF rendered, Stars
<1>3. CASE ~(e \in CodeSpans /\ outer = <<>>) /\ e \notin StarRuns
  <2>1. <<e>> \in Seq(Items) /\ Sources(<<e>>) = Source(e)
    BY SourcesOne
  <2>2. rendered(e, next) = write(<<e>>, r)
    BY <1>3 DEF rendered
  <2> QED
    BY <2>1, <2>2, AsTypedWrite
<1> QED
  BY <1>1, <1>2, <1>3

LEMMA LastAndFront ==
  ASSUME NEW s \in Seq(Items), s # <<>>
  PROVE  /\ Last(s) \in Items /\ Front(s) \in Seq(Items)
         /\ Sources(s) = Sources(Front(s)) \o Source(Last(s))
<1> DEFINE n == Len(s)
           a == SubSeq(s, 1, n - 1)
           b == <<s[n]>>
<1>1. n \in Nat /\ n >= 1 /\ s[n] \in Items
  OBVIOUS
<1>2. a \in Seq(Items) /\ b \in Seq(Items)
  BY <1>1
<1>3. s = a \o b
  <2>1. Len(a) = n - 1 /\ \A k \in 1..(n - 1) : a[k] = s[k]
    <3> DEFINE m == n - 1
    <3>1. m \in Nat /\ m <= Len(s)
      BY <1>1
    <3> HIDE DEF m
    <3>2. Len(SubSeq(s, 1, m)) = m /\ \A k \in 1..m : SubSeq(s, 1, m)[k] = s[k]
      BY <3>1
    <3> QED
      BY <3>2 DEF m
  <2>2. Len(b) = 1 /\ b[1] = s[n]
    OBVIOUS
  <2> DEFINE t == a \o b
  <2>3. /\ t \in Seq(Items) /\ Len(t) = Len(a) + Len(b)
        /\ \A k \in 1..Len(t) : t[k] = IF k <= Len(a) THEN a[k] ELSE b[k - Len(a)]
    BY <1>2, ConcatProperties
  <2> HIDE DEF a, b, t
  <2>4. Len(t) = n
    BY <1>1, <2>1, <2>2, <2>3
  <2>5. ASSUME NEW k \in 1..n PROVE s[k] = t[k]
    <3>1. CASE k = n
      BY <1>1, <2>1, <2>2, <2>3, <2>4, <3>1
    <3>2. CASE k # n
      BY <1>1, <2>1, <2>3, <2>4, <3>2
    <3> QED
      BY <3>1, <3>2
  <2>6. s = t
    BY <2>3, <2>4, <2>5, SeqEqual
  <2> QED
    BY <2>6 DEF t
<1>4. Sources(b) = Source(s[n])
  BY <1>1, SourcesOne
<1>5. Sources(a \o b) = Sources(a) \o Sources(b)
  BY <1>2, SourcesOfConcat
<1> HIDE DEF b
<1> QED
  BY <1>1, <1>2, <1>3, <1>4, <1>5 DEF Front, Last

LEMMA FrontOfConcat ==
  ASSUME NEW s \in Seq(Items), NEW e \in Items
  PROVE  Front(s \o <<e>>) = s /\ Front(Append(s, e)) = s /\ Last(s \o <<e>>) = e /\ s \o <<e>> \in Seq(Items)
<1>1. Append(s, e) = s \o <<e>>
  BY AppendIsConcat
<1> DEFINE t == Append(s, e)
<1>2. /\ t \in Seq(Items) /\ Len(t) = Len(s) + 1 /\ t[Len(t)] = e /\ Len(s) \in Nat
      /\ SubSeq(t, 1, Len(t) - 1) = s
  OBVIOUS
<1>3. Front(t) = s /\ Last(t) = e
  BY <1>2 DEF Front, Last
<1> HIDE DEF t
<1> QED
  BY <1>1, <1>2, <1>3 DEF t

LEMMA NewAsTyped == AsTyped(NewRenderer) = <<>>
<1>1. NewRenderer.stack = <<>> /\ NewRenderer.root = <<>> /\ Len(<<>>) = 0
  BY DEF NewRenderer
<1> QED
  BY <1>1, SourcesEmpty DEF AsTyped

LEMMA FrontOfOne == ASSUME NEW e \in Items PROVE Front(<<e>>) = <<>>
<1>1. <<>> \in Seq(Items) /\ <<>> \o <<e>> = <<e>>
  OBVIOUS
<1>2. Front(<<>> \o <<e>>) = <<>>
  BY <1>1, FrontOfConcat
<1> QED
  BY <1>1, <1>2

LEMMA InitWritten == Init => WrittenBack
<1> SUFFICES ASSUME Init PROVE WrittenBack
  OBVIOUS
<1>1. PICK first \in Tokens \union {EndOfLine} : line = <<first>>
  BY DEF Init
<1>2. Front(line) = <<>>
  BY <1>1, TokensAreItems, FrontOfOne
<1> QED
  BY <1>2, NewAsTyped, SourcesEmpty DEF Init, WrittenBack

(* A token is written where the line stands.                               *)
LEMMA StepWritten == RenderInv /\ WrittenBack /\ Step => WrittenBack'
<1> SUFFICES ASSUME RenderInv, WrittenBack, Step PROVE WrittenBack'
  OBVIOUS
<1>1. PICK next \in Items : r' = rendered(Token, next) /\ line' = Append(line, next)
  BY AfterItems DEF Step
<1>2. line \in Seq(Items) /\ line # <<>> /\ Fit(r) /\ Token \in Items
  BY LastAndFront DEF RenderInv, Token
<1>3. AsTyped(rendered(Token, next)) = AsTyped(r) \o Source(Token)
  BY <1>2, AsTypedRendered
<1>4. Sources(line) = Sources(Front(line)) \o Source(Token)
  BY <1>2, LastAndFront DEF Token
<1>5. Front(line') = line
  BY <1>1, <1>2, FrontOfConcat
<1>6. AsTyped(r)' = Sources(Front(line))'
  <2>1. AsTyped(r') = Sources(line)
    BY <1>1, <1>3, <1>4 DEF WrittenBack
  <2> QED
    BY <1>5, <2>1 DEF AsTyped, Front
<1>7. outer' = outer
  BY DEF Step
<1> QED
  BY <1>6, <1>7 DEF WrittenBack, AsTyped, Front

LEMMA OpenWritten == RenderInv /\ WrittenBack /\ OpenLink => WrittenBack'
<1> SUFFICES ASSUME RenderInv, WrittenBack, OpenLink PROVE WrittenBack'
  OBVIOUS
<1>1. PICK first \in TextTokens : line' = <<first>>
  BY DEF OpenLink
<1>2. outer' = <<[line |-> line, r |-> r]>> /\ r' = NewRenderer /\ Last(line) = "["
  BY DEF OpenLink, Token
<1>3. outer'[1].line = line /\ outer'[1].r = r
  BY <1>2
<1>4. first \in Items
  BY TokensAreItems DEF TextTokens
<1>5. AsTyped(r') = Sources(Front(line'))
  <2>1. Front(line') = <<>>
    BY <1>1, <1>4, FrontOfOne
  <2> QED
    BY <1>2, <2>1, NewAsTyped, SourcesEmpty
<1>6. /\ AsTyped(outer'[1].r) = Sources(Front(outer'[1].line))
      /\ Last(outer'[1].line) = "[" /\ outer'[1].line # <<>>
  BY <1>2, <1>3 DEF WrittenBack, RenderInv
<1> QED
  BY <1>5, <1>6 DEF WrittenBack

LEMMA SpillWritten == RenderInv /\ WrittenBack /\ Spill => WrittenBack'
<1> SUFFICES ASSUME RenderInv, WrittenBack, Spill PROVE WrittenBack'
  OBVIOUS
<1>1. AsTyped(spill(r)) = AsTyped(r)
  BY AsTypedClose DEF RenderInv, Spill
<1>2. r' = spill(r) /\ line' = line /\ outer' = outer
  BY DEF Spill
<1>3. AsTyped(r') = Sources(Front(line'))
  BY <1>1, <1>2 DEF WrittenBack
<1> QED
  BY <1>2, <1>3 DEF WrittenBack

(* The text between its brackets, after what the line had before them.     *)
LEMMA CloseWritten == RenderInv /\ WrittenBack /\ CloseLink => WrittenBack'
<1> SUFFICES ASSUME RenderInv, WrittenBack, CloseLink PROVE WrittenBack'
  OBVIOUS
<1>1. PICK l \in Seq(Items), x \in Renderers : Fit(x) /\ outer = <<[line |-> l, r |-> x]>>
  BY DEF CloseLink, RenderInv, OuterFit
<1>2. outer[1].line = l /\ outer[1].r = x /\ outer # <<>>
  BY <1>1
<1>3. PICK next \in Items : line' = l \o line \o <<next>>
  BY <1>2, AfterItems DEF CloseLink
<1>4. /\ line \in Seq(Items) /\ line # <<>> /\ Last(line) = "]" /\ r.stack = <<>>
      /\ outer' = <<>> /\ r.root \in Seq(Items)
  BY DEF CloseLink, RenderInv, Token, EndOfText, Fit, Renderers
<1> DEFINE a == <<"<a>">>
           c == <<"</a>">>
           s == a \o r.root \o c
<1>5. r' = write(s, x)
  BY <1>2 DEF CloseLink
<1>6. a \in Seq(Items) /\ c \in Seq(Items) /\ Sources(a) = <<"[">> /\ Sources(c) = <<"]">>
  <2>1. "<a>" \in Items /\ "</a>" \in Items
    BY DEF Items, Openers, Closers
  <2>2. Source("<a>") = <<"[">> /\ Source("</a>") = <<"]">>
    BY DEF Source, EndOfLine
  <2> QED
    BY <2>1, <2>2, SourcesOne
<1>7. Sources(r.root) = Sources(Front(line))
  <2>1. Len(r.stack) = 0
    BY <1>4
  <2> QED
    BY <2>1 DEF WrittenBack, AsTyped
<1>8. a \o r.root \in Seq(Items) /\ s \in Seq(Items)
  BY <1>4, <1>6
<1>9. Sources(s) = (Sources(a) \o Sources(r.root)) \o Sources(c)
  <2>1. Sources(s) = Sources(a \o r.root) \o Sources(c)
    BY <1>6, <1>8, SourcesOfConcat
  <2>2. Sources(a \o r.root) = Sources(a) \o Sources(r.root)
    BY <1>4, <1>6, SourcesOfConcat
  <2> QED
    BY <2>1, <2>2
<1>10. AsTyped(write(s, x)) = AsTyped(x) \o Sources(s)
  BY <1>1, <1>8, AsTypedWrite
<1>11. Sources(line) = Sources(Front(line)) \o <<"]">>
  <2>1. Source("]") = <<"]">>
    BY DEF Source, EndOfLine
  <2> QED
    BY <1>4, <2>1, LastAndFront
<1>12. Sources(l) = AsTyped(x) \o <<"[">>
  <2>1. AsTyped(x) = Sources(Front(l)) /\ Last(l) = "["
    BY <1>2 DEF WrittenBack
  <2>2. Source("[") = <<"[">>
    BY DEF Source, EndOfLine
  <2>3. l # <<>>
    BY <1>2 DEF WrittenBack
  <2> QED
    BY <1>1, <2>1, <2>2, <2>3, LastAndFront
<1>13. Front(line') = l \o line
  <2>1. l \o line \in Seq(Items)
    BY <1>1, <1>4
  <2> QED
    BY <1>3, <2>1, FrontOfConcat
<1>14. Sources(l \o line) = Sources(l) \o Sources(line)
  BY <1>1, <1>4, SourcesOfConcat
<1> DEFINE w == AsTyped(x)
           b == <<"[">>
           f == Sources(Front(line))
           e == <<"]">>
<1>15. w \in Seq(Chars) /\ b \in Seq(Chars) /\ f \in Seq(Chars) /\ e \in Seq(Chars)
  <2>1. "[" \in Chars /\ "]" \in Chars
    BY DEF Chars, Items, EndOfText
  <2>2. Front(line) \in Seq(Items)
    BY <1>4, LastAndFront
  <2> QED
    BY <1>1, <2>1, <2>2, AsTypedTyped, SourcesTyped
<1>16. AsTyped(r') = Glued(w, Glued(Glued(b, f), e))
  BY <1>5, <1>6, <1>7, <1>9, <1>10 DEF Glued
<1>17. Sources(Front(line')) = Glued(Glued(w, b), Glued(f, e))
  BY <1>11, <1>12, <1>13, <1>14 DEF Glued
<1> HIDE DEF w, b, f, e
<1>18. Glued(w, Glued(Glued(b, f), e)) = Glued(Glued(w, b), Glued(f, e))
  BY <1>15, GluedInPairs
<1>19. AsTyped(r') = Sources(Front(line'))
  BY <1>16, <1>17, <1>18
<1> QED
  BY <1>4, <1>19 DEF WrittenBack

(* In every line of every length the output with its tags turned back is   *)
(* the line as it was typed, whichever contexts close, fuse or spill and   *)
(* whatever a link text does inside it (tghtml.go:3-5, 284-386).           *)
THEOREM NothingIsRewritten == Spec => []NothingRewritten
<1> DEFINE Inv == RenderInv /\ WrittenBack
<1>1. Init => Inv
  BY InitRender, InitWritten
<1>2. Inv /\ [Next]_rvars => Inv'
  <2> SUFFICES ASSUME RenderInv, WrittenBack, [Next]_rvars PROVE Inv'
    OBVIOUS
  <2>1. RenderInv'
    BY NextRender
  <2>2. ASSUME UNCHANGED rvars PROVE WrittenBack'
    BY <2>2 DEF rvars, WrittenBack, AsTyped, Front
  <2> QED
    BY <2>1, <2>2, StepWritten, OpenWritten, SpillWritten, CloseWritten DEF Next
<1>3. Inv => NothingRewritten
  <2> SUFFICES ASSUME RenderInv, WrittenBack, Finished PROVE Sources(r.root) = Sources(line)
    BY DEF NothingRewritten
  <2>1. line \in Seq(Items) /\ line # <<>> /\ Last(line) = EndOfLine /\ Len(r.stack) = 0
    BY DEF RenderInv, Finished, Token
  <2>2. Sources(line) = Sources(Front(line)) \o Source(EndOfLine)
    BY <2>1, LastAndFront
  <2>3. Source(EndOfLine) = <<>>
    BY DEF Source, EndOfLine
  <2>4. Sources(Front(line)) \in Seq(Chars)
    BY <2>1, LastAndFront, SourcesTyped
  <2>5. Sources(r.root) = Sources(Front(line))
    BY <2>1 DEF WrittenBack, AsTyped
  <2> QED
    BY <2>2, <2>3, <2>4, <2>5
<1> QED
  BY <1>1, <1>2, <1>3, PTL DEF Spec

-----------------------------------------------------------------------------
(* What tags are open                                                      *)

Marks == Openers \union {"none"}
Reading == [x \in Seq(Marks) |-> [e \in Items |-> OpenAfter(x, e)]]

LEMMA TagFacts ==
  /\ Openers \subseteq Items /\ Closers \subseteq Items /\ Openers \intersect Closers = {}
  /\ \A c \in Closers : OpenedBy(c) \in Openers
  /\ OpenedBy("</b>") = "<b>" /\ OpenedBy("</i>") = "<i>"
  /\ OpenedBy("</a>") = "<a>" /\ OpenedBy("</code>") = "<code>"
<1>1. /\ OpenedBy("</b>") = "<b>" /\ OpenedBy("</i>") = "<i>"
      /\ OpenedBy("</a>") = "<a>" /\ OpenedBy("</code>") = "<code>"
  BY DEF OpenedBy
<1>2. Openers \subseteq Items /\ Closers \subseteq Items /\ Openers \intersect Closers = {}
  BY DEF Items, Openers, Closers
<1>3. \A c \in Closers : OpenedBy(c) \in Openers
  BY <1>1 DEF Openers, Closers
<1> QED
  BY <1>1, <1>2, <1>3

LEMMA OpenAfterTyped ==
  ASSUME NEW x \in Seq(Marks), NEW e \in Items
  PROVE  OpenAfter(x, e) \in Seq(Marks)
<1>1. Append(x, "none") \in Seq(Marks) /\ (e \in Openers => Append(x, e) \in Seq(Marks))
  BY DEF Marks
<1>2. ASSUME x # <<>> PROVE SubSeq(x, 1, Len(x) - 1) \in Seq(Marks)
  BY <1>2
<1> QED
  BY <1>1, <1>2 DEF OpenAfter

LEMMA ReadingTyped == Reading \in [Seq(Marks) -> [Items -> Seq(Marks)]]
  BY OpenAfterTyped DEF Reading

(* The recursive function OpenTags does what its equations say.            *)
LEMMA OpenTagsTrace ==
  ASSUME NEW s \in Seq(Items), NEW g \in [0..Len(s) -> Seq(Marks)], IsTrace(g, Reading, <<>>, s)
  PROVE  \A n \in 0..Len(s) : OpenTags(s)[n] = g[n]
<1> DEFINE open == CHOOSE f : f = [n \in 0..Len(s) |-> IF n = 0 THEN <<>> ELSE OpenAfter(f[n - 1], s[n])]
<1>1. \A n \in 1..Len(s) : n - 1 \in 0..Len(s) /\ s[n] \in Items
  OBVIOUS
<1>2. \A n \in 0..Len(s) : g[n] = IF n = 0 THEN <<>> ELSE OpenAfter(g[n - 1], s[n])
  <2>1. g[0] = <<>>
    BY DEF IsTrace
  <2>2. ASSUME NEW n \in 1..Len(s)
        PROVE  g[n] = OpenAfter(g[n - 1], s[n])
    <3>1. g[n - 1] \in Seq(Marks) /\ s[n] \in Items
      BY <1>1
    <3>2. g[n] = Reading[g[n - 1]][s[n]]
      BY DEF IsTrace
    <3> QED
      BY <3>1, <3>2 DEF Reading
  <2>3. \A n \in 0..Len(s) : n = 0 \/ n \in 1..Len(s)
    OBVIOUS
  <2> QED
    BY <2>1, <2>2, <2>3
<1>3. g = [n \in 0..Len(s) |-> IF n = 0 THEN <<>> ELSE OpenAfter(g[n - 1], s[n])]
  <2>1. g = [n \in 0..Len(s) |-> g[n]]
    OBVIOUS
  <2> QED
    BY <1>2, <2>1
<1>4. open = [n \in 0..Len(s) |-> IF n = 0 THEN <<>> ELSE OpenAfter(open[n - 1], s[n])]
  BY <1>3, Zenon
<1>5. OpenTags(s) = open
  BY Zenon DEF OpenTags
<1> HIDE DEF open
<1>6. open[0] = <<>> /\ \A n \in 1..Len(s) : open[n] = OpenAfter(open[n - 1], s[n])
  <2>1. 0 \in 0..Len(s) /\ \A n \in 1..Len(s) : n \in 0..Len(s) /\ n # 0
    OBVIOUS
  <2> QED
    BY <1>4, <2>1
<1> DEFINE S == {n \in Nat : open[n] = g[n]}
<1>7. 0 \in S
  BY <1>6 DEF IsTrace
<1>8. ASSUME NEW k \in 0..(Len(s) - 1), k \in S
      PROVE  k + 1 \in S
  <2>1. k + 1 \in 1..Len(s) /\ k + 1 \in 0..Len(s) /\ (k + 1) - 1 = k /\ k + 1 # 0 /\ k + 1 \in Nat
    BY <1>8
  <2>2. open[k + 1] = OpenAfter(open[k], s[k + 1])
    BY <1>6, <2>1
  <2>3. g[k + 1] = OpenAfter(g[k], s[k + 1])
    BY <1>2, <2>1
  <2>4. open[k] = g[k]
    BY <1>8
  <2> QED
    BY <2>1, <2>2, <2>3, <2>4
<1> HIDE DEF S
<1>9. Len(s) \in Nat
  OBVIOUS
<1>10. \A k \in 0..Len(s) : k \in S
  BY <1>7, <1>8, <1>9, Induction
<1> QED
  BY <1>5, <1>10 DEF S

(* Proper: a piece of output that leaves what is open as it found it, with *)
(* no entity in it empty and, unless it found a link open, no code in a    *)
(* link.                                                                   *)
NoLink(v) == \A k \in 1..Len(v) : v[k] # "<a>"

Leaves(g, v, s) ==
  /\ g \in [0..Len(s) -> Seq(Openers)] /\ IsTrace(g, Reading, v, s) /\ g[Len(s)] = v
  /\ \A n \in 1..Len(s) : s[n] = "<code>" /\ NoLink(v) => NoLink(g[n - 1])

Nested(s) == \A v \in Seq(Openers) : \E g : Leaves(g, v, s)

Full(s) ==
  /\ \A n \in 1..Len(s) : s[n] \in Openers => n # Len(s) /\ s[n + 1] \notin Closers
  /\ s # <<>> => s[1] \notin Closers

Proper(s) == s \in Seq(Items) /\ Nested(s) /\ Full(s)

LEMMA OpenersAreMarks == \A v \in Seq(Openers) : v \in Seq(Marks)
  BY DEF Marks

LEMMA ProperNests == ASSUME NEW s, Proper(s) PROVE Nests(s) /\ NoneEmpty(s)
<1>1. s \in Seq(Items) /\ <<>> \in Seq(Openers) /\ Len(s) \in Nat
  BY DEF Proper
<1>2. PICK g : Leaves(g, <<>>, s)
  BY <1>1 DEF Proper, Nested
<1>3. g \in [0..Len(s) -> Seq(Marks)] /\ g \in [0..Len(s) -> Seq(Openers)]
  BY <1>2, OpenersAreMarks DEF Leaves
<1>4. \A n \in 0..Len(s) : OpenTags(s)[n] = g[n]
  BY <1>1, <1>2, <1>3, OpenTagsTrace DEF Leaves
<1>5. OpenTags(s)[Len(s)] = <<>>
  BY <1>1, <1>2, <1>4 DEF Leaves
<1>6. ASSUME NEW n \in 1..Len(s), s[n] = "<code>", NEW k \in DOMAIN OpenTags(s)[n - 1]
      PROVE  OpenTags(s)[n - 1][k] # "<a>"
  <2>1. n - 1 \in 0..Len(s) /\ OpenTags(s)[n - 1] = g[n - 1] /\ g[n - 1] \in Seq(Openers)
    BY <1>1, <1>3, <1>4
  <2>2. NoLink(<<>>)
    BY DEF NoLink
  <2>3. NoLink(g[n - 1])
    BY <1>2, <1>6, <2>2 DEF Leaves
  <2>4. DOMAIN g[n - 1] = 1..Len(g[n - 1])
    BY <2>1
  <2> QED
    BY <1>6, <2>1, <2>3, <2>4 DEF NoLink
<1>7. Nests(s)
  BY <1>5, <1>6 DEF Nests
<1>8. NoneEmpty(s)
  BY <1>1 DEF NoneEmpty, Proper, Full
<1> QED
  BY <1>7, <1>8

LEMMA ProperEmpty == Proper(<<>>)
<1>1. <<>> \in Seq(Items) /\ Len(<<>>) = 0
  OBVIOUS
<1>2. ASSUME NEW v \in Seq(Openers) PROVE \E g : Leaves(g, v, <<>>)
  <2> DEFINE g == [n \in 0..0 |-> v]
  <2>1. g \in [0..0 -> Seq(Openers)] /\ g[0] = v
    OBVIOUS
  <2>2. Leaves(g, v, <<>>)
    BY <1>1, <2>1 DEF Leaves, IsTrace
  <2> QED
    BY <2>2
<1> QED
  BY <1>1, <1>2 DEF Proper, Nested, Full

LEMMA ProperOne == ASSUME NEW e \in Items, e \notin Openers, e \notin Closers PROVE Proper(<<e>>)
<1> DEFINE s == <<e>>
<1>1. s \in Seq(Items) /\ Len(s) = 1 /\ s[1] = e /\ s # <<>>
  OBVIOUS
<1> HIDE DEF s
<1>2. ASSUME NEW v \in Seq(Openers) PROVE \E g : Leaves(g, v, s)
  <2> DEFINE g == [n \in 0..1 |-> v]
  <2>1. g \in [0..1 -> Seq(Openers)] /\ g[0] = v /\ g[1] = v /\ v \in Seq(Marks)
    BY OpenersAreMarks
  <2> HIDE DEF g
  <2>2. Reading[v][e] = v
    BY <2>1 DEF Reading, OpenAfter
  <2>3. IsTrace(g, Reading, v, s)
    BY <1>1, <2>1, <2>2 DEF IsTrace
  <2>4. Leaves(g, v, s)
    BY <1>1, <2>1, <2>3 DEF Leaves, Openers
  <2> QED
    BY <2>4
<1>3. Full(s)
  BY <1>1 DEF Full
<1> QED
  BY <1>1, <1>2, <1>3 DEF Proper, Nested, s

LEMMA ProperConcat == ASSUME NEW s, Proper(s), NEW t, Proper(t) PROVE Proper(s \o t)
<1> DEFINE u == s \o t
           a == Len(s)
           b == Len(t)
<1>1. /\ s \in Seq(Items) /\ t \in Seq(Items) /\ a \in Nat /\ b \in Nat
      /\ u \in Seq(Items) /\ Len(u) = a + b
      /\ \A n \in 1..a : u[n] = s[n]
      /\ \A n \in 1..b : u[n + a] = t[n]
  BY DEF Proper
<1>2. \A n \in 1..(a + b) : n \in 1..a \/ \E m \in 1..b : n = m + a
  <2>1. \A n \in 1..(a + b) : n \notin 1..a => n - a \in 1..b /\ n = (n - a) + a
    BY <1>1
  <2> QED
    BY <2>1
<1>3. ASSUME NEW v \in Seq(Openers) PROVE \E g : Leaves(g, v, u)
  <2>1. PICK g : Leaves(g, v, s)
    BY DEF Proper, Nested
  <2>2. PICK h : Leaves(h, v, t)
    BY DEF Proper, Nested
  <2> DEFINE j == [n \in 0..(a + b) |-> IF n <= a THEN g[n] ELSE h[n - a]]
  <2>3. g[a] = v /\ h[0] = v /\ h[b] = v
    BY <2>1, <2>2 DEF Leaves, IsTrace
  <2>4. IsTrace(h, Reading, g[a], t)
    BY <2>2, <2>3 DEF Leaves
  <2>5. IsTrace(j, Reading, v, u)
    <3>1. s \in Seq(Items) /\ t \in Seq(Items) /\ IsTrace(g, Reading, v, s)
      BY <1>1, <2>1 DEF Leaves
    <3> QED
      BY <2>4, <3>1, TraceOfConcat
  <2>6. /\ \A n \in 0..a : j[n] = g[n]
        /\ \A n \in 0..b : j[n + a] = h[n]
    <3>1. \A n \in 0..a : j[n] = g[n]
      BY <1>1
    <3>2. ASSUME NEW n \in 0..b PROVE j[n + a] = h[n]
      <4>1. CASE n = 0
        BY <1>1, <2>3, <3>1, <4>1
      <4>2. CASE n # 0
        <5>1. n + a \in 0..(a + b) /\ ~(n + a <= a) /\ (n + a) - a = n
          BY <1>1, <4>2
        <5> QED
          BY <5>1
      <4> QED
        BY <4>1, <4>2
    <3> QED
      BY <3>1, <3>2
  <2>7. DOMAIN j = 0..(a + b) /\ j = [n \in 0..(a + b) |-> j[n]]
    OBVIOUS
  <2>8. g \in [0..a -> Seq(Openers)] /\ h \in [0..b -> Seq(Openers)]
    BY <2>1, <2>2 DEF Leaves
  <2> HIDE DEF j
  <2>9. \A n \in 0..(a + b) : j[n] \in Seq(Openers)
    <3>1. ASSUME NEW n \in 0..(a + b) PROVE j[n] \in Seq(Openers)
      <4>1. CASE n \in 0..a
        BY <2>6, <2>8, <4>1
      <4>2. CASE n \notin 0..a
        <5>1. n - a \in 0..b /\ n = (n - a) + a
          BY <1>1, <4>2
        <5> QED
          BY <2>6, <2>8, <5>1
      <4> QED
        BY <4>1, <4>2
    <3> QED
      BY <3>1
  <2>10. j \in [0..(a + b) -> Seq(Openers)]
    BY <2>7, <2>9
  <2>11. j[a + b] = v
    <3>1. b \in 0..b /\ b + a = a + b
      BY <1>1
    <3> QED
      BY <2>3, <2>6, <3>1
  <2>12. ASSUME NEW n \in 1..(a + b), u[n] = "<code>", NoLink(v) PROVE NoLink(j[n - 1])
    <3>1. CASE n \in 1..a
      <4>1. n - 1 \in 0..a /\ s[n] = "<code>"
        BY <1>1, <2>12, <3>1
      <4> QED
        BY <2>1, <2>6, <2>12, <3>1, <4>1 DEF Leaves
    <3>2. ASSUME NEW m \in 1..b, n = m + a PROVE NoLink(j[n - 1])
      <4>1. m - 1 \in 0..b /\ n - 1 = (m - 1) + a /\ t[m] = "<code>"
        BY <1>1, <2>12, <3>2
      <4> QED
        BY <2>2, <2>6, <2>12, <4>1 DEF Leaves
    <3> QED
      BY <1>2, <3>1, <3>2
  <2> HIDE DEF u
  <2>13. Leaves(j, v, u)
    BY <1>1, <2>5, <2>10, <2>11, <2>12 DEF Leaves
  <2> QED
    BY <2>13
<1>4. Full(s) /\ Full(t)
  BY DEF Proper
<1> HIDE DEF u
<1>5. ASSUME NEW n \in 1..Len(u), u[n] \in Openers PROVE n # Len(u) /\ u[n + 1] \notin Closers
  <2>1. CASE n \in 1..a
    <3>1. s[n] \in Openers
      BY <1>1, <1>5, <2>1
    <3>2. n # a /\ s[n + 1] \notin Closers
      BY <1>4, <2>1, <3>1 DEF Full
    <3>3. n + 1 \in 1..a
      BY <1>1, <2>1, <3>2
    <3> QED
      BY <1>1, <3>2, <3>3
  <2>2. ASSUME NEW m \in 1..b, n = m + a PROVE n # Len(u) /\ u[n + 1] \notin Closers
    <3>1. t[m] \in Openers
      BY <1>1, <1>5, <2>2
    <3>2. m # b /\ t[m + 1] \notin Closers
      BY <1>4, <3>1 DEF Full
    <3>3. m + 1 \in 1..b /\ n + 1 = (m + 1) + a
      BY <1>1, <2>2, <3>2
    <3> QED
      BY <1>1, <2>2, <3>2, <3>3
  <2> QED
    BY <1>1, <1>2, <2>1, <2>2
<1>6. u # <<>> => u[1] \notin Closers
  <2>1. CASE s = <<>>
    <3>1. u = t
      BY <1>1, <2>1 DEF u
    <3> QED
      BY <1>4, <3>1 DEF Full
  <2>2. CASE s # <<>>
    <3>1. 1 \in 1..a
      BY <1>1, <2>2
    <3> QED
      BY <1>1, <1>4, <2>2, <3>1 DEF Full
  <2> QED
    BY <2>1, <2>2
<1> QED
  BY <1>1, <1>3, <1>5, <1>6 DEF Proper, Nested, Full, u

LEMMA Around ==
  ASSUME NEW s \in Seq(Items), NEW o \in Items, NEW c \in Items
  PROVE  LET w == <<o>> \o s \o <<c>>
         IN  /\ w \in Seq(Items) /\ Len(w) = Len(s) + 2 /\ w # <<>>
             /\ w[1] = o /\ w[Len(s) + 2] = c
             /\ \A n \in 1..Len(s) : w[n + 1] = s[n]
<1> DEFINE a == <<o>> \o s
           w == a \o <<c>>
<1>1. /\ a \in Seq(Items) /\ Len(a) = Len(s) + 1 /\ a[1] = o /\ Len(s) \in Nat
      /\ \A n \in 1..Len(s) : a[n + 1] = s[n]
  OBVIOUS
<1> HIDE DEF a
<1>2. /\ w \in Seq(Items) /\ Len(w) = Len(s) + 2 /\ w[Len(s) + 2] = c
      /\ \A n \in 1..Len(a) : w[n] = a[n]
  BY <1>1
<1>3. w[1] = o /\ w # <<>>
  BY <1>1, <1>2
<1> HIDE DEF w
<1>4. \A n \in 1..Len(s) : w[n + 1] = s[n]
  <2>1. \A n \in 1..Len(s) : n + 1 \in 1..Len(a)
    BY <1>1
  <2> QED
    BY <1>1, <1>2, <2>1
<1> QED
  BY <1>2, <1>3, <1>4 DEF w, a

NoCode(s) == \A n \in 1..Len(s) : s[n] # "<code>"

LEMMA ProperAround ==
  ASSUME NEW s, Proper(s), s # <<>>, NEW o \in Openers, NEW c \in Closers, OpenedBy(c) = o,
         o = "<a>" => NoCode(s)
  PROVE  Proper(<<o>> \o s \o <<c>>)
<1> DEFINE w == <<o>> \o s \o <<c>>
           k == Len(s)
<1>1. s \in Seq(Items) /\ k \in Nat /\ k >= 1 /\ Full(s) /\ o \in Items /\ c \in Items /\ c \notin Openers /\ o \notin Closers
  BY TagFacts DEF Proper
<1>2. /\ w \in Seq(Items) /\ Len(w) = k + 2 /\ w # <<>>
      /\ w[1] = o /\ w[k + 2] = c
      /\ \A n \in 1..k : w[n + 1] = s[n]
  BY <1>1, Around
<1> HIDE DEF w
<1>3. \A n \in 1..(k + 2) : n = 1 \/ n = k + 2 \/ (n - 1 \in 1..k /\ n = (n - 1) + 1)
  BY <1>1
<1>4. ASSUME NEW v \in Seq(Openers) PROVE \E j : Leaves(j, v, w)
  <2> DEFINE v1 == Append(v, o)
  <2>1. /\ v1 \in Seq(Openers) /\ v1 # <<>> /\ v1[Len(v1)] = o /\ SubSeq(v1, 1, Len(v1) - 1) = v
        /\ Len(v1) = Len(v) + 1 /\ \A n \in 1..Len(v) : v1[n] = v[n]
    OBVIOUS
  <2>2. Reading[v][o] = v1
    BY <1>1, OpenersAreMarks DEF Reading, OpenAfter
  <2> HIDE DEF v1
  <2>3. Reading[v1][c] = v
    BY <1>1, <2>1, OpenersAreMarks DEF Reading, OpenAfter, Last
  <2>4. PICK g : Leaves(g, v1, s)
    BY <2>1 DEF Proper, Nested
  <2> DEFINE j == [n \in 0..(k + 2) |-> IF n = 0 \/ n = k + 2 THEN v ELSE g[n - 1]]
  <2>5. /\ g \in [0..k -> Seq(Openers)] /\ g[0] = v1 /\ g[k] = v1
        /\ \A n \in 1..k : g[n] = Reading[g[n - 1]][s[n]]
    BY <2>4 DEF Leaves, IsTrace
  <2>6. DOMAIN j = 0..(k + 2) /\ j[0] = v /\ j[k + 2] = v
    BY <1>1
  <2>7. \A n \in 0..k : j[n + 1] = g[n]
    <3>1. ASSUME NEW n \in 0..k PROVE j[n + 1] = g[n]
      <4>1. n + 1 \in 0..(k + 2) /\ n + 1 # 0 /\ n + 1 # k + 2 /\ (n + 1) - 1 = n
        BY <1>1
      <4> QED
        BY <4>1
    <3> QED
      BY <3>1
  <2>8. j \in [0..(k + 2) -> Seq(Openers)]
    <3>1. \A n \in 0..(k + 2) : ~(n = 0 \/ n = k + 2) => n - 1 \in 0..k
      BY <1>1
    <3> QED
      BY <2>5, <3>1
  <2> HIDE DEF j
  <2>9. ASSUME NEW n \in 1..(k + 2) PROVE j[n] = Reading[j[n - 1]][w[n]]
    <3>1. CASE n = 1
      <4>1. 0 \in 0..k /\ 0 + 1 = 1 /\ 1 - 1 = 0
        BY <1>1
      <4> QED
        BY <1>2, <2>2, <2>5, <2>6, <2>7, <3>1, <4>1
    <3>2. CASE n = k + 2
      <4>1. k \in 0..k /\ (k + 2) - 1 = k + 1
        BY <1>1
      <4> QED
        BY <1>2, <2>3, <2>5, <2>6, <2>7, <3>2, <4>1
    <3>3. ASSUME NEW m \in 1..k, n = m + 1 PROVE j[n] = Reading[j[n - 1]][w[n]]
      <4>1. m \in 0..k /\ m - 1 \in 0..k /\ n - 1 = (m - 1) + 1
        BY <1>1, <3>3
      <4>2. j[n] = g[m] /\ j[n - 1] = g[m - 1] /\ w[n] = s[m]
        BY <1>2, <2>7, <3>3, <4>1
      <4> QED
        BY <2>5, <4>2
    <3> QED
      BY <1>3, <3>1, <3>2, <3>3
  <2>10. IsTrace(j, Reading, v, w)
    BY <1>2, <2>6, <2>9 DEF IsTrace
  <2>11. ASSUME NEW n \in 1..(k + 2), w[n] = "<code>", NoLink(v) PROVE NoLink(j[n - 1])
    <3>1. CASE n = 1
      BY <2>6, <2>11, <3>1
    <3>2. n # k + 2
      BY <1>1, <1>2, <2>11 DEF Openers
    <3>3. ASSUME NEW m \in 1..k, n = m + 1 PROVE NoLink(j[n - 1])
      <4>1. m - 1 \in 0..k /\ n - 1 = (m - 1) + 1 /\ s[m] = "<code>"
        BY <1>1, <1>2, <2>11, <3>3
      <4>2. o # "<a>"
        BY <4>1 DEF NoCode
      <4>3. NoLink(v1)
        <5>1. \A i \in 1..Len(v1) : i \in 1..Len(v) \/ i = Len(v1)
          <6>1. Len(v) \in Nat
            OBVIOUS
          <6> QED
            BY <2>1, <6>1
        <5> QED
          BY <2>1, <2>11, <4>2, <5>1 DEF NoLink
      <4>4. NoLink(g[m - 1])
        BY <2>4, <4>1, <4>3 DEF Leaves
      <4> QED
        BY <2>7, <4>1, <4>4
    <3> QED
      BY <1>3, <3>1, <3>2, <3>3
  <2>12. Leaves(j, v, w)
    BY <1>2, <2>6, <2>8, <2>10, <2>11 DEF Leaves
  <2> QED
    BY <2>12
<1>5. ASSUME NEW n \in 1..(k + 2), w[n] \in Openers PROVE n # k + 2 /\ w[n + 1] \notin Closers
  <2>1. n # k + 2
    BY <1>1, <1>2, <1>5
  <2>2. CASE n = 1
    <3>1. 1 \in 1..k /\ w[1 + 1] = s[1] /\ s[1] \notin Closers
      BY <1>1, <1>2 DEF Full
    <3> QED
      BY <2>1, <2>2, <3>1
  <2>3. ASSUME NEW m \in 1..k, n = m + 1 PROVE w[n + 1] \notin Closers
    <3>1. s[m] \in Openers
      BY <1>2, <1>5, <2>3
    <3>2. m # k /\ s[m + 1] \notin Closers
      BY <1>1, <3>1 DEF Full
    <3>3. m + 1 \in 1..k /\ n + 1 = (m + 1) + 1
      BY <1>1, <2>3, <3>2
    <3> QED
      BY <1>2, <3>2, <3>3
  <2> QED
    BY <1>3, <2>1, <2>2, <2>3
<1>6. Full(w)
  BY <1>1, <1>2, <1>5 DEF Full
<1> QED
  BY <1>2, <1>4, <1>6 DEF Proper, Nested, w

LEMMA StripperIs ==
  /\ \A s \in Seq(Items) : boldStripper(s) \in Seq(Items)
  /\ boldStripper(<<>>) = <<>>
  /\ \A e \in Items : boldStripper(<<e>>) = IF e \in {"<b>", "</b>"} THEN <<>> ELSE <<e>>
  /\ \A s, t \in Seq(Items) : boldStripper(s \o t) = boldStripper(s) \o boldStripper(t)
<1> DEFINE by == [e \in Items |-> IF e \in {"<b>", "</b>"} THEN <<>> ELSE <<e>>]
<1>1. by \in [Items -> Seq(Items)]
  <2>1. \A e \in Items : <<e>> \in Seq(Items) /\ <<>> \in Seq(Items)
    OBVIOUS
  <2> QED
    BY <2>1
<1>2. \A s : boldStripper(s) = Replaced(s, by)
  BY DEF boldStripper
<1>3. \A e \in Items : by[e] = IF e \in {"<b>", "</b>"} THEN <<>> ELSE <<e>>
  OBVIOUS
<1> HIDE DEF by
<1>4. ASSUME NEW s \in Seq(Items) PROVE boldStripper(s) \in Seq(Items)
  BY <1>1, <1>2, ReplacedTyped
<1>5. boldStripper(<<>>) = <<>>
  BY <1>1, <1>2, ReplacedEmpty
<1>6. ASSUME NEW e \in Items PROVE boldStripper(<<e>>) = by[e]
  BY <1>1, <1>2, ReplacedOne
<1>7. ASSUME NEW s \in Seq(Items), NEW t \in Seq(Items)
      PROVE  boldStripper(s \o t) = boldStripper(s) \o boldStripper(t)
  BY <1>1, <1>2, ReplacedOfConcat
<1> QED
  BY <1>3, <1>4, <1>5, <1>6, <1>7

(* A piece fit for a line and for a heading, and for a link if it is in    *)
(* one.                                                                    *)
Fine(s, linked) ==
  /\ Proper(s) /\ Proper(boldStripper(s))
  /\ s # <<>> => boldStripper(s) # <<>>
  /\ linked => NoCode(s) /\ NoCode(boldStripper(s))

LEMMA NoCodeConcat ==
  ASSUME NEW s \in Seq(Items), NEW t \in Seq(Items), NoCode(s), NoCode(t)
  PROVE  NoCode(s \o t)
<1>1. ASSUME NEW n \in 1..Len(s \o t) PROVE (s \o t)[n] # "<code>"
  <2>1. /\ Len(s) \in Nat /\ Len(t) \in Nat /\ Len(s \o t) = Len(s) + Len(t)
        /\ (s \o t)[n] = IF n <= Len(s) THEN s[n] ELSE t[n - Len(s)]
    BY ConcatProperties
  <2>2. CASE n <= Len(s)
    BY <2>1, <2>2 DEF NoCode
  <2>3. CASE ~(n <= Len(s))
    <3>1. n - Len(s) \in 1..Len(t)
      BY <2>1, <2>3
    <3> QED
      BY <2>1, <2>3, <3>1 DEF NoCode
  <2> QED
    BY <2>2, <2>3
<1> QED
  BY <1>1 DEF NoCode

LEMMA FineEmpty == ASSUME NEW linked \in BOOLEAN PROVE Fine(<<>>, linked)
  BY ProperEmpty, StripperIs DEF Fine, NoCode

LEMMA FineOne ==
  ASSUME NEW linked \in BOOLEAN, NEW e \in Items, e \notin Openers, e \notin Closers
  PROVE  Fine(<<e>>, linked) /\ <<e>> # <<>>
<1>1. boldStripper(<<e>>) = <<e>>
  BY StripperIs DEF Openers, Closers
<1>2. <<e>> # <<>> /\ Len(<<e>>) = 1 /\ <<e>>[1] = e
  OBVIOUS
<1>3. NoCode(<<e>>)
  BY <1>2 DEF NoCode, Openers
<1> QED
  BY <1>1, <1>2, <1>3, ProperOne DEF Fine

LEMMA FineConcat ==
  ASSUME NEW linked \in BOOLEAN, NEW s, Fine(s, linked), NEW t, Fine(t, linked)
  PROVE  Fine(s \o t, linked) /\ (s # <<>> \/ t # <<>> => s \o t # <<>>)
<1>1. s \in Seq(Items) /\ t \in Seq(Items) /\ boldStripper(s) \in Seq(Items) /\ boldStripper(t) \in Seq(Items)
  BY DEF Fine, Proper
<1>2. boldStripper(s \o t) = boldStripper(s) \o boldStripper(t)
  BY <1>1, StripperIs
<1>3. Proper(s \o t) /\ Proper(boldStripper(s) \o boldStripper(t))
  BY ProperConcat DEF Fine
<1>4. ASSUME NEW x \in Seq(Items), NEW y \in Seq(Items)
      PROVE  x \o y # <<>> <=> x # <<>> \/ y # <<>>
  BY ConcatEmptySeq, ConcatEqualIffEmpty, <1>4
<1>5. s \o t # <<>> => boldStripper(s \o t) # <<>>
  BY <1>1, <1>2, <1>4 DEF Fine
<1>6. linked => NoCode(s \o t) /\ NoCode(boldStripper(s \o t))
  BY <1>1, <1>2, NoCodeConcat DEF Fine
<1> QED
  BY <1>1, <1>2, <1>3, <1>4, <1>5, <1>6 DEF Fine

(* A piece between an opening tag and the closing one that belongs to it.  *)
LEMMA FineAround ==
  ASSUME NEW linked \in BOOLEAN, NEW s, Fine(s, linked), s # <<>>,
         NEW o \in Openers, NEW c \in Closers, OpenedBy(c) = o, o = "<b>" <=> c = "</b>",
         linked => o # "<code>", o = "<a>" => Fine(s, TRUE)
  PROVE  Fine(<<o>> \o s \o <<c>>, linked) /\ <<o>> \o s \o <<c>> # <<>>
<1> DEFINE w == <<o>> \o s \o <<c>>
           p == boldStripper(s)
           q == <<o>> \o p \o <<c>>
<1>1. s \in Seq(Items) /\ p \in Seq(Items) /\ o \in Items /\ c \in Items /\ p # <<>> /\ Proper(s) /\ Proper(p)
  BY TagFacts DEF Fine, Proper
<1>2. Proper(w) /\ Proper(q)
  BY <1>1, ProperAround DEF Fine
<1>3. w # <<>> /\ q # <<>>
  BY <1>1, Around
<1>4. ASSUME linked, NEW x \in Seq(Items), NoCode(x) PROVE NoCode(<<o>> \o x \o <<c>>)
  <2>1. <<o>> \in Seq(Items) /\ <<c>> \in Seq(Items) /\ <<o>> \o x \in Seq(Items)
    BY <1>1
  <2>2. NoCode(<<o>>) /\ NoCode(<<c>>)
    <3>1. Len(<<o>>) = 1 /\ Len(<<c>>) = 1 /\ <<o>>[1] = o /\ <<c>>[1] = c
      OBVIOUS
    <3>2. o # "<code>" /\ c # "<code>"
      BY <1>4 DEF Closers
    <3> QED
      BY <3>1, <3>2 DEF NoCode
  <2> QED
    BY <1>4, <2>1, <2>2, NoCodeConcat
<1>5. boldStripper(w) = IF o = "<b>" THEN p ELSE q
  <2>1. <<o>> \in Seq(Items) /\ <<c>> \in Seq(Items) /\ <<o>> \o s \in Seq(Items)
    BY <1>1
  <2>2. boldStripper(w) = boldStripper(<<o>>) \o p \o boldStripper(<<c>>)
    <3>1. boldStripper(w) = boldStripper(<<o>> \o s) \o boldStripper(<<c>>)
      BY <2>1, StripperIs
    <3>2. boldStripper(<<o>> \o s) = boldStripper(<<o>>) \o p
      BY <1>1, <2>1, StripperIs
    <3> QED
      BY <3>1, <3>2
  <2>3. CASE o = "<b>"
    <3>1. boldStripper(<<o>>) = <<>> /\ boldStripper(<<c>>) = <<>>
      BY <1>1, <2>3, StripperIs
    <3>2. <<>> \o p \o <<>> = p
      BY <1>1
    <3> HIDE DEF w, p
    <3> QED
      BY <2>2, <2>3, <3>1, <3>2
  <2>4. CASE o # "<b>"
    <3>1. o # "</b>" /\ c # "<b>"
      BY DEF Openers, Closers
    <3>2. boldStripper(<<o>>) = <<o>> /\ boldStripper(<<c>>) = <<c>>
      BY <1>1, <2>4, <3>1, StripperIs
    <3> QED
      BY <2>2, <2>4, <3>2
  <2> QED
    BY <2>3, <2>4
<1>6. linked => NoCode(w) /\ NoCode(p) /\ NoCode(q)
  BY <1>1, <1>4 DEF Fine
<1> HIDE DEF w, p, q
<1>7. Fine(w, linked)
  BY <1>1, <1>2, <1>3, <1>5, <1>6 DEF Fine
<1> QED
  BY <1>3, <1>7 DEF w

LEMMA GluedAnyWay ==
  /\ \A a, b \in Seq(Items) : Glued(a, b) \in Seq(Items)
  /\ \A a, b, c \in Seq(Items) : Glued(Glued(a, b), c) = Glued(a, Glued(b, c))
BY SMTT(30) DEF Glued

LEMMA Regrouped ==
  ASSUME NEW a \in Seq(Items), NEW b \in Seq(Items), NEW s \in Seq(Items),
         NEW c \in Seq(Items), NEW d \in Seq(Items)
  PROVE  Glued(Glued(Glued(a, b), s), Glued(c, d)) = Glued(Glued(a, Glued(Glued(b, s), c)), d)
<1>1. /\ Glued(a, b) \in Seq(Items) /\ Glued(b, s) \in Seq(Items) /\ Glued(c, d) \in Seq(Items)
      /\ Glued(Glued(b, s), c) \in Seq(Items) /\ Glued(a, Glued(b, s)) \in Seq(Items)
  BY GluedAnyWay
<1> QED
  BY <1>1, GluedAnyWay

LEMMA FineTags ==
  ASSUME NEW linked \in BOOLEAN, NEW s, Fine(s, linked), s # <<>>, NEW n \in 1..maxRun
  PROVE  Fine(openTag(n) \o s \o closeTag(n), linked) /\ openTag(n) \o s \o closeTag(n) # <<>>
<1> DEFINE i == <<"<i>">> \o s \o <<"</i>">>
<1>1. /\ "<i>" \in Openers /\ "</i>" \in Closers /\ "<b>" \in Openers /\ "</b>" \in Closers
      /\ OpenedBy("</b>") = "<b>" /\ OpenedBy("</i>") = "<i>"
  BY TagFacts DEF Openers, Closers
<1>2. ASSUME NEW x, Fine(x, linked), x # <<>>
      PROVE  /\ Fine(<<"<b>">> \o x \o <<"</b>">>, linked) /\ <<"<b>">> \o x \o <<"</b>">> # <<>>
             /\ Fine(<<"<i>">> \o x \o <<"</i>">>, linked) /\ <<"<i>">> \o x \o <<"</i>">> # <<>>
  <2>1. Fine(<<"<b>">> \o x \o <<"</b>">>, linked) /\ <<"<b>">> \o x \o <<"</b>">> # <<>>
    BY <1>1, <1>2, FineAround
  <2>2. Fine(<<"<i>">> \o x \o <<"</i>">>, linked) /\ <<"<i>">> \o x \o <<"</i>">> # <<>>
    BY <1>1, <1>2, FineAround
  <2> QED
    BY <2>1, <2>2
<1>3. CASE n = 1
  BY <1>2, <1>3 DEF openTag, closeTag
<1>4. CASE n = 2
  BY <1>2, <1>4 DEF openTag, closeTag
<1>5. CASE n = 3
  <2> DEFINE ob == <<"<b>">>
             oi == <<"<i>">>
             ci == <<"</i>">>
             cb == <<"</b>">>
  <2>1. openTag(n) = Glued(ob, oi) /\ closeTag(n) = Glued(ci, cb)
    <3>1. openTag(n) = <<"<b>", "<i>">> /\ closeTag(n) = <<"</i>", "</b>">>
      BY <1>5 DEF openTag, closeTag
    <3> QED
      BY <1>1, <3>1, Pairs DEF Glued
  <2>2. ob \in Seq(Items) /\ oi \in Seq(Items) /\ ci \in Seq(Items) /\ cb \in Seq(Items) /\ s \in Seq(Items)
    BY <1>1, TagFacts DEF Fine, Proper
  <2> DEFINE whole == Glued(Glued(ob, Glued(Glued(oi, s), ci)), cb)
  <2>3. Fine(whole, linked) /\ whole # <<>>
    BY <1>2 DEF Glued
  <2>4. Glued(Glued(Glued(ob, oi), s), Glued(ci, cb)) = whole
    <3> HIDE DEF ob, oi, ci, cb
    <3> QED
      BY <2>2, Regrouped
  <2>5. openTag(n) \o s \o closeTag(n) = Glued(Glued(Glued(ob, oi), s), Glued(ci, cb))
    <3> HIDE DEF ob, oi, ci, cb
    <3> QED
      BY <2>1 DEF Glued
  <2> HIDE DEF whole
  <2> QED
    BY <2>3, <2>4, <2>5
<1> QED
  BY <1>3, <1>4, <1>5 DEF maxRun

(* Sturdy: the output of a renderer and its contexts are fine.  TopFull:   *)
(* something was written in its innermost context.                         *)
Sturdy(x, linked) ==
  /\ Fine(x.root, linked)
  /\ \A k \in 1..Len(x.stack) : Fine(x.stack[k].buf, linked)

TopFull(x) == x.stack # <<>> => Last(x.stack).buf # <<>>
NotEmpty(x) == x.stack # <<>> \/ x.root # <<>>

LEMMA SturdyWrite ==
  ASSUME NEW linked \in BOOLEAN, NEW x, Fit(x), Sturdy(x, linked), NEW s, Fine(s, linked), s # <<>>
  PROVE  Sturdy(write(s, x), linked) /\ TopFull(write(s, x)) /\ NotEmpty(write(s, x))
<1> DEFINE y == write(s, x)
           n == Len(x.stack)
<1>1. s \in Seq(Items) /\ x.stack \in Seq(Frames) /\ n \in Nat /\ x.root \in Seq(Items)
  BY Shallow DEF Fine, Proper
<1>2. CASE x.stack = <<>>
  <2>1. y = [stack |-> <<>>, root |-> x.root \o s]
    BY <1>2 DEF write
  <2>2. y.stack = <<>> /\ y.root = x.root \o s /\ Len(y.stack) = 0
    BY <2>1
  <2>3. Fine(x.root \o s, linked) /\ x.root \o s # <<>>
    BY FineConcat DEF Sturdy
  <2> HIDE DEF y
  <2> QED
    BY <2>2, <2>3 DEF Sturdy, TopFull, NotEmpty, y
<1>3. CASE x.stack # <<>>
  <2> DEFINE f == x.stack[n]
             g == [run |-> f.run, buf |-> f.buf \o s]
  <2>1. n \in 1..n
    BY <1>1, <1>3
  <2>2. y = [stack |-> [x.stack EXCEPT ![n] = g], root |-> x.root]
    BY <1>3 DEF write, Last
  <2>3. Fine(f.buf \o s, linked) /\ f.buf \o s # <<>>
    BY <2>1, FineConcat DEF Sturdy
  <2>4. g.buf = f.buf \o s
    OBVIOUS
  <2> HIDE DEF g
  <2>5. y.stack = [x.stack EXCEPT ![n] = g] /\ y.root = x.root
    BY <2>2
  <2> HIDE DEF y
  <2>6. /\ Len(y.stack) = n /\ y.stack[n] = g /\ y.stack # <<>>
        /\ \A k \in 1..n : k # n => y.stack[k] = x.stack[k]
    <3>1. DOMAIN x.stack = 1..n /\ DOMAIN y.stack = 1..n
      BY <1>1, <2>5
    <3>2. Len(y.stack) = n /\ y.stack[n] = g /\ \A k \in 1..n : k # n => y.stack[k] = x.stack[k]
      BY <1>1, <2>1, <2>5
    <3> QED
      BY <2>1, <3>1, <3>2
  <2>7. Sturdy(y, linked)
    BY <2>3, <2>4, <2>5, <2>6 DEF Sturdy
  <2>8. TopFull(y) /\ NotEmpty(y)
    BY <2>3, <2>4, <2>6 DEF TopFull, NotEmpty, Last
  <2> QED
    BY <2>7, <2>8 DEF y
<1> QED
  BY <1>2, <1>3

LEMMA SturdyPop ==
  ASSUME NEW linked \in BOOLEAN, NEW x, Fit(x), Sturdy(x, linked), x.stack # <<>>
  PROVE  Sturdy(pop(x), linked) /\ Fit(pop(x)) /\ Fine(Last(x.stack).buf, linked)
<1> DEFINE n == Len(x.stack) - 1
<1>1. x.stack \in Seq(Frames) /\ n \in Nat /\ n <= Len(x.stack) /\ Len(x.stack) \in 1..Len(x.stack)
  BY Shallow
<1>2. pop(x).stack = SubSeq(x.stack, 1, n) /\ pop(x).root = x.root
  BY DEF pop
<1>3. /\ Len(SubSeq(x.stack, 1, n)) = n
      /\ \A k \in 1..n : k \in 1..Len(x.stack) /\ SubSeq(x.stack, 1, n)[k] = x.stack[k]
  BY <1>1
<1> HIDE DEF n
<1>4. Sturdy(pop(x), linked)
  BY <1>2, <1>3 DEF Sturdy
<1>5. Fine(Last(x.stack).buf, linked)
  BY <1>1 DEF Sturdy, Last
<1> QED
  BY <1>4, <1>5, PopFit

LEMMA SturdyClose ==
  ASSUME NEW linked \in BOOLEAN, NEW x, Fit(x), Sturdy(x, linked), x.stack # <<>>, TopFull(x)
  PROVE  Sturdy(closeTop(x), linked) /\ TopFull(closeTop(x)) /\ NotEmpty(closeTop(x))
<1> DEFINE f == Last(x.stack)
           s == openTag(f.run) \o f.buf \o closeTag(f.run)
<1>1. Sturdy(pop(x), linked) /\ Fit(pop(x)) /\ Fine(f.buf, linked) /\ f.run \in 1..maxRun /\ f.buf # <<>>
  BY SturdyPop, PopFit DEF TopFull
<1>2. Fine(s, linked) /\ s # <<>>
  BY <1>1, FineTags
<1>3. closeTop(x) = write(s, pop(x))
  BY DEF closeTop
<1> HIDE DEF s
<1> QED
  BY <1>1, <1>2, <1>3, SturdyWrite

LEMMA TypedIsNoTag == ASSUME NEW n PROVE Typed(n) \in Items /\ Typed(n) \notin Openers /\ Typed(n) \notin Closers
  BY DEF Typed, Items, StarRuns, Openers, Closers

LEMMA SturdySpill ==
  ASSUME NEW linked \in BOOLEAN, NEW x, Fit(x), Sturdy(x, linked), x.stack # <<>>
  PROVE  Sturdy(spill(x), linked) /\ NotEmpty(spill(x))
<1> DEFINE f == Last(x.stack)
           t == <<Typed(f.run)>>
           s == t \o f.buf
<1>1. Sturdy(pop(x), linked) /\ Fit(pop(x)) /\ Fine(f.buf, linked)
  BY SturdyPop
<1>2. Fine(t, linked) /\ t # <<>>
  BY TypedIsNoTag, FineOne
<1>3. Fine(s, linked) /\ s # <<>>
  BY <1>1, <1>2, FineConcat
<1>4. spill(x) = write(s, pop(x))
  BY DEF spill
<1> HIDE DEF s
<1> QED
  BY <1>1, <1>3, <1>4, SturdyWrite

LEMMA SturdyPush ==
  ASSUME NEW linked \in BOOLEAN, NEW n \in 1..maxRun, NEW x, Fit(x), Sturdy(x, linked)
  PROVE  Sturdy(push(n, x), linked) /\ NotEmpty(push(n, x))
<1> DEFINE f == [run |-> n, buf |-> <<>>]
           s == Append(x.stack, f)
<1>1. x.stack \in Seq(Frames) /\ f \in Frames
  <2>1. f \in Frames
    BY DEF Frames
  <2> QED
    BY <2>1, Shallow
<1>2. push(n, x).stack = s /\ push(n, x).root = x.root
  BY DEF push
<1>3. /\ s # <<>> /\ Len(s) = Len(x.stack) + 1 /\ s[Len(s)] = f /\ Len(x.stack) \in Nat
      /\ \A k \in 1..Len(x.stack) : s[k] = x.stack[k]
  BY <1>1
<1>4. f.buf = <<>>
  OBVIOUS
<1> HIDE DEF s, f
<1>5. \A k \in 1..Len(s) : k \in 1..Len(x.stack) \/ k = Len(s)
  BY <1>3
<1>6. Fine(<<>>, linked)
  BY FineEmpty
<1>7. \A k \in 1..Len(s) : Fine(s[k].buf, linked)
  BY <1>3, <1>4, <1>5, <1>6 DEF Sturdy
<1> QED
  BY <1>2, <1>3, <1>7 DEF Sturdy, NotEmpty

LEMMA SturdyStarred ==
  ASSUME NEW linked \in BOOLEAN, Fit(r), Sturdy(r, linked), TopFull(r), NEW n \in 1..4, NEW next
  PROVE  Sturdy(starred(n, next), linked) /\ NotEmpty(starred(n, next))
<1>1. ASSUME fused
      PROVE  Sturdy(closeTop(closeTop(r)), linked) /\ NotEmpty(closeTop(closeTop(r)))
  <2>1. Len(r.stack) >= 2 /\ r.stack # <<>>
    BY <1>1 DEF fused
  <2>2. Fit(closeTop(r)) /\ closeTop(r).stack # <<>>
    BY <2>1, CloseFit, CloseLeaves
  <2> QED
    BY <2>1, <2>2, SturdyClose
<1>2. ASSUME r.stack # <<>>
      PROVE  Sturdy(closeTop(r), linked) /\ NotEmpty(closeTop(r))
  BY <1>2, SturdyClose
<1>3. ASSUME canOpen(n, next)
      PROVE  Sturdy(push(n, r), linked) /\ NotEmpty(push(n, r))
  <2>1. n \in 1..maxRun
    BY <1>3 DEF canOpen, maxRun
  <2> QED
    BY <2>1, SturdyPush
<1>4. Sturdy(write(<<Typed(n)>>, r), linked) /\ NotEmpty(write(<<Typed(n)>>, r))
  BY TypedIsNoTag, FineOne, SturdyWrite
<1> QED
  BY <1>1, <1>2, <1>3, <1>4 DEF starred

(* A token leaves the innermost context full, unless it is the run that    *)
(* opened it.                                                              *)
LEMMA SturdyRendered ==
  ASSUME Fit(r), Sturdy(r, outer # <<>>), NEW e \in Items, e \notin Openers, e \notin Closers,
         e \in StarRuns => TopFull(r), NEW next
  PROVE  /\ Sturdy(rendered(e, next), outer # <<>>) /\ NotEmpty(rendered(e, next))
         /\ e \notin StarRuns => TopFull(rendered(e, next))
<1> DEFINE linked == outer # <<>>
<1>1. linked \in BOOLEAN
  OBVIOUS
<1>2. Fine(<<e>>, linked) /\ <<e>> # <<>> /\ Fine(<<e>>, FALSE)
  BY <1>1, FineOne
<1>3. CASE e \in CodeSpans /\ outer = <<>>
  <2> DEFINE s == <<"<code>", e, "</code>">>
  <2>1. "<code>" \in Openers /\ "</code>" \in Closers
    BY DEF Openers, Closers
  <2>2. s = <<"<code>">> \o <<e>> \o <<"</code>">>
    BY <2>1, TagFacts, Pairs, Triples
  <2>3. Fine(s, FALSE) /\ s # <<>>
    BY <1>2, <2>1, <2>2, FineAround, TagFacts
  <2>4. rendered(e, next) = write(s, r)
    BY <1>3 DEF rendered
  <2> HIDE DEF s
  <2>5. linked = FALSE
    BY <1>3
  <2> QED
    BY <2>3, <2>4, <2>5, SturdyWrite
<1>4. CASE ~(e \in CodeSpans /\ outer = <<>>) /\ e \in StarRuns
  <2>1. rendered(e, next) = starred(Run(e), next)
    BY <1>4 DEF rendered
  <2>2. Run(e) \in 1..4
    BY DEF Run
  <2> HIDE DEF linked
  <2>3. Sturdy(starred(Run(e), next), linked) /\ NotEmpty(starred(Run(e), next))
    BY <1>1, <1>4, <2>2, SturdyStarred DEF linked
  <2> QED
    BY <1>4, <2>1, <2>3 DEF linked
<1>5. CASE ~(e \in CodeSpans /\ outer = <<>>) /\ e \notin StarRuns
  <2>1. rendered(e, next) = write(<<e>>, r)
    BY <1>5 DEF rendered
  <2> QED
    BY <1>1, <1>2, <2>1, SturdyWrite
<1> QED
  BY <1>3, <1>4, <1>5

(* A star run finds a full context, for it does not follow another run;    *)
(* a link that ends has a text, and so has a line that is not empty.       *)
BalanceInv ==
  /\ Sturdy(r, outer # <<>>)
  /\ outer # <<>> => Sturdy(outer[1].r, FALSE)
  /\ Token \in Tokens \union {EndOfLine, EndOfText}
  /\ Token \in StarRuns => TopFull(r)
  /\ IF Front(line) = <<>> THEN r = NewRenderer /\ Token # EndOfText ELSE NotEmpty(r)

LEMMA SturdyNew == ASSUME NEW linked \in BOOLEAN PROVE Sturdy(NewRenderer, linked) /\ TopFull(NewRenderer)
<1>1. NewRenderer.stack = <<>> /\ NewRenderer.root = <<>> /\ Len(<<>>) = 0
  BY DEF NewRenderer
<1> QED
  BY <1>1, FineEmpty DEF Sturdy, TopFull

LEMMA SturdyUnlinked == ASSUME NEW x, NEW linked \in BOOLEAN, Sturdy(x, linked) PROVE Sturdy(x, FALSE)
  BY DEF Sturdy, Fine

LEMMA TokensAreNoTags ==
  /\ \A e \in Tokens \union {EndOfLine, EndOfText} : e \in Items /\ e \notin Openers /\ e \notin Closers
  /\ EndOfLine \notin StarRuns /\ EndOfText \notin StarRuns /\ EndOfText \notin Tokens
<1>1. \A e \in StarRuns \union CodeSpans \union Literals \union {"[", EndOfLine, EndOfText} :
        e \notin Openers /\ e \notin Closers
  BY DEF StarRuns, CodeSpans, Literals, EndOfLine, EndOfText, Openers, Closers
<1>2. EndOfLine \notin StarRuns /\ EndOfText \notin StarRuns /\ EndOfText \notin Tokens
  BY RenderAssumption DEF StarRuns, CodeSpans, Literals, EndOfLine, EndOfText
<1> QED
  BY <1>1, <1>2, RenderAssumption DEF Items

LEMMA InitBalance == Init => BalanceInv
<1> SUFFICES ASSUME Init PROVE BalanceInv
  OBVIOUS
<1>1. PICK first \in Tokens \union {EndOfLine} : line = <<first>>
  BY DEF Init
<1>2. Token = first
  BY <1>1 DEF Token, Last
<1>3. r = NewRenderer /\ outer = <<>>
  BY DEF Init
<1>4. Front(line) = <<>> /\ Token # EndOfText
  BY <1>1, <1>2, FrontOfOne, TokensAreNoTags DEF EndOfLine, EndOfText
<1> QED
  BY <1>2, <1>3, <1>4, SturdyNew DEF BalanceInv

LEMMA StepBalance == RenderInv /\ BalanceInv /\ Step => BalanceInv'
<1> SUFFICES ASSUME RenderInv, BalanceInv, Step PROVE BalanceInv'
  OBVIOUS
<1>1. PICK next \in IF outer = <<>> THEN After(Token, Tokens, EndOfLine)
                    ELSE After(Token, TextTokens, EndOfText) :
        r' = rendered(Token, next) /\ line' = Append(line, next)
  BY DEF Step
<1>2. next \in Tokens \union {EndOfLine, EndOfText} /\ next \in Items
  <2>1. next \in Tokens \union {EndOfLine, EndOfText}
    BY <1>1 DEF After, TextTokens
  <2> QED
    BY <2>1, TokensAreNoTags
<1>3. Token \in StarRuns => next \notin StarRuns
  <2>1. \A tokens, end : Token \in StarRuns /\ next \in After(Token, tokens, end) => next = end \/ next \notin StarRuns
    BY DEF After
  <2> QED
    BY <1>1, <2>1, TokensAreNoTags
<1>4. Fit(r) /\ line \in Seq(Items) /\ Token \in Items /\ Token \notin Openers /\ Token \notin Closers
  BY TokensAreNoTags DEF RenderInv, BalanceInv
<1>5. Token' = next
  BY <1>1, <1>2, <1>4, LastOfAppend DEF Token
<1>6. /\ Sturdy(rendered(Token, next), outer # <<>>) /\ NotEmpty(rendered(Token, next))
      /\ Token \notin StarRuns => TopFull(rendered(Token, next))
  BY <1>4, SturdyRendered DEF BalanceInv
<1>7. outer' = outer
  BY DEF Step
<1>8. Sturdy(r', outer' # <<>>) /\ NotEmpty(r') /\ (Token \notin StarRuns => TopFull(r'))
  BY <1>1, <1>6, <1>7
<1>9. Front(line') # <<>>
  BY <1>1, <1>2, <1>4, FrontOfConcat DEF RenderInv
<1> QED
  BY <1>2, <1>3, <1>5, <1>7, <1>8, <1>9 DEF BalanceInv, Front

LEMMA OpenBalance == RenderInv /\ BalanceInv /\ OpenLink => BalanceInv'
<1> SUFFICES ASSUME RenderInv, BalanceInv, OpenLink PROVE BalanceInv'
  OBVIOUS
<1>1. PICK first \in TextTokens : line' = <<first>>
  BY DEF OpenLink
<1>2. outer' = <<[line |-> line, r |-> r]>> /\ r' = NewRenderer
  BY DEF OpenLink
<1>3. outer'[1].r = r /\ outer' # <<>>
  BY <1>2
<1>4. Token' = first /\ first \in Tokens /\ first # EndOfText
  <2>1. Last(line') = first
    BY <1>1 DEF Last
  <2> QED
    BY <2>1, TokensAreNoTags DEF Token, TextTokens
<1>5. Sturdy(r, FALSE)
  BY SturdyUnlinked DEF BalanceInv
<1>6. Sturdy(r', TRUE) /\ TopFull(r')
  BY <1>2, SturdyNew
<1>7. Front(line') = <<>>
  <2>1. first \in Items
    BY <1>4, TokensAreNoTags
  <2> QED
    BY <1>1, <2>1, FrontOfOne
<1> QED
  BY <1>2, <1>3, <1>4, <1>5, <1>6, <1>7 DEF BalanceInv, Front

LEMMA SpillBalance == RenderInv /\ BalanceInv /\ Spill => BalanceInv'
<1> SUFFICES ASSUME RenderInv, BalanceInv, Spill PROVE BalanceInv'
  OBVIOUS
<1>1. Sturdy(spill(r), outer # <<>>) /\ NotEmpty(spill(r))
  BY SturdySpill DEF RenderInv, BalanceInv, Spill
<1>2. r' = spill(r) /\ line' = line /\ outer' = outer /\ Token \in {EndOfText, EndOfLine}
  BY DEF Spill
<1>3. Token' = Token
  BY <1>2 DEF Token, Last
<1>4. Sturdy(r', outer' # <<>>) /\ NotEmpty(r')
  BY <1>1, <1>2
<1>5. Front(line) # <<>>
  BY DEF BalanceInv, NewRenderer, Spill
<1> QED
  BY <1>2, <1>3, <1>4, <1>5, TokensAreNoTags DEF BalanceInv, Front

LEMMA CloseBalance == RenderInv /\ BalanceInv /\ CloseLink => BalanceInv'
<1> SUFFICES ASSUME RenderInv, BalanceInv, CloseLink PROVE BalanceInv'
  OBVIOUS
<1>1. PICK l \in Seq(Items), x \in Renderers : Fit(x) /\ outer = <<[line |-> l, r |-> x]>>
  BY DEF CloseLink, RenderInv, OuterFit
<1>2. outer[1].line = l /\ outer[1].r = x /\ outer # <<>>
  BY <1>1
<1>3. PICK next \in After(Token, Tokens, EndOfLine) : line' = l \o line \o <<next>>
  BY <1>2 DEF CloseLink
<1>4. next \in Tokens \union {EndOfLine} /\ next \in Items
  <2>1. next \in Tokens \union {EndOfLine}
    BY DEF After
  <2> QED
    BY <2>1, TokensAreNoTags
<1> DEFINE s == <<"<a>">> \o r.root \o <<"</a>">>
<1>5. r' = write(s, x) /\ outer' = <<>> /\ r.stack = <<>> /\ Token = EndOfText
  BY <1>2 DEF CloseLink
<1>6. Fine(s, FALSE) /\ s # <<>>
  <2>1. r.root # <<>> /\ Fine(r.root, TRUE) /\ Fine(r.root, FALSE)
    BY <1>2, <1>5 DEF BalanceInv, NotEmpty, Sturdy, Fine
  <2>2. "<a>" \in Openers /\ "</a>" \in Closers
    BY DEF Openers, Closers
  <2> QED
    BY <2>1, <2>2, FineAround, TagFacts
<1> HIDE DEF s
<1>7. Sturdy(x, FALSE)
  BY <1>2 DEF BalanceInv
<1>8. Sturdy(write(s, x), FALSE) /\ TopFull(write(s, x)) /\ NotEmpty(write(s, x))
  BY <1>1, <1>6, <1>7, SturdyWrite
<1>9. Token' = next
  <2>1. l \o line \in Seq(Items)
    BY <1>1 DEF RenderInv
  <2>2. Last(l \o line \o <<next>>) = next
    BY <1>4, <2>1, FrontOfConcat
  <2> QED
    BY <1>3, <2>2 DEF Token
<1>10. Sturdy(r', FALSE) /\ TopFull(r') /\ NotEmpty(r') /\ (outer' # <<>>) = FALSE
  BY <1>5, <1>8
<1>11. Front(line') # <<>>
  <2>1. l \o line \in Seq(Items) /\ l \o line # <<>>
    BY <1>1 DEF RenderInv
  <2> QED
    BY <1>3, <1>4, <2>1, FrontOfConcat
<1> QED
  BY <1>4, <1>5, <1>9, <1>10, <1>11 DEF BalanceInv, Front

(* Bold around nothing is in order, but is an empty entity. *)
LEMMA BoldOfNothing == Nests(<<"<b>", "</b>">>) /\ ~NoneEmpty(<<"<b>", "</b>">>)
<1> DEFINE s == <<"<b>", "</b>">>
           g == [n \in 0..2 |-> IF n = 1 THEN <<"<b>">> ELSE <<>>]
<1>1. "<b>" \in Openers /\ "</b>" \in Closers /\ OpenedBy("</b>") = "<b>"
  BY TagFacts DEF Openers, Closers
<1>2. "</b>" \notin Openers /\ "<b>" \in Items /\ "</b>" \in Items
  BY <1>1, TagFacts
<1>3. Len(s) = 2 /\ s[1] = "<b>" /\ s[2] = "</b>" /\ s \in Seq(Items)
  BY <1>2
<1>4. <<>> \in Seq(Marks) /\ <<"<b>">> \in Seq(Marks)
  BY <1>1 DEF Marks
<1>5. OpenAfter(<<>>, "<b>") = <<"<b>">> /\ OpenAfter(<<"<b>">>, "</b>") = <<>>
  <2>1. Append(<<>>, "<b>") = <<"<b>">> /\ <<"<b>">> # <<>> /\ Last(<<"<b>">>) = "<b>"
    BY DEF Last
  <2>2. SubSeq(<<"<b>">>, 1, Len(<<"<b>">>) - 1) = <<>>
    OBVIOUS
  <2> QED
    BY <1>1, <1>2, <2>1, <2>2 DEF OpenAfter
<1>6. /\ g[0] = <<>> /\ g[1] = <<"<b>">> /\ g[2] = <<>> /\ DOMAIN g = 0..2
      /\ g \in [0..Len(s) -> Seq(Marks)]
  BY <1>3, <1>4
<1> HIDE DEF s, g
<1>7. IsTrace(g, Reading, <<>>, s)
  <2>1. \A n \in 1..2 : n = 1 \/ n = 2
    OBVIOUS
  <2>2. Reading[<<>>]["<b>"] = OpenAfter(<<>>, "<b>") /\ Reading[<<"<b>">>]["</b>"] = OpenAfter(<<"<b>">>, "</b>")
    BY <1>2, <1>4 DEF Reading
  <2> QED
    BY <1>3, <1>5, <1>6, <2>1, <2>2 DEF IsTrace
<1>8. \A n \in 0..2 : OpenTags(s)[n] = g[n]
  <2>1. \A n \in 0..Len(s) : OpenTags(s)[n] = g[n]
    BY <1>3, <1>6, <1>7, OpenTagsTrace
  <2> QED
    BY <1>3, <2>1
<1>9. Nests(s)
  <2>1. \A n \in 1..2 : s[n] # "<code>"
    BY <1>3
  <2> QED
    BY <1>3, <1>6, <1>8, <2>1 DEF Nests
<1>10. ~NoneEmpty(s)
  BY <1>1, <1>3 DEF NoneEmpty
<1> QED
  BY <1>9, <1>10 DEF s

(* In the output of every line, of any length and of any tokens, tags are  *)
(* closed in the order they were opened in, none is around nothing, and no *)
(* code is in a link; the same holds when bold is taken out of the line    *)
(* and put around it for a heading, but that the heading of no text, which *)
(* is what TrimRight leaves of one of blanks alone, and of no other, is    *)
(* the bold of nothing (tghtml.go:38-61, 250-282).                         *)
THEOREM AlwaysBalanced == Spec => []Balanced
<1> DEFINE Inv == RenderInv /\ BalanceInv
<1>1. Init => Inv
  BY InitRender, InitBalance
<1>2. Inv /\ [Next]_rvars => Inv'
  <2> SUFFICES ASSUME RenderInv, BalanceInv, [Next]_rvars PROVE Inv'
    OBVIOUS
  <2>1. RenderInv'
    BY NextRender
  <2>2. ASSUME UNCHANGED rvars PROVE BalanceInv'
    <3>1. line' = line /\ r' = r /\ outer' = outer
      BY <2>2 DEF rvars
    <3>2. Token' = Token
      BY <3>1 DEF Token, Last
    <3> QED
      BY <3>1, <3>2 DEF BalanceInv
  <2> QED
    BY <2>1, <2>2, StepBalance, OpenBalance, SpillBalance, CloseBalance DEF Next
<1>3. Inv => Balanced
  <2> SUFFICES ASSUME BalanceInv, Finished
               PROVE  /\ Nests(r.root) /\ NoneEmpty(r.root) /\ Nests(Heading(r.root))
                      /\ NoneEmpty(Heading(r.root)) <=> Front(line) # <<>>
    BY DEF Balanced
  <2> DEFINE p == boldStripper(r.root)
  <2>1. Proper(r.root) /\ Proper(p) /\ (r.root # <<>> => p # <<>>)
    BY DEF BalanceInv, Sturdy, Fine
  <2>2. Nests(r.root) /\ NoneEmpty(r.root)
    BY <2>1, ProperNests
  <2>3. r.root # <<>> <=> Front(line) # <<>>
    BY DEF BalanceInv, NotEmpty, NewRenderer, Finished
  <2>4. Heading(r.root) = <<"<b>">> \o p \o <<"</b>">>
    BY DEF Heading
  <2>5. CASE r.root = <<>>
    <3>1. p = <<>>
      BY <2>5, StripperIs
    <3>2. <<"<b>">> \o <<>> \o <<"</b>">> = <<"<b>", "</b>">>
      <4>1. <<"<b>">> \o <<>> = <<"<b>">>
        OBVIOUS
      <4> QED
        BY <4>1, TagFacts, Pairs DEF Openers, Closers
    <3>3. Heading(r.root) = <<"<b>", "</b>">>
      <4> HIDE DEF p
      <4> QED
        BY <2>4, <3>1, <3>2
    <3> QED
      BY <2>2, <2>3, <2>5, <3>3, BoldOfNothing
  <2>6. CASE p # <<>>
    <3>1. "<b>" \in Openers /\ "</b>" \in Closers /\ OpenedBy("</b>") = "<b>" /\ "<b>" # "<a>"
      BY TagFacts DEF Openers, Closers
    <3> HIDE DEF p
    <3>2. Proper(<<"<b>">> \o p \o <<"</b>">>)
      BY <2>1, <2>6, <3>1, ProperAround
    <3>3. Nests(Heading(r.root)) /\ NoneEmpty(Heading(r.root))
      BY <2>4, <3>2, ProperNests
    <3>4. r.root # <<>>
      BY <2>6, StripperIs DEF p
    <3> QED
      BY <2>2, <2>3, <3>3, <3>4
  <2> QED
    BY <2>1, <2>5, <2>6
<1> QED
  BY <1>1, <1>2, <1>3, PTL DEF Spec

-----------------------------------------------------------------------------
(* ChatMap *)

(* What validate promises of a map, whatever is done with it after.        *)
LEMMA ValidNames ==
  ASSUME NEW m, validate(m), NEW c \in DOMAIN m
  PROVE  /\ singleChat(m, chatNamer(m, c).customer, chatNamer(m, c).label) = {c}
         /\ \A d \in ByPublic(m, m[c].public) : d = c
<1>1. c \in ByCustomer(m, m[c].customer)
  BY DEF ByCustomer
<1>2. CASE ByCustomer(m, m[c].customer) = {c}
  BY <1>2 DEF validate, singleChat, chatNamer, ByPublic
<1>3. CASE ByCustomer(m, m[c].customer) # {c}
  <2>1. PICK d \in ByCustomer(m, m[c].customer) : d # c
    BY <1>1, <1>3
  <2>2. m[c].label # Empty
    BY <2>1 DEF ByCustomer, validate, Same
  <2>3. \A e \in ByCustomer(m, m[c].customer) : m[e].label = m[c].label => e = c
    BY DEF ByCustomer, validate, Same
  <2>4. singleChat(m, m[c].customer, m[c].label) = {c}
    BY <1>1, <2>2, <2>3 DEF singleChat
  <2> QED
    BY <1>3, <2>4 DEF chatNamer, ByPublic, validate
<1> QED
  BY <1>2, <1>3

(* What the agent was shown is stored, in a mapped chat, under its name.   *)
IsSeen(s) ==
  /\ s.chat \in DOMAIN chats /\ s.name = chatNamer(chats, s.chat)
  /\ [chat |-> s.chat, id |-> s.id] \in stored

(* The group of the message answered is asked, or was and holds it; named  *)
(* by its own name it is the only one.                                     *)
Resolving ==
  /\ call = [at |-> "asking", seen |-> call.seen, named |-> call.named,
              found |-> call.found, left |-> call.left]
  /\ IsSeen(call.seen)
  /\ call.seen.chat \in call.left \union call.found
  /\ call.named => call.left \union call.found \subseteq {call.seen.chat}

Resolved ==
  /\ call.target \in {call.seen.chat, NoChat}
  /\ call.named => call.target # NoChat

MapInv ==
  /\ up \in BOOLEAN
  /\ validate(chats) /\ DOMAIN chats \subseteq ChatIds
  /\ DOMAIN chats \subseteq DOMAIN table
  /\ \A c \in DOMAIN table : table[c] # Empty
  /\ stored \subseteq [chat : ChatIds, id : MessageIds]
  /\ \A m \in stored : m.chat \in DOMAIN table
  /\ \A s \in seen : IsSeen(s)
  /\ ~up => seen = {} /\ call = Idle
  /\ call.at = "asking" => Resolving
  /\ call.at = "done" => Resolved

-----------------------------------------------------------------------------
LEMMA NothingLoaded == DOMAIN NoMap = {} /\ validate(NoMap) /\ Idle.at # "asking" /\ Idle.at # "done"
<1>1. DOMAIN NoMap = {}
  BY DEF NoMap
<1>2. validate(NoMap)
  BY <1>1 DEF validate
<1>3. Idle.at = "idle"
  BY DEF Idle
<1> QED
  BY <1>1, <1>2, <1>3

LEMMA InitMapInv == MapInit => MapInv
<1> SUFFICES ASSUME MapInit PROVE MapInv
  OBVIOUS
<1>1. up = FALSE /\ chats = NoMap /\ table = NoMap /\ stored = {} /\ seen = {} /\ call = Idle
  BY DEF MapInit
<1> QED
  BY <1>1, NothingLoaded DEF MapInv

LEMMA StartInv == MapInv /\ Start => MapInv'
<1> SUFFICES ASSUME MapInv, Start PROVE MapInv'
  OBVIOUS
<1>1. PICK m \in Maps : validate(m) /\ chats' = m /\ table' = SyncChats(m)
  BY DEF Start
<1>2. DOMAIN m \subseteq ChatIds
  BY DEF Maps
<1>3. up' = TRUE /\ seen' = {} /\ call' = Idle /\ stored' = stored
  BY DEF Start, MapInv
<1>4. DOMAIN table' = DOMAIN table \union DOMAIN m
  BY <1>1 DEF SyncChats
<1>5. \A c \in DOMAIN table' : table'[c] # Empty
  <2>1. \A c \in DOMAIN m : m[c].customer # Empty
    BY <1>1 DEF validate
  <2> QED
    BY <1>1, <1>4, <2>1 DEF SyncChats, MapInv
<1>6. Idle.at # "asking" /\ Idle.at # "done"
  BY DEF Idle
<1>7. validate(chats)'
  BY <1>1 DEF validate, Same
<1> QED
  BY <1>1, <1>2, <1>3, <1>4, <1>5, <1>6, <1>7 DEF MapInv

LEMMA StopInv == MapInv /\ Stop => MapInv'
<1> SUFFICES ASSUME MapInv, Stop PROVE MapInv'
  OBVIOUS
<1>1. /\ up' = FALSE /\ chats' = NoMap /\ table' = table
      /\ stored' = stored /\ seen' = {} /\ call' = Idle
  BY DEF Stop
<1>2. validate(chats)'
  BY <1>1, NothingLoaded DEF validate, Same
<1> QED
  BY <1>1, <1>2, NothingLoaded DEF MapInv

LEMMA IngestInv == MapInv /\ Ingest => MapInv'
<1> SUFFICES ASSUME MapInv, Ingest PROVE MapInv'
  OBVIOUS
<1>1. PICK c \in DOMAIN chats, i \in MessageIds : stored' = stored \union {[chat |-> c, id |-> i]}
  BY DEF Ingest
<1>2. UNCHANGED <<up, chats, table, seen, call>>
  BY DEF Ingest
<1>3. stored' \subseteq [chat : ChatIds, id : MessageIds] /\ \A m \in stored' : m.chat \in DOMAIN table
  BY <1>1 DEF MapInv
<1>4. ASSUME NEW s, IsSeen(s) PROVE IsSeen(s)'
  BY <1>1, <1>2, <1>4 DEF IsSeen, chatNamer, ByCustomer
<1>5. (call.at = "asking" => Resolving)' /\ (\A s \in seen : IsSeen(s))'
  BY <1>2, <1>4 DEF MapInv, Resolving
<1>6. validate(chats)' /\ (call.at = "done" => Resolved)'
  BY <1>2 DEF MapInv, Resolved, validate, Same
<1> QED
  BY <1>2, <1>3, <1>5, <1>6 DEF MapInv

LEMMA ShowInv == MapInv /\ Show => MapInv'
<1> SUFFICES ASSUME MapInv, Show PROVE MapInv'
  OBVIOUS
<1>1. UNCHANGED <<up, chats, table, stored, call>> /\ up = TRUE
  BY DEF Show, MapInv
<1>2. PICK customer, label :
        seen' = seen \union
          {[chat |-> m.chat, id |-> m.id, name |-> chatNamer(chats, m.chat)] :
             m \in {n \in stored : n.chat \in chatIDs(chats, customer, label)}}
  BY DEF Show
<1>3. chatIDs(chats, customer, label) \subseteq DOMAIN chats
  BY DEF chatIDs, singleChat, ByCustomer
<1>4. \A m \in stored : [chat |-> m.chat, id |-> m.id] \in stored
  BY DEF MapInv
<1>5. ASSUME NEW s \in seen' PROVE IsSeen(s)
  <2>1. CASE s \in seen
    BY <2>1 DEF MapInv
  <2>2. CASE s \notin seen
    <3>1. PICK m \in {n \in stored : n.chat \in chatIDs(chats, customer, label)} :
            s = [chat |-> m.chat, id |-> m.id, name |-> chatNamer(chats, m.chat)]
      BY <1>2, <1>5, <2>2
    <3> QED
      BY <1>3, <1>4, <3>1 DEF IsSeen
  <2> QED
    BY <2>1, <2>2
<1>6. \A s : IsSeen(s) => IsSeen(s)'
  BY <1>1 DEF IsSeen, chatNamer, ByCustomer
<1>7. validate(chats)' /\ (call.at = "done" => Resolved)' /\ (call.at = "asking" => Resolving)'
  BY <1>1, <1>6 DEF MapInv, Resolved, Resolving, validate, Same
<1> QED
  BY <1>1, <1>5, <1>6, <1>7 DEF MapInv

(* Steps of a call change nothing else. *)
LEMMA CallSteps ==
  ASSUME MapInv, UNCHANGED <<up, chats, table, stored, seen>>, up = TRUE \/ call' = Idle,
         (call.at = "asking" => Resolving)', (call.at = "done" => Resolved)'
  PROVE  MapInv'
<1>1. \A s : IsSeen(s) => IsSeen(s)'
  BY DEF IsSeen, chatNamer, ByCustomer
<1>2. validate(chats)'
  BY DEF MapInv, validate, Same
<1> QED
  BY <1>1, <1>2 DEF MapInv

(* Its group is among those an address of a message seen may mean.         *)
LEMMA ReplyInv == MapInv /\ Reply => MapInv'
<1> SUFFICES ASSUME MapInv, Reply PROVE MapInv'
  OBVIOUS
<1>1. PICK s \in seen, label \in Labels \union {Empty} :
        /\ label \in {s.name.label, Empty}
        /\ call' = [at |-> "asking", seen |-> s, named |-> label = s.name.label, found |-> {},
                    left |-> singleChat(chats, s.name.customer, label)]
  BY DEF Reply
<1>2. UNCHANGED <<up, chats, table, stored, seen>> /\ up = TRUE
  BY DEF Reply, MapInv
<1>3. IsSeen(s) /\ IsSeen(s)'
  BY <1>2 DEF MapInv, IsSeen, chatNamer, ByCustomer
<1>4. s.name.customer = chats[s.chat].customer /\ s.chat \in DOMAIN chats /\ s.name = chatNamer(chats, s.chat)
  BY <1>3 DEF IsSeen, chatNamer
<1>5. singleChat(chats, s.name.customer, s.name.label) = {s.chat}
  BY <1>4, ValidNames DEF MapInv
<1>6. s.chat \in singleChat(chats, s.name.customer, Empty)
  BY <1>4 DEF singleChat, ByCustomer
<1>7. Resolving' /\ call'.at = "asking"
  BY <1>1, <1>3, <1>5, <1>6 DEF Resolving
<1> QED
  BY <1>2, <1>7, CallSteps

LEMMA AskInv == MapInv /\ Ask => MapInv'
<1> SUFFICES ASSUME MapInv, Ask PROVE MapInv'
  OBVIOUS
<1>1. Resolving
  BY DEF Ask, MapInv
<1>2. PICK c \in call.left :
       call' = [at |-> "asking", seen |-> call.seen, named |-> call.named,
                left |-> call.left \ {c},
                found |-> call.found \union {d \in {c} : [chat |-> d, id |-> call.seen.id] \in stored}]
  BY DEF Ask
<1>3. UNCHANGED <<up, chats, table, stored, seen>> /\ up = TRUE
  BY DEF Ask, MapInv, Idle
<1>4. /\ call'.at = "asking" /\ call'.seen = call.seen /\ call'.named = call.named
      /\ call'.left = call.left \ {c} /\ call'.found \in {call.found, call.found \union {c}}
      /\ c = call.seen.chat => call'.found = call.found \union {c}
      /\ call' = [at |-> "asking", seen |-> call.seen, named |-> call.named,
                   found |-> call'.found, left |-> call'.left]
  BY <1>1, <1>2 DEF Resolving, IsSeen
<1>5. IsSeen(call.seen)'
  BY <1>1, <1>3, <1>4 DEF Resolving, IsSeen, chatNamer, ByCustomer
<1>6. Resolving'
  BY <1>1, <1>2, <1>4, <1>5 DEF Resolving
<1> QED
  BY <1>3, <1>4, <1>6, CallSteps

(* Exactly one group holds it: the group it was seen in. *)
LEMMA AnswerInv == MapInv /\ Answer => MapInv'
<1> SUFFICES ASSUME MapInv, Answer PROVE MapInv'
  OBVIOUS
<1>1. Resolving /\ call.left = {} /\ up = TRUE
  BY DEF Answer, MapInv, Idle
<1>2. call.seen.chat \in call.found /\ (call.named => call.found = {call.seen.chat})
  BY <1>1 DEF Resolving
<1>3. PICK c \in IF pinned(call.found) = {} THEN {NoChat} ELSE pinned(call.found) :
        call' = [at |-> "done", seen |-> call.seen, named |-> call.named, target |-> c]
  BY DEF Answer
<1>4. UNCHANGED <<up, chats, table, stored, seen>>
  BY DEF Answer
<1>5. call.seen.chat # NoChat
  BY <1>1, ChatMapAssumption DEF MapInv, Resolving, IsSeen
<1>6. c \in {call.seen.chat, NoChat} /\ (call.named => c # NoChat)
  BY <1>2, <1>3, <1>5 DEF pinned
<1>7. Resolved' /\ call'.at = "done"
  BY <1>3, <1>6 DEF Resolved
<1> QED
  BY <1>1, <1>4, <1>7, CallSteps

LEMMA DoneInv == MapInv /\ Done => MapInv'
  BY CallSteps DEF Done, Idle

LEMMA StutterMapInv == MapInv /\ UNCHANGED mapvars => MapInv'
<1> SUFFICES ASSUME MapInv, UNCHANGED mapvars PROVE MapInv'
  OBVIOUS
<1>1. UNCHANGED <<up, chats, table, stored, seen, call>>
  BY DEF mapvars
<1>2. \A s : IsSeen(s) => IsSeen(s)'
  BY <1>1 DEF IsSeen, chatNamer, ByCustomer
<1>3. validate(chats)' /\ (call.at = "done" => Resolved)' /\ (call.at = "asking" => Resolving)'
  BY <1>1, <1>2 DEF MapInv, Resolved, Resolving, validate, Same
<1> QED
  BY <1>1, <1>2, <1>3 DEF MapInv

(* MapInv is inductive. *)
THEOREM MapInvariant == MapSpec => []MapInv
<1>1. MapInv /\ [MapNext]_mapvars => MapInv'
  BY StartInv, StopInv, IngestInv, ShowInv, ReplyInv, AskInv, AnswerInv, DoneInv, StutterMapInv DEF MapNext
<1> QED
  BY <1>1, InitMapInv, PTL DEF MapSpec

(* Every group of a running process is reached by the name the tools show  *)
(* for it, and by no other group's alias (config.go:71-122).               *)
THEOREM NamesAlwaysLeadBack == MapSpec => []NamesLeadBack
<1>1. MapInv => NamesLeadBack
  <2> SUFFICES ASSUME validate(chats), NEW c \in DOMAIN chats
               PROVE  /\ LET n == chatNamer(chats, c) IN singleChat(chats, n.customer, n.label) = {c}
                      /\ \A d \in ByPublic(chats, chats[c].public) : d = c
    BY DEF MapInv, NamesLeadBack
  <2> QED
    BY ValidNames
<1> QED
  BY <1>1, MapInvariant, PTL

(* A reply to a message seen goes to its group or is refused, and is not   *)
(* refused under the name the message was shown with (tools.go:278-329).   *)
THEOREM RepliesLandWhereSeen == MapSpec => []LandsWhereSeen
<1>1. MapInv => LandsWhereSeen
  BY DEF MapInv, Resolved, LandsWhereSeen
<1> QED
  BY <1>1, MapInvariant, PTL

(* Through restarts with any maps every message keeps a chat row with a    *)
(* customer (store.go:252-254).                                            *)
THEOREM HistoryAlwaysKeepsCustomer == MapSpec => []HistoryKeepsCustomer
<1>1. MapInv => HistoryKeepsCustomer
  BY DEF MapInv, HistoryKeepsCustomer
<1> QED
  BY <1>1, MapInvariant, PTL
=============================================================================
