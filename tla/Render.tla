------------------------------- MODULE Render -------------------------------
(***************************************************************************)
(* One line of a reply rendered into Telegram's HTML (pkg/tghtml): the     *)
(* pass over the tokens with its stack of open emphasis, and the renderer  *)
(* of its own that every link text gets.                                   *)
(*                                                                         *)
(* A token is one element: a word, a punctuation mark, a run of blanks,    *)
(* a run of stars, a code span (its content ending in a letter or in a     *)
(* blank), the two ends of a link.  What tokenize leaves literal is a      *)
(* punctuation mark here; escaping changes no element.                     *)
(***************************************************************************)
EXTENDS Naturals, Sequences

CONSTANTS
  Tokens,    \* the tokens lines are made of
  MaxTokens  \* bound: tokens in a line

StarRuns == {"*", "**", "***", "****"}
CodeSpans == {"code a", "code a "}
Literals == {"a", ".", " "}
TextTokens == Tokens \ {"["}  \* of a link
EndOfLine == "end"
EndOfText == "]"

Run(e) == IF e = "*" THEN 1 ELSE IF e = "**" THEN 2 ELSE IF e = "***" THEN 3 ELSE 4
Typed(n) == IF n = 1 THEN "*" ELSE IF n = 2 THEN "**" ELSE IF n = 3 THEN "***" ELSE "****"
maxRun == 3

ASSUME RenderAssumption ==
  MaxTokens \in Nat /\ Tokens \subseteq StarRuns \union CodeSpans \union Literals \union {"["}

VARIABLES
  line,   \* the tokens read; all but the last are rendered
  r,      \* the renderer: stack of frames [run, buf], root
  outer   \* the line and the renderer around the link text, <<>>: none

rvars == <<line, r, outer>>

NewRenderer == [stack |-> <<>>, root |-> <<>>]
Last(s) == s[Len(s)]
Front(s) == SubSeq(s, 1, Len(s) - 1)
Token == Last(line)
Finished == Token = EndOfLine /\ r.stack = <<>>

-----------------------------------------------------------------------------
(* The characters around the token, none at either end of the segment.  A  *)
(* code span shows its backticks, a link its brackets.                     *)
Follows(next, class) ==
  CASE class = "none"  -> next \in {EndOfLine, EndOfText}
    [] class = "space" -> next = " "
    [] class = "punct" -> next \in {".", "["} \union CodeSpans

Prev(class) ==
  IF Len(line) = 1 THEN class = "none"
  ELSE LET e == line[Len(line) - 1]
       IN  CASE class = "none"  -> FALSE
             [] class = "space" -> e = " "
             [] class = "punct" -> e \in {".", EndOfText} \union CodeSpans

(* The character before prev exists and is no blank. *)
wedged ==
  /\ Len(line) > 1
  /\ LET e == line[Len(line) - 1]
     IN  \/ e \in {"code a", EndOfText}
         \/ e \in Literals /\ Len(line) > 2 /\ line[Len(line) - 2] \notin {" "}

lone(n, punct) == n = 1 /\ punct

canClose(n, next) ==
  /\ n <= maxRun /\ ~Prev("none") /\ ~Prev("space") /\ ~lone(n, Prev("punct"))
  /\ \/ ~Prev("punct")
     \/ \E class \in {"none", "space", "punct"} : Follows(next, class)

canOpen(n, next) ==
  /\ n <= maxRun /\ ~Follows(next, "none") /\ ~Follows(next, "space")
  /\ ~lone(n, Follows(next, "punct"))
  /\ \/ Prev("none") \/ Prev("space")
     \/ Prev("punct") /\ ~lone(n, TRUE) /\ ~wedged

-----------------------------------------------------------------------------
openTag(n) == IF n = 1 THEN <<"<i>">> ELSE IF n = 2 THEN <<"<b>">> ELSE <<"<b>", "<i>">>
closeTag(n) == IF n = 1 THEN <<"</i>">> ELSE IF n = 2 THEN <<"</b>">> ELSE <<"</i>", "</b>">>

write(s, x) ==
  IF x.stack = <<>> THEN [stack |-> <<>>, root |-> x.root \o s]
  ELSE LET f == Last(x.stack)
       IN  [stack |-> [x.stack EXCEPT ![Len(x.stack)] = [run |-> f.run, buf |-> f.buf \o s]],
            root |-> x.root]

pop(x) == [stack |-> SubSeq(x.stack, 1, Len(x.stack) - 1), root |-> x.root]

push(n, x) == [stack |-> Append(x.stack, [run |-> n, buf |-> <<>>]), root |-> x.root]

closeTop(x) ==
  LET f == Last(x.stack) IN write(openTag(f.run) \o f.buf \o closeTag(f.run), pop(x))

(* Mutant of spill: the frame's stars are forgotten. *)
spillBare(x) == LET f == Last(x.stack) IN write(f.buf, pop(x))

(* A context that is never closed goes back to what was typed. *)
spill(x) == LET f == Last(x.stack) IN write(<<Typed(f.run)>> \o f.buf, pop(x))

(* One run of three closes two contexts. *)
fused ==
  /\ Len(r.stack) >= 2
  /\ r.stack[Len(r.stack)].run + r.stack[Len(r.stack) - 1].run = maxRun

(* Mutant of isOpen: only the innermost context counts. *)
isOpenOnTop(n) == r.stack # <<>> /\ Last(r.stack).run = n

isOpen(n) ==
  IF n = maxRun THEN r.stack # <<>>
  ELSE \E k \in 1..Len(r.stack) : r.stack[k].run \in {n, maxRun}

(* Renderer.stars: close, or open, or leave as it was typed. *)
starred(n, next) ==
  LET closes == canClose(n, next)
  IN  IF closes /\ n = maxRun /\ fused THEN closeTop(closeTop(r))
      ELSE IF closes /\ r.stack # <<>> /\ Last(r.stack).run = n THEN closeTop(r)
      ELSE IF canOpen(n, next) /\ ~isOpen(n) THEN push(n, r)
      ELSE write(<<Typed(n)>>, r)

(* Mutant of rendered: a link text is rendered like the line. *)
renderedAlike(e, next) ==
  IF e \in CodeSpans THEN write(<<"<code>", e, "</code>">>, r)
  ELSE IF e \in StarRuns THEN starred(Run(e), next)
  ELSE write(<<e>>, r)

(* A token that is no link; code keeps its backticks inside a link. *)
rendered(e, next) ==
  IF e \in CodeSpans /\ outer = <<>> THEN write(<<"<code>", e, "</code>">>, r)
  ELSE IF e \in StarRuns THEN starred(Run(e), next)
  ELSE write(<<e>>, r)

(* What lines and output are made of. *)
Openers == {"<b>", "<i>", "<a>", "<code>"}
Closers == {"</b>", "</i>", "</a>", "</code>"}
Items == Tokens \union StarRuns \union {EndOfLine, EndOfText} \union Openers \union Closers

(* The items of s, each replaced by a sequence of its own. *)
Replaced(s, by) ==
  LET upTo[n \in 0..Len(s)] == IF n = 0 THEN <<>> ELSE upTo[n - 1] \o by[s[n]]
  IN  upTo[Len(s)]

boldStripper(s) == Replaced(s, [e \in Items |-> IF e \in {"<b>", "</b>"} THEN <<>> ELSE <<e>>])

(* The text of a heading.  A run of blanks, spaces or tabs, is one token,  *)
(* so one cut takes all there are at the end.                              *)
TrimRight(s) == IF s # <<>> /\ Last(s) = " " THEN Front(s) ELSE s

(* What a heading of that text is, from the output s of the pass over it:  *)
(* in bold, without the bold in it.                                        *)
Heading(s) == <<"<b>">> \o boldStripper(s) \o <<"</b>">>

-----------------------------------------------------------------------------
Length == Len(line) + IF outer = <<>> THEN 0 ELSE Len(outer[1].line)

(* What may follow the token just read: words and runs are maximal, and a  *)
(* mark before a mark would count as the word that may stand there.        *)
After(e, tokens, end) ==
  {end} \union (IF Length >= MaxTokens THEN {}
                ELSE tokens \ (IF e \in StarRuns THEN StarRuns ELSE {e}))

Init ==
  /\ \E first \in Tokens \union {EndOfLine} : line = <<first>>
  /\ r = NewRenderer /\ outer = <<>>

Step ==
  /\ Token \notin {"[", EndOfText, EndOfLine}
  /\ \E next \in IF outer = <<>> THEN After(Token, Tokens, EndOfLine)
                 ELSE After(Token, TextTokens, EndOfText) :
       r' = rendered(Token, next) /\ line' = Append(line, next)
  /\ UNCHANGED outer

(* renderLinkText: a renderer of its own, over the text alone. *)
OpenLink ==
  /\ Token = "["
  /\ \E first \in TextTokens : line' = <<first>>
  /\ outer' = <<[line |-> line, r |-> r]>>
  /\ r' = NewRenderer

Spill ==
  /\ Token \in {EndOfText, EndOfLine} /\ r.stack # <<>>
  /\ r' = spill(r)
  /\ UNCHANGED <<line, outer>>

CloseLink ==
  /\ Token = EndOfText /\ r.stack = <<>>
  /\ r' = write(<<"<a>">> \o r.root \o <<"</a>">>, outer[1].r)
  /\ \E next \in After(Token, Tokens, EndOfLine) : line' = outer[1].line \o line \o <<next>>
  /\ outer' = <<>>

Next == Step \/ OpenLink \/ Spill \/ CloseLink

Spec == Init /\ [][Next]_rvars

-----------------------------------------------------------------------------
OpenedBy(t) ==
  CASE t = "</b>" -> "<b>" [] t = "</i>" -> "<i>" [] t = "</a>" -> "<a>" [] t = "</code>" -> "<code>"
    [] OTHER -> "none"

(* The tags open after item e with those of x open before it, "none" for   *)
(* good after a closing tag that matches nothing.                          *)
OpenAfter(x, e) ==
  IF e \in Openers THEN Append(x, e)
  ELSE IF e \notin Closers THEN x
  ELSE IF x # <<>> /\ Last(x) = OpenedBy(e) THEN SubSeq(x, 1, Len(x) - 1)
  ELSE Append(x, "none")

OpenTags(s) ==
  LET open[n \in 0..Len(s)] == IF n = 0 THEN <<>> ELSE OpenAfter(open[n - 1], s[n]) IN open

Nests(s) ==
  LET open == OpenTags(s)
  IN  /\ open[Len(s)] = <<>>
      /\ \A n \in 1..Len(s) : s[n] = "<code>" => \A k \in DOMAIN open[n - 1] : open[n - 1][k] # "<a>"

NoneEmpty(s) == \A n \in 1..Len(s) : s[n] \in Openers => n < Len(s) /\ s[n + 1] \notin Closers

(* The line is one a heading can have for its text. *)
AsHeading == TrimRight(Front(line)) = Front(line)

(* Every tag is closed in the order Telegram demands and no code sits      *)
(* inside a link, whatever stars, code spans and links the line mixes, as  *)
(* plain line and as heading ("the result is always balanced",             *)
(* tghtml.go:38-61, 250-282).  No entity is empty but one: a heading of    *)
(* blanks alone has no text left after TrimRight and is the bold of        *)
(* nothing, <b></b> (tghtml.go:55); a heading with any text never is.      *)
Balanced ==
  Finished =>
    /\ Nests(r.root) /\ NoneEmpty(r.root)
    /\ AsHeading => /\ Nests(Heading(r.root))
                    /\ NoneEmpty(Heading(r.root)) <=> Front(line) # <<>>

(* What an item was typed as, stars one by one. *)
Source(e) ==
  CASE e \in {"<i>", "</i>", "*"} -> <<"*">>
    [] e \in {"<b>", "</b>", "**"} -> <<"*", "*">>
    [] e = "***" -> <<"*", "*", "*">>
    [] e = "****" -> <<"*", "*", "*", "*">>
    [] e = "<a>" -> <<"[">>
    [] e = "</a>" -> <<"]">>
    [] e \in {"<code>", "</code>", EndOfLine} -> <<>>
    [] OTHER -> <<e>>

Sources(s) == Replaced(s, [e \in Items |-> Source(e)])

(* With every tag turned back into the stars it stands for, the output is  *)
(* the line as it was typed: nothing is dropped, doubled or moved, and no  *)
(* star goes missing that no tag stands for, whichever contexts close,     *)
(* fuse or spill ("every rule fails toward literal text", tghtml.go:3-5).  *)
NothingRewritten == Finished => Sources(r.root) = Sources(line)

Distinct(stack) ==
  \A j, k \in 1..Len(stack) : j # k => stack[j].run # stack[k].run /\ stack[j].run # maxRun

(* No emphasis is open inside itself, and *** inside or around nothing, on *)
(* the stack of the line and on that of a link text each: the two          *)
(* innermost contexts sum to three only when they are ** and *, which one  *)
(* run of three may close (tghtml.go:320-342).  A link text knows nothing  *)
(* of the stack around it: in **[**a**](u)** bold is inside bold, which    *)
(* closes in order nonetheless (Balanced).                                 *)
NeverInsideItself == Distinct(r.stack) /\ (outer # <<>> => Distinct(outer[1].r.stack))

-----------------------------------------------------------------------------
(* Why nothing is rewritten, the inductive invariant of the proofs: output *)
(* and open contexts, each with its stars in front, are what was typed so  *)
(* far.  No more than two contexts are ever open.                          *)
Stars(n) == Source(Typed(n))
Open(f) == Stars(f.run) \o Sources(f.buf)

AsTyped(x) ==
  CASE Len(x.stack) = 0 -> Sources(x.root)
    [] Len(x.stack) = 1 -> Sources(x.root) \o Open(x.stack[1])
    [] OTHER -> Sources(x.root) \o Open(x.stack[1]) \o Open(x.stack[2])

WrittenBack ==
  /\ AsTyped(r) = Sources(Front(line))
  /\ outer # <<>> => /\ AsTyped(outer[1].r) = Sources(Front(outer[1].line))
                     /\ outer[1].line # <<>> /\ Last(outer[1].line) = "["
=============================================================================
