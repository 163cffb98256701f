------------------------------- MODULE Search -------------------------------
(***************************************************************************)
(* search: a full-text pass narrowed to the punctuation the query spells   *)
(* out, a LIKE pass, and a loose full-text pass, each a query of its own,  *)
(* while messages are stored and edited.                                   *)
(*                                                                         *)
(* Texts are sequences of letters, marks and blanks, queries hold quotes   *)
(* as well.  Case is left out: the full-text passes ignore it, LIKE does   *)
(* so for ASCII letters only, and what the passes disagree on beyond those *)
(* is not seen here.  Excerpts are left out, and the time range, which is  *)
(* that of History.                                                        *)
(***************************************************************************)
EXTENDS Log

CONSTANTS
  Letters,   \* letters and digits
  Texts,     \* of messages
  Queries,   \* what is typed
  MaxHits    \* bound: the largest limit asked for

Blank == " "
Quote == "quote"

IsString(s) == s \in Seq({s[k] : k \in DOMAIN s})

ASSUME SearchAssumption ==
  /\ {Blank, Quote} \intersect Letters = {} /\ MaxHits \in Nat
  /\ \A s \in Texts \union Queries : IsString(s)

VARIABLES
  text,       \* Ids -> the text of the message as it stands
  step,       \* where Search is
  asked,      \* the query, the groups and the limit
  hits,       \* what the last pass returned
  swallowed,  \* history: the first pass failed
  steady      \* history: stored when the search began and not edited since

searching == <<step, asked, hits, swallowed, steady>>
svars == <<log, text, searching>>

-----------------------------------------------------------------------------
(* The pieces of s made of characters of kept: what is cut off already, and *)
(* the piece in hand.                                                      *)
flush(x) == IF x.cur = <<>> THEN x.done ELSE Append(x.done, x.cur)
Took(x, c, kept) ==
  IF c \in kept THEN [done |-> x.done, cur |-> Append(x.cur, c)]
  ELSE [done |-> flush(x), cur |-> <<>>]
Pieces(s, kept) ==
  LET upTo[n \in 0..Len(s)] ==
        IF n = 0 THEN [done |-> <<>>, cur |-> <<>>] ELSE Took(upTo[n - 1], s[n], kept)
  IN  flush(upTo[Len(s)])

(* What the index keeps of a text: its words. *)
Words(s) == Pieces(s, Letters)

Occurs(s, t) == \E k \in 0..(Len(t) - Len(s)) : SubSeq(t, k + 1, k + Len(s)) = s

Trim(s) ==
  LET inner == {k \in DOMAIN s : s[k] # Blank}
  IN  IF inner = {} THEN <<>>
      ELSE LET first == CHOOSE k \in inner : \A j \in inner : k <= j
               last == CHOOSE k \in inner : \A j \in inner : j <= k
           IN  SubSeq(s, first, last)

(* A blank ends a term outside quotes, a quote always does. *)
splitTerms(raw) ==
  LET InQuote(k) == Cardinality({j \in 1..k : raw[j] = Quote}) % 2 = 1
      marked == [k \in DOMAIN raw |-> [char |-> raw[k], in |-> InQuote(k)]]
      Ends(c) == c.char = Quote \/ (c.char = Blank /\ ~c.in)
      Chars(p) == [k \in DOMAIN p |-> p[k].char]
      terms == Pieces(marked, {c \in {marked[k] : k \in DOMAIN marked} : ~Ends(c)})
  IN  {Chars(terms[n]) : n \in DOMAIN terms}

hasWordChar(t) == \E k \in DOMAIN t : t[k] \in Letters

ftsQuery(raw) == {t \in splitTerms(raw) : hasWordChar(t)}

(* Terms whose punctuation the index has thrown away. *)
literalTerms(raw) == {t \in ftsQuery(raw) : \E k \in DOMAIN t : t[k] \notin Letters \union {Blank}}

(* MATCH: the words of every term, one after the other. *)
Match(s, terms) == \A t \in terms : Occurs(Words(t), Words(s))
Like(s, parts) == \A p \in parts : Occurs(p, s)

Unquoted(s) ==
  LET upTo[n \in 0..Len(s)] ==
        IF n = 0 THEN <<>> ELSE IF s[n] = Quote THEN upTo[n - 1] ELSE Append(upTo[n - 1], s[n])
  IN  upTo[Len(s)]

(* The query as a substring: its quotes are syntax. *)
needle(raw) == Trim(Unquoted(raw))

-----------------------------------------------------------------------------
SearchInit ==
  /\ text \in [Ids -> Texts]
  /\ step = "idle" /\ asked = [query |-> <<>>, chats |-> {}, limit |-> 1]
  /\ hits = {} /\ swallowed = FALSE /\ steady = {}

(* An edit: row and index change in one transaction. *)
Edit ==
  /\ \E i \in 1..Len(written), t \in Texts :
       text' = [text EXCEPT ![i] = t] /\ steady' = steady \ {i}
  /\ UNCHANGED <<log, step, asked, hits, swallowed>>

Candidates == {i \in Stored : written[i].chat \in asked.chats}

(* ORDER BY sent DESC, id DESC LIMIT. *)
Newest(S) ==
  {P \in SUBSET S : /\ Cardinality(P) <= asked.limit /\ (P # S => Cardinality(P) = asked.limit)
                    /\ \A i \in P, j \in S \ P : Earlier(j, i)}

(* Mutant of Search: nothing to match on is nothing to search for. *)
SearchWords ==
  /\ step = "idle"
  /\ \E raw \in Queries, chats \in {Chats} \union {{c} : c \in Chats}, limit \in 1..MaxHits :
       /\ asked' = [query |-> Trim(raw), chats |-> chats, limit |-> limit]
       /\ step' = IF ftsQuery(Trim(raw)) = {} THEN "done" ELSE "match"
  /\ steady' = Stored
  /\ UNCHANGED <<log, text, hits, swallowed>>

Search ==
  /\ step = "idle"
  /\ \E raw \in Queries, chats \in {Chats} \union {{c} : c \in Chats}, limit \in 1..MaxHits :
       /\ asked' = [query |-> Trim(raw), chats |-> chats, limit |-> limit]
       /\ step' = CASE Trim(raw) = <<>> -> "done"
                    [] Trim(raw) # <<>> /\ ftsQuery(Trim(raw)) = {} -> "like"
                    [] OTHER -> "match"
  /\ steady' = Stored
  /\ UNCHANGED <<log, text, hits, swallowed>>

(* Mutant of FirstPass: a MATCH alone. *)
FirstPassLoose ==
  /\ step = "match"
  /\ hits' \in Newest({i \in Candidates : Match(text[i], ftsQuery(asked.query))})
  /\ step' = IF hits' = {} THEN "like" ELSE "done"
  /\ UNCHANGED <<log, text, asked, swallowed, steady>>

FirstPass ==
  /\ step = "match"
  /\ hits' \in Newest({i \in Candidates : /\ Match(text[i], ftsQuery(asked.query))
                                          /\ Like(text[i], literalTerms(asked.query))})
  /\ step' = IF hits' = {} THEN "like" ELSE "done"
  /\ UNCHANGED <<log, text, asked, swallowed, steady>>

(* An error of the first pass is not reported. *)
FirstPassFails ==
  /\ step = "match"
  /\ step' = "like" /\ swallowed' = TRUE
  /\ UNCHANGED <<log, text, asked, hits, steady>>

NoNeedle ==
  /\ step = "like" /\ needle(asked.query) = <<>>
  /\ step' = "done"
  /\ UNCHANGED <<log, text, asked, hits, swallowed, steady>>

LikePass ==
  /\ step = "like" /\ needle(asked.query) # <<>>
  /\ hits' \in Newest({i \in Candidates : Like(text[i], {needle(asked.query)})})
  /\ step' = IF hits' # {} \/ literalTerms(asked.query) = {} THEN "done" ELSE "loose"
  /\ UNCHANGED <<log, text, asked, swallowed, steady>>

LoosePass ==
  /\ step = "loose"
  /\ hits' \in Newest({i \in Candidates : Match(text[i], ftsQuery(asked.query))})
  /\ step' = "done"
  /\ UNCHANGED <<log, text, asked, swallowed, steady>>

PassFails ==
  /\ step \in {"like", "loose"}
  /\ step' = "failed"
  /\ UNCHANGED <<log, text, asked, hits, swallowed, steady>>

SearchNext ==
  Edit \/ Search \/ FirstPass \/ FirstPassFails \/ NoNeedle \/ LikePass \/ LoosePass \/ PassFails

SearchSpec ==
  LogInit /\ SearchInit /\ [][(LogNext /\ UNCHANGED <<text, searching>>) \/ SearchNext]_svars

-----------------------------------------------------------------------------
(* Where s occurs in t without cutting a word of t. *)
OccursWhole(s, t) ==
  \E k \in 0..(Len(t) - Len(s)) :
    /\ SubSeq(t, k + 1, k + Len(s)) = s
    /\ k > 0 => ~(t[k] \in Letters /\ s[1] \in Letters)
    /\ k + Len(s) < Len(t) => ~(t[k + Len(s) + 1] \in Letters /\ s[Len(s)] \in Letters)

(* The terms of a query are still there when its quotes are gone. *)
ReadsAlike(q) ==
  /\ \A t \in ftsQuery(q) : Occurs(Words(t), Words(needle(q)))
  /\ \A t \in literalTerms(q) : Occurs(t, needle(q))

(* A message that spells the query out, quotes aside, is found, or newer   *)
(* hits fill the limit: whichever pass answers, whatever it is that the    *)
(* tokenizer throws away, and with writers between the passes.  Left out   *)
(* are queries whose terms are not in what is left without the quotes: a   *)
(* quote within a word splits it, "say"what" is two terms, and a phrase    *)
(* keeps the blank at its edge that a substring is trimmed of              *)
(* (search.go:28-34, 50-53, search_test.go:226).                           *)
SpelledFound ==
  LET q == asked.query
      spelled(i) == needle(q) # <<>> /\ OccursWhole(needle(q), text[i])
  IN  step = "done" /\ ReadsAlike(q) =>
        \A i \in steady \intersect Candidates :
          spelled(i) => \/ i \in hits
                        \/ Cardinality(hits) = asked.limit /\ \A j \in hits : Earlier(i, j)

(* "Only when the literal reading finds nothing anywhere does the loose    *)
(* MATCH get a turn": a hit that lacks the punctuation of the query means  *)
(* that no message has it, unless the first pass failed unseen, or the     *)
(* message came or changed meanwhile (search.go:28-34, README.md:74-79).   *)
LooseLast ==
  LET literal(i) == \/ Like(text[i], {needle(asked.query)})
                    \/ Match(text[i], ftsQuery(asked.query)) /\ Like(text[i], literalTerms(asked.query))
  IN  step = "done" /\ ~swallowed =>
        \/ \A j \in hits \intersect steady : literal(j)
        \/ \A i \in steady \intersect Candidates : ~literal(i)
=============================================================================
