-------------------------------- MODULE Tags --------------------------------
(***************************************************************************)
(* The `--tags` expression (core/tags.rs): how it is parsed, and what it    *)
(* selects.  It is written as a sequence of tokens: "and", "or", "not",     *)
(* "(", ")", and atoms <<"tag", pattern>>.                                  *)
(***************************************************************************)
EXTENDS Naturals, SequencesExt

\* glob_at, one round of its loop: the places in pattern and text, and where
\* to go back to.
\* A bug: going back does not move on in the text.
GlobStuck(g, pattern, text) ==
    IF g.p <= Len(pattern) /\ pattern[g.p] = "*"
    THEN [g EXCEPT !.star = g.p + 1, !.from = g.t, !.p = g.p + 1]
    ELSE IF g.p <= Len(pattern) /\ pattern[g.p] \in {"?", text[g.t]}
    THEN [g EXCEPT !.p = g.p + 1, !.t = g.t + 1]
    ELSE [g EXCEPT !.failed = TRUE]

GlobStep(g, pattern, text) ==
    IF g.p <= Len(pattern) /\ pattern[g.p] = "*"
    THEN [g EXCEPT !.star = g.p + 1, !.from = g.t, !.p = g.p + 1]
    ELSE IF g.p <= Len(pattern) /\ pattern[g.p] \in {"?", text[g.t]}
    THEN [g EXCEPT !.p = g.p + 1, !.t = g.t + 1]
    ELSE IF g.star # 0
    THEN [g EXCEPT !.p = g.star, !.t = g.from + 1, !.from = g.from + 1]
    ELSE [g EXCEPT !.failed = TRUE]

RECURSIVE GlobFrom(_, _, _)
GlobFrom(g, pattern, text) ==
    IF g.failed THEN FALSE
    ELSE IF g.t > Len(text) THEN \A i \in g.p..Len(pattern) : pattern[i] = "*"
    ELSE GlobFrom(GlobStep(g, pattern, text), pattern, text)

AtomMatches(pattern, tag) ==
    IF {"*", "?"} \cap ToSet(pattern) = {} THEN pattern = tag
    ELSE GlobFrom([p |-> 1, t |-> 1, star |-> 0, from |-> 0, failed |-> FALSE], pattern, tag)

\* The parser: each function gives whether it succeeded, the expression, and
\* what is left.  An expression is <<"tag", pattern>>, <<"not", e>>,
\* <<"and", e, f>> or <<"or", e, f>>.
Failed == [ok |-> FALSE, expr |-> <<>>, rest |-> <<>>]
Peeks(tokens, t) == tokens # <<>> /\ tokens[1][1] = t

RECURSIVE ParseOr(_, _), OrTail(_, _, _), ParseAnd(_, _), AndTail(_, _, _), ParseNot(_, _)

OrTail(left, tokens, depth) ==
    IF ~ Peeks(tokens, "or") THEN [ok |-> TRUE, expr |-> left, rest |-> tokens]
    ELSE LET r == ParseAnd(Tail(tokens), depth)
         IN  IF ~ r.ok THEN Failed ELSE OrTail(<<"or", left, r.expr>>, r.rest, depth)

ParseOr(tokens, depth) ==
    LET l == ParseAnd(tokens, depth) IN IF ~ l.ok THEN Failed ELSE OrTail(l.expr, l.rest, depth)

AndTail(left, tokens, depth) ==
    IF ~ Peeks(tokens, "and") THEN [ok |-> TRUE, expr |-> left, rest |-> tokens]
    ELSE LET r == ParseNot(Tail(tokens), depth)
         IN  IF ~ r.ok THEN Failed ELSE AndTail(<<"and", left, r.expr>>, r.rest, depth)

ParseAnd(tokens, depth) ==
    LET l == ParseNot(tokens, depth) IN IF ~ l.ok THEN Failed ELSE AndTail(l.expr, l.rest, depth)

ParseNot(tokens, depth) ==
    IF depth > 64 \/ tokens = <<>> THEN Failed
    ELSE IF Peeks(tokens, "not")
    THEN LET r == ParseNot(Tail(tokens), depth + 1)
         IN  IF ~ r.ok THEN Failed ELSE [r EXCEPT !.expr = <<"not", @>>]
    ELSE IF Peeks(tokens, "(")
    THEN LET r == ParseOr(Tail(tokens), depth + 1)
         IN  IF r.ok /\ Peeks(r.rest, ")") THEN [r EXCEPT !.rest = Tail(@)] ELSE Failed
    ELSE IF Peeks(tokens, "tag") THEN [ok |-> TRUE, expr |-> tokens[1], rest |-> Tail(tokens)]
    ELSE Failed

ParseTags(tokens) ==
    LET r == ParseOr(tokens, 0) IN IF r.ok /\ r.rest = <<>> THEN r ELSE Failed

RECURSIVE Eval(_, _)
Eval(e, tags) ==
    CASE e[1] = "tag" -> \E t \in tags : AtomMatches(e[2], t)
      [] e[1] = "not" -> ~ Eval(e[2], tags)
      [] e[1] = "and" -> Eval(e[2], tags) /\ Eval(e[3], tags)
      [] e[1] = "or"  -> Eval(e[2], tags) \/ Eval(e[3], tags)

=============================================================================
