------------------------------ MODULE Selection ------------------------------
(***************************************************************************)
(* What `--tags` leaves of the scenarios that the front end has lowered     *)
(* (cli/front.rs, tag_selected).                                            *)
(***************************************************************************)
EXTENDS FrontEnd, Tags

\* tag_selected
Selected == {i \in DOMAIN scenarios : Eval(ParseTags(suite.pick.tokens).expr, scenarios[i].tags)}

(***************************************************************************)
(* `--tags` selects what the expression means: `not` binds more than `and`, *)
(* `and` more than `or`, `*` stands for any characters and `?` for one.     *)
(***************************************************************************)
RECURSIVE Globs(_, _), Means(_, _)
Globs(p, t) ==
    IF p = <<>> THEN t = <<>>
    ELSE IF p[1] = "*" THEN \E n \in 0..Len(t) : Globs(Tail(p), After(t, n))
    ELSE t # <<>> /\ p[1] \in {"?", t[1]} /\ Globs(Tail(p), Tail(t))

Means(e, tags) ==
    CASE e[1] = "tag" -> \E t \in tags : Globs(e[2], t)
      [] e[1] = "not" -> ~ Means(e[2], tags)
      [] e[1] = "and" -> Means(e[2], tags) /\ Means(e[3], tags)
      [] e[1] = "or"  -> Means(e[2], tags) \/ Means(e[3], tags)

SelectionAgrees ==
    pc = "done" =>
        /\ ParseTags(suite.pick.tokens).ok
        /\ Selected = {i \in DOMAIN scenarios : Means(suite.pick.expr, scenarios[i].tags)}

=============================================================================
