----------------------------- MODULE MCFrontEnd -----------------------------
(***************************************************************************)
(* Menus of suites, each family varied around one plain suite: the graphs   *)
(* that three macros can make, the forms and bindings of their steps, what  *)
(* is authored in a feature, trees of directories and tag expressions.      *)
(***************************************************************************)
EXTENDS Selection

W(x) == <<"word", x, 0>>
Arg(x) == <<"arg", x, 0>>
Fake == <<"fake", 1, 0>>
Secret == <<"secret", 1, 0>>

NoStep == [payloads |-> <<>>, use |-> <<>>, ref |-> <<>>, with |-> <<>>, bind |-> <<>>,
           optional |-> FALSE, when |-> <<>>, label |-> <<>>, retry |-> 0, retrySet |-> FALSE,
           save |-> FALSE]
Pay(text) == [NoStep EXCEPT !.payloads = <<text>>]
Use(n, with) == [NoStep EXCEPT !.use = <<<<0, n>>>>, !.with = with]
Ref(n, bind) == [NoStep EXCEPT !.ref = <<<<0, n>>>>, !.bind = bind]

NoMacro == [match |-> <<>>, params |-> <<>>, defaults |-> <<>>, bind |-> <<>>, steps |-> <<>>,
            expect |-> <<>>]
Does(steps) == [NoMacro EXCEPT !.steps = steps]
Called(word, m) == [m EXCEPT !.match = <<<<"lit", <<W(word)>>>>>>]
CalledWith(word, m) ==
    [m EXCEPT !.match = <<<<"lit", <<W(word)>>>>, <<"cap", 1>>>>, !.params = <<1>>]
Then(items) == [NoMacro EXCEPT !.expect = <<items>>]

Says(text) == [text |-> text, table |-> <<>>, doc |-> <<>>]
NoScenario == [name |-> <<W(1)>>, tags |-> {}, steps |-> <<Says(<<W(1)>>)>>, outline |-> FALSE,
               examples |-> <<>>]
NoFeature == [tags |-> {}, background |-> <<>>, scenarios |-> <<NoScenario>>, rules |-> <<>>]

File(name) == [name |-> name, dir |-> 0]
Dir(name, dir) == [name |-> name, dir |-> dir]
Reads(entries) == [entries |-> entries, skip |-> FALSE]

TagA == <<"a">>  TagB == <<"a", "b">>  TagC == <<"b", "a", "b">>

Plain == [packs |-> <<[bind |-> <<>>, macros |-> <<Called(1, Does(<<Pay(<<W(1)>>)>>))>>]>>,
          corpus |-> <<>>, feature |-> NoFeature, tree |-> <<Reads({File(1)})>>, root |-> 1,
          pick |-> [expr |-> <<"tag", <<"*">>>>, tokens |-> <<<<"tag", <<"*">>>>>>]]

With1(macros) == [Plain EXCEPT !.packs = <<[bind |-> <<>>, macros |-> macros]>>]

(***************************************************************************)
(* Graphs: a macro uses up to two others, before or behind a request.       *)
(***************************************************************************)
Bodies == {<<Pay(<<W(1)>>)>>}
    \cup {<<Use(i, <<>>)>> : i \in 1..3}
    \cup {<<Use(i, <<>>), Use(j, <<>>)>> : i, j \in 1..3}
    \cup {<<Pay(<<W(1)>>), Use(i, <<>>)>> : i \in 2..3}
UseSuites == {With1(<<Called(1, Does(a)), Does(b), Does(c)>>) :
                a \in Bodies, b \in Bodies, c \in Bodies}

(***************************************************************************)
(* Expansion: macro 1 takes a parameter and uses or refers; macros of two   *)
(* packs share a fragment; `expect:`; labels, guards and generated values.  *)
(***************************************************************************)
Texts == {<<W(1)>>, <<Fake>>, <<Arg(1)>>, <<Arg(1), Fake>>}
Labels == {<<>>, <<<<Fake>>>>, <<<<Arg(1)>>>>, <<<<Fake, Arg(1), Fake>>>>}
Labelled(s, label) == [s EXCEPT !.label = label]
Steps1 == {Labelled(Pay(t), l) : t \in Texts, l \in Labels}
    \cup {Labelled(Ref(1, b), l) : b \in {<<>>, <<<<Fake>>>>, <<<<Arg(1)>>>>}, l \in Labels}
    \cup {Use(2, <<t>>) : t \in Texts}
Steps2 == {Pay(<<Fake>>), Ref(1, <<>>), Ref(1, <<<<Arg(1)>>>>),
           [Pay(<<Arg(1)>>) EXCEPT !.when = <<<<Fake>>>>], Use(2, <<<<Arg(1)>>>>)}
PackBinds == {<<>>, <<<<Fake>>>>, <<<<Secret>>>>}
Corpora == <<<<[name |-> 1, reads |-> {1, 2}, supplies |-> {2}, options |-> {}]>>>>
Authors == {<<Says(<<W(1), W(7)>>)>>, <<Says(<<W(1), Fake>>), Says(<<W(2)>>)>>}
ExpandSuites ==
    {[Plain EXCEPT
        !.packs = <<[bind |-> b,
                     macros |-> <<CalledWith(1, Does(<<s, t>>)),
                                  [Does(<<Ref(1, <<>>), Pay(<<Arg(1)>>)>>)
                                     EXCEPT !.params = <<1>>, !.bind = <<<<Arg(1)>>>>],
                                  Called(2, Then(<<1, 1>>))>>]>>,
        !.corpus = Corpora,
        !.feature.scenarios = <<[NoScenario EXCEPT !.steps = a]>>] :
        b \in PackBinds, s \in Steps1, t \in Steps2, a \in Authors}

(***************************************************************************)
(* Faults: one thing that is wrong, or nearly so, in a pack.                *)
(***************************************************************************)
Odd == {Pay(<<>>), NoStep, [NoStep EXCEPT !.payloads = <<<<W(1)>>, <<W(2)>>>>],
        [Use(2, <<>>) EXCEPT !.payloads = <<<<W(1)>>>>], [Use(2, <<>>) EXCEPT !.optional = TRUE],
        [Ref(1, <<>>) EXCEPT !.use = <<<<0, 2>>>>], [Pay(<<W(1)>>) EXCEPT !.bind = <<<<W(1)>>>>],
        [Pay(<<W(1)>>) EXCEPT !.with = <<<<W(1)>>>>], Use(9, <<>>), Ref(9, <<>>),
        [Ref(1, <<>>) EXCEPT !.retry = 9, !.retrySet = TRUE],
        [Ref(1, <<>>) EXCEPT !.retry = 2, !.retrySet = TRUE],
        Ref(1, <<<<W(1)>>>>), Ref(1, <<<<Arg(1), Secret>>>>), Ref(1, <<<<<<"break", 0, 0>>>>>>),
        Ref(1, <<<<W(1)>>, <<W(1)>>, <<W(1)>>>>), Pay(<<<<"bad", 0, 0>>>>), Pay(<<Arg(9)>>),
        Use(3, <<>>), [NoStep EXCEPT !.use = <<<<2, 2>>>>], Pay(<<<<"esc", 1, 0>>, Secret>>)}
OddMacros == {Then(<<>>), Then(<<1, 0>>), NoMacro, [Then(<<1>>) EXCEPT !.steps = <<Pay(<<W(1)>>)>>],
              [Does(<<Pay(<<W(1)>>)>>) EXCEPT !.defaults = <<<<W(1)>>>>],
              [Does(<<Pay(<<W(1)>>)>>) EXCEPT !.bind = <<<<W(1)>>>>],
              [Does(<<Ref(1, <<>>)>>) EXCEPT !.bind = <<<<W(1)>>, <<W(1)>>, <<W(1)>>>>],
              [Does(<<Pay(<<Arg(1)>>)>>) EXCEPT !.params = <<1>>],
              [Does(<<Pay(<<Arg(1)>>)>>) EXCEPT !.params = <<1>>, !.defaults = <<<<W(1)>>>>]}
OddFiles == {<<>>, Corpora, Corpora \o Corpora,
             <<<<[name |-> 1, reads |-> {1}, supplies |-> {}, options |-> {"retry"}]>>>>}
FaultSuites ==
    {[Plain EXCEPT !.packs = <<[bind |-> b, macros |-> <<Called(1, Does(<<s>>)), m>>]>>,
                   !.corpus = c] :
        b \in {<<>>, <<<<W(1)>>>>, <<<<W(1)>>, <<W(1)>>, <<W(1)>>>>},
        s \in Odd, m \in {Does(<<Pay(<<W(1)>>)>>)}, c \in OddFiles}
    \cup {[Plain EXCEPT !.packs = <<[bind |-> <<>>, macros |-> <<Called(1, Does(<<s, s>>)), m>>],
                                    [bind |-> <<>>, macros |-> n]>>,
                        !.corpus = Corpora] :
        s \in {Use(2, <<>>), Pay(<<W(1)>>)}, m \in OddMacros,
        n \in {<<>>, <<Called(1, Does(<<Pay(<<W(1)>>)>>))>>}}

(***************************************************************************)
(* Features: sentences and patterns, tables, outlines, backgrounds, rules,  *)
(* and names that collide.                                                  *)
(***************************************************************************)
Col(c) == <<"col", c, 0>>
Lit(words) == <<"lit", words>>
Patterns == {<<Lit(<<W(1)>>)>>, <<<<"cap", 1>>>>, <<Lit(<<W(1)>>), <<"cap", 1>>>>,
             <<<<"cap", 1>>, Lit(<<W(2)>>)>>, <<<<"cap", 1>>, Lit(<<W(2)>>), <<"cap", 2>>>>,
             <<Lit(<<W(1)>>), <<"cap", 1>>, <<"cap", 2>>>>,
             <<<<"cap", 1>>, Lit(<<W(2)>>), <<"cap", 1>>>>}
Sentences == {<<W(1)>>, <<W(1), W(2)>>, <<W(1), W(2), W(2)>>, <<W(2)>>, <<>>}
Tables == {<<>>, <<<<W(3)>>>>, <<<<W(3)>>, <<W(4)>>, <<W(5)>>>>}
Takes(p) == [Does(<<Pay(<<Arg(1), Arg(2)>>)>>)
               EXCEPT !.match = p, !.params = <<1, 2>>, !.defaults = [x \in {2} |-> <<W(8)>>]]
MatchSuites ==
    {[With1(<<Takes(p), Takes(q)>>) EXCEPT
        !.feature.scenarios = <<[NoScenario EXCEPT !.steps =
            <<[text |-> s, table |-> t, doc |-> <<>>]>>]>>] :
        p \in Patterns, q \in {<<>>, <<Lit(<<W(1), W(2)>>)>>}, s \in Sentences, t \in Tables}

Heads == {<<1>>, <<1, 2>>, <<1, 1>>}
RowLists == {<<>>, <<<<<<W(1)>>>>>>, <<<<<<W(1)>>>>, <<<<W(1)>>>>>>, <<<<<<W(1)>>, <<W(2)>>>>>>}
Recites == [Says(<<W(1)>>) EXCEPT !.doc = <<<<Col(1)>>>>]
Outlines == {[NoScenario EXCEPT !.name = <<W(1), Col(1)>>, !.steps = <<Recites>>,
                                !.examples = <<[header |-> h, rows |-> r, tags |-> {TagB}]>>] :
                h \in Heads, r \in RowLists}
Others == {[NoScenario EXCEPT !.name = n, !.steps = s] :
             n \in {<<W(1)>>, <<W(1), W(1)>>, <<W(1), W(1), <<"#", 1, 0>>>>, <<W(1), <<"#", 1, 0>>>>},
             s \in {<<>>, <<Says(<<W(1)>>)>>, <<Says(<<W(1)>>), Says(<<W(1)>>)>>}}
FeatureSuites ==
    {[Plain EXCEPT !.feature.scenarios = <<s, t, u>>] :
        s \in Outlines, t \in Others, u \in Others}
    \cup {[Plain EXCEPT !.feature.background = b, !.feature.scenarios = <<[t EXCEPT !.outline = o]>>,
                        !.feature.rules = <<[tags |-> {TagA}, background |-> b, scenarios |-> <<u>>]>>] :
        b \in {<<>>, <<Says(<<W(1)>>)>>}, t \in Others, u \in Others, o \in BOOLEAN}

(***************************************************************************)
(* Trees of directories, with links.                                        *)
(***************************************************************************)
TreeSuites ==
    {[Plain EXCEPT !.tree = t] : t \in {
        <<Reads({Dir(1, 2), Dir(2, 3)}), Reads({Dir(1, 3)}), Reads({File(1)})>>,
        <<Reads({File(1), File(2), Dir(3, 2), Dir(4, 2)}), Reads({File(1), Dir(2, 1)})>>,
        <<Reads({Dir(1, 2), Dir(2, 3)}), Reads({File(1), Dir(2, 3)}), Reads({File(1), Dir(2, 2)})>>,
        <<Reads({Dir(1, 2), Dir(2, 3)}), [entries |-> {File(1), Dir(1, 3)}, skip |-> TRUE],
          Reads({File(1), Dir(3, 2)})>>,
        <<Reads({Dir(1, 2)}), Reads({Dir(1, 1), Dir(2, 2)})>>,
        <<Reads({Dir(1, 2), Dir(2, 4)}), Reads({Dir(1, 3)}), Reads({Dir(1, 4)}), Reads({File(1)})>>,
        <<Reads({Dir(1, 2)}), Reads({Dir(1, 3)}), Reads({Dir(1, 4), File(1)}), Reads({File(1)})>>,
        <<Reads({Dir(1, 2)}), Reads({Dir(1, 3)}), Reads({Dir(1, 4), File(1)}),
          [entries |-> {File(1)}, skip |-> TRUE]>>}}

(***************************************************************************)
(* Tag expressions, written with as few parentheses as they need.           *)
(***************************************************************************)
Atoms == {<<"tag", p>> : p \in {TagA, <<"*">>, <<"*", "b">>, <<"?", "b">>, <<"*", "a", "*", "b">>}}
Nots(E) == {<<"not", e>> : e \in E}
Pairs(op, E, F) == {<<op, e, f>> : e \in E, f \in F}
Simple == Atoms \cup Nots(Atoms)
Exprs == Pairs("and", Simple, Pairs("or", Atoms, Atoms))
    \cup Pairs("or", Pairs("or", Atoms, Atoms), Atoms)
    \cup Pairs("or", Simple, Pairs("and", Atoms, Simple))
    \cup Nots(Pairs("or", Simple, Atoms)) \cup Nots(Nots(Atoms))

Strength(e) == CASE e[1] = "or" -> 1 [] e[1] = "and" -> 2 [] OTHER -> 3
RECURSIVE Written(_)
Written(e) ==
    LET Within(f, least) == IF Strength(f) < least
                            THEN <<<<"(">>>> \o Written(f) \o <<<<")">>>> ELSE Written(f)
    IN  CASE e[1] = "tag" -> <<e>>
          [] e[1] = "not" -> <<<<"not">>>> \o Within(e[2], 3)
          [] OTHER -> Within(e[2], Strength(e)) \o <<<<e[1]>>>> \o Within(e[3], Strength(e))

TagSuites ==
    {[Plain EXCEPT !.pick = [expr |-> e, tokens |-> Written(e)],
                   !.feature.scenarios =
                     [i \in 1..4 |-> [NoScenario EXCEPT !.name = <<W(i)>>,
                        !.tags = <<{}, {TagA}, {TagB}, {TagA, TagC}>>[i]]]] : e \in Exprs}

MCMenus == {UseSuites, ExpandSuites, FaultSuites, MatchSuites, FeatureSuites, TreeSuites, TagSuites}
=============================================================================
