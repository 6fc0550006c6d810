------------------------------ MODULE Feature ------------------------------
(***************************************************************************)
(* What the authors of scenarios write and how it is read: outlines and     *)
(* their rows (core/feature.rs), and how a sentence is matched against the  *)
(* macros' patterns (core/matcher.rs, core/bind.rs).  gherkin, external, has parsed the file *)
(* into [tags, background, scenarios, rules]; a text is a sequence of       *)
(* tokens, of which <<"col", c, 0>> is an outline's `<c>`.                  *)
(***************************************************************************)
EXTENDS Packs

(***************************************************************************)
(* What authors write: sentences with their tables and docstrings, and      *)
(* scenarios with their examples.                                           *)
(***************************************************************************)
AuthoredSentences(steps) ==
    /\ Sequence(steps)
    /\ \A i \in DOMAIN steps :
          /\ steps[i] = [text |-> steps[i].text, table |-> steps[i].table, doc |-> steps[i].doc]
          /\ steps[i].text \in Text /\ AuthoredTable(steps[i].table) /\ steps[i].doc \in Seq(Text)

AuthoredScenario(sc) ==
    /\ sc.name \in Text /\ AuthoredSentences(sc.steps) /\ Sequence(sc.examples)
    /\ \A i \in DOMAIN sc.examples :
          sc.examples[i].header \in Seq(Nat) /\ sc.examples[i].rows \in Seq(Seq(Text))

AuthoredScenarios(list) == Sequence(list) /\ \A i \in DOMAIN list : AuthoredScenario(list[i])

AuthoredFeature(f) ==
    /\ AuthoredSentences(f.background) /\ AuthoredScenarios(f.scenarios) /\ Sequence(f.rules)
    /\ \A r \in DOMAIN f.rules :
          AuthoredSentences(f.rules[r].background) /\ AuthoredScenarios(f.rules[r].scenarios)

(***************************************************************************)
(* Outlines.                                                                *)
(***************************************************************************)
Columns(text) == {text[i][2] : i \in {j \in DOMAIN text : text[j][1] = "col"}}

\* substitute_placeholders: an unknown column stays as it is written.
Substitute(text, row) ==
    FlattenSeq([i \in DOMAIN text |->
        IF text[i][1] = "col" /\ text[i][2] \in DOMAIN row THEN row[text[i][2]]
        ELSE <<text[i]>>])

\* A scenario's steps are those of the backgrounds, then its own.
Steps(backgrounds, sc) == FlattenSeq(backgrounds) \o sc.steps

Outline(sc) == sc.outline \/ Given(sc.examples)

Row(header, cells) == [c \in ToSet(header) |-> cells[CHOOSE i \in DOMAIN header : header[i] = c]]

SoundHeader(t) == \A i, j \in DOMAIN t.header : t.header[i] = t.header[j] => i = j
SoundRow(t, i) == Len(t.rows[i]) = Len(t.header)

\* A sentence, its table's cells and its docstring.
TextsOf(step) == {step.text} \cup {step.table[k] : k \in DOMAIN step.table} \cup ToSet(step.doc)
FilledIn(step, row) ==
    [text |-> Substitute(step.text, row),
     table |-> [k \in DOMAIN step.table |-> Substitute(step.table[k], row)],
     doc |-> [j \in DOMAIN step.doc |-> Substitute(step.doc[j], row)]]

\* concrete_scenario, for one row or for a scenario that is no outline.
Concrete(sc, tags, steps, row) ==
    [name |-> Substitute(sc.name, row), tags |-> tags,
     steps |-> [i \in DOMAIN steps |-> FilledIn(steps[i], row)]]

TableScenarios(sc, t, tags, steps) ==
    LET sound == Picked(t.rows, {i \in DOMAIN t.rows : SoundRow(t, i)})
    IN  IF ~ SoundHeader(t) THEN <<>>
        ELSE [i \in DOMAIN sound |-> Concrete(sc, tags \cup t.tags, steps, Row(t.header, sound[i]))]

OutlineFaults(sc, steps) ==
    LET texts == {sc.name} \cup UNION {TextsOf(steps[i]) : i \in DOMAIN steps}
        tables == {t \in ToSet(sc.examples) : Given(t.rows) /\ SoundHeader(t)}
    IN  IF ~ Given(sc.examples) THEN {"no_examples"}
        ELSE IF ~ Given(steps) THEN {"empty_scenario"}
        ELSE Raised({
               <<"no_examples", \E t \in ToSet(sc.examples) : ~ Given(t.rows)>>,
               <<"bad_examples_header",
                 \E t \in ToSet(sc.examples) : Given(t.rows) /\ ~ SoundHeader(t)>>,
               <<"ragged_examples", \E t \in tables : \E i \in DOMAIN t.rows : ~ SoundRow(t, i)>>,
               <<"unknown_placeholder", \E t \in tables :
                    /\ \E i \in DOMAIN t.rows : SoundRow(t, i)
                    /\ \E x \in texts : ~ (Columns(x) \subseteq ToSet(t.header))>>})

\* expand_scenario
Expand(sc, inherited, backgrounds) ==
    LET tags == inherited \cup sc.tags
        steps == Steps(backgrounds, sc)
    IN  IF ~ Outline(sc)
        THEN [scenarios |-> <<Concrete(sc, tags, steps, <<>>)>>,
              faults |-> Raised({<<"empty_scenario", ~ Given(steps)>>})]
        ELSE [scenarios |-> IF ~ Given(steps) THEN <<>>
                            ELSE FlattenSeq([i \in DOMAIN sc.examples |->
                                    TableScenarios(sc, sc.examples[i], tags, steps)]),
              faults |-> OutlineFaults(sc, steps)]

(***************************************************************************)
(* dedup_names: a name that several scenarios have gets a number, one that  *)
(* no name in play has.                                                     *)
(***************************************************************************)
Numbered(name, n) == Append(name, <<"#", n, 0>>)

\* As many numbers as there are names taken, and one more, cannot all be taken.
Free(name, after, taken) ==
    {n \in (after + 1)..(after + Cardinality(taken) + 1) : Numbered(name, n) \notin taken}
NextFree(name, after, taken) ==
    CHOOSE n \in Free(name, after, taken) : \A k \in Free(name, after, taken) : n <= k

Shared(scenarios, i) == \E j \in DOMAIN scenarios : j # i /\ scenarios[j].name = scenarios[i].name

\* One round: the name given, the names in play, and the number that each
\* shared name has come to.
Rename(acc, scenarios, i) ==
    LET name == scenarios[i].name
        n == NextFree(name, IF name \in DOMAIN acc.last THEN acc.last[name] ELSE 0, acc.taken)
    IN  IF ~ Shared(scenarios, i) THEN [acc EXCEPT !.name = name]
        ELSE [name |-> Numbered(name, n), taken |-> acc.taken \cup {Numbered(name, n)},
              last |-> [x \in DOMAIN acc.last \cup {name} |-> IF x = name THEN n ELSE acc.last[x]]]

Dedup(scenarios) ==
    LET round[i \in 0..Len(scenarios)] ==
            IF i = 0
            THEN [name |-> <<>>, taken |-> {scenarios[j].name : j \in DOMAIN scenarios}, last |-> <<>>]
            ELSE Rename(round[i - 1], scenarios, i)
    IN  [i \in DOMAIN scenarios |-> [scenarios[i] EXCEPT !.name = round[i].name]]

\* parse
Parsed(feature) ==
    LET plain == [i \in DOMAIN feature.scenarios |->
                    Expand(feature.scenarios[i], feature.tags, <<feature.background>>)]
        ruled == FlattenSeq([r \in DOMAIN feature.rules |->
                    [i \in DOMAIN feature.rules[r].scenarios |->
                        Expand(feature.rules[r].scenarios[i],
                               feature.tags \cup feature.rules[r].tags,
                               <<feature.background, feature.rules[r].background>>)]])
        all == plain \o ruled
        faults == UNION {all[i].faults : i \in DOMAIN all}
    IN  [faults |-> faults,
         scenarios |-> IF faults # {} THEN <<>>
                       ELSE Dedup(FlattenSeq([i \in DOMAIN all |-> all[i].scenarios]))]

(***************************************************************************)
(* match_pattern: literals must follow each other; a capture takes all up   *)
(* to the first place where the literal after it occurs.                    *)
(***************************************************************************)
Prefixed(text, lit) == Len(lit) <= Len(text) /\ SubSeq(text, 1, Len(lit)) = lit
After(text, n) == SubSeq(text, n + 1, Len(text))
Occurs(text, lit) == {i \in 0..Len(text) : Prefixed(After(text, i), lit)}

\* One part of the pattern, on what is left of the text.
Take(acc, pattern, i) ==
    LET part == pattern[i]
        bounded == i < Len(pattern) /\ pattern[i + 1][1] = "lit"
        ends == IF bounded THEN Occurs(acc.rest, pattern[i + 1][2]) ELSE {Len(acc.rest)}
        end == CHOOSE e \in ends : \A f \in ends : e <= f
    IN  IF ~ acc.ok THEN acc
        ELSE IF part[1] = "lit"
        THEN IF Prefixed(acc.rest, part[2]) THEN [acc EXCEPT !.rest = After(@, Len(part[2]))]
             ELSE [acc EXCEPT !.ok = FALSE]
        ELSE IF ends = {} THEN [acc EXCEPT !.ok = FALSE]
        ELSE [acc EXCEPT !.rest = After(@, end),
                         !.args = [x \in DOMAIN @ \cup {part[2]} |->
                                     IF x = part[2] THEN SubSeq(acc.rest, 1, end) ELSE @[x]]]

Match(pattern, text) ==
    LET matched[i \in 0..Len(pattern)] ==
            IF i = 0 THEN [ok |-> TRUE, rest |-> text, args |-> <<>>]
            ELSE Take(matched[i - 1], pattern, i)
        all == matched[Len(pattern)]
    IN  [ok |-> all.ok /\ all.rest = <<>>, args |-> all.args]

(***************************************************************************)
(* bind_scenario, for one step: [text, table, doc].                         *)
(***************************************************************************)
Candidates(packs, text) ==
    {n \in Loaded(packs) : Given(MacroOf(packs, n).match) /\ Match(MacroOf(packs, n).match, text).ok}

Docstring == 99     \* the parameter `docstring`

BoundMacro(packs, text) == CHOOSE n \in Candidates(packs, text) : TRUE
Caught(packs, step) == Match(MacroOf(packs, BoundMacro(packs, step.text)).match, step.text).args

Bound(packs, step) ==
    LET m == MacroOf(packs, BoundMacro(packs, step.text))
        caught == Caught(packs, step)
        fits == {k \in DOMAIN step.table : k \notin DOMAIN caught /\ k \in ToSet(m.params)}
        doc == Given(step.doc) /\ Docstring \in ToSet(m.params)
    IN  [macro |-> BoundMacro(packs, step.text),
         args |-> [x \in DOMAIN caught \cup fits \cup DOMAIN m.defaults
                          \cup (IF doc THEN {Docstring} ELSE {}) |->
                      IF doc /\ x = Docstring THEN step.doc[1]
                      ELSE IF x \in DOMAIN caught THEN caught[x]
                      ELSE IF x \in fits THEN step.table[x] ELSE m.defaults[x]]]

BindFaults(packs, step) ==
    LET found == Candidates(packs, step.text)
        params == ToSet(MacroOf(packs, BoundMacro(packs, step.text)).params)
        caught == DOMAIN Caught(packs, step)
    IN  IF found = {} THEN {"unbound_step"}
        ELSE IF Cardinality(found) > 1 THEN {"ambiguous_step"}
        ELSE Raised({
               <<"table_conflict", DOMAIN step.table \cap caught # {}>>,
               <<"unknown_table_key", ~ (DOMAIN step.table \subseteq caught \cup params)>>,
               <<"missing_param", ~ (params \subseteq DOMAIN Bound(packs, step).args)>>})

=============================================================================
