------------------------------- MODULE Packs -------------------------------
(***************************************************************************)
(* What a load makes of pack files and a fragment corpus (core/pack/mod.rs, *)
(* core/pack/validate.rs): the vocabulary, and the faults for which it is   *)
(* refused.  Macros, packs, parameters, variables and fragments are         *)
(* numbers; texts are sequences of tokens.  The passes over the `use:`      *)
(* graph are in UseGraph.                                                   *)
(*                                                                         *)
(* A suite's packs are a sequence of [bind, macros]; its corpus is a        *)
(* sequence of files, each a sequence of annotated entries                  *)
(* [name, reads, supplies, options].  A raw macro has `match`, `params`,    *)
(* `defaults`, `bind`, `steps`, and `expect`, a sequence of item lists of   *)
(* length at most one.  A raw step has `payloads` (texts), `use`, `ref`     *)
(* (sequences of length at most one), `with`, `bind` and its modifiers.     *)
(***************************************************************************)
EXTENDS Naturals, FiniteSets, SequencesExt

\* A token is a word, an `<outline>` column, or what a resolver looks at.
Live == {"arg", "fake", "secret", "bad"}

\* The codes of a set of <<code, holds>>.
Raised(checks) == {c[1] : c \in {d \in checks : d[2]}}

Given(s) == s # <<>>

\* The places of a sequence can be counted.
Listed(s) == DOMAIN s \subseteq Nat /\ IsFiniteSet(DOMAIN s)
Sequence(s) == s \in Seq(ToSet(s))

(***************************************************************************)
(* What authors write.  No token of theirs is a generated value: those are  *)
(* made when a text is resolved.                                            *)
(***************************************************************************)
Tokens == {"word", "col", "#", "break", "esc", "var", "arg", "fake", "secret", "bad"} \X Nat \X Nat
Text == Seq(Tokens)

AuthoredTable(f) == Listed(f) /\ f \in [DOMAIN f -> Text]

AuthoredStep(s) ==
    /\ s.use \in Seq(Nat \X Nat) /\ s.ref \in Seq(Nat \X Nat)
    /\ s.payloads \in Seq(Text) /\ s.when \in Seq(Text) /\ s.label \in Seq(Text)
    /\ AuthoredTable(s.with) /\ AuthoredTable(s.bind)

AuthoredMacro(m) ==
    /\ m.match \in Seq(({"lit"} \X Text) \cup ({"cap"} \X Nat))
    /\ AuthoredTable(m.defaults) /\ AuthoredTable(m.bind)
    /\ \A i \in DOMAIN m.steps : AuthoredStep(m.steps[i])

(***************************************************************************)
(* match: patterns are sequences of <<"lit", words>> and <<"cap", name>>.   *)
(***************************************************************************)
PatternFaults(m) ==
    LET p == m.match
        caps == {i \in DOMAIN p : p[i][1] = "cap"}
    IN  Raised({
          <<"pattern_no_anchor", Given(p) /\ \A i \in DOMAIN p : p[i][1] = "cap">>,
          <<"adjacent_captures", \E i \in caps : i + 1 \in caps>>,
          <<"pattern_duplicate_capture", \E i, j \in caps : i < j /\ p[i][2] = p[j][2]>>,
          <<"pattern_unknown_capture", \E i \in caps : p[i][2] \notin ToSet(m.params)>>})

(***************************************************************************)
(* normalize_step: its faults, and whether the step survives.               *)
(***************************************************************************)
Modified(s) == s.optional \/ Given(s.when) \/ s.retry > 0 \/ s.save

Payload(s) == ~ Given(s.use) /\ ~ Given(s.ref)

\* A bug: two payloads are taken for one.
ManyPayloadsThree(s) == Payload(s) /\ Len(s.payloads) > 2

ManyPayloads(s) == Payload(s) /\ Len(s.payloads) > 1

StepFaults(s, maxRetry) ==
    Raised({
      <<"retry_not_finite", s.retrySet /\ s.retry \notin 1..maxRetry>>,
      <<"bind_without_ref", DOMAIN s.bind # {} /\ ~ Given(s.ref)>>,
      <<"body_form_conflict", Given(s.ref) /\ (Given(s.payloads) \/ Given(s.use))>>,
      <<"with_without_use", DOMAIN s.with # {} /\ ~ Given(s.use) /\ Len(s.payloads) <= 1
                              /\ (Given(s.ref) <=> s.payloads = <<>>)>>,
      <<"use_with_modifiers", Given(s.use) /\ ~ Given(s.ref) /\ s.payloads = <<>> /\ Modified(s)>>,
      <<"use_with_payload", Given(s.use) /\ ~ Given(s.ref) /\ Given(s.payloads)>>,
      <<"empty_step", Payload(s) /\ s.payloads = <<>>>>,
      <<"multiple_payloads", ManyPayloads(s)>>})

OneBody(s) == Len(s.use) + Len(s.ref) + Len(s.payloads) = 1

Kind(s) == IF Given(s.ref) THEN "ref" ELSE IF Given(s.use) THEN "use" ELSE "payload"

(***************************************************************************)
(* normalize_macro.  An `expect:` item that asserts nothing is dropped.     *)
(***************************************************************************)
HasBoth(m) == Given(m.steps) /\ Given(m.expect)
HasNeither(m) == ~ Given(m.steps) /\ ~ Given(m.expect)
Normal(m) == ~ HasBoth(m) /\ ~ HasNeither(m)

\* The elements of a sequence at the places I, in order.
Picked(s, I) == [k \in 1..Cardinality(I) |-> s[CHOOSE i \in I : Cardinality({j \in I : j <= i}) = k]]

KeptSteps(m) == Picked(m.steps, {i \in DOMAIN m.steps : OneBody(m.steps[i])})
Items(m) == IF Given(m.expect) THEN m.expect[1] ELSE <<>>
KeptItems(m) == SelectSeq(Items(m), LAMBDA asserts : asserts > 0)

MacroFaults(m, maxRetry) ==
    PatternFaults(m)
    \cup Raised({
      <<"default_not_param", ~ (DOMAIN m.defaults \subseteq ToSet(m.params))>>,
      <<"bind_without_ref", DOMAIN m.bind # {} /\ \A i \in DOMAIN m.steps : ~ Given(m.steps[i].ref)>>,
      <<"steps_and_expect", HasBoth(m)>>,
      <<"empty_macro", HasNeither(m)>>,
      <<"empty_expect", Normal(m) /\ \E i \in DOMAIN Items(m) : Items(m)[i] = 0>>})
    \cup (IF Normal(m) THEN UNION {StepFaults(m.steps[i], maxRetry) : i \in DOMAIN m.steps} ELSE {})

(***************************************************************************)
(* load_collecting: packs in the order of their sources; the first          *)
(* definition of a name is kept.                                            *)
(***************************************************************************)
Defines(packs, p, name) == name \in DOMAIN packs[p].macros /\ Normal(packs[p].macros[name])
Definers(packs, name) == {p \in DOMAIN packs : Defines(packs, p, name)}
Loaded(packs) == {name \in UNION {DOMAIN packs[p].macros : p \in DOMAIN packs} :
                    Definers(packs, name) # {}}
PackOf(packs, name) == CHOOSE p \in Definers(packs, name) : \A q \in Definers(packs, name) : p <= q
MacroOf(packs, name) == packs[PackOf(packs, name)].macros[name]

\* find_use_target: a target is <<pack, name>>, the pack 0 when unqualified.
UseFound(packs, t) == t[2] \in Loaded(packs) /\ t[1] \in {0, PackOf(packs, t[2])}

\* use_targets: those that resolve, in step order.
UsesOf(packs, name) ==
    LET steps == KeptSteps(MacroOf(packs, name))
        edges == Picked(steps, {i \in DOMAIN steps : /\ Kind(steps[i]) = "use"
                                                     /\ UseFound(packs, steps[i].use[1])})
    IN  [i \in DOMAIN edges |-> edges[i].use[1][2]]

(***************************************************************************)
(* scan_fragments: the first entry of a name is kept.                       *)
(***************************************************************************)
Entries(corpus) == {e \in (DOMAIN corpus) \X (1..8) : e[2] \in DOMAIN corpus[e[1]]}
EntryAt(corpus, e) == corpus[e[1]][e[2]]
Named(corpus, n) == {e \in Entries(corpus) : EntryAt(corpus, e).name = n}
Fragments(corpus) == {EntryAt(corpus, e).name : e \in Entries(corpus)}
FirstEntry(corpus, n) ==
    CHOOSE e \in Named(corpus, n) :
        \A d \in Named(corpus, n) : e[1] < d[1] \/ (e[1] = d[1] /\ e[2] <= d[2])
Fragment(corpus, n) == EntryAt(corpus, FirstEntry(corpus, n))

\* find_fragment
RefFound(corpus, t) == t[2] \in Fragments(corpus) /\ t[1] \in {0, FirstEntry(corpus, t[2])[1]}

\* The corpus is scanned only when some pack has a `ref:`.
Scans(packs) ==
    \E p \in DOMAIN packs : \E n \in DOMAIN packs[p].macros :
        \E i \in DOMAIN packs[p].macros[n].steps : Given(packs[p].macros[n].steps[i].ref)

Scanned(suite) == IF Scans(suite.packs) THEN suite.corpus ELSE <<>>

(***************************************************************************)
(* Passes over the whole set.                                               *)
(***************************************************************************)
RefSteps(m) == {i \in DOMAIN KeptSteps(m) : Kind(KeptSteps(m)[i]) = "ref"}
HasRef(m) == RefSteps(m) # {}
RefTargets(m) == {KeptSteps(m)[i].ref[1] : i \in RefSteps(m)}

\* scope_placeholders: what the scope's fragments read, and whether all of
\* them were found.
ScopeReads(corpus, m) ==
    UNION {Fragment(corpus, t[2]).reads : t \in {u \in RefTargets(m) : RefFound(corpus, u)}}
ScopeWhole(corpus, m) == \A t \in RefTargets(m) : RefFound(corpus, t)

\* use_target_passes
UseFaults(packs, s) ==
    LET t == s.use[1] IN
    IF ~ UseFound(packs, t) THEN {"unknown_use"}
    ELSE LET m == MacroOf(packs, t[2])
         IN  Raised({
               <<"unknown_with_key", ~ (DOMAIN s.with \subseteq ToSet(m.params))>>,
               <<"missing_use_param",
                 ~ (ToSet(m.params) \subseteq DOMAIN s.with \cup DOMAIN m.defaults)>>})

\* ref_target_passes: `supplied` is what the bindings in scope give.
RefFaults(corpus, s, supplied) ==
    IF ~ RefFound(corpus, s.ref[1]) THEN {"unknown_ref"}
    ELSE LET f == Fragment(corpus, s.ref[1][2])
         IN  Raised({
               <<"option_declared_twice", (s.retry > 0 /\ "retry" \in f.options)
                                            \/ f.supplies \cap supplied # {}>>,
               <<"unread_bind_key", ~ (DOMAIN s.bind \subseteq f.reads)>>})

\* payload_passes: an instance of the payload with every parameter given must
\* parse; only what is wrong whatever the values are is refused here.
PayloadFaults(s) ==
    Raised({<<"bad_reference", \E i \in DOMAIN s.payloads[1] : s.payloads[1][i][1] = "bad">>})

CrossFaults(suite, name) ==
    LET packs == suite.packs
        corpus == Scanned(suite)
        m == MacroOf(packs, name)
        table == DOMAIN packs[PackOf(packs, name)].bind
        Faults(s) ==
            CASE Kind(s) = "use" -> UseFaults(packs, s)
              [] Kind(s) = "ref" ->
                   RefFaults(corpus, s, DOMAIN s.bind \cup DOMAIN m.bind \cup table)
              [] OTHER -> PayloadFaults(s)
    IN  Raised({<<"unread_bind_key", /\ DOMAIN m.bind # {} /\ HasRef(m) /\ ScopeWhole(corpus, m)
                                     /\ ~ (DOMAIN m.bind \subseteq ScopeReads(corpus, m))>>})
        \cup UNION {Faults(KeptSteps(m)[i]) : i \in DOMAIN KeptSteps(m)}

\* pack_scope_bind_pass; a pack with a conflict of body forms is left alone.
PackFaults(suite, p, maxRetry) ==
    LET packs == suite.packs
        corpus == Scanned(suite)
        mine == {n \in Loaded(packs) : PackOf(packs, n) = p}
        reads == UNION {ScopeReads(corpus, MacroOf(packs, n)) : n \in mine}
        conflict == \E n \in DOMAIN packs[p].macros :
                        "body_form_conflict" \in MacroFaults(packs[p].macros[n], maxRetry)
        refs == \E n \in mine : HasRef(MacroOf(packs, n))
    IN  IF DOMAIN packs[p].bind = {} \/ conflict THEN {}
        ELSE Raised({
               <<"bind_without_ref", mine # {} /\ ~ refs>>,
               <<"unread_bind_key", /\ refs
                                    /\ \A n \in mine : ScopeWhole(corpus, MacroOf(packs, n))
                                    /\ ~ (DOMAIN packs[p].bind \subseteq reads)>>})

\* All but the two passes over the `use:` graph.
LoadFaults(suite, maxRetry) ==
    LET packs == suite.packs IN
    UNION {UNION {MacroFaults(packs[p].macros[n], maxRetry) : n \in DOMAIN packs[p].macros}
             : p \in DOMAIN packs}
    \cup Raised({<<"duplicate_macro", \E n \in Loaded(packs) : Cardinality(Definers(packs, n)) > 1>>,
                 <<"duplicate_fragment",
                   \E n \in Fragments(Scanned(suite)) : Cardinality(Named(Scanned(suite), n)) > 1>>})
    \cup UNION {CrossFaults(suite, n) : n \in Loaded(packs)}
    \cup UNION {PackFaults(suite, p, maxRetry) : p \in DOMAIN packs}

=============================================================================
