------------------------------ MODULE FrontEnd ------------------------------
(***************************************************************************)
(* The front end of a run (cli/front.rs): the walk that finds the features, *)
(* the load of the packs, the feature's parse, the binding of its sentences *)
(* and the expansion of every bound step into lowered steps (the first half *)
(* of core/lower.rs, with core/resolve.rs).  Whatever has a fault is        *)
(* refused as a whole; the lowered steps of the rest go to Lowering.        *)
(***************************************************************************)
EXTENDS UseGraph, Feature

CONSTANTS
    Menus,               \* sets of suites to choose from
    MaxWalk,             \* MAX_WALK_DEPTH
    MaxExpansion,        \* lower.rs, MAX_EXPANSION_DEPTH
    MaxPasses,           \* resolve.rs, MAX_DEPTH
    MaxRetry             \* validate.rs, MAX_COUNT

\* Macros are the names that suites give to macros, and both bounds on what a
\* macro uses are the same in the code (32).
Suites == UNION Menus

ASSUME SuitesAssumption ==
    \A menu \in Menus : \A s \in menu :
        /\ DOMAIN s.packs \subseteq Nat
        /\ \A p \in DOMAIN s.packs :
              /\ DOMAIN s.packs[p].macros \subseteq Macros
              /\ \A m \in DOMAIN s.packs[p].macros : Listed(s.packs[p].macros[m].steps)
        /\ s.root \in DOMAIN s.tree
        /\ \A d \in DOMAIN s.tree : \A e \in s.tree[d].entries : e.dir = 0 \/ e.dir \in DOMAIN s.tree
ASSUME AuthoredAssumption ==
    \A menu \in Menus : \A s \in menu :
        /\ AuthoredFeature(s.feature)
        /\ \A p \in DOMAIN s.packs :
              /\ AuthoredTable(s.packs[p].bind)
              /\ \A m \in DOMAIN s.packs[p].macros : AuthoredMacro(s.packs[p].macros[m])
ASSUME DepthAssumption == MaxExpansion \in Nat /\ MaxUse <= MaxExpansion /\ MaxPasses \in Nat

VARIABLES
    suite,       \* the suite
    pc,          \* "walk", "load", "graph", "parse", "bind", "lower", "done", "refused"
    trail,       \* the directories being read: [dir, route, todo]
    seen,        \* the real directories that were entered
    found,       \* the features that were found: [route, file]
    faults,      \* the codes that were raised
    scenarios,   \* the feature's scenarios
    bound,       \* per scenario, its bound steps: [macro, args]
    at,          \* the scenario and the bound step that is lowered next
    frames,      \* the macros being expanded: [macro, args, scoped, item]
    fakes,       \* the occurrence counter
    tables,      \* packs whose `bind:` is resolved, with the values
    out,         \* the lowered steps of the scenario
    lowered      \* those of the scenarios before it

wvars == <<trail, seen, found>>
lvars == <<at, frames, fakes, tables, out, lowered>>
fvars == <<suite, pc, wvars, faults, scenarios, bound, lvars, gvars>>

Packs_ == suite.packs
Corpus == Scanned(suite)

Init ==
    /\ \E menu \in Menus : suite \in menu
    /\ InitGraph([m \in Macros |-> IF m \in Loaded(suite.packs) THEN UsesOf(suite.packs, m)
                                   ELSE <<>>])
    /\ pc = "walk"
    /\ trail = <<[dir |-> suite.root, route |-> <<>>, todo |-> suite.tree[suite.root].entries]>>
    /\ seen = {suite.root} /\ found = {}
    /\ faults = {} /\ scenarios = <<>> /\ bound = <<>>
    /\ at = <<1, 1>> /\ frames = <<>> /\ fakes = 0 /\ tables = <<>> /\ out = <<>>
    /\ lowered = <<>>

(***************************************************************************)
(* discover_features, walk_dir: entries come in any order.  An entry is     *)
(* [name, dir] or [name, file]; a link to a directory is an entry whose     *)
(* directory is in another place as well.                                   *)
(***************************************************************************)
Here == trail[Len(trail)]
Took(e) == [trail EXCEPT ![Len(trail)].todo = @ \ {e}]

\* A bug: a directory counts as visited only under the route that led to it.
DescendAgain(e) ==
    trail' = IF suite.tree[e.dir].skip THEN Took(e)
             ELSE Append(Took(e), [dir |-> e.dir, route |-> Append(Here.route, e.name),
                                   todo |-> suite.tree[e.dir].entries])

Descend(e) ==
    trail' = IF suite.tree[e.dir].skip \/ e.dir \in seen THEN Took(e)
             ELSE Append(Took(e), [dir |-> e.dir, route |-> Append(Here.route, e.name),
                                   todo |-> suite.tree[e.dir].entries])

WalkInto ==
    /\ pc = "walk" /\ trail # <<>>
    /\ \E e \in Here.todo :
        /\ e.dir # 0 /\ (suite.tree[e.dir].skip \/ Len(trail) <= MaxWalk)
        /\ Descend(e)
        /\ seen' = IF suite.tree[e.dir].skip THEN seen ELSE seen \cup {e.dir}
    /\ UNCHANGED <<suite, pc, found, faults, scenarios, bound, lvars, gvars>>

WalkTooDeep ==
    /\ pc = "walk" /\ Len(trail) > MaxWalk
    /\ \E e \in Here.todo : e.dir # 0 /\ ~ suite.tree[e.dir].skip
    /\ pc' = "refused" /\ faults' = {"too_deep"}
    /\ UNCHANGED <<suite, wvars, scenarios, bound, lvars, gvars>>

WalkFile ==
    /\ pc = "walk" /\ trail # <<>>
    /\ \E e \in Here.todo :
        /\ e.dir = 0
        /\ trail' = Took(e)
        /\ found' = found \cup {[route |-> Here.route, dir |-> Here.dir, file |-> e.name]}
    /\ UNCHANGED <<suite, pc, seen, faults, scenarios, bound, lvars, gvars>>

WalkUp ==
    /\ pc = "walk" /\ trail # <<>> /\ Here.todo = {}
    /\ trail' = Pop(trail)
    /\ UNCHANGED <<suite, pc, seen, found, faults, scenarios, bound, lvars, gvars>>

\* "no `.feature` files found under" it.
WalkDone ==
    /\ pc = "walk" /\ trail = <<>>
    /\ pc' = IF found = {} THEN "refused" ELSE "load"
    /\ faults' = IF found = {} THEN {"no_features"} ELSE {}
    /\ UNCHANGED <<suite, wvars, scenarios, bound, lvars, gvars>>

(***************************************************************************)
(* pack::load, with the passes over the `use:` graph as steps of their own. *)
(***************************************************************************)
LoadPacks ==
    /\ pc = "load"
    /\ faults' = LoadFaults(suite, MaxRetry)
    /\ pc' = "graph"
    /\ UNCHANGED <<suite, wvars, scenarios, bound, lvars, gvars>>

SearchUses ==
    /\ pc = "graph" /\ Search
    /\ UNCHANGED <<suite, pc, wvars, faults, scenarios, bound, lvars>>

Loading ==
    /\ pc = "graph" /\ Searched
    /\ faults' = faults \cup Raised({<<"use_cycle", rings # {}>>, <<"use_too_deep", TooDeep # {}>>})
    /\ pc' = IF faults' = {} THEN "parse" ELSE "refused"
    /\ UNCHANGED <<suite, wvars, scenarios, bound, lvars, gvars>>

Parse ==
    /\ pc = "parse"
    /\ scenarios' = Parsed(suite.feature).scenarios
    /\ faults' = Parsed(suite.feature).faults
    /\ pc' = IF faults' = {} THEN "bind" ELSE "refused"
    /\ UNCHANGED <<suite, wvars, bound, lvars, gvars>>

\* bind: every step of every scenario, or every fault.
Bind ==
    /\ pc = "bind"
    /\ faults' = UNION {UNION {BindFaults(Packs_, scenarios[i].steps[j]) : j \in DOMAIN scenarios[i].steps}
                          : i \in DOMAIN scenarios}
    /\ pc' = IF faults' = {} THEN "lower" ELSE "refused"
    /\ bound' = IF faults' # {} THEN <<>>
                ELSE [i \in DOMAIN scenarios |->
                        [j \in DOMAIN scenarios[i].steps |-> Bound(Packs_, scenarios[i].steps[j])]]
    /\ UNCHANGED <<suite, wvars, scenarios, lvars, gvars>>

(***************************************************************************)
(* resolve: passes from left to right until one substitutes nothing, then   *)
(* the escapes.  Generated values are <<"made", generator, occurrence>>.    *)
(***************************************************************************)
Lookup(tok, args, defaults, n) ==
    CASE tok[1] = "arg" /\ tok[2] \in DOMAIN args -> args[tok[2]]
      [] tok[1] = "arg" /\ tok[2] \notin DOMAIN args -> defaults[tok[2]]
      [] tok[1] = "fake" -> <<<<"made", tok[2], n>>>>
      [] tok[1] = "secret" -> <<<<"var", tok[2], 0>>>>
      [] OTHER -> <<tok>>

Known(tok, args, defaults) ==
    tok[1] # "bad" /\ (tok[1] = "arg" => tok[2] \in DOMAIN args \cup DOMAIN defaults)

HasLive(text) == \E i \in DOMAIN text : text[i][1] \in Live

\* A pass stops where something is not known.
Pass(r, args, defaults) ==
    LET ends == {k \in 0..Len(r.text) :
                    k < Len(r.text) => ~ Known(r.text[k + 1], args, defaults)}
        end == CHOOSE k \in ends : \A l \in ends : k <= l
        Counted(i) == r.n + Cardinality({j \in 1..i : r.text[j][1] = "fake"})
    IN  [text |-> FlattenSeq([i \in 1..end |-> Lookup(r.text[i], args, defaults, Counted(i))]),
         n |-> Counted(end), ok |-> end = Len(r.text)]

Unescape(text) ==
    [i \in DOMAIN text |-> IF text[i][1] = "esc" THEN <<"arg", text[i][2], text[i][3]>> ELSE text[i]]

Again(r, args, defaults) == IF r.ok /\ HasLive(r.text) THEN Pass(r, args, defaults) ELSE r

Resolve(text, args, defaults, n) ==
    LET after[i \in 0..MaxPasses] ==
            IF i = 0 THEN [text |-> text, n |-> n, ok |-> TRUE]
            ELSE Again(after[i - 1], args, defaults)
        last == after[MaxPasses]
    IN  [text |-> Unescape(last.text), n |-> last.n, ok |-> last.ok /\ ~ HasLive(last.text)]

Sorted(S) == Picked([x \in S |-> x], S)

\* The values of some names of a table, in the order of names: each begins
\* where the counter was left.
InOrder(table, names, args, defaults, n) ==
    LET order == Sorted(names)
        value[k \in 0..Len(order)] ==
            IF k = 0 THEN [text |-> <<>>, n |-> n, ok |-> TRUE]
            ELSE Resolve(table[order[k]], args, defaults, value[k - 1].n)
    IN  [of |-> [v \in names |-> value[CHOOSE k \in DOMAIN order : order[k] = v]],
         n |-> value[Len(order)].n]

\* resolve_bindings: in the order of names.  A whole secret is bound by its
\* name; a part of a value that is a secret, or a line break, is refused.
WholeSecret(text) == Len(text) = 1 /\ text[1][1] = "secret"
Mentions(text, kind) == \E i \in DOMAIN text : text[i][1] = kind

Composite(text) == ~ WholeSecret(text) /\ Mentions(text, "secret")

ResolveTable(table, args, defaults, n) ==
    LET plain == {v \in DOMAIN table : ~ Mentions(table[v], "secret")}
        all == InOrder(table, plain, args, defaults, n)
        broken == {v \in plain : all.of[v].ok /\ Mentions(all.of[v].text, "break")}
        fine == {v \in plain \ broken : all.of[v].ok}
        whole == {v \in DOMAIN table : WholeSecret(table[v])}
    IN  [vals |-> [v \in fine \cup whole |-> IF v \in whole THEN table[v] ELSE all.of[v].text],
         n |-> all.n,
         faults |-> Raised({
            <<"secret_in_composite_bind", \E v \in DOMAIN table : Composite(table[v])>>,
            <<"unresolved", \E v \in plain : ~ all.of[v].ok>>,
            <<"multiline_bind", broken # {}>>})]

Over(f, g) == [x \in DOMAIN f \cup DOMAIN g |-> IF x \in DOMAIN g THEN g[x] ELSE f[x]]

(***************************************************************************)
(* expand_macro: the bindings of the pack, resolved once per scenario and   *)
(* without arguments, then those of the macro, once per invocation.         *)
(***************************************************************************)
PackTable(p, n) ==
    IF p \in DOMAIN tables THEN [vals |-> tables[p], n |-> n, faults |-> {}]
    ELSE ResolveTable(Packs_[p].bind, <<>>, <<>>, n)

Invoke(name, args, below, n, raised) ==
    LET m == MacroOf(Packs_, name)
        p == PackOf(Packs_, name)
        Into(scoped) == Append(below, [macro |-> name, args |-> args, scoped |-> scoped, item |-> 1])
    IN  IF ~ HasRef(m)
        THEN /\ frames' = Into(<<>>) /\ fakes' = n /\ faults' = faults \cup raised
             /\ UNCHANGED tables
        ELSE \E pack \in {PackTable(p, n)} :
             \E own \in {ResolveTable(m.bind, args, m.defaults, pack.n)} :
                /\ frames' = Into(Over(pack.vals, own.vals)) /\ fakes' = own.n
                /\ tables' = Over(tables, [x \in {p} |-> pack.vals])
                /\ faults' = faults \cup raised \cup pack.faults \cup own.faults

Frame == frames[Len(frames)]
Body == MacroOf(Packs_, Frame.macro)
Item == KeptSteps(Body)[Frame.item]
More == pc = "lower" /\ frames # <<>> /\ ~ Given(Body.expect) /\ Frame.item <= Len(KeptSteps(Body))
Passed == [frames EXCEPT ![Len(frames)].item = @ + 1]
In(text, n) == Resolve(text, Frame.args, Body.defaults, n)

BeginStep ==
    /\ pc = "lower" /\ frames = <<>> /\ at[1] \in DOMAIN bound /\ at[2] \in DOMAIN bound[at[1]]
    /\ LET b == bound[at[1]][at[2]] IN Invoke(b.macro, b.args, <<>>, fakes, {})
    /\ UNCHANGED <<suite, pc, wvars, scenarios, bound, at, out, lowered, gvars>>

\* `use:`: the values of `with:` are resolved here and become arguments there.
ResolveWith(with) ==
    LET all == InOrder(with, DOMAIN with, Frame.args, Body.defaults, fakes)
        fine == {v \in DOMAIN with : all.of[v].ok}
    IN  [vals |-> [v \in fine |-> all.of[v].text], n |-> all.n,
         faults |-> Raised({<<"unresolved", fine # DOMAIN with>>})]

\* What is nested too deep is refused, as a backstop of the load.
ExpandUse ==
    /\ More /\ Kind(Item) = "use" /\ UseFound(Packs_, Item.use[1])
    /\ \E given \in {ResolveWith(Item.with)} :
           IF Len(frames) <= MaxExpansion
           THEN Invoke(Item.use[1][2], given.vals, Passed, given.n, given.faults)
           ELSE /\ faults' = faults \cup given.faults \cup {"expansion_too_deep"}
                /\ fakes' = given.n /\ frames' = Passed
                /\ UNCHANGED tables
    /\ UNCHANGED <<suite, pc, wvars, scenarios, bound, at, out, lowered, gvars>>

(***************************************************************************)
(* finish_step: the guard, then the label, which replays from where the     *)
(* counter stood before the step.  The counter ends where the one or the    *)
(* other ended, whichever is further.                                       *)
(***************************************************************************)
\* A bug: the counter goes back to where the step's own values ended.
HighWaterOwn(own, label) == own

HighWater(own, label) == IF label > own THEN label ELSE own

Finish(text, vals, start, n, ok, raised) ==
    LET guard == In(IF Given(Item.when) THEN Item.when[1] ELSE <<>>, n)
        label == In(IF Given(Item.label) THEN Item.label[1] ELSE <<>>, start)
        fine == ok /\ guard.ok
    IN  /\ fakes' = IF ~ ok THEN n
                    ELSE IF guard.ok /\ Given(Item.label) THEN HighWater(guard.n, label.n)
                    ELSE guard.n
        /\ faults' = faults \cup raised
                      \cup Raised({<<"unresolved", ~ fine \/ ~ label.ok>>})
        /\ out' = IF fine /\ label.ok
                  THEN Append(out, [author |-> at, form |-> Kind(Item), macro |-> Frame.macro,
                                    item |-> Frame.item,
                                    text |-> text \o guard.text, vals |-> vals,
                                    own |-> (start + 1)..guard.n, label |-> label.text])
                  ELSE out
        /\ frames' = Passed
        /\ UNCHANGED <<suite, pc, wvars, scenarios, bound, at, tables, lowered, gvars>>

ExpandPayload ==
    /\ More /\ Kind(Item) = "payload"
    /\ LET r == In(Item.payloads[1], fakes)
       IN  Finish(r.text, <<>>, fakes, r.n, r.ok, {})

\* expand_ref_step; whether all that the fragment reads is supplied is the
\* question of Lowering.
ExpandRef ==
    /\ More /\ Kind(Item) = "ref" /\ RefFound(Corpus, Item.ref[1])
    /\ LET step == ResolveTable(Item.bind, Frame.args, Body.defaults, fakes)
       IN  Finish(<<>>, Over(Frame.scoped, step.vals), fakes, step.n, TRUE, step.faults)

\* An `expect:` macro: its items are merged into the request before, and the
\* authored step is a lowered one only when there was something to merge.
ExpandExpect ==
    /\ pc = "lower" /\ frames # <<>> /\ Given(Body.expect) /\ Frame.item = 1
    /\ LET host == \E i \in DOMAIN out : out[i].form # "then"
           some == KeptItems(Body) # <<>>
       IN  /\ faults' = faults \cup Raised({<<"then_before_when", some /\ ~ host>>})
           /\ out' = IF some /\ host
                     THEN Append(out, [author |-> at, form |-> "then", macro |-> Frame.macro, item |-> 1,
                                       text |-> <<>>, vals |-> <<>>, own |-> {}, label |-> <<>>])
                     ELSE out
    /\ frames' = Passed
    /\ UNCHANGED <<suite, pc, wvars, scenarios, bound, at, fakes, tables, lowered, gvars>>

Spent == IF Given(Body.expect) THEN Frame.item > 1 ELSE Frame.item > Len(KeptSteps(Body))

LeaveMacro ==
    /\ pc = "lower" /\ frames # <<>> /\ Spent
    /\ frames' = Pop(frames)
    /\ at' = IF Len(frames) = 1 THEN <<at[1], at[2] + 1>> ELSE at
    /\ UNCHANGED <<suite, pc, wvars, faults, scenarios, bound, fakes, tables, out, lowered, gvars>>

\* The next scenario begins with a counter and bindings of its own.
EndScenario ==
    /\ pc = "lower" /\ frames = <<>> /\ at[1] \in DOMAIN bound /\ at[2] \notin DOMAIN bound[at[1]]
    /\ lowered' = Append(lowered, out)
    /\ out' = <<>> /\ fakes' = 0 /\ tables' = <<>>
    /\ at' = <<at[1] + 1, 1>>
    /\ UNCHANGED <<suite, pc, wvars, faults, scenarios, bound, frames, gvars>>

Finished ==
    /\ pc = "lower" /\ at[1] \notin DOMAIN bound
    /\ pc' = IF faults = {} THEN "done" ELSE "refused"
    /\ UNCHANGED <<suite, wvars, faults, scenarios, bound, lvars, gvars>>

Rest == pc \in {"done", "refused"} /\ UNCHANGED fvars

Next ==
    \/ WalkInto \/ WalkTooDeep \/ WalkFile \/ WalkUp \/ WalkDone
    \/ LoadPacks \/ SearchUses \/ Loading \/ Parse \/ Bind
    \/ BeginStep \/ ExpandUse \/ ExpandPayload \/ ExpandRef \/ ExpandExpect
    \/ LeaveMacro \/ EndScenario \/ Finished \/ Rest

Spec == Init /\ [][Next]_fvars

-----------------------------------------------------------------------------

(***************************************************************************)
(* Whatever order the directories are read in and wherever links lead, a    *)
(* walk that ends has each feature once: "each cycle copy would become a    *)
(* same-named scenario issuing real traffic".                               *)
(***************************************************************************)
Entered(e) == e.dir # 0 /\ ~ suite.tree[e.dir].skip
Closed(D) == \A d \in D : \A e \in suite.tree[d].entries : Entered(e) => e.dir \in D
Reached == {d \in DOMAIN suite.tree :
              \A D \in SUBSET DOMAIN suite.tree : suite.root \in D /\ Closed(D) => d \in D}

FilesOnce ==
    pc # "walk" /\ faults # {"too_deep"} =>
        /\ \A f \in found : f.dir \in Reached
        /\ \A d \in Reached : \A e \in suite.tree[d].entries :
              e.dir = 0 => Cardinality({f \in found : f.dir = d /\ f.file = e.name}) = 1

(***************************************************************************)
(* The search of the `use:` graph keeps expansion finite: it reports cycles *)
(* that are there, ranks what is left, and no expansion of a pack set that  *)
(* loaded is deeper than the bound on a chain, so that the backstop of the  *)
(* expansion is never reached.                                              *)
(***************************************************************************)
UsesSafe ==
    /\ GraphTypeOK /\ RankedWhenClean /\ CyclesReal
    /\ pc = "lower" => Len(frames) <= MaxUse /\ "expansion_too_deep" \notin faults

(***************************************************************************)
(* No check is lost on its way to the engine: when a suite is accepted, an  *)
(* authored step has as many lowered steps as its macro, with all that it   *)
(* uses, has authored ones (an `expect:` has one, unless it is empty), and  *)
(* they are in the order of the scenario.                                   *)
(***************************************************************************)
Authored[name \in Macros] ==
    LET m == MacroOf(Packs_, name)
        One(s) == IF Given(s.use) THEN Authored[s.use[1][2]] ELSE 1
    IN  IF Given(m.expect) THEN (IF Given(m.expect[1]) THEN 1 ELSE 0)
        ELSE FoldLeft(LAMBDA sum, s : sum + One(s), 0, m.steps)

StepsKept ==
    pc = "done" =>
        /\ Len(lowered) = Len(scenarios)
        /\ \A i \in DOMAIN lowered :
            /\ \A k \in DOMAIN lowered[i] : lowered[i][k].author[1] = i
            /\ \A k, l \in DOMAIN lowered[i] :
                  k < l => lowered[i][k].author[2] <= lowered[i][l].author[2]
            /\ \A j \in DOMAIN scenarios[i].steps :
                  Cardinality({k \in DOMAIN lowered[i] : lowered[i][k].author[2] = j})
                    = Authored[BoundMacro(Packs_, scenarios[i].steps[j].text)]

(***************************************************************************)
(* What is told apart by name stays apart.  No two scenarios, in events,    *)
(* records and reruns, have the same one, whatever the rows of an outline   *)
(* make of theirs and whatever names were authored.  Generated values keep  *)
(* their identity: no occurrence is used by two steps of a scenario, one    *)
(* that a label has shown is not handed out again, and a binding of the     *)
(* pack has one value for the whole scenario.                               *)
(***************************************************************************)
NamesUnique == \A i, j \in DOMAIN scenarios : scenarios[i].name = scenarios[j].name => i = j

Occurrences(text) == {text[i][3] : i \in {j \in DOMAIN text : text[j][1] = "made"}}
Nearer(s) == DOMAIN MacroOf(Packs_, s.macro).bind
               \cup DOMAIN KeptSteps(MacroOf(Packs_, s.macro))[s.item].bind
PackWide(s) == DOMAIN Packs_[PackOf(Packs_, s.macro)].bind \ Nearer(s)

KeptApart(steps) ==
    \A k, l \in DOMAIN steps : k < l =>
        LET s == steps[k]
            t == steps[l]
        IN  /\ s.own \cap t.own = {}
            /\ Occurrences(s.label) \cap t.own = {}
            /\ s.form = "ref" /\ t.form = "ref"
                  /\ PackOf(Packs_, s.macro) = PackOf(Packs_, t.macro) =>
                    \A v \in PackWide(s) \cap PackWide(t) :
                        /\ v \in DOMAIN s.vals <=> v \in DOMAIN t.vals
                        /\ v \in DOMAIN s.vals => s.vals[v] = t.vals[v]

IdentitiesKept == NamesUnique /\ \A steps \in {out} \cup ToSet(lowered) : KeptApart(steps)

=============================================================================
