------------------------------- MODULE Trends -------------------------------
(***************************************************************************)
(* What the runs kept under runs/ say together: the verdicts of `flaky`     *)
(* (cli/flaky.rs) and the buckets and the gate of `diff` (cli/diff.rs).     *)
(* The first run is the one Reports tells in full; the later ones are given *)
(* by what their records say.  Durations, `--by` and unreadable records are *)
(* left out.                                                                *)
(***************************************************************************)
EXTENDS Reports

CONSTANTS
    LaterRuns,      \* what a later run's record may hold
    MaxRuns,        \* bound on the runs kept
    MinSamples,     \* FlakyThresholds (10, 5, 0.8)
    RecoveryRuns,
    OutageRate      \* in tenths

Statuses == {"Passed", "Warned", "Failed", "Skipped"}

ASSUME TrendsAssumption ==
    /\ MinSamples \in Nat /\ RecoveryRuns \in Nat
    /\ \A run \in LaterRuns : \A k \in DOMAIN run.scenarios :
          run.scenarios[k].status \in Statuses /\ run.scenarios[k].attempts \in Nat

VARIABLE history    \* the runs, oldest first

(***************************************************************************)
(* A run as these commands see it: per scenario, and whether it completed;  *)
(* `inputs` is the fingerprint of inputs.json.                              *)
(***************************************************************************)
Kept(rec, inputs) ==
    [scenarios |-> [k \in DOMAIN rec.scenarios |->
                      LET read == rec.scenarios[k] IN
                      [status |-> read.status, phase |-> read.phase, tags |-> read.tags,
                       attempts |-> Worst({1} \cup {read.steps[x].attempts : x \in DOMAIN read.steps})]],
     completion |-> rec.completion, inputs |-> inputs]

Archive ==
    /\ ended \in {"over", "died"}
    /\ history' = <<Kept(Record(events), 1)>>
    /\ ended' = "archived"
    /\ plan' = <<>> /\ stage' = <<>> /\ told' = <<>> /\ slots' = <<>> /\ events' = <<>>

LaterRun ==
    /\ ended = "archived" /\ Len(history) < MaxRuns
    /\ \E run \in LaterRuns, inputs \in {1, 2} :
          /\ inputs >= Last(history).inputs
          /\ history' = Append(history, [scenarios |-> run.scenarios,
                                         completion |-> run.completion, inputs |-> inputs])
    /\ UNCHANGED rvars

TrendsInit == RunInit /\ history = <<>>
TrendsStep == (RunStep /\ UNCHANGED history) \/ Archive \/ LaterRun
TrendsSpec == TrendsInit /\ [][TrendsStep]_<<rvars, history>>

-----------------------------------------------------------------------------
(***************************************************************************)
(* flaky.  Evidence is a suite scenario that was not skipped, in a run that *)
(* is no outage.                                                            *)
(***************************************************************************)
\* A bug: a run that never reached the scenario counts as a pass.
EvidenceSkipped(scenario) == scenario.phase = "suite"

Evidence(scenario) == scenario.phase = "suite" /\ scenario.status # "Skipped"

Observed(run) == {k \in DOMAIN run.scenarios : Evidence(run.scenarios[k])}

Outage(run) ==
    10 * Cardinality({k \in Observed(run) : run.scenarios[k].status = "Failed"})
        > OutageRate * Cardinality(Observed(run))

\* The observations of one scenario under one fingerprint, by run.
Window(runs, inputs, key) ==
    LET usable == {n \in DOMAIN runs : /\ ~ Outage(runs[n]) /\ runs[n].inputs = inputs
                                       /\ key \in Observed(runs[n])}
    IN  [n \in usable |-> runs[n].scenarios[key]]

Failing(o) == o.status = "Failed"
Clean(o) == ~ Failing(o) /\ o.attempts = 1

Follows(w, m, n) == m < n /\ \A k \in DOMAIN w : ~ (m < k /\ k < n)
Turns(w) ==
    {n \in DOMAIN w : \E m \in DOMAIN w : Follows(w, m, n) /\ Failing(w[m]) # Failing(w[n])}
Transitions(w) == Cardinality(Turns(w))
Observations(w) == Cardinality(DOMAIN w)
Fails(w) == {n \in DOMAIN w : Failing(w[n])}
PassOnRetry(w) == {n \in DOMAIN w : ~ Failing(w[n]) /\ w[n].attempts > 1}

\* The observations from which on all are clean.
CleanRuns(w) == {n \in DOMAIN w : \A m \in DOMAIN w : n <= m => Clean(w[m])}
CleanTail(w, n) == n > 0 /\ Cardinality(CleanRuns(w)) >= n

QuarantinedOnce(w) == \E n \in DOMAIN w : "quarantine" \in w[n].tags

Verdict(w) ==
    IF Observations(w) < MinSamples THEN "InsufficientData"
    ELSE IF QuarantinedOnce(w) /\ Fails(w) = DOMAIN w THEN "Disabled"
    ELSE IF QuarantinedOnce(w) /\ Fails(w) = {} /\ PassOnRetry(w) = {} THEN "Recovered"
    ELSE IF Fails(w) = DOMAIN w THEN "Broken"
    ELSE IF CleanTail(w, RecoveryRuns) THEN "Healthy"
    ELSE IF Transitions(w) >= 2 THEN "Flaky"
    ELSE IF PassOnRetry(w) # {} THEN "Latent"
    ELSE "Healthy"

-----------------------------------------------------------------------------
(***************************************************************************)
(* diff: Report::compute over the suite's scenarios, and the gate.          *)
(***************************************************************************)
SuiteOf(run) ==
    LET keys == {k \in DOMAIN run.scenarios : run.scenarios[k].phase = "suite"}
    IN  [k \in keys |-> run.scenarios[k]]

Bucket(was, now) ==
    CASE was.status = "Skipped" /\ now.status = "Skipped" -> "none"
      [] was.status # "Skipped" /\ now.status = "Skipped" -> "now_skipped"
      [] was.status = "Skipped" /\ now.status # "Skipped" -> "added"
      [] OTHER -> IF Failing(was) /\ Failing(now) THEN "still_failing"
                  ELSE IF Failing(was) THEN "fixed"
                  ELSE IF Failing(now) THEN "regressed" ELSE "none"

Diff(base, new) ==
    LET was == SuiteOf(base)
        now == SuiteOf(new)
        both == DOMAIN was \cap DOMAIN now
        In(bucket) == {k \in both : Bucket(was[k], now[k]) = bucket}
    IN  [regressed |-> In("regressed"), fixed |-> In("fixed"),
         still_failing |-> In("still_failing"), now_skipped |-> In("now_skipped"),
         added |-> In("added") \cup (DOMAIN now \ DOMAIN was),
         removed |-> DOMAIN was \ DOMAIN now,
         flaky |-> {k \in both : now[k].attempts > was[k].attempts}]

\* --fail-on-regression
GatePasses(base, new) ==
    new.completion = "Completed" /\ Diff(base, new).regressed = {}

-----------------------------------------------------------------------------
Keys == UNION {DOMAIN history[n].scenarios : n \in DOMAIN history}
VerdictOf(runs, inputs, key) == Verdict(Window(runs, inputs, key))

\* A flake is a flap: it took opposite turns at least twice, within one
\* fingerprint, and has not been clean since for long enough.  A fix that
\* stuck, or a break that stuck, is none.
FlakesFlapped ==
    \A key \in Keys, inputs \in {1, 2} :
        VerdictOf(history, inputs, key) = "Flaky" =>
            \E i, j, k \in DOMAIN history :
                /\ i < j /\ j < k
                /\ \A n \in {i, j, k} : history[n].inputs = inputs /\ key \in DOMAIN history[n].scenarios
                /\ LET Fell(n) == history[n].scenarios[key].status = "Failed"
                       Rose(n) == history[n].scenarios[key].status \in {"Passed", "Warned"}
                   IN  (Fell(i) /\ Rose(j) /\ Fell(k)) \/ (Rose(i) /\ Fell(j) /\ Rose(k))

\* A flake stays one until it has passed RecoveryRuns times on end, at the
\* first attempt; and a run that says nothing about a scenario, or that was an
\* outage, or of other inputs, changes no verdict.
VerdictsHold ==
    Len(history) > 1 =>
        \A key \in Keys, inputs \in {1, 2} :
            LET before == VerdictOf(Front(history), inputs, key)
                after == VerdictOf(history, inputs, key)
                last == Last(history)
                silent == \/ last.inputs # inputs
                          \/ key \notin DOMAIN last.scenarios
                          \/ last.scenarios[key].status = "Skipped"
                          \/ Outage(last)
            IN  /\ silent => after = before
                /\ before = "Flaky" /\ after # "Flaky" =>
                     /\ after = "Healthy"
                     /\ Observations(Window(history, inputs, key)) >= RecoveryRuns
                     /\ ~ silent /\ last.scenarios[key].status # "Failed"
                     /\ last.scenarios[key].attempts = 1
                /\ after = "Broken" => before \in {"Broken", "InsufficientData"}

\* diff is antisymmetric: what it calls a regression one way is a fix the
\* other way, and a run differs in nothing from itself.  What it calls fixed
\* was seen to pass: to skip a failing scenario does not fix it.  (Of the last
\* run: the runs before it were the last one in their turn.  So with GatesHold.)
DiffMirrors ==
    \A m \in DOMAIN history :
        LET n == Len(history)
            there == Diff(history[m], history[n])
            back == Diff(history[n], history[m])
        IN  /\ there.regressed = back.fixed
            /\ there.still_failing = back.still_failing
            /\ \A key \in there.fixed :
                  history[n].scenarios[key].status \in {"Passed", "Warned"}
            /\ there.now_skipped \subseteq back.added
            /\ there.removed \subseteq back.added
            /\ m = n => \A bucket \in DOMAIN there \ {"still_failing"} : there[bucket] = {}

\* A chain of passing gates adds no failure, as long as each run of the chain
\* reaches the scenario.
GatesHold ==
    \A m \in DOMAIN history :
        (\A k \in m..(Len(history) - 1) : GatePasses(history[k], history[k + 1])) =>
            \A key \in Keys :
                (\A k \in m..Len(history) : key \in Observed(history[k])) =>
                    (Last(history).scenarios[key].status = "Failed"
                       => history[m].scenarios[key].status = "Failed")

(***************************************************************************)
(* TrendsTrue: over every history of runs, interrupted and broken ones      *)
(* included, the verdicts of `flaky` are earned and steady, and the gate of *)
(* `diff --fail-on-regression` cannot be walked past in steps.              *)
(***************************************************************************)
TrendsTrue == FlakesFlapped /\ VerdictsHold /\ DiffMirrors /\ GatesHold

=============================================================================
