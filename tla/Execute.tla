------------------------------ MODULE Execute ------------------------------
(***************************************************************************)
(* One `proef test` from its pre-flight to its exit code (proef-cli,       *)
(* exec.rs, `execute`): the record's single head and tail, `[run] setup`,  *)
(* the selection, the suite, `[run] teardown` on a token of its own, the   *)
(* reports, and the verdict, against the two-stage interrupt, `--max-fail` *)
(* and an events.jsonl whose writes may fail.                              *)
(*                                                                         *)
(* Each phase is one call of the scenario runner.  It is taken at the      *)
(* level of RunContract: a scenario starts while its token is live, is     *)
(* passed over otherwise, and settles once; how is the matter of Runner.   *)
(***************************************************************************)
EXTENDS Integers, Sequences, FiniteSets

CONSTANTS
    SetupScenarios,      \* the scenarios of the `[run] setup` feature
    SuiteScenarios,      \* the scenarios of the suite, phase features excluded
    TeardownScenarios,   \* the scenarios of the `[run] teardown` feature
    Parked,              \* scenarios with an authored skip
    Quarantined,         \* suite scenarios tagged as non-gating
    Width,               \* the suite's jobs; a phase runs one at a time
    MaxFail,             \* `--max-fail`, 0 when absent
    Trouble              \* what may go wrong (see Troubles)

Scenarios == SetupScenarios \cup SuiteScenarios \cup TeardownScenarios

ASSUME PhasesAssumption ==
    /\ SetupScenarios \cap SuiteScenarios = {}
    /\ SetupScenarios \cap TeardownScenarios = {}
    /\ SuiteScenarios \cap TeardownScenarios = {}
    /\ IsFiniteSet(Scenarios)
    /\ Parked \subseteq Scenarios
    /\ Quarantined \subseteq SuiteScenarios
ASSUME WidthAssumption   == Width \in Nat \ {0}
ASSUME MaxFailAssumption == MaxFail \in Nat

\* Failures of the process's surroundings, as opposed to its scenarios.
Troubles == {"refusal", "storeLoad", "phaseLoad", "lostWrite", "reports",
             "breach", "panic"}
ASSUME TroubleAssumption == Trouble \subseteq Troubles

VARIABLES
    at,             \* how far `execute` has come
    conf,           \* what the invocation asked for
    token,          \* the run's cancellation token
    signals,        \* interrupts received
    results,        \* per scenario: not yet, running, or how it settled
    record,         \* the events that reached events.jsonl
    lost,           \* record_failed: some write to events.jsonl failed
    totals,         \* RunRecord's counts
    summaryCancelled, \* the suite summary's `cancelled`
    teardownExit,   \* the teardown's own exit code
    exit            \* the exit code, once decided

vars == <<at, conf, token, signals, results, record, lost, totals,
          summaryCancelled, teardownExit, exit>>

-----------------------------------------------------------------------------
(* Vocabulary *)

Rank(code) == IF code = "SystemError" THEN 3 ELSE IF code = "UserError" THEN 2
              ELSE IF code = "TestFailure" THEN 1 ELSE 0
Worst(codes) == CHOOSE c \in codes : \A d \in codes : Rank(d) <= Rank(c)

\* How a scenario settles: green (warnings allowed), a failed assertion, a
\* user or a system fault, green with a session that failed to close, cut
\* off by the token, or parked by its author.
Kinds   == {"passed", "failed", "user", "system", "unclosed", "skipped"}
Settled == Kinds \cup {"parked"}
FailedKinds  == {"failed", "user", "system"}
SkippedKinds == {"skipped", "parked"}

NoTotals == [passed |-> 0, failed |-> 0, skipped |-> 0]

\* The stages in which the runner is at work.
Phases == {"setup", "suite", "teardown"}
Ended  == {"done", "killed"}

Members(p) == IF p = "setup" THEN SetupScenarios
              ELSE IF p = "teardown" THEN TeardownScenarios ELSE conf.kept

With(p, kinds) == {s \in Members(p) : results[s] \in kinds}
Counts(p) == [passed  |-> Cardinality(With(p, {"passed", "unclosed"})),
              failed  |-> Cardinality(With(p, FailedKinds)),
              skipped |-> Cardinality(With(p, SkippedKinds))]

\* Mutant: the tail is given the counts of every phase.
SuiteTotalsOfAll == [passed  |-> Cardinality({s \in Scenarios : results[s] = "passed"}),
                     failed  |-> Cardinality({s \in Scenarios : results[s] \in FailedKinds}),
                     skipped |-> Cardinality({s \in Scenarios : results[s] \in SkippedKinds})]

\* RunRecord::add is called for the suite, and for nothing else.
SuiteTotals == Counts("suite")

\* Teardown has a token of its own that nobody cancels.
TokenOf(p) == IF p = "teardown" THEN FALSE ELSE token
JobsOf(p)  == IF p = "suite" THEN Width ELSE 1

\* The code of one settled scenario, where `failure` is what a failed
\* assertion counts for.
CodeOf(kind, failure) ==
    IF kind \in {"system", "unclosed"} THEN "SystemError"
    ELSE IF kind = "user" THEN "UserError"
    ELSE IF kind = "failed" THEN failure
    ELSE "Success"

\* Mutant: only faults count, a failed assertion does not.
FaultOnly(p, failure) ==
    Worst({"Success"} \cup {CodeOf(results[s], "Success") : s \in Members(p)})

\* phase_failed: the worst fault of a phase, "Success" when there is none.
PhaseFailed(p, failure) ==
    Worst({"Success"} \cup {CodeOf(results[s], failure) : s \in Members(p)})

\* A phase that skipped everything carries no fault, and is none the better.
OnlySkipped(p) == Members(p) # {} /\ Members(p) = With(p, SkippedKinds)

\* RunSummary::exit_code_excluding.
SuiteVerdict ==
    Worst({IF summaryCancelled THEN "TestFailure" ELSE "Success"} \cup
          {CodeOf(results[s], IF s \in Quarantined THEN "Success" ELSE "TestFailure")
              : s \in conf.kept})

\* Mutant: a failed delivery is only printed.
EscalateNothing(code, failed) == code

Escalate(code, failed) == IF failed THEN "SystemError" ELSE code

\* A write to events.jsonl reaches it or latches its failure.
Write(event) ==
    \/ record' = Append(record, event) /\ UNCHANGED lost
    \/ "lostWrite" \in Trouble /\ lost' = TRUE /\ UNCHANGED record

-----------------------------------------------------------------------------
(* Before the suite *)

\* Everything up to the run directory and the record's file may refuse; and a
\* rerun of a base that names nothing to rerun ends here, on 0.
Preflight ==
    /\ at = "preflight"
    /\ \/ ~conf.clean /\ at' = "open" /\ UNCHANGED exit
       \/ conf.clean /\ at' = "done" /\ exit' = "Success"
       \/ /\ "refusal" \in Trouble /\ at' = "done"
          /\ exit' \in {"UserError", "SystemError"}
    /\ UNCHANGED <<conf, token, signals, results, record, lost, totals,
                   summaryCancelled, teardownExit>>

OpenRecord ==
    /\ at = "open"
    /\ Write([ev |-> "head"])
    /\ at' = "load"
    /\ UNCHANGED <<conf, token, signals, results, totals, summaryCancelled,
                   teardownExit, exit>>

\* A `return` of the run closure: the guard's Drop writes the tail on the way.
Return(code) == at' = "unwind" /\ exit' = code

LoadStore ==
    /\ at = "load"
    /\ \/ at' = (IF conf.setup THEN "loadSetup" ELSE "select") /\ UNCHANGED exit
       \/ "storeLoad" \in Trouble /\ Return("SystemError")
    /\ UNCHANGED <<conf, token, signals, results, record, lost, totals,
                   summaryCancelled, teardownExit>>

LoadSetup ==
    /\ at = "loadSetup"
    /\ \/ at' = "setup" /\ UNCHANGED exit
       \/ /\ "phaseLoad" \in Trouble
          /\ \E code \in {"UserError", "SystemError"} : Return(code)
    /\ UNCHANGED <<conf, token, signals, results, record, lost, totals,
                   summaryCancelled, teardownExit>>

\* A setup that failed, or completed nothing, ends the run here.  Its reports
\* are written, and whether that worked is not asked.
EndSetup ==
    /\ at = "setup" /\ SetupScenarios = With("setup", Settled)
    /\ LET code == PhaseFailed("setup", "UserError") IN
         IF code # "Success" THEN Return(code)
         ELSE IF OnlySkipped("setup") THEN Return("SystemError")
         ELSE at' = "select" /\ UNCHANGED exit
    /\ UNCHANGED <<conf, token, signals, results, record, lost, totals,
                   summaryCancelled, teardownExit>>

\* An empty shard of a selection is a fact, an empty selection a refusal.
Select ==
    /\ at = "select"
    /\ IF conf.kept # {} THEN at' = "suite" /\ UNCHANGED exit
       ELSE Return(IF conf.filtered # {} THEN "Success" ELSE "UserError")
    /\ UNCHANGED <<conf, token, signals, results, record, lost, totals,
                   summaryCancelled, teardownExit>>

-----------------------------------------------------------------------------
(* The runner, in any of the phases *)

Start(s) ==
    /\ at \in Phases /\ s \in Members(at) \ Parked
    /\ results[s] = "queued"
    /\ ~TokenOf(at)
    /\ Cardinality(With(at, {"running"})) < JobsOf(at)
    /\ results' = [results EXCEPT ![s] = "running"]
    /\ UNCHANGED <<at, conf, token, signals, record, lost, totals,
                   summaryCancelled, teardownExit, exit>>

Settle(s, kind) ==
    /\ results' = [results EXCEPT ![s] = kind]
    /\ Write([ev |-> "finished", s |-> s, kind |-> kind])
    /\ UNCHANGED <<at, conf, signals, totals, summaryCancelled, teardownExit, exit>>

PassOver(s) ==
    /\ at \in Phases /\ s \in Members(at)
    /\ results[s] = "queued"
    /\ \/ s \in Parked /\ Settle(s, "parked")
       \/ s \notin Parked /\ TokenOf(at) /\ Settle(s, "skipped")
    /\ UNCHANGED token

\* trip_on_max_fail: the suite's failures only.
Trip(s, kind) ==
    token' = (token \/ (/\ at = "suite" /\ kind \in FailedKinds
                        /\ Cardinality(With("suite", FailedKinds)) + 1 = MaxFail))

Finish(s, kind) ==
    /\ at \in Phases /\ s \in Members(at)
    /\ results[s] = "running"
    /\ kind = "skipped" => TokenOf(at)
    /\ Settle(s, kind)
    /\ Trip(s, kind)

-----------------------------------------------------------------------------
(* After the suite *)

EndSuite ==
    /\ at = "suite" /\ conf.kept = With("suite", Settled)
    /\ totals' = SuiteTotals
    /\ summaryCancelled' = token
    /\ at' = IF conf.teardown THEN "loadTeardown" ELSE "close"
    /\ UNCHANGED <<conf, token, signals, results, record, lost, teardownExit, exit>>

LoadTeardown ==
    /\ at = "loadTeardown"
    /\ \/ at' = "teardown" /\ UNCHANGED teardownExit
       \/ /\ "phaseLoad" \in Trouble /\ at' = "close"
          /\ teardownExit' \in {"UserError", "SystemError"}
    /\ UNCHANGED <<conf, token, signals, results, record, lost, totals,
                   summaryCancelled, exit>>

EndTeardown ==
    /\ at = "teardown" /\ TeardownScenarios = With("teardown", Settled)
    /\ teardownExit' =
         IF PhaseFailed("teardown", "SystemError") # "Success" \/ OnlySkipped("teardown")
         THEN "SystemError" ELSE "Success"
    /\ at' = "close"
    /\ UNCHANGED <<conf, token, signals, results, record, lost, totals,
                   summaryCancelled, exit>>

\* RunRecord::drop.
WriteTail(next) ==
    /\ Write([ev |-> "tail", passed |-> totals.passed, failed |-> totals.failed,
              skipped |-> totals.skipped, cancelled |-> token])
    /\ at' = next
    /\ UNCHANGED <<conf, token, signals, results, totals, summaryCancelled,
                   teardownExit, exit>>

CloseRecord == at = "close" /\ WriteTail("report")
Unwind      == at = "unwind" /\ WriteTail("done")

Outrank(code) == IF Rank(teardownExit) > Rank(code) THEN teardownExit ELSE code

\* The state file is saved (its failure only warns), the CI reports written,
\* and the exit code decided: an SLA breach counts on a green run, a failed
\* teardown outranks the suite, a failed delivery outranks everything.
Report ==
    /\ at = "report"
    /\ \E breach \in {FALSE} \cup {"breach" \in Trouble},
          reportsFailed \in {FALSE} \cup {"reports" \in Trouble} :
         LET verdict == IF breach /\ SuiteVerdict = "Success"
                        THEN "TestFailure" ELSE SuiteVerdict
         IN  exit' = Escalate(Outrank(verdict), reportsFailed \/ lost)
    /\ at' = "done"
    /\ UNCHANGED <<conf, token, signals, results, record, lost, totals,
                   summaryCancelled, teardownExit>>

-----------------------------------------------------------------------------
(* Signals, and the end of the process *)

\* The first interrupt cancels the run's token, the second exits with 130.
Interrupt ==
    /\ at \notin Ended
    /\ signals' = signals + 1
    /\ IF signals = 0 THEN token' = TRUE /\ UNCHANGED at
                      ELSE at' = "killed" /\ UNCHANGED token
    /\ UNCHANGED <<conf, results, record, lost, totals, summaryCancelled,
                   teardownExit, exit>>

\* A panic of the main thread unwinds through the guard, which then keeps quiet.
Panic ==
    /\ at \notin Ended /\ "panic" \in Trouble
    /\ at' = "killed"
    /\ UNCHANGED <<conf, token, signals, results, record, lost, totals,
                   summaryCancelled, teardownExit, exit>>

Over == at \in Ended /\ UNCHANGED vars

-----------------------------------------------------------------------------
\* `--shard` keeps any part of what the filters left.  `clean`: `--rerun`, and
\* the base has its tail and no scenario that failed or never ran.
Invocations == {c \in [setup : BOOLEAN, teardown : BOOLEAN, sharded : BOOLEAN,
                       clean : BOOLEAN, filtered : SUBSET SuiteScenarios, kept : SUBSET SuiteScenarios] :
                   /\ c.kept \subseteq c.filtered
                   /\ ~c.sharded => c.kept = c.filtered
                   /\ c.setup => SetupScenarios # {}
                   /\ c.teardown => TeardownScenarios # {}}

Init ==
    /\ at = "preflight"
    /\ conf \in Invocations
    /\ token = FALSE /\ signals = 0
    /\ results = [s \in Scenarios |-> "queued"]
    /\ record = <<>> /\ lost = FALSE
    /\ totals = NoTotals /\ summaryCancelled = FALSE
    /\ teardownExit = "Success" /\ exit = "Success"

Run == \E s \in Scenarios :
          Start(s) \/ PassOver(s) \/ (\E kind \in Kinds : Finish(s, kind))

Proceed == \/ Preflight \/ OpenRecord \/ LoadStore \/ LoadSetup \/ EndSetup \/ Select
           \/ Run \/ EndSuite \/ LoadTeardown \/ EndTeardown \/ CloseRecord \/ Unwind
           \/ Report

Next == Proceed \/ Interrupt \/ Panic \/ Over

Spec == Init /\ [][Next]_vars
-----------------------------------------------------------------------------
(* Properties *)

Tails == {i \in 1..Len(record) : record[i].ev = "tail"}
Told(s) == {i \in 1..Len(record) : record[i].ev = "finished" /\ record[i].s = s}
SuiteRan == conf.kept # {} /\ \A s \in conf.kept : results[s] \in Settled

(* A run that came to its end leaves one story in its record, whatever path it
   took out of `execute`: one head, first; one tail, last; between them every
   settled scenario of every phase once, as it settled; and the tail counts the
   suite and not its phases (exec.rs, `RunRecord`, `suppress_run_head_tail`). *)
OneStory ==
    (at = "done" /\ record # <<>> /\ ~lost) =>
        /\ record[1].ev = "head"
        /\ Tails = {Len(record)}
        /\ Len(record) = 2 + Cardinality({s \in Scenarios : results[s] \in Settled})
        /\ \A s \in Scenarios : results[s] \in Settled =>
              \E i \in Told(s) : record[i].kind = results[s]
        /\ LET tail == record[Len(record)] IN
             tail.passed + tail.failed + tail.skipped
                = Cardinality({s \in conf.kept : results[s] \in Settled})

(* A record with a tail is complete: nothing is running or left in the queue
   of a phase that was entered, and no event follows the tail, a panic or a
   second interrupt notwithstanding (exec.rs, `RunRecord::drop`). *)
TailCertifies ==
    Tails # {} =>
        /\ Tails = {Len(record)}
        /\ \A p \in Phases :
             With(p, {"running"} \cup Settled) # {} => Members(p) = With(p, Settled)

(* The record can be believed: a tail is put under a whole story only, and it
   tells that story. *)
TailTrue == OneStory /\ TailCertifies

(* The suite never runs against state that was not set up: no suite scenario
   has started unless each setup scenario that its author did not park is
   green, interrupts at any point included (exec.rs, the two setup aborts). *)
SuiteOnBuiltState ==
    (conf.setup /\ With("suite", {"running"} \cup (Kinds \ {"skipped"})) # {}) =>
        /\ SetupScenarios = With("setup", {"passed", "parked"})
        /\ SetupScenarios \ Parked # {}

(* Teardown never dismantles what was not built: where there is a setup, no
   teardown scenario starts unless some setup scenario was completed and none
   of them failed (exec.rs, "the early return is the gate"). *)
TeardownOnBuiltState ==
    (conf.setup /\ With("teardown", {"running"} \cup Kinds) # {}) =>
        /\ SetupScenarios = With("setup", {"passed"} \cup SkippedKinds)
        /\ With("setup", {"passed"}) # {}

(* Cleanup outlives the interrupt: a run that came to its end after its suite
   has let each teardown scenario run, or says by its exit code that teardown
   could not be loaded (exec.rs, `teardown_cancel`). *)
CleanupOutlivesInterrupt ==
    (at = "done" /\ conf.teardown /\ SuiteRan) =>
        \/ TeardownScenarios = With("teardown", Settled \ {"skipped"})
        \/ With("teardown", Settled) = {} /\ exit \in {"UserError", "SystemError"}

(* Fixtures hold: nothing runs on state that is not there, and what was built
   is dismantled although the user interrupts (exec.rs, the two setup aborts,
   the gate in front of teardown and teardown's own token). *)
FixturesHold == SuiteOnBuiltState /\ TeardownOnBuiltState /\ CleanupOutlivesInterrupt

\* The ways to 0.  Two of them run no suite.
SuiteDone ==
    /\ SuiteRan /\ ~summaryCancelled /\ ~lost
    /\ \A s \in conf.kept : \/ results[s] \in {"passed", "parked"}
                            \/ s \in Quarantined /\ results[s] = "failed"
    /\ conf.setup => SetupScenarios = With("setup", {"passed", "parked"})
    /\ conf.teardown => /\ TeardownScenarios = With("teardown", {"passed", "parked"})
                        /\ TeardownScenarios \ Parked # {}
EmptyShard ==
    /\ conf.sharded /\ conf.kept = {} /\ conf.filtered # {}
    /\ conf.setup => /\ SetupScenarios = With("setup", {"passed"} \cup SkippedKinds)
                     /\ With("setup", {"passed"}) # {}
    /\ \A s \in SuiteScenarios \cup TeardownScenarios : results[s] = "queued"
NothingToRerun ==
    conf.clean /\ record = <<>> /\ \A s \in Scenarios : results[s] = "queued"

(* Exit 0 is not given lightly: the suite is green but for what is parked or
   quarantined, nobody cancelled it, its setup and its teardown are green, and
   its record is whole.  Just two other ways lead to 0: an empty shard, behind a
   setup that did not fail and in front of a teardown that is not run, and a
   `--rerun` with nothing to rerun, which runs and records nothing at all
   (exec.rs, the early `return` of `--rerun`, the empty shard, and from
   `base_exit` to `escalate_environment_failures`). *)
GreenMeansDone ==
    (at = "done" /\ exit = "Success") => SuiteDone \/ EmptyShard \/ NothingToRerun

(* A broken fixture never passes for a failing test: with a fault or a failed
   assertion in setup or teardown the run ends on 2 or 3 (exec.rs,
   `phase_failed`, `teardown_exit`). *)
FixtureFaultsOutrank ==
    (at = "done" /\ \E p \in {"setup", "teardown"} :
                      With(p, FailedKinds \cup {"unclosed"}) # {}) =>
        exit \in {"UserError", "SystemError"}

(* The run's token has a cause: an interrupt, or as many suite failures as
   `--max-fail` allows; a phase's failures never cancel anything (exec.rs,
   `trip_on_max_fail`). *)
CancelledHasCause ==
    token => \/ signals > 0
             \/ MaxFail > 0 /\ Cardinality(With("suite", FailedKinds)) >= MaxFail

(* The exit code tells what the run came to: 0 stands for a suite that is done,
   for an empty shard or for a rerun with nothing to rerun, a broken fixture is
   never reported as a failing test, and a run is cut off for a reason only. *)
ExitTells == GreenMeansDone /\ FixtureFaultsOutrank /\ CancelledHasCause

=============================================================================
