--------------------------- MODULE ExecuteProofs ---------------------------
(* Theorems about `proef test` as a whole: fixtures hold, the exit code     *)
(* tells what the run came to, and the record can be believed.              *)
EXTENDS Execute, FiniteSetTheorems, TLAPS

Codes  == {"Success", "TestFailure", "UserError", "SystemError"}
Faults == {"UserError", "SystemError"}
Bad    == FailedKinds \cup {"unclosed"}
Stages == {"preflight", "open", "load", "loadSetup", "setup", "select", "suite",
           "loadTeardown", "teardown", "close", "report", "unwind", "done", "killed"}

Early == {"preflight", "open", "load", "loadSetup"}
\* The suite is over.
Late  == {"loadTeardown", "teardown", "close", "report"}

RunTypeOK ==
    /\ at \in Stages
    /\ conf \in Invocations
    /\ token \in BOOLEAN /\ summaryCancelled \in BOOLEAN /\ lost \in BOOLEAN
    /\ signals \in Nat
    /\ results \in [Scenarios -> {"queued", "running"} \cup Settled]
    /\ teardownExit \in Codes /\ exit \in Codes

Untouched(S) == \A s \in S : results[s] = "queued"

\* No phase is touched before its turn.
InTurn ==
    /\ at \in Early => Untouched(SetupScenarios)
    /\ at \in Early \cup {"setup", "select", "unwind"} => Untouched(SuiteScenarios)
    /\ at \in Early \cup {"setup", "select", "unwind", "suite", "loadTeardown"}
          => Untouched(TeardownScenarios)
    /\ Untouched(SuiteScenarios \ conf.kept)
    /\ at \in {"loadSetup", "setup"} => conf.setup
    /\ at \in {"loadTeardown", "teardown"} => conf.teardown
    /\ at \in {"suite"} \cup Late => conf.kept # {}

ParkedOnly ==
    \A s \in Scenarios : /\ results[s] = "parked" => s \in Parked
                         /\ s \in Parked => results[s] \in {"queued", "parked"}

SetupDone ==
    /\ \A s \in SetupScenarios : results[s] \in {"passed", "skipped", "parked"}
    /\ \E s \in SetupScenarios : results[s] = "passed"

\* Nothing starts behind a setup that is not done.
Built ==
    /\ conf.setup
    /\ \/ at \in {"select", "suite"} \cup Late
       \/ \E s \in SuiteScenarios \cup TeardownScenarios : results[s] # "queued"
    => SetupDone

\* Who was skipped was skipped for the token, which is never taken back.
SkippedByToken ==
    /\ \A s \in SetupScenarios \cup SuiteScenarios : results[s] = "skipped" => token
    /\ \A s \in TeardownScenarios : results[s] # "skipped"
    /\ \A s \in SetupScenarios : results[s] = "skipped" =>
          \A x \in SuiteScenarios : results[x] \in {"queued", "skipped", "parked"}

SuiteOver ==
    at \in Late =>
        /\ \A s \in conf.kept : results[s] \in Settled
        /\ \A s \in SetupScenarios \cup conf.kept : results[s] = "skipped" => summaryCancelled

TeardownGreen ==
    /\ \A s \in TeardownScenarios : results[s] \in {"passed", "parked"}
    /\ \E s \in TeardownScenarios : results[s] = "passed"

TeardownOver ==
    at \in {"close", "report"} =>
        /\ conf.teardown =>
              \/ \A s \in TeardownScenarios : results[s] \in Settled
              \/ Untouched(TeardownScenarios) /\ teardownExit \in Faults
        /\ conf.teardown /\ teardownExit = "Success" => TeardownGreen
        /\ ~(teardownExit \in Faults) => \A s \in TeardownScenarios : results[s] \notin Bad

\* A broken setup ends the run, with its code.
SetupFault ==
    (\E s \in SetupScenarios : results[s] \in Bad) =>
        \/ at \in {"setup", "killed"}
        \/ at \in {"unwind", "done"} /\ exit \in Faults

UnwindTells ==
    at = "unwind" =>
        \/ exit \in Faults
        \/ /\ exit = "Success" /\ conf.kept = {} /\ conf.filtered # {}
           /\ conf.setup => SetupDone

\* Nothing is recorded before the record is opened.
Unopened == at = "preflight" => record = <<>>


RunInv ==
    /\ RunTypeOK /\ InTurn /\ ParkedOnly /\ Built /\ SkippedByToken
    /\ SuiteOver /\ TeardownOver /\ SetupFault /\ UnwindTells /\ Unopened
    /\ CleanupOutlivesInterrupt /\ GreenMeansDone /\ FixtureFaultsOutrank /\ CancelledHasCause

USE PhasesAssumption

-----------------------------------------------------------------------------
(* Codes *)

\* The worst of some codes is one of them, and none is worse.
LEMMA WorstIs ==
    ASSUME NEW S \in SUBSET Codes, S # {}
    PROVE  Worst(S) \in S /\ \A d \in S : Rank(d) <= Rank(Worst(S))
<1>1. \E c \in S : \A d \in S : Rank(d) <= Rank(c)
  <2>1. CASE "SystemError" \in S
    BY <2>1 DEF Rank, Codes
  <2>2. CASE "SystemError" \notin S /\ "UserError" \in S
    BY <2>2 DEF Rank, Codes
  <2>3. CASE S \subseteq {"Success", "TestFailure"} /\ "TestFailure" \in S
    BY <2>3 DEF Rank, Codes
  <2>4. CASE S = {"Success"}
    BY <2>4 DEF Rank, Codes
  <2> QED
    BY <2>1, <2>2, <2>3, <2>4 DEF Codes
<1> QED
  BY <1>1, Zenon DEF Worst

\* Only greens have a green for their worst.
LEMMA WorstIsGreen ==
    ASSUME NEW S \in SUBSET Codes, NEW d \in S, Worst(S) = "Success"
    PROVE  d = "Success"
<1>1. Rank(d) <= Rank("Success") /\ d \in Codes
  BY WorstIs
<1> QED
  BY <1>1 DEF Rank, Codes

\* phase_failed sees every fault of its phase, and green is green.
LEMMA PhaseFailedIs ==
    ASSUME NEW p, NEW failure \in Faults,
           \A s \in Members(p) : results[s] \in {"queued", "running"} \cup Settled
    PROVE  /\ PhaseFailed(p, failure) \in Codes \ {"TestFailure"}
           /\ (\E s \in Members(p) : results[s] \in Bad) => PhaseFailed(p, failure) \in Faults
<1> DEFINE S == {"Success"} \cup {CodeOf(results[s], failure) : s \in Members(p)}
<1>1. S \in SUBSET (Codes \ {"TestFailure"}) /\ "Success" \in S
  BY DEF CodeOf, Codes, Faults
<1>2. Worst(S) \in S /\ \A d \in S : Rank(d) <= Rank(Worst(S))
  BY <1>1, WorstIs DEF Codes
<1>3. PhaseFailed(p, failure) = Worst(S)
  BY DEF PhaseFailed
<1>4. ASSUME NEW s \in Members(p), results[s] \in Bad
      PROVE  Worst(S) \in Faults
  <2>1. CodeOf(results[s], failure) \in S \cap Faults
    BY <1>4 DEF CodeOf, Bad, FailedKinds, Faults
  <2>2. Rank(CodeOf(results[s], failure)) >= 2
    BY <2>1 DEF Rank, Faults
  <2> QED
    BY <1>1, <1>2, <2>1, <2>2 DEF Rank, Codes, Faults
<1> QED
  BY <1>1, <1>2, <1>3, <1>4

\* A suite's verdict is one of the codes, and 0 forgives quarantine only.
LEMMA SuiteVerdictIs ==
    ASSUME \A s \in conf.kept : results[s] \in {"queued", "running"} \cup Settled
    PROVE  /\ SuiteVerdict \in Codes
           /\ SuiteVerdict = "Success" =>
                 /\ ~summaryCancelled
                 /\ \A s \in conf.kept :
                       /\ results[s] \notin {"user", "system", "unclosed"}
                       /\ results[s] = "failed" => s \in Quarantined
<1> DEFINE Code(s) == CodeOf(results[s], IF s \in Quarantined THEN "Success" ELSE "TestFailure")
           C == IF summaryCancelled THEN "TestFailure" ELSE "Success"
           S == {C} \cup {Code(s) : s \in conf.kept}
<1>1. S \in SUBSET Codes /\ S # {}
  BY DEF CodeOf, Codes
<1>2. Worst(S) \in S /\ \A d \in S : Rank(d) <= Rank(Worst(S))
  BY <1>1, WorstIs
<1>3. SuiteVerdict = Worst(S)
  BY DEF SuiteVerdict
<1>4. ASSUME SuiteVerdict = "Success" PROVE \A d \in S : d = "Success"
  <2> HIDE DEF S
  <2>1. Worst(S) = "Success"
    BY <1>3, <1>4
  <2> QED
    BY <1>1, <2>1, WorstIsGreen
<1>5. ASSUME SuiteVerdict = "Success" PROVE ~summaryCancelled
  BY <1>4, <1>5
<1>6. ASSUME SuiteVerdict = "Success", NEW s \in conf.kept
      PROVE  /\ results[s] \notin {"user", "system", "unclosed"}
             /\ results[s] = "failed" => s \in Quarantined
  <2>1. Code(s) = "Success"
    BY <1>4, <1>6
  <2> QED
    BY <2>1 DEF CodeOf
<1> QED
  BY <1>1, <1>2, <1>3, <1>5, <1>6

-----------------------------------------------------------------------------
(* The invariant holds at first, and every step keeps it *)

LEMMA ConfIs ==
    ASSUME conf \in Invocations
    PROVE  /\ conf.kept \subseteq SuiteScenarios
           /\ IsFiniteSet(conf.kept)
           /\ conf.setup => SetupScenarios # {}
           /\ conf.teardown => TeardownScenarios # {}
<1>1. conf.kept \subseteq SuiteScenarios
  BY DEF Invocations
<1>2. IsFiniteSet(conf.kept)
  BY <1>1, FS_Subset DEF Scenarios
<1> QED
  BY <1>1, <1>2 DEF Invocations

LEMMA InitRunInv == Init => RunInv
<1> SUFFICES ASSUME Init PROVE RunInv
  OBVIOUS
<1>1. RunTypeOK
  BY DEF Init, RunTypeOK, Stages, Codes
<1>2. InTurn /\ ParkedOnly /\ Built /\ SkippedByToken
  BY DEF Init, InTurn, Untouched, Early, Late, ParkedOnly, Built, SkippedByToken, Scenarios
<1>3. SuiteOver /\ TeardownOver /\ SetupFault /\ UnwindTells /\ Unopened
  BY DEF Init, SuiteOver, TeardownOver, SetupFault, UnwindTells, Unopened, Late, Bad, FailedKinds, Scenarios
<1>4. CleanupOutlivesInterrupt /\ GreenMeansDone /\ FixtureFaultsOutrank /\ CancelledHasCause
  BY DEF Init, CleanupOutlivesInterrupt, GreenMeansDone, FixtureFaultsOutrank, CancelledHasCause
<1> QED
  BY <1>1, <1>2, <1>3, <1>4 DEF RunInv

\* What is claimed only of a run that is done.
Verdicts == CleanupOutlivesInterrupt /\ GreenMeansDone /\ FixtureFaultsOutrank

\* What each stage finds, and leaves behind.
StagesInv == InTurn /\ Built /\ SuiteOver /\ TeardownOver /\ SetupFault /\ UnwindTells /\ Unopened

LEMMA NotYetDone == at # "done" => Verdicts
BY DEF Verdicts, CleanupOutlivesInterrupt, GreenMeansDone, FixtureFaultsOutrank

\* A step that leaves the scenarios alone keeps what is said of them.
LEMMA ScenariosKept ==
    ASSUME RunInv, UNCHANGED <<conf, results>>, token => token'
    PROVE  ParkedOnly' /\ SkippedByToken'
BY DEF RunInv, ParkedOnly, SkippedByToken

LEMMA CauseKept ==
    ASSUME RunInv, UNCHANGED <<conf, results, token, signals>>
    PROVE  CancelledHasCause'
BY DEF RunInv, CancelledHasCause, With, Members

LEMMA OpenRecordKeeps == RunInv /\ OpenRecord => RunInv'
<1> SUFFICES ASSUME RunInv, OpenRecord PROVE RunInv'
  OBVIOUS
<1>1. ParkedOnly' /\ SkippedByToken' /\ CancelledHasCause'
  BY ScenariosKept, CauseKept DEF OpenRecord, Write
<1>2. RunTypeOK'
  BY DEF RunInv, RunTypeOK, OpenRecord, Stages, Codes, Write
<1>3. StagesInv'
  BY DEF OpenRecord, RunInv, RunTypeOK, StagesInv, InTurn, Untouched, Early, Late, Built, SuiteOver, TeardownOver, SetupFault, UnwindTells, Unopened, Bad, FailedKinds, SetupDone, Write
<1>4. Verdicts'
  BY NotYetDone DEF OpenRecord, Verdicts, CleanupOutlivesInterrupt, GreenMeansDone, FixtureFaultsOutrank, Write
<1> QED
  BY <1>1, <1>2, <1>3, <1>4 DEF RunInv, StagesInv, Verdicts

LEMMA LoadStoreKeeps == RunInv /\ LoadStore => RunInv'
<1> SUFFICES ASSUME RunInv, LoadStore PROVE RunInv'
  OBVIOUS
<1>1. ParkedOnly' /\ SkippedByToken' /\ CancelledHasCause'
  BY ScenariosKept, CauseKept DEF LoadStore, Return
<1>2. RunTypeOK'
  BY DEF RunInv, RunTypeOK, LoadStore, Stages, Codes, Return, Faults
<1>3. StagesInv'
  BY DEF LoadStore, RunInv, RunTypeOK, StagesInv, InTurn, Untouched, Early, Late, Built, SuiteOver, TeardownOver, SetupFault, UnwindTells, Unopened, Bad, FailedKinds, SetupDone, Return, Faults
<1>4. Verdicts'
  BY NotYetDone DEF LoadStore, Verdicts, CleanupOutlivesInterrupt, GreenMeansDone, FixtureFaultsOutrank, Return, Faults
<1> QED
  BY <1>1, <1>2, <1>3, <1>4 DEF RunInv, StagesInv, Verdicts

LEMMA LoadSetupKeeps == RunInv /\ LoadSetup => RunInv'
<1> SUFFICES ASSUME RunInv, LoadSetup PROVE RunInv'
  OBVIOUS
<1>1. ParkedOnly' /\ SkippedByToken' /\ CancelledHasCause'
  BY ScenariosKept, CauseKept DEF LoadSetup, Return
<1>2. RunTypeOK'
  BY DEF RunInv, RunTypeOK, LoadSetup, Stages, Codes, Return, Faults
<1>3. StagesInv'
  <2>1. InTurn'
    BY DEF LoadSetup, RunInv, RunTypeOK, InTurn, Untouched, Early, Late, Return, Faults
  <2>2. Built'
    BY DEF LoadSetup, RunInv, RunTypeOK, Built, SetupDone, InTurn, Untouched, Early, Late, Return, Faults
  <2>3. SuiteOver'
    BY DEF LoadSetup, RunInv, RunTypeOK, SuiteOver, Late, Return, Faults
  <2>4. TeardownOver'
    BY DEF LoadSetup, RunInv, RunTypeOK, TeardownOver, InTurn, Untouched, Bad, FailedKinds, Return, Faults
  <2>5. SetupFault'
    BY DEF LoadSetup, RunInv, RunTypeOK, SetupFault, InTurn, Untouched, Early, Late, Bad, FailedKinds, Return, Faults
  <2>6. UnwindTells' /\ Unopened'
    BY DEF LoadSetup, RunInv, RunTypeOK, UnwindTells, Unopened, Return, Faults
  <2> QED
    BY <2>1, <2>2, <2>3, <2>4, <2>5, <2>6 DEF StagesInv
<1>4. Verdicts'
  BY NotYetDone DEF LoadSetup, Verdicts, CleanupOutlivesInterrupt, GreenMeansDone, FixtureFaultsOutrank, Return, Faults
<1> QED
  BY <1>1, <1>2, <1>3, <1>4 DEF RunInv, StagesInv, Verdicts

\* A setup goes by its worst fault, and by its skips when there is none.
LEMMA EndSetupKeeps == RunInv /\ EndSetup => RunInv'
<1> SUFFICES ASSUME RunInv, EndSetup PROVE RunInv'
  OBVIOUS
<1> DEFINE code == PhaseFailed("setup", "UserError")
<1>1. ParkedOnly' /\ SkippedByToken' /\ CancelledHasCause'
  BY ScenariosKept, CauseKept DEF EndSetup
<1>2. /\ \A s \in SetupScenarios : results[s] \in Settled
      /\ SetupScenarios # {}
  BY ConfIs DEF EndSetup, With, Members, RunInv, RunTypeOK, InTurn
<1>3. /\ code \in Codes \ {"TestFailure"}
      /\ (\E s \in SetupScenarios : results[s] \in Bad) => code \in Faults
  <2>1. Members("setup") = SetupScenarios
    BY DEF Members
  <2> QED
    BY <1>2, <2>1, PhaseFailedIs DEF Faults
<1>4. /\ at' \in {"select", "unwind"}
      /\ at' = "unwind" => exit' \in Faults
      /\ at' = "select" => code = "Success" /\ ~OnlySkipped("setup") /\ exit' = exit
  <2> HIDE DEF code
  <2>1. IF code # "Success" THEN Return(code)
        ELSE IF OnlySkipped("setup") THEN Return("SystemError")
        ELSE at' = "select" /\ UNCHANGED exit
    BY DEF EndSetup, code
  <2> QED
    BY <1>3, <2>1 DEF Return, Codes, Faults
<1>5. at' = "select" => SetupDone
  <2>1. ASSUME at' = "select" PROVE \A s \in SetupScenarios : results[s] \notin Bad
    BY <1>3, <1>4, <2>1 DEF Faults
  <2>2. ASSUME at' = "select" PROVE \E s \in SetupScenarios : results[s] \notin SkippedKinds
    BY <1>2, <1>4, <2>2 DEF OnlySkipped, With, Members
  <2> QED
    BY <1>2, <2>1, <2>2 DEF SetupDone, Settled, Kinds, Bad, FailedKinds, SkippedKinds
<1>6. UNCHANGED <<conf, token, signals, results, lost, summaryCancelled, teardownExit>> /\ at = "setup"
  BY DEF EndSetup
<1>7. RunTypeOK'
  BY <1>4, <1>6 DEF RunInv, RunTypeOK, Stages, Codes, Faults
<1>8. StagesInv'
  <2>1. InTurn' /\ SuiteOver' /\ TeardownOver' /\ UnwindTells' /\ Unopened'
    BY <1>4, <1>6 DEF RunInv, InTurn, Untouched, Early, Late, SuiteOver, TeardownOver, UnwindTells, Unopened
  <2>2. Built'
    BY <1>4, <1>5, <1>6 DEF RunInv, RunTypeOK, InTurn, Untouched, Built, SetupDone, Late
  <2>3. SetupFault'
    BY <1>4, <1>5, <1>6 DEF SetupFault, SetupDone, Bad, FailedKinds
  <2> QED
    BY <2>1, <2>2, <2>3 DEF StagesInv
<1>9. Verdicts'
  BY <1>4, NotYetDone DEF Verdicts, CleanupOutlivesInterrupt, GreenMeansDone, FixtureFaultsOutrank
<1> QED
  BY <1>1, <1>7, <1>8, <1>9 DEF RunInv, StagesInv, Verdicts

LEMMA SelectKeeps == RunInv /\ Select => RunInv'
<1> SUFFICES ASSUME RunInv, Select PROVE RunInv'
  OBVIOUS
<1>1. ParkedOnly' /\ SkippedByToken' /\ CancelledHasCause'
  BY ScenariosKept, CauseKept DEF Select, Return
<1>2. RunTypeOK'
  BY DEF RunInv, RunTypeOK, Select, Stages, Codes, Return, Faults
<1>3. StagesInv'
  BY DEF Select, RunInv, RunTypeOK, StagesInv, InTurn, Untouched, Early, Late, Built, SuiteOver, TeardownOver, SetupFault, UnwindTells, Unopened, Bad, FailedKinds, SetupDone, Return, Faults
<1>4. Verdicts'
  BY NotYetDone DEF Select, Verdicts, CleanupOutlivesInterrupt, GreenMeansDone, FixtureFaultsOutrank, Return, Faults
<1> QED
  BY <1>1, <1>2, <1>3, <1>4 DEF RunInv, StagesInv, Verdicts

LEMMA EndSuiteKeeps == RunInv /\ EndSuite => RunInv'
<1> SUFFICES ASSUME RunInv, EndSuite PROVE RunInv'
  OBVIOUS
<1>1. ParkedOnly' /\ SkippedByToken' /\ CancelledHasCause'
  BY ScenariosKept, CauseKept DEF EndSuite
<1>2. RunTypeOK'
  BY DEF RunInv, RunTypeOK, EndSuite, Stages, Codes, Faults
<1>3. StagesInv'
  <2>1. InTurn'
    BY DEF EndSuite, RunInv, RunTypeOK, InTurn, Untouched, Early, Late, Faults
  <2>2. Built'
    BY DEF EndSuite, RunInv, RunTypeOK, Built, SetupDone, InTurn, Untouched, Early, Late, Faults
  <2>3. SuiteOver'
    BY ConfIs DEF EndSuite, RunInv, RunTypeOK, SuiteOver, SkippedByToken, With, Members
  <2>4. TeardownOver'
    BY DEF EndSuite, RunInv, RunTypeOK, TeardownOver, InTurn, Untouched, Bad, FailedKinds, Faults
  <2>5. SetupFault'
    BY DEF EndSuite, RunInv, RunTypeOK, SetupFault, InTurn, Untouched, Early, Late, Bad, FailedKinds, Faults
  <2>6. UnwindTells' /\ Unopened'
    BY DEF EndSuite, RunInv, RunTypeOK, UnwindTells, Unopened, Faults
  <2> QED
    BY <2>1, <2>2, <2>3, <2>4, <2>5, <2>6 DEF StagesInv
<1>4. Verdicts'
  BY NotYetDone DEF EndSuite, Verdicts, CleanupOutlivesInterrupt, GreenMeansDone, FixtureFaultsOutrank, Faults
<1> QED
  BY <1>1, <1>2, <1>3, <1>4 DEF RunInv, StagesInv, Verdicts

LEMMA LoadTeardownKeeps == RunInv /\ LoadTeardown => RunInv'
<1> SUFFICES ASSUME RunInv, LoadTeardown PROVE RunInv'
  OBVIOUS
<1>1. ParkedOnly' /\ SkippedByToken' /\ CancelledHasCause'
  BY ScenariosKept, CauseKept DEF LoadTeardown
<1>2. RunTypeOK'
  BY DEF RunInv, RunTypeOK, LoadTeardown, Stages, Codes, Faults
<1>3. StagesInv'
  BY DEF LoadTeardown, RunInv, RunTypeOK, StagesInv, InTurn, Untouched, Early, Late, Built, SuiteOver, TeardownOver, SetupFault, UnwindTells, Unopened, Bad, FailedKinds, SetupDone, Faults
<1>4. Verdicts'
  BY NotYetDone DEF LoadTeardown, Verdicts, CleanupOutlivesInterrupt, GreenMeansDone, FixtureFaultsOutrank, Faults
<1> QED
  BY <1>1, <1>2, <1>3, <1>4 DEF RunInv, StagesInv, Verdicts

LEMMA EndTeardownKeeps == RunInv /\ EndTeardown => RunInv'
<1> SUFFICES ASSUME RunInv, EndTeardown PROVE RunInv'
  OBVIOUS
<1>1. ParkedOnly' /\ SkippedByToken' /\ CancelledHasCause'
  BY ScenariosKept, CauseKept DEF EndTeardown
<1>2. RunTypeOK'
  BY DEF RunInv, RunTypeOK, EndTeardown, Stages, Codes, Faults
<1>3. StagesInv'
  <2>1. InTurn'
    BY DEF EndTeardown, RunInv, RunTypeOK, InTurn, Untouched, Early, Late, Faults
  <2>2. Built'
    BY DEF EndTeardown, RunInv, RunTypeOK, Built, SetupDone, InTurn, Untouched, Early, Late, Faults
  <2>3. SuiteOver'
    BY DEF EndTeardown, RunInv, RunTypeOK, SuiteOver, Late, Faults
  <2>4. TeardownOver'
    <3> DEFINE code == PhaseFailed("teardown", "SystemError")
    <3>1. /\ \A s \in TeardownScenarios : results[s] \in Settled \ {"skipped"}
          /\ TeardownScenarios # {}
      BY ConfIs DEF EndTeardown, With, Members, RunInv, RunTypeOK, InTurn, SkippedByToken
    <3>2. (\E s \in TeardownScenarios : results[s] \in Bad) => code \in Faults
      <4>1. Members("teardown") = TeardownScenarios
        BY DEF Members
      <4> QED
        BY <3>1, <4>1, PhaseFailedIs DEF Faults
    <3>3. teardownExit' \in {"SystemError", "Success"}
      BY DEF EndTeardown
    <3>4. ASSUME teardownExit' = "Success" PROVE TeardownGreen
      <4>1. code = "Success" /\ ~OnlySkipped("teardown")
        BY <3>4 DEF EndTeardown
      <4>2. \A s \in TeardownScenarios : results[s] \notin Bad
        BY <3>2, <4>1 DEF Faults
      <4>3. \E s \in TeardownScenarios : results[s] \notin SkippedKinds
        BY <3>1, <4>1 DEF OnlySkipped, With, Members
      <4> QED
        BY <3>1, <4>2, <4>3 DEF TeardownGreen, Settled, Kinds, Bad, FailedKinds, SkippedKinds
    <3>5. UNCHANGED <<conf, results>>
      BY DEF EndTeardown
    <3> QED
      BY <3>1, <3>3, <3>4, <3>5 DEF TeardownOver, TeardownGreen, Faults, Bad, FailedKinds
  <2>5. SetupFault'
    BY DEF EndTeardown, RunInv, RunTypeOK, SetupFault, InTurn, Untouched, Early, Late, Bad, FailedKinds, Faults
  <2>6. UnwindTells' /\ Unopened'
    BY DEF EndTeardown, RunInv, RunTypeOK, UnwindTells, Unopened, Faults
  <2> QED
    BY <2>1, <2>2, <2>3, <2>4, <2>5, <2>6 DEF StagesInv
<1>4. Verdicts'
  BY NotYetDone DEF EndTeardown, Verdicts, CleanupOutlivesInterrupt, GreenMeansDone, FixtureFaultsOutrank, Faults
<1> QED
  BY <1>1, <1>2, <1>3, <1>4 DEF RunInv, StagesInv, Verdicts

LEMMA CloseRecordKeeps == RunInv /\ CloseRecord => RunInv'
<1> SUFFICES ASSUME RunInv, CloseRecord PROVE RunInv'
  OBVIOUS
<1>1. ParkedOnly' /\ SkippedByToken' /\ CancelledHasCause'
  BY ScenariosKept, CauseKept DEF CloseRecord, WriteTail, Write
<1>2. RunTypeOK'
  BY DEF RunInv, RunTypeOK, CloseRecord, Stages, Codes, WriteTail, Write
<1>3. StagesInv'
  <2>1. InTurn'
    BY DEF CloseRecord, RunInv, RunTypeOK, InTurn, Untouched, Early, Late, WriteTail, Write
  <2>2. Built'
    BY DEF CloseRecord, RunInv, RunTypeOK, Built, SetupDone, InTurn, Untouched, Early, Late, WriteTail, Write
  <2>3. SuiteOver'
    BY DEF CloseRecord, RunInv, RunTypeOK, SuiteOver, Late, WriteTail, Write
  <2>4. TeardownOver'
    BY DEF CloseRecord, WriteTail, RunInv, TeardownOver, TeardownGreen, Untouched
  <2>5. SetupFault'
    BY DEF CloseRecord, RunInv, RunTypeOK, SetupFault, InTurn, Untouched, Early, Late, Bad, FailedKinds, WriteTail, Write
  <2>6. UnwindTells' /\ Unopened'
    BY DEF CloseRecord, RunInv, RunTypeOK, UnwindTells, Unopened, WriteTail, Write
  <2> QED
    BY <2>1, <2>2, <2>3, <2>4, <2>5, <2>6 DEF StagesInv
<1>4. Verdicts'
  BY NotYetDone DEF CloseRecord, Verdicts, CleanupOutlivesInterrupt, GreenMeansDone, FixtureFaultsOutrank, WriteTail, Write
<1> QED
  BY <1>1, <1>2, <1>3, <1>4 DEF RunInv, StagesInv, Verdicts

LEMMA PreflightKeeps == RunInv /\ Preflight => RunInv'
<1> SUFFICES ASSUME RunInv, Preflight PROVE RunInv'
  OBVIOUS
<1>1. ParkedOnly' /\ SkippedByToken' /\ CancelledHasCause'
  BY ScenariosKept, CauseKept DEF Preflight
<1>2. RunTypeOK'
  BY DEF RunInv, RunTypeOK, Preflight, Stages, Codes
<1>3. StagesInv'
  BY DEF Preflight, RunInv, RunTypeOK, StagesInv, InTurn, Untouched, Early, Late, Built, SuiteOver,
         TeardownOver, SetupFault, UnwindTells, Unopened, Bad, FailedKinds
<1>4. Verdicts'
  <2>1. at' # "done" \/ exit' \in Faults \/ (conf.clean /\ exit' = "Success")
    BY DEF Preflight, Faults
  <2>2. (\A s \in SetupScenarios \cup SuiteScenarios \cup TeardownScenarios : results[s] = "queued")'
    BY DEF Preflight, RunInv, InTurn, Untouched, Early
  <2>3. (conf.kept \subseteq SuiteScenarios)'
    BY ConfIs DEF Preflight, RunInv, RunTypeOK
  <2>4. conf' = conf /\ record' = <<>>
    BY DEF Preflight, RunInv, Unopened
  <2>5. GreenMeansDone'
    BY <2>1, <2>2, <2>4 DEF GreenMeansDone, NothingToRerun, Scenarios, Faults
  <2>6. (CleanupOutlivesInterrupt /\ FixtureFaultsOutrank)'
    BY <2>2, <2>3 DEF CleanupOutlivesInterrupt, FixtureFaultsOutrank,
       SuiteRan, Settled, Kinds, With, Members, FailedKinds
  <2> QED
    BY <2>5, <2>6 DEF Verdicts
<1> QED
  BY <1>1, <1>2, <1>3, <1>4 DEF RunInv, StagesInv, Verdicts

LEMMA UnwindKeeps == RunInv /\ Unwind => RunInv'
<1> SUFFICES ASSUME RunInv, Unwind PROVE RunInv'
  OBVIOUS
<1>0. UNCHANGED <<conf, token, signals, results, summaryCancelled, teardownExit, exit>>
      /\ at = "unwind" /\ at' = "done"
  BY DEF Unwind, WriteTail
<1>1. ParkedOnly' /\ SkippedByToken' /\ CancelledHasCause'
  BY <1>0, ScenariosKept, CauseKept
<1>2. RunTypeOK'
  BY DEF RunInv, RunTypeOK, Unwind, WriteTail, Write, Stages
<1>3. StagesInv'
  BY <1>0 DEF RunInv, StagesInv, InTurn, Untouched, Early, Late, Built, SetupDone, SuiteOver,
              TeardownOver, SetupFault, UnwindTells, Unopened
<1>4. Verdicts'
  <2>1. \/ exit \in Faults
        \/ /\ exit = "Success" /\ conf.kept = {} /\ conf.filtered # {}
           /\ conf.setup => SetupDone
    BY <1>0 DEF RunInv, UnwindTells
  <2>2. conf.kept \subseteq SuiteScenarios
    BY ConfIs DEF RunInv, RunTypeOK
  <2>3. \A s \in SuiteScenarios \cup TeardownScenarios : results[s] = "queued"
    BY <1>0 DEF RunInv, InTurn, Untouched
  <2>4. CleanupOutlivesInterrupt'
    BY <1>0, <2>1, <2>2, <2>3 DEF CleanupOutlivesInterrupt, SuiteRan, Settled, Kinds, Faults
  <2>5. ASSUME exit = "Success" PROVE EmptyShard
    <3>1. conf.kept = {} /\ conf.filtered # {} /\ (conf.setup => SetupDone)
      BY <2>1, <2>5 DEF Faults
    <3>2. conf.sharded
      BY <3>1 DEF RunInv, RunTypeOK, Invocations
    <3>3. SetupDone => /\ SetupScenarios = With("setup", {"passed"} \cup SkippedKinds)
                       /\ With("setup", {"passed"}) # {}
      BY DEF SetupDone, With, Members, SkippedKinds
    <3> QED
      BY <2>3, <3>1, <3>2, <3>3 DEF EmptyShard
  <2>6. EmptyShard => EmptyShard'
    BY <1>0 DEF EmptyShard, With, Members
  <2>7. GreenMeansDone'
    BY <1>0, <2>5, <2>6 DEF GreenMeansDone
  <2>8. FixtureFaultsOutrank'
    BY <1>0, <2>3 DEF FixtureFaultsOutrank, RunInv, SetupFault, With, Members, Bad, FailedKinds, Faults
  <2> QED
    BY <2>4, <2>7, <2>8 DEF Verdicts
<1> QED
  BY <1>1, <1>2, <1>3, <1>4 DEF RunInv, StagesInv, Verdicts

\* What the reporting step makes of the verdict: 0 needs everything green, and
\* a fault of teardown shows.
LEMMA ReportTells ==
    ASSUME RunInv, Report
    PROVE  /\ exit' \in Codes
           /\ exit' = "Success" => SuiteVerdict = "Success" /\ teardownExit = "Success" /\ ~lost
           /\ teardownExit \in Faults => exit' \in Faults
<1>1. SuiteVerdict \in Codes /\ teardownExit \in Codes /\ lost \in BOOLEAN
  <2>1. \A s \in conf.kept : results[s] \in {"queued", "running"} \cup Settled
    BY ConfIs DEF RunInv, RunTypeOK, Scenarios
  <2> QED
    BY <2>1, SuiteVerdictIs DEF RunInv, RunTypeOK
<1>2. PICK breach \in BOOLEAN, failed \in BOOLEAN :
         exit' = Escalate(Outrank(IF breach /\ SuiteVerdict = "Success"
                                  THEN "TestFailure" ELSE SuiteVerdict), failed \/ lost)
  BY DEF Report
<1> DEFINE v == IF breach /\ SuiteVerdict = "Success" THEN "TestFailure" ELSE SuiteVerdict
<1>3. v \in Codes /\ (v = "Success" => SuiteVerdict = "Success")
  BY <1>1 DEF Codes
<1> HIDE DEF v
<1>4. /\ Outrank(v) \in Codes
      /\ Outrank(v) = "Success" => v = "Success" /\ teardownExit = "Success"
      /\ teardownExit \in Faults => Outrank(v) \in Faults
  BY <1>1, <1>3 DEF Outrank, Rank, Codes, Faults
<1>5. exit' = Escalate(Outrank(v), failed \/ lost)
  BY <1>2 DEF v
<1>6. \/ exit' = Outrank(v) /\ ~lost
      \/ exit' = "SystemError"
  BY <1>1, <1>5 DEF Escalate
<1> QED
  BY <1>3, <1>4, <1>6 DEF Codes, Faults

LEMMA ReportKeeps == RunInv /\ Report => RunInv'
<1> SUFFICES ASSUME RunInv, Report PROVE RunInv'
  OBVIOUS
<1>0. UNCHANGED <<conf, token, signals, results, lost, summaryCancelled, teardownExit>>
      /\ at = "report" /\ at' = "done"
  BY DEF Report
<1>1. ParkedOnly' /\ SkippedByToken' /\ CancelledHasCause'
  BY <1>0, ScenariosKept, CauseKept
<1>2. RunTypeOK'
  BY <1>0, ReportTells DEF RunInv, RunTypeOK, Stages
<1>3. StagesInv'
  BY <1>0 DEF RunInv, StagesInv, InTurn, Untouched, Early, Late, Built, SetupDone, SuiteOver,
              TeardownOver, SetupFault, UnwindTells, Unopened
<1>4. conf.kept \subseteq SuiteScenarios /\ conf.kept # {}
  BY <1>0, ConfIs DEF RunInv, RunTypeOK, InTurn, Late
<1>5. CleanupOutlivesInterrupt'
  <2>1. \A s \in TeardownScenarios : results[s] # "skipped"
    BY DEF RunInv, SkippedByToken
  <2>2. ASSUME conf.teardown
        PROVE  \/ \A s \in TeardownScenarios : results[s] \in Settled
               \/ (\A s \in TeardownScenarios : results[s] = "queued") /\ teardownExit \in Faults
    BY <1>0, <2>2 DEF RunInv, TeardownOver, Untouched
  <2>3. ASSUME conf.teardown, teardownExit \in Faults PROVE exit' \in Faults
    BY <2>3, ReportTells
  <2> QED
    BY <1>0, <2>1, <2>2, <2>3
       DEF CleanupOutlivesInterrupt, With, Members, Settled, Kinds, Faults
<1>6. GreenMeansDone'
  <2> SUFFICES ASSUME exit' = "Success" PROVE GreenMeansDone'
    BY DEF GreenMeansDone
  <2>1. SuiteVerdict = "Success" /\ teardownExit = "Success" /\ ~lost
    BY ReportTells
  <2>2. \A s \in conf.kept : results[s] \in {"queued", "running"} \cup Settled
    BY <1>4 DEF RunInv, RunTypeOK, Scenarios
  <2>3. /\ ~summaryCancelled
        /\ \A s \in conf.kept : /\ results[s] \notin {"user", "system", "unclosed"}
                                /\ results[s] = "failed" => s \in Quarantined
    BY <2>1, <2>2, SuiteVerdictIs
  <2>4. /\ \A s \in conf.kept : results[s] \in Settled
        /\ \A s \in SetupScenarios \cup conf.kept : results[s] # "skipped"
    BY <1>0, <2>3 DEF RunInv, SuiteOver, Late
  <2>5. \A s \in conf.kept : \/ results[s] \in {"passed", "parked"}
                             \/ s \in Quarantined /\ results[s] = "failed"
    BY <2>3, <2>4 DEF Settled, Kinds
  <2>6. conf.setup => SetupScenarios = With("setup", {"passed", "parked"})
    BY <1>0, <2>4 DEF RunInv, Built, SetupDone, Late, With, Members
  <2>7. conf.teardown => TeardownGreen
    BY <1>0, <2>1 DEF RunInv, TeardownOver
  <2>8. conf.teardown => /\ TeardownScenarios = With("teardown", {"passed", "parked"})
                         /\ TeardownScenarios \ Parked # {}
    BY <2>7 DEF TeardownGreen, With, Members, RunInv, ParkedOnly, Scenarios
  <2> QED
    BY <1>0, <2>1, <2>3, <2>4, <2>5, <2>6, <2>8, <1>4
       DEF GreenMeansDone, SuiteDone, SuiteRan, With, Members
<1>7. FixtureFaultsOutrank'
  <2>1. \A s \in SetupScenarios : results[s] \notin Bad
    BY <1>0 DEF RunInv, SetupFault
  <2>2. (\E s \in TeardownScenarios : results[s] \in Bad) => exit' \in Faults
    BY <1>0, ReportTells DEF RunInv, TeardownOver
  <2> QED
    BY <1>0, <2>1, <2>2 DEF FixtureFaultsOutrank, With, Members, Bad, Faults
<1> QED
  BY <1>1, <1>2, <1>3, <1>5, <1>6, <1>7 DEF RunInv, StagesInv

\* The process is told to stop, or dies.
LEMMA StopKeeps == RunInv /\ (Interrupt \/ Panic) => RunInv'
<1> SUFFICES ASSUME RunInv, Interrupt \/ Panic PROVE RunInv'
  OBVIOUS
<1>0. /\ UNCHANGED <<conf, results, record, lost, summaryCancelled, teardownExit, exit>>
      /\ at # "done" /\ at' \in {at, "killed"}
  BY DEF Interrupt, Panic, Ended
<1>a. signals' \in Nat
  BY DEF Interrupt, Panic, RunInv, RunTypeOK
<1>b. token' \in BOOLEAN /\ (token => token')
  BY DEF Interrupt, Panic, RunInv, RunTypeOK
<1>c. signals' > 0 \/ UNCHANGED <<token, signals>>
  <2>1. CASE Interrupt
    BY <2>1 DEF Interrupt, RunInv, RunTypeOK
  <2>2. CASE Panic
    BY <2>2 DEF Panic
  <2> QED
    BY <2>1, <2>2
<1>1. RunTypeOK'
  BY <1>0, <1>a, <1>b DEF RunInv, RunTypeOK, Stages
<1>2. ParkedOnly' /\ SkippedByToken'
  BY <1>0, <1>b, ScenariosKept
<1>3. CancelledHasCause'
  BY <1>0, <1>c, CauseKept DEF CancelledHasCause
<1>4. StagesInv'
  BY <1>0 DEF RunInv, StagesInv, InTurn, Untouched, Early, Late, Built, SetupDone, SuiteOver,
              TeardownOver, TeardownGreen, SetupFault, UnwindTells, Unopened
<1>5. Verdicts'
  BY <1>0, NotYetDone DEF Verdicts, CleanupOutlivesInterrupt, GreenMeansDone, FixtureFaultsOutrank
<1> QED
  BY <1>1, <1>2, <1>3, <1>4, <1>5 DEF RunInv, StagesInv, Verdicts

-----------------------------------------------------------------------------
(* The runner's steps: one scenario of the phase at hand moves on *)

\* How one scenario moves on: it starts, is passed over, or settles.
Moves(s, kind) ==
    \/ /\ kind = "running" /\ results[s] = "queued" /\ s \notin Parked /\ ~TokenOf(at)
    \/ /\ kind = "parked" /\ results[s] = "queued" /\ s \in Parked
    \/ /\ kind = "skipped" /\ results[s] = "queued" /\ s \notin Parked /\ TokenOf(at)
    \/ /\ kind \in Kinds /\ results[s] = "running" /\ (kind = "skipped" => TokenOf(at))

\* Whatever moves it, the stages find what they count on.
LEMMA MoveKeeps ==
    ASSUME RunInv, at \in Phases, NEW s \in Members(at), NEW kind, Moves(s, kind),
           results' = [results EXCEPT ![s] = kind],
           UNCHANGED <<at, conf, signals, summaryCancelled, teardownExit, exit>>,
           token' \in BOOLEAN, token => token', lost' \in BOOLEAN
    PROVE  /\ RunTypeOK' /\ ParkedOnly' /\ SkippedByToken' /\ StagesInv' /\ Verdicts'
<1>1. kind \in {"running"} \cup Settled /\ kind # "queued"
  BY DEF Moves, Settled, Kinds
<1>2. /\ at = "setup" => s \in SetupScenarios
      /\ at = "suite" => s \in conf.kept /\ s \in SuiteScenarios
      /\ at = "teardown" => s \in TeardownScenarios
      /\ s \in Scenarios /\ at \in {"setup", "suite", "teardown"}
  BY ConfIs DEF Members, Phases, Scenarios, RunInv, RunTypeOK
<1>3. /\ results'[s] = kind
      /\ \A x \in Scenarios : x # s => results'[x] = results[x]
      /\ results' \in [Scenarios -> {"queued", "running"} \cup Settled]
  BY <1>1, <1>2 DEF RunInv, RunTypeOK
<1>4. /\ at # "setup" => results[s] # "skipped" /\ s \notin SetupScenarios
      /\ at # "suite" => s \notin SuiteScenarios
      /\ at # "teardown" => s \notin TeardownScenarios
  BY <1>2 DEF Moves
<1>5. RunTypeOK'
  BY <1>3 DEF RunInv, RunTypeOK
<1>6. ParkedOnly'
  BY <1>2, <1>3 DEF RunInv, ParkedOnly, Moves, Kinds
<1>7. SkippedByToken'
  <2>1. (\A x \in SetupScenarios \cup SuiteScenarios : results[x] = "skipped" => token)'
    BY <1>2, <1>3, <1>4 DEF RunInv, SkippedByToken, Moves, TokenOf, Scenarios, Kinds
  <2>2. (\A x \in TeardownScenarios : results[x] # "skipped")'
    BY <1>2, <1>3, <1>4 DEF RunInv, SkippedByToken, Moves, TokenOf, Scenarios
  <2>3. ASSUME NEW x \in SetupScenarios, results'[x] = "skipped", NEW y \in SuiteScenarios
        PROVE  results'[y] \in {"queued", "skipped", "parked"}
    <3>1. CASE at = "setup"
      BY <1>2, <1>3, <1>4, <3>1 DEF RunInv, InTurn, Untouched, Scenarios
    <3>2. CASE at = "suite"
      <4>1. results[x] = "skipped" /\ token /\ results[y] \in {"queued", "skipped", "parked"}
        BY <1>3, <1>4, <2>3, <3>2 DEF RunInv, SkippedByToken, Scenarios
      <4>2. y = s => kind \in {"skipped", "parked"}
        BY <3>2, <4>1 DEF Moves, TokenOf
      <4> QED
        BY <1>3, <4>1, <4>2 DEF Scenarios
    <3>3. CASE at = "teardown"
      BY <1>3, <1>4, <2>3, <3>3 DEF RunInv, SkippedByToken, Scenarios
    <3> QED
      BY <1>2, <3>1, <3>2, <3>3
  <2> QED
    BY <2>1, <2>2, <2>3 DEF SkippedByToken
<1>8. StagesInv'
  <2>1. InTurn'
    BY <1>2, <1>3, <1>4 DEF RunInv, InTurn, Untouched, Early, Late, Scenarios
  <2>2. Built'
    <3>1. CASE at = "setup"
      BY <1>2, <1>3, <1>4, <3>1 DEF RunInv, Built, InTurn, Untouched, Late, Scenarios
    <3>2. CASE at \in {"suite", "teardown"}
      BY <1>3, <1>4, <3>2 DEF RunInv, Built, SetupDone, Late, Scenarios
    <3> QED
      BY <1>2, <3>1, <3>2
  <2>3. SuiteOver'
    BY <1>2, <1>3, <1>4, ConfIs DEF RunInv, RunTypeOK, SuiteOver, Late, Scenarios
  <2>4. TeardownOver' /\ UnwindTells' /\ Unopened'
    BY <1>2 DEF TeardownOver, UnwindTells, Unopened
  <2>5. SetupFault'
    BY <1>2, <1>3, <1>4 DEF RunInv, SetupFault, Scenarios
  <2> QED
    BY <2>1, <2>2, <2>3, <2>4, <2>5 DEF StagesInv
<1>9. Verdicts'
  BY <1>2, NotYetDone DEF Verdicts, CleanupOutlivesInterrupt, GreenMeansDone, FixtureFaultsOutrank
<1> QED
  BY <1>5, <1>6, <1>7, <1>8, <1>9

\* Failures of the suite are only ever added to, so a cause stays a cause.
LEMMA MoveCause ==
    ASSUME RunInv, at \in Phases, NEW s \in Members(at), NEW kind, Moves(s, kind),
           results' = [results EXCEPT ![s] = kind], UNCHANGED <<at, conf, signals>>,
           UNCHANGED token \/ Trip(s, kind)
    PROVE  CancelledHasCause'
<1> DEFINE F == With("suite", FailedKinds)
<1>1. F = {x \in conf.kept : results[x] \in FailedKinds}
      /\ F' = {x \in conf.kept : results'[x] \in FailedKinds}
  BY DEF With, Members
<1>2. conf.kept \subseteq SuiteScenarios /\ IsFiniteSet(conf.kept)
  BY ConfIs DEF RunInv, RunTypeOK
<1>3. s \in Scenarios /\ (at = "suite" => s \in conf.kept)
  BY <1>2 DEF Members, Scenarios
<1>4. results[s] \notin FailedKinds
  BY DEF Moves, FailedKinds
<1>5. /\ results'[s] = kind
      /\ \A x \in Scenarios : x # s => results'[x] = results[x]
  BY <1>3 DEF RunInv, RunTypeOK
<1>6. F \subseteq F' /\ s \notin F
      /\ (at = "suite" /\ kind \in FailedKinds => F' = F \cup {s})
  BY <1>1, <1>2, <1>3, <1>4, <1>5 DEF Scenarios
<1>7. IsFiniteSet(F) /\ IsFiniteSet(F')
  BY <1>1, <1>2, FS_Subset
<1>8. Cardinality(F) \in Nat /\ Cardinality(F') \in Nat /\ Cardinality(F) <= Cardinality(F')
  BY <1>6, <1>7, FS_Subset, FS_CardinalityType
<1>9. at = "suite" /\ kind \in FailedKinds => Cardinality(F') = Cardinality(F) + 1
  BY <1>6, <1>7, FS_AddElement
<1>10. CASE ~token'
  BY <1>10 DEF CancelledHasCause
<1>11. CASE token
  <2>1. signals > 0 \/ (MaxFail > 0 /\ Cardinality(F) >= MaxFail)
    BY <1>11 DEF RunInv, CancelledHasCause
  <2>2. signals > 0 \/ (MaxFail > 0 /\ Cardinality(F') >= MaxFail)
    BY <1>8, <2>1, MaxFailAssumption
  <2> QED
    BY <2>2 DEF CancelledHasCause
<1>12. CASE token' /\ ~token
  <2>1. at = "suite" /\ kind \in FailedKinds /\ Cardinality(F) + 1 = MaxFail
    BY <1>12 DEF Trip
  <2>2. MaxFail > 0 /\ Cardinality(F') >= MaxFail
    BY <1>8, <1>9, <2>1
  <2> QED
    BY <2>2 DEF CancelledHasCause
<1> QED
  BY <1>10, <1>11, <1>12

LEMMA StartKeeps == ASSUME NEW s \in Scenarios, RunInv, Start(s) PROVE RunInv'
<1>1. Moves(s, "running")
  BY DEF Start, Moves
<1>2. /\ at \in Phases /\ s \in Members(at)
      /\ results' = [results EXCEPT ![s] = "running"]
      /\ UNCHANGED <<at, conf, token, signals, lost, summaryCancelled, teardownExit, exit>>
  BY DEF Start
<1>3. token' \in BOOLEAN /\ (token => token') /\ lost' \in BOOLEAN
  BY <1>2 DEF RunInv, RunTypeOK
<1> QED
  BY <1>1, <1>2, <1>3, MoveKeeps, MoveCause DEF RunInv, StagesInv, Verdicts

LEMMA PassOverKeeps == ASSUME NEW s \in Scenarios, RunInv, PassOver(s) PROVE RunInv'
<1>1. PICK kind \in {"parked", "skipped"} :
         /\ Settle(s, kind)
         /\ kind = "parked" => s \in Parked
         /\ kind = "skipped" => s \notin Parked /\ TokenOf(at)
  BY DEF PassOver
<1>2. Moves(s, kind)
  BY <1>1 DEF PassOver, Moves
<1>3. /\ at \in Phases /\ s \in Members(at)
      /\ results' = [results EXCEPT ![s] = kind]
      /\ UNCHANGED <<at, conf, token, signals, summaryCancelled, teardownExit, exit>>
  BY <1>1 DEF PassOver, Settle
<1>4. token' \in BOOLEAN /\ (token => token') /\ lost' \in BOOLEAN
  BY <1>1, <1>3 DEF RunInv, RunTypeOK, Settle, Write
<1> QED
  BY <1>2, <1>3, <1>4, MoveKeeps, MoveCause DEF RunInv, StagesInv, Verdicts

LEMMA FinishKeeps ==
    ASSUME NEW s \in Scenarios, NEW kind \in Kinds, RunInv, Finish(s, kind) PROVE RunInv'
<1>1. Moves(s, kind)
  BY DEF Finish, Moves
<1>2. /\ at \in Phases /\ s \in Members(at)
      /\ results' = [results EXCEPT ![s] = kind]
      /\ UNCHANGED <<at, conf, signals, summaryCancelled, teardownExit, exit>>
      /\ Trip(s, kind)
  BY DEF Finish, Settle
<1>3. lost' \in BOOLEAN
  BY DEF Finish, Settle, Write, RunInv, RunTypeOK
<1>4. token' \in BOOLEAN /\ (token => token')
  BY <1>2 DEF Trip, RunInv, RunTypeOK
<1> QED
  BY <1>1, <1>2, <1>3, <1>4, MoveKeeps, MoveCause DEF RunInv, StagesInv, Verdicts

-----------------------------------------------------------------------------
LEMMA OverKeeps == RunInv /\ UNCHANGED vars => RunInv'
<1> SUFFICES ASSUME RunInv, UNCHANGED vars PROVE RunInv'
  OBVIOUS
<1>0. UNCHANGED <<at, conf, token, signals, results, record, lost, summaryCancelled,
                 teardownExit, exit>>
  BY DEF vars
<1>1. (RunTypeOK /\ ParkedOnly /\ SkippedByToken)'
  BY <1>0 DEF RunInv, RunTypeOK, ParkedOnly, SkippedByToken
<1>2. StagesInv'
  BY <1>0 DEF RunInv, StagesInv, InTurn, Untouched, Early, Late, Built, SetupDone, SuiteOver,
              TeardownOver, TeardownGreen, SetupFault, UnwindTells, Unopened
<1>3. Verdicts'
  BY <1>0 DEF RunInv, Verdicts, CleanupOutlivesInterrupt, GreenMeansDone, SuiteDone, EmptyShard,
              NothingToRerun, FixtureFaultsOutrank, SuiteRan, With, Members
<1>4. CancelledHasCause'
  BY <1>0, CauseKept
<1> QED
  BY <1>1, <1>2, <1>3, <1>4 DEF RunInv, StagesInv, Verdicts

LEMMA NextRunInv == RunInv /\ [Next]_vars => RunInv'
<1> SUFFICES ASSUME RunInv, Next PROVE RunInv'
  BY OverKeeps
<1>1. CASE Run
  BY <1>1, StartKeeps, PassOverKeeps, FinishKeeps DEF Run
<1>2. CASE Proceed /\ ~Run
  BY <1>2, PreflightKeeps, OpenRecordKeeps, LoadStoreKeeps, LoadSetupKeeps, EndSetupKeeps,
     SelectKeeps, EndSuiteKeeps, LoadTeardownKeeps, EndTeardownKeeps, CloseRecordKeeps,
     UnwindKeeps, ReportKeeps DEF Proceed
<1>3. CASE Interrupt \/ Panic
  BY <1>3, StopKeeps
<1>4. CASE Over
  BY <1>4, OverKeeps DEF Over
<1> QED
  BY <1>1, <1>2, <1>3, <1>4 DEF Next

THEOREM RunIsSound == Spec => []RunInv
<1> QED
  BY InitRunInv, NextRunInv, PTL DEF Spec

-----------------------------------------------------------------------------
(* What a user may rely on *)

\* A suite on state that was built: what runs has a setup that is done behind
\* it, and one nobody cut short, or no suite scenario would have started.
LEMMA SetupBehindSuite == RunInv => SuiteOnBuiltState
<1> SUFFICES ASSUME RunInv, conf.setup,
                    With("suite", {"running"} \cup (Kinds \ {"skipped"})) # {}
             PROVE  /\ SetupScenarios = With("setup", {"passed", "parked"})
                    /\ SetupScenarios \ Parked # {}
  BY DEF SuiteOnBuiltState
<1>1. PICK y \in SuiteScenarios : results[y] \in {"running"} \cup (Kinds \ {"skipped"})
  BY ConfIs DEF With, Members, RunInv, RunTypeOK
<1>2. results[y] \notin {"queued", "skipped", "parked"}
  BY <1>1 DEF Kinds
<1>3. SetupDone
  BY <1>2 DEF RunInv, Built
<1>4. \A s \in SetupScenarios : results[s] # "skipped"
  BY <1>2 DEF RunInv, SkippedByToken
<1> QED
  BY <1>3, <1>4 DEF SetupDone, With, Members, RunInv, ParkedOnly, Scenarios

LEMMA SetupBehindTeardown == RunInv => TeardownOnBuiltState
<1> SUFFICES ASSUME RunInv, conf.setup, With("teardown", {"running"} \cup Kinds) # {}
             PROVE  /\ SetupScenarios = With("setup", {"passed"} \cup SkippedKinds)
                    /\ With("setup", {"passed"}) # {}
  BY DEF TeardownOnBuiltState
<1>1. PICK y \in TeardownScenarios : results[y] # "queued"
  BY DEF With, Members, Kinds
<1>2. SetupDone
  BY <1>1 DEF RunInv, Built
<1> QED
  BY <1>2 DEF SetupDone, With, Members, SkippedKinds

(* For every feature, selection, interrupt and trouble: nothing runs on state
   that was not built, and cleanup outlives the interrupt. *)
THEOREM FixturesHoldAlways == Spec => []FixturesHold
<1>1. RunInv => FixturesHold
  BY SetupBehindSuite, SetupBehindTeardown DEF RunInv, FixturesHold
<1> QED
  BY <1>1, RunIsSound, PTL

(* For every run: 0 stands for a suite that is done, for an empty shard behind a
   setup that did not fail, or for a rerun with nothing to rerun, which leaves no
   record; a broken fixture never passes for a failing test, and a run is cut off
   for a reason only. *)
THEOREM ExitAlwaysTells == Spec => []ExitTells
<1>1. RunInv => ExitTells
  BY DEF RunInv, ExitTells
<1> QED
  BY <1>1, RunIsSound, PTL

-----------------------------------------------------------------------------
(* The record *)

Events == [ev : {"head"}] \cup [ev : {"finished"}, s : Scenarios, kind : Settled]
          \cup [ev : {"tail"}, passed : Nat, failed : Nat, skipped : Nat, cancelled : BOOLEAN]

SettledOf(S) == {s \in S : results[s] \in Settled}
Whole(S) == Untouched(S) \/ \A s \in S : results[s] \in Settled

\* No tail before its time, and nothing after it.
TailInv ==
    /\ record \in Seq(Events)
    /\ at \in {"preflight", "open"} => record = <<>>
    /\ at \notin {"report", "done", "killed"} => Tails = {}
    /\ Tails # {} => /\ Tails = {Len(record)}
                     /\ Whole(SetupScenarios) /\ Whole(conf.kept) /\ Whole(TeardownScenarios)

\* Phases are left whole, and the totals are the suite's.
PhasesInv ==
    /\ at \in {"select", "unwind", "suite"} \cup Late => Whole(SetupScenarios)
    /\ ~conf.teardown => Untouched(TeardownScenarios)
    /\ totals = IF at \in Late THEN Counts("suite")
                ELSE IF at \in {"done", "killed"} THEN totals ELSE NoTotals

ToldAs(s) == \E i \in Told(s) : record[i].kind = results[s]

\* As long as no write is lost, the record is the run so far.
StoryInv ==
    (~lost /\ at \notin {"preflight", "open", "killed"} /\ (at = "done" => record # <<>>)) =>
        /\ record # <<>> /\ record[1].ev = "head"
        /\ Len(record) = Cardinality(SettledOf(Scenarios))
                            + (IF at \in {"report", "done"} THEN 2 ELSE 1)
        /\ \A s \in Scenarios : results[s] \in Settled => ToldAs(s)
        /\ at \in {"report", "done"} =>
              /\ Tails = {Len(record)}
              /\ record[Len(record)].passed + record[Len(record)].failed + record[Len(record)].skipped
                    = Cardinality(SettledOf(conf.kept))

RecordInv == TailInv /\ PhasesInv /\ StoryInv

LEMMA InitRecordInv == Init => RecordInv
<1> SUFFICES ASSUME Init PROVE RecordInv
  OBVIOUS
<1>1. record = <<>> /\ record \in Seq(Events) /\ Tails = {}
  BY DEF Init, Tails
<1>2. TailInv /\ StoryInv
  BY <1>1 DEF Init, TailInv, StoryInv
<1>3. PhasesInv
  BY DEF Init, PhasesInv, Untouched, Late, Scenarios
<1> QED
  BY <1>2, <1>3 DEF RecordInv

\* What a write that succeeds adds.
LEMMA AppendIs ==
    ASSUME record \in Seq(Events), NEW e \in Events, record' = Append(record, e)
    PROVE  /\ record' \in Seq(Events) /\ Len(record') = Len(record) + 1
           /\ record'[Len(record')] = e
           /\ \A i \in 1..Len(record) : record'[i] = record[i]
           /\ e.ev # "tail" => Tails' = Tails
           /\ e.ev = "tail" => Tails' = Tails \cup {Len(record')}
           /\ \A s \in Scenarios : Told(s) \subseteq Told(s)'
<1>1. /\ record' \in Seq(Events) /\ Len(record') = Len(record) + 1
      /\ record'[Len(record')] = e /\ Len(record) \in Nat
      /\ \A i \in 1..Len(record) : record'[i] = record[i]
  OBVIOUS
<1>2. 1..Len(record') = 1..Len(record) \cup {Len(record')}
  BY <1>1
<1>3. e.ev # "tail" => Tails' = Tails
  BY <1>1, <1>2 DEF Tails
<1>4. e.ev = "tail" => Tails' = Tails \cup {Len(record')}
  BY <1>1, <1>2 DEF Tails
<1>5. \A s \in Scenarios : Told(s) \subseteq Told(s)'
  BY <1>1, <1>2 DEF Told
<1> QED
  BY <1>1, <1>3, <1>4, <1>5

\* The three counts of a suite add up to those that settled.
LEMMA CountsAdd ==
    ASSUME RunTypeOK
    PROVE  /\ Counts("suite") \in [passed : Nat, failed : Nat, skipped : Nat]
           /\ Counts("suite").passed + Counts("suite").failed + Counts("suite").skipped
                = Cardinality(SettledOf(conf.kept))
<1> DEFINE P == With("suite", {"passed", "unclosed"})
           F == With("suite", FailedKinds)
           K == With("suite", SkippedKinds)
<1>1. IsFiniteSet(conf.kept)
  BY ConfIs DEF RunTypeOK
<1>2. IsFiniteSet(P) /\ IsFiniteSet(F) /\ IsFiniteSet(K) /\ IsFiniteSet(P \cup F)
  <2>1. P \subseteq conf.kept /\ F \subseteq conf.kept /\ K \subseteq conf.kept /\ P \cup F \subseteq conf.kept
    BY DEF With, Members
  <2> QED
    BY <1>1, <2>1, FS_Subset
<1>3. P \cap F = {} /\ (P \cup F) \cap K = {} /\ (P \cup F) \cup K = SettledOf(conf.kept)
  BY DEF With, Members, SettledOf, Settled, Kinds, FailedKinds, SkippedKinds
<1>4. Cardinality({}) = 0
  BY FS_EmptySet
<1>5. /\ Cardinality(P \cup F) = Cardinality(P) + Cardinality(F) - Cardinality(P \cap F)
      /\ Cardinality((P \cup F) \cup K)
            = Cardinality(P \cup F) + Cardinality(K) - Cardinality((P \cup F) \cap K)
  BY <1>2, FS_Union
<1>6. Cardinality(P) \in Nat /\ Cardinality(F) \in Nat /\ Cardinality(K) \in Nat
  BY <1>2, FS_CardinalityType
<1>7. Counts("suite") = [passed |-> Cardinality(P), failed |-> Cardinality(F), skipped |-> Cardinality(K)]
  BY DEF Counts
<1>8. Cardinality(P) + Cardinality(F) + Cardinality(K) = Cardinality(SettledOf(conf.kept))
  <2> HIDE DEF P, F, K
  <2>1. Cardinality(P \cap F) = 0 /\ Cardinality((P \cup F) \cap K) = 0
    BY <1>3, <1>4
  <2>2. Cardinality((P \cup F) \cup K) = Cardinality(SettledOf(conf.kept))
    BY <1>3
  <2> QED
    BY <1>5, <1>6, <2>1, <2>2
<1> HIDE DEF P, F, K
<1> QED
  BY <1>6, <1>7, <1>8

\* Between the head and the tail.
Midway == {"load", "loadSetup", "setup", "select", "suite", "loadTeardown", "teardown",
           "close", "unwind"}

\* Steps that leave the scenarios and the record alone.
LEMMA QuietKeeps ==
    ASSUME RecordInv, UNCHANGED <<record, lost, conf, results>>,
           \/ at' \in {at, "killed"}
           \/ at = "preflight" /\ at' \in {"open", "done"}
           \/ at = "report" /\ at' = "done"
           \/ at \in Midway /\ at' \in Midway
    PROVE  TailInv' /\ StoryInv'
<1>1. Tails' = Tails /\ \A s \in Scenarios : ToldAs(s)' = ToldAs(s)
  BY DEF Tails, ToldAs, Told
<1>2. UNCHANGED <<SettledOf(Scenarios), SettledOf(conf.kept)>>
  BY DEF SettledOf
<1>3. at = "preflight" => record = <<>> /\ Tails = {}
  BY DEF RecordInv, TailInv, Tails
<1>4. TailInv'
  BY <1>1, <1>3 DEF RecordInv, TailInv, Whole, Untouched, Midway
<1>5. StoryInv'
  BY <1>1, <1>2, <1>3 DEF RecordInv, StoryInv, Midway
<1> QED
  BY <1>4, <1>5

LEMMA PhasesKept ==
    ASSUME RunInv, RecordInv,
           \/ Preflight \/ OpenRecord \/ LoadStore \/ LoadSetup \/ EndSetup \/ Select
           \/ EndSuite \/ LoadTeardown \/ EndTeardown \/ CloseRecord \/ Unwind \/ Report
           \/ Interrupt \/ Panic \/ UNCHANGED vars
    PROVE  PhasesInv'
<1>1. UNCHANGED <<conf, results>>
  BY DEF Preflight, OpenRecord, LoadStore, LoadSetup, EndSetup, Select, EndSuite, LoadTeardown,
         EndTeardown, CloseRecord, Unwind, WriteTail, Report, Interrupt, Panic, vars
<1>2. (~conf.teardown => Untouched(TeardownScenarios))'
  BY <1>1 DEF RecordInv, PhasesInv, Untouched
<1>3. Counts("suite")' = Counts("suite")
  BY <1>1 DEF Counts, With, Members
<1>4. (totals = IF at \in Late THEN Counts("suite")
                ELSE IF at \in {"done", "killed"} THEN totals ELSE NoTotals)'
  <2>1. CASE EndSuite
    BY <1>3, <2>1 DEF EndSuite, SuiteTotals, Late
  <2>2. CASE ~EndSuite
    BY <1>3, <2>2 DEF RecordInv, PhasesInv, Late, Preflight, OpenRecord, LoadStore, LoadSetup,
       EndSetup, Select, Return, LoadTeardown, EndTeardown, CloseRecord, Unwind, WriteTail, Report,
       Interrupt, Panic, vars
  <2> QED
    BY <2>1, <2>2
<1>5. (at \in {"select", "unwind", "suite"} \cup Late => Whole(SetupScenarios))'
  <2>1. CASE EndSetup
    BY <1>1, <2>1 DEF EndSetup, Whole, With, Members
  <2>2. CASE LoadStore \/ LoadSetup
    BY <1>1, <2>2 DEF LoadStore, LoadSetup, RunInv, InTurn, Early, Whole, Untouched
  <2>3. CASE ~(EndSetup \/ LoadStore \/ LoadSetup)
    <3>1. at' \in {"select", "unwind", "suite"} \cup Late => at \in {"select", "unwind", "suite"} \cup Late
      BY <2>3 DEF Late, Preflight, OpenRecord, Select, Return, EndSuite, LoadTeardown, EndTeardown,
         CloseRecord, Unwind, WriteTail, Report, Interrupt, Panic, vars
    <3> QED
      BY <1>1, <3>1 DEF RecordInv, PhasesInv, Whole, Untouched
  <2> QED
    BY <2>1, <2>2, <2>3
<1> QED
  BY <1>2, <1>4, <1>5 DEF PhasesInv

LEMMA ControlKeepsRecord ==
    ASSUME RunInv, RecordInv,
           \/ Preflight \/ LoadStore \/ LoadSetup \/ EndSetup \/ Select \/ EndSuite
           \/ LoadTeardown \/ EndTeardown \/ Report \/ Interrupt \/ Panic \/ UNCHANGED vars
    PROVE  RecordInv'
<1>1. UNCHANGED <<record, lost, conf, results>>
  BY DEF Preflight, LoadStore, LoadSetup, EndSetup, Select, EndSuite, LoadTeardown, EndTeardown,
         Report, Interrupt, Panic, vars
<1>2. \/ at' \in {at, "killed"}
      \/ at = "preflight" /\ at' \in {"open", "done"}
      \/ at = "report" /\ at' = "done"
      \/ at \in Midway /\ at' \in Midway
  BY DEF Midway, Return, Preflight, LoadStore, LoadSetup, EndSetup, Select, EndSuite, LoadTeardown,
         EndTeardown, Report, Interrupt, Panic, vars
<1> QED
  BY <1>1, <1>2, QuietKeeps, PhasesKept DEF RecordInv

LEMMA HeadKeepsRecord == ASSUME RunInv, RecordInv, OpenRecord PROVE RecordInv'
<1> DEFINE e == [ev |-> "head"]
<1>1. UNCHANGED <<conf, results>> /\ at = "open" /\ at' = "load" /\ Write(e)
  BY DEF OpenRecord
<1>2. record = <<>> /\ Tails = {}
  BY <1>1 DEF RecordInv, TailInv
<1>3. e \in Events /\ e.ev # "tail"
  BY DEF Events
<1>4. SettledOf(Scenarios)' = {}
  BY <1>1 DEF SettledOf, RunInv, InTurn, Early, Untouched, Scenarios, Settled, Kinds
<1>5. PhasesInv'
  BY PhasesKept
<1>6. CASE record' = Append(record, e) /\ UNCHANGED lost
  <2>1. record' = <<e>> /\ record' \in Seq(Events) /\ Tails' = {}
    BY <1>2, <1>3, <1>6, AppendIs DEF RecordInv, TailInv
  <2>2. TailInv'
    BY <1>1, <2>1 DEF TailInv
  <2>3. Len(record') = Cardinality(SettledOf(Scenarios)') + 1
    BY <1>4, <2>1, FS_EmptySet
  <2>4. StoryInv'
    BY <1>1, <1>4, <2>1, <2>3 DEF StoryInv, SettledOf
  <2> QED
    BY <1>5, <2>2, <2>4 DEF RecordInv
<1>7. CASE lost' = TRUE /\ UNCHANGED record
  <2>1. TailInv'
    BY <1>1, <1>2, <1>7 DEF RecordInv, TailInv, Tails
  <2>2. StoryInv'
    BY <1>7 DEF StoryInv
  <2> QED
    BY <1>5, <2>1, <2>2 DEF RecordInv
<1> QED
  BY <1>1, <1>6, <1>7 DEF Write

\* The tail goes under a whole run.
LEMMA TailKeepsRecord == ASSUME RunInv, RecordInv, CloseRecord \/ Unwind PROVE RecordInv'
<1> DEFINE e == [ev |-> "tail", passed |-> totals.passed, failed |-> totals.failed,
                 skipped |-> totals.skipped, cancelled |-> token]
<1>1. /\ UNCHANGED <<conf, results>> /\ Write(e)
      /\ \/ at = "close" /\ at' = "report"
         \/ at = "unwind" /\ at' = "done"
  BY DEF CloseRecord, Unwind, WriteTail
<1>2. Tails = {}
  BY <1>1 DEF RecordInv, TailInv
<1>3. /\ totals \in [passed : Nat, failed : Nat, skipped : Nat]
      /\ totals.passed + totals.failed + totals.skipped = Cardinality(SettledOf(conf.kept))
  <2>1. CASE at = "close"
    BY <2>1, CountsAdd DEF RunInv, RecordInv, PhasesInv, Late
  <2>2. CASE at = "unwind"
    <3>1. SettledOf(conf.kept) = {}
      BY <2>2, ConfIs DEF SettledOf, RunInv, RunTypeOK, InTurn, Untouched, Settled, Kinds
    <3>2. totals = NoTotals
      BY <2>2 DEF RecordInv, PhasesInv, Late
    <3> QED
      BY <3>1, <3>2, FS_EmptySet DEF NoTotals
  <2> QED
    BY <1>1, <2>1, <2>2
<1>4. e \in Events /\ e.ev = "tail"
  BY <1>3 DEF Events, RunInv, RunTypeOK
<1>5. PhasesInv'
  BY PhasesKept
<1>6. Whole(SetupScenarios) /\ Whole(conf.kept) /\ Whole(TeardownScenarios)
  <2>1. CASE at = "close"
    BY <2>1 DEF Whole, Late, RunInv, SuiteOver, TeardownOver, RecordInv, PhasesInv
  <2>2. CASE at = "unwind"
    BY <2>2, ConfIs DEF Whole, Untouched, RunInv, RunTypeOK, InTurn, RecordInv, PhasesInv
  <2> QED
    BY <1>1, <2>1, <2>2
<1>7. CASE record' = Append(record, e) /\ UNCHANGED lost
  <2>1. /\ record' \in Seq(Events) /\ Len(record') = Len(record) + 1 /\ Len(record) \in Nat
        /\ record'[Len(record')] = e /\ Tails' = {Len(record')}
        /\ \A i \in 1..Len(record) : record'[i] = record[i]
        /\ \A s \in Scenarios : Told(s) \subseteq Told(s)'
    BY <1>2, <1>4, <1>7, AppendIs DEF RecordInv, TailInv
  <2>2. TailInv'
    BY <1>1, <1>6, <2>1 DEF TailInv, Whole, Untouched
  <2>3. ASSUME ~lost
        PROVE  /\ Len(record) = Cardinality(SettledOf(Scenarios)) + 1
               /\ record # <<>> /\ record[1].ev = "head"
               /\ \A s \in Scenarios : results[s] \in Settled => ToldAs(s)
    BY <1>1, <2>3 DEF RecordInv, StoryInv
  <2>4. UNCHANGED <<SettledOf(Scenarios), SettledOf(conf.kept)>>
    BY <1>1 DEF SettledOf
  <2>5. Cardinality(SettledOf(Scenarios)) \in Nat
    BY FS_Subset, FS_CardinalityType DEF SettledOf
  <2>6. ASSUME ~lost PROVE (\A s \in Scenarios : results[s] \in Settled => ToldAs(s))'
    BY <1>1, <2>1, <2>3, <2>6 DEF ToldAs, Told
  <2>7. ASSUME ~lost PROVE record' # <<>> /\ record'[1].ev = "head"
    BY <2>1, <2>3, <2>7 DEF RecordInv, TailInv
  <2>8. ASSUME ~lost
        PROVE  /\ Len(record') = Cardinality(SettledOf(Scenarios)') + 2
               /\ record'[Len(record')].passed + record'[Len(record')].failed
                     + record'[Len(record')].skipped = Cardinality(SettledOf(conf.kept)')
    BY <1>3, <2>1, <2>3, <2>4, <2>5, <2>8
  <2>9. StoryInv'
    BY <1>1, <1>7, <2>1, <2>6, <2>7, <2>8 DEF StoryInv
  <2> QED
    BY <1>5, <2>2, <2>9 DEF RecordInv
<1>8. CASE lost' = TRUE /\ UNCHANGED record
  <2>1. TailInv'
    BY <1>1, <1>2, <1>8 DEF RecordInv, TailInv, Tails
  <2>2. StoryInv'
    BY <1>8 DEF StoryInv
  <2> QED
    BY <1>5, <2>1, <2>2 DEF RecordInv
<1> QED
  BY <1>1, <1>7, <1>8 DEF Write

\* One scenario moves on, and the phases stay what they are.
LEMMA MoveKeepsPhases ==
    ASSUME RunInv, RecordInv, at \in Phases, NEW s \in Members(at), NEW kind,
           results' = [results EXCEPT ![s] = kind], UNCHANGED <<at, conf, totals>>
    PROVE  PhasesInv'
<1>1. /\ s \in Scenarios /\ at \in {"setup", "suite", "teardown"}
      /\ at # "setup" => s \notin SetupScenarios
      /\ at # "teardown" => s \notin TeardownScenarios
      /\ at # "suite" => s \notin conf.kept
  BY ConfIs DEF Members, Phases, Scenarios, RunInv, RunTypeOK
<1>2. \A x \in Scenarios : x # s => results'[x] = results[x]
  BY DEF RunInv, RunTypeOK
<1>3. (at \in {"select", "unwind", "suite"} \cup Late => Whole(SetupScenarios))'
  BY <1>1, <1>2 DEF RecordInv, PhasesInv, Late, Whole, Untouched, Scenarios
<1>4. (~conf.teardown => Untouched(TeardownScenarios))'
  BY <1>1, <1>2 DEF RecordInv, PhasesInv, Untouched, Scenarios, RunInv, InTurn
<1>5. at = "teardown" => Counts("suite")' = Counts("suite")
  <2>1. conf.kept \subseteq Scenarios
    BY ConfIs DEF Scenarios, RunInv, RunTypeOK
  <2>2. ASSUME at = "teardown", NEW K PROVE With("suite", K)' = With("suite", K)
    BY <1>1, <1>2, <2>1, <2>2 DEF With, Members
  <2> QED
    BY <2>2 DEF Counts
<1>6. (totals = IF at \in Late THEN Counts("suite")
                ELSE IF at \in {"done", "killed"} THEN totals ELSE NoTotals)'
  BY <1>1, <1>5 DEF RecordInv, PhasesInv, Late
<1> QED
  BY <1>3, <1>4, <1>6 DEF PhasesInv

\* A start writes nothing that is followed here.
LEMMA StartKeepsRecord == ASSUME RunInv, RecordInv, NEW s \in Scenarios, Start(s) PROVE RecordInv'
<1>1. /\ at \in Phases /\ s \in Members(at) /\ results[s] = "queued"
      /\ results' = [results EXCEPT ![s] = "running"]
      /\ UNCHANGED <<at, conf, totals, record, lost>>
  BY DEF Start
<1>2. PhasesInv'
  BY <1>1, MoveKeepsPhases
<1>3. \A x \in Scenarios : results'[x] \in Settled <=> results[x] \in Settled /\ results'[x] = results[x]
  BY <1>1 DEF RunInv, RunTypeOK, Settled, Kinds
<1>4. conf.kept \subseteq Scenarios
  BY ConfIs DEF Scenarios, RunInv, RunTypeOK
<1>5. \A S \in SUBSET Scenarios : SettledOf(S)' = SettledOf(S)
  BY <1>1, <1>3 DEF SettledOf, RunInv, RunTypeOK, Settled, Kinds
<1>6. TailInv'
  BY <1>1 DEF RecordInv, TailInv, Tails, Phases
<1>7. StoryInv'
  BY <1>1, <1>3, <1>4, <1>5 DEF RecordInv, StoryInv, Phases, ToldAs, Told
<1> QED
  BY <1>2, <1>6, <1>7 DEF RecordInv

\* A scenario that settles is told, once and as it settled.
LEMMA SettleKeepsRecord ==
    ASSUME RunInv, RecordInv, at \in Phases, NEW s \in Members(at) \cap Scenarios, NEW kind \in Settled,
           results[s] \in {"queued", "running"}, Settle(s, kind)
    PROVE  RecordInv'
<1> DEFINE e == [ev |-> "finished", s |-> s, kind |-> kind]
<1>1. /\ results' = [results EXCEPT ![s] = kind] /\ Write(e)
      /\ UNCHANGED <<at, conf, totals>>
  BY DEF Settle
<1>2. PhasesInv'
  BY <1>1, MoveKeepsPhases
<1>3. Tails = {} /\ at \notin {"preflight", "open", "report", "done", "killed"}
  BY DEF RecordInv, TailInv, Phases
<1>4. e \in Events /\ e.ev = "finished" /\ e.s = s /\ e.kind = kind
  BY DEF Events
<1>5. results'[s] = kind /\ \A x \in Scenarios : x # s => results'[x] = results[x]
  BY <1>1 DEF RunInv, RunTypeOK
<1>6. CASE record' = Append(record, e) /\ UNCHANGED lost
  <2>1. /\ record' \in Seq(Events) /\ Len(record') = Len(record) + 1 /\ Len(record) \in Nat
        /\ record'[Len(record')] = e /\ Tails' = {}
        /\ \A i \in 1..Len(record) : record'[i] = record[i]
        /\ \A x \in Scenarios : Told(x) \subseteq Told(x)'
    BY <1>3, <1>4, <1>6, AppendIs DEF RecordInv, TailInv
  <2>2. TailInv'
    BY <1>1, <1>3, <2>1 DEF TailInv
  <2>3. ASSUME ~lost
        PROVE  /\ Len(record) = Cardinality(SettledOf(Scenarios)) + 1
               /\ record # <<>> /\ record[1].ev = "head"
               /\ \A x \in Scenarios : results[x] \in Settled => ToldAs(x)
    BY <1>3, <2>3 DEF RecordInv, StoryInv
  <2>4. SettledOf(Scenarios)' = SettledOf(Scenarios) \cup {s} /\ s \notin SettledOf(Scenarios)
    BY <1>5 DEF SettledOf, Settled, Kinds
  <2>5. /\ Cardinality(SettledOf(Scenarios)) \in Nat
        /\ Cardinality(SettledOf(Scenarios)') = Cardinality(SettledOf(Scenarios)) + 1
    <3>1. IsFiniteSet(SettledOf(Scenarios))
      BY FS_Subset DEF SettledOf
    <3> QED
      BY <2>4, <3>1, FS_AddElement, FS_CardinalityType
  <2>6. ASSUME ~lost, NEW x \in Scenarios, results'[x] \in Settled PROVE ToldAs(x)'
    <3>1. CASE x = s
      BY <1>4, <1>5, <2>1, <3>1 DEF ToldAs, Told
    <3>2. CASE x # s
      BY <1>5, <2>1, <2>3, <2>6, <3>2 DEF ToldAs, Told
    <3> QED
      BY <3>1, <3>2
  <2>7. ASSUME ~lost PROVE record' # <<>> /\ record'[1].ev = "head"
    BY <2>1, <2>3, <2>7 DEF RecordInv, TailInv
  <2>8. ASSUME ~lost PROVE Len(record') = Cardinality(SettledOf(Scenarios)') + 1
    BY <2>1, <2>3, <2>5, <2>8
  <2>9. StoryInv'
    BY <1>1, <1>3, <1>6, <2>6, <2>7, <2>8 DEF StoryInv
  <2> QED
    BY <1>2, <2>2, <2>9 DEF RecordInv
<1>7. CASE lost' = TRUE /\ UNCHANGED record
  <2>1. TailInv'
    BY <1>1, <1>3, <1>7 DEF RecordInv, TailInv, Tails
  <2>2. StoryInv'
    BY <1>7 DEF StoryInv
  <2> QED
    BY <1>2, <2>1, <2>2 DEF RecordInv
<1> QED
  BY <1>1, <1>6, <1>7 DEF Write

LEMMA NextRecordInv == RunInv /\ RecordInv /\ [Next]_vars => RecordInv'
<1> SUFFICES ASSUME RunInv, RecordInv, [Next]_vars PROVE RecordInv'
  OBVIOUS
<1>1. ASSUME NEW s \in Scenarios, NEW kind \in Kinds, Finish(s, kind) PROVE RecordInv'
  BY <1>1, SettleKeepsRecord DEF Finish, Settled
<1>2. ASSUME NEW s \in Scenarios, PassOver(s) PROVE RecordInv'
  BY <1>2, SettleKeepsRecord DEF PassOver, Settled, Kinds
<1>3. CASE Run
  BY <1>1, <1>2, <1>3, StartKeepsRecord DEF Run
<1>4. CASE ~Run
  BY <1>4, HeadKeepsRecord, TailKeepsRecord, ControlKeepsRecord DEF Next, Proceed, Over
<1> QED
  BY <1>3, <1>4

THEOREM RecordIsSound == Spec => []RecordInv
<1> QED
  BY InitRunInv, NextRunInv, InitRecordInv, NextRecordInv, PTL DEF Spec

(* For every run that comes to its end: one head, one tail, every settled
   scenario once between them, and a tail that counts the suite; and no tail
   under a story that is not whole. *)
THEOREM TailAlwaysTrue == Spec => []TailTrue
<1>1. RecordInv => OneStory
  <2> SUFFICES ASSUME RecordInv, at = "done", record # <<>>, ~lost PROVE OneStory
    BY DEF OneStory
  <2>1. /\ record[1].ev = "head" /\ Tails = {Len(record)}
        /\ Len(record) = Cardinality(SettledOf(Scenarios)) + 2
        /\ \A s \in Scenarios : results[s] \in Settled => ToldAs(s)
        /\ record[Len(record)].passed + record[Len(record)].failed + record[Len(record)].skipped
              = Cardinality(SettledOf(conf.kept))
    BY DEF RecordInv, StoryInv
  <2>2. Cardinality(SettledOf(Scenarios)) \in Nat
    BY FS_Subset, FS_CardinalityType DEF SettledOf
  <2>3. Len(record) = 2 + Cardinality(SettledOf(Scenarios))
    BY <2>1, <2>2
  <2> QED
    BY <2>1, <2>3 DEF OneStory, SettledOf, ToldAs
<1>2. RecordInv => TailCertifies
  <2> SUFFICES ASSUME RecordInv, Tails # {}, NEW p \in Phases,
                      With(p, {"running"} \cup Settled) # {}
               PROVE  Members(p) = With(p, Settled)
    BY DEF RecordInv, TailInv, TailCertifies
  <2>1. Whole(Members(p))
    BY DEF RecordInv, TailInv, Members
  <2>2. ~Untouched(Members(p))
    BY DEF With, Untouched, Settled, Kinds
  <2> QED
    BY <2>1, <2>2 DEF Whole, With
<1>3. RecordInv => TailTrue
  BY <1>1, <1>2 DEF TailTrue
<1> QED
  BY <1>3, RecordIsSound, PTL

=============================================================================
