------------------------------ MODULE Reports ------------------------------
(***************************************************************************)
(* One run, told twelve ways.  The scenarios' threads append their events   *)
(* to one stream, interleaved; the console (core/report.rs) prints it as it *)
(* comes; the record's readers fold it again (cli/record.rs, core/html.rs,  *)
(* cli/explain.rs); and when the run is over its outcomes become JUnit,     *)
(* CTRF, TAP, the job's summary and annotations, the SLA gate and the exit  *)
(* code (cli/ci_reports.rs, ctrf.rs, tap.rs, sla.rs, exec.rs).  Texts, tags *)
(* other than @quarantine, and redaction are left out; a run has no         *)
(* outcomes carried over from another one (RunHistory has those).           *)
(***************************************************************************)
EXTENDS Integers, SequencesExt

CONSTANTS
    Plans,          \* the runs to choose from
    Wrap,           \* glyphs on a line of the dotted console (80)
    MaxAnnotations, \* MAX_ERROR_ANNOTATIONS (10)
    Percent,        \* the percentile of the SLA gate (95)
    Budget          \* the ceiling that [sla] sets for it, in ms

VARIABLES
    plan,       \* the run's scenarios, in the order of its phases
    stage,      \* per scenario: "waiting", "open", "closed"
    told,       \* per scenario: how many of its steps are finished
    ended,      \* how the run ended: "running", "over", "died"
    slots,      \* the worker slots in use, by scenario
    events      \* the record

rvars == <<plan, stage, told, ended, slots, events>>

Given(s) == s # <<>>
At(f, x, default) == IF x \in DOMAIN f THEN f[x] ELSE default
Inserted(f, x, value) == [y \in DOMAIN f \cup {x} |-> IF y = x THEN value ELSE f[y]]
CountOf(s, Test(_)) == Len(SelectSeq(s, Test))

-----------------------------------------------------------------------------
(***************************************************************************)
(* How a scenario settles (core/runner.rs, run_scenario): its status, its   *)
(* fault, and its steps.  All steps have one text, as expanded steps may.   *)
(* "cut" and "unreached" were stopped with the run, "unopened" found no     *)
(* engine, "unclosed" passed but its engine session did not close, "parked" *)
(* is skipped by its author.                                                *)
(***************************************************************************)
Step(status, attempts, ms) == [text |-> "step", status |-> status, attempts |-> attempts, ms |-> ms]
Good == Step("Passed", 1, 1)

Steps(kind) ==
    CASE kind \in {"passed", "unclosed"} -> <<Good>>
      [] kind = "retried" -> <<Good, Step("Passed", 2, 2)>>
      [] kind = "slow"    -> <<Step("Passed", 1, 9)>>
      [] kind = "warned"  -> <<Step("Warned", 1, 1)>>
      [] kind = "failed"  -> <<Good, Step("Failed", 1, 1)>>
      [] kind = "system"  -> <<Step("Failed", 1, 1)>>
      [] kind = "cut"     -> <<Good, Step("Skipped", 0, 0)>>
      [] kind = "unopened" -> <<Step("Skipped", 0, 0)>>
      [] kind \in {"user", "unreached", "parked"} -> <<>>

Status(kind) ==
    CASE kind \in {"passed", "unclosed", "retried", "slow"} -> "Passed"
      [] kind = "warned" -> "Warned"
      [] kind \in {"failed", "system", "unopened", "user"} -> "Failed"
      [] kind \in {"cut", "unreached", "parked"} -> "Skipped"

Fault(kind) ==
    CASE kind \in {"system", "unopened", "unclosed"} -> "system"
      [] kind = "user" -> "user"
      [] OTHER -> "none"

Kinds == {"passed", "unclosed", "retried", "slow", "warned", "failed", "system", "unopened",
          "user", "cut", "unreached", "parked"}

ASSUME PlansAssumption == \A p \in Plans : \A i \in DOMAIN p : p[i].kind \in Kinds

\* A scenario that never had a thread has no `scenario_started`.
Threaded(kind) == kind \notin {"unreached", "parked"}

Outcome(s) == [file |-> s.file, name |-> s.name, phase |-> s.phase, tags |-> s.tags,
               status |-> Status(s.kind), fault |-> Fault(s.kind), steps |-> Steps(s.kind)]

Outcomes(phase) ==
    LET of == SelectSeq(plan, LAMBDA s : s.phase = phase) IN [i \in DOMAIN of |-> Outcome(of[i])]

Cancelled == \E i \in DOMAIN plan : plan[i].kind \in {"cut", "unreached"}

(***************************************************************************)
(* The summary's tallies, and what a phase's failure is (exec.rs,           *)
(* phase_failed): whether it stops the run, or is the run's exit code.      *)
(***************************************************************************)
Worst(codes) == CHOOSE c \in codes : \A d \in codes : d <= c

Tallies(outcomes) ==
    <<CountOf(outcomes, LAMBDA o : o.status \in {"Passed", "Warned"}),
      CountOf(outcomes, LAMBDA o : o.status = "Failed"),
      CountOf(outcomes, LAMBDA o : o.status = "Skipped")>>

PhaseFailed(outcomes, onFailure) ==
    Worst({0} \cup {CASE o.fault = "system" -> 3
                      [] o.fault = "user" -> 2
                      [] o.fault = "none" /\ o.status = "Failed" -> onFailure
                      [] OTHER -> 0 : o \in ToSet(outcomes)})

OnlySkipped(outcomes) == Given(outcomes) /\ \A o \in ToSet(outcomes) : o.status = "Skipped"

SetupCode == IF PhaseFailed(Outcomes("setup"), 2) # 0 THEN PhaseFailed(Outcomes("setup"), 2)
             ELSE IF OnlySkipped(Outcomes("setup")) THEN 3 ELSE 0

TeardownBroken == PhaseFailed(Outcomes("teardown"), 3) # 0
TeardownCode == IF TeardownBroken \/ OnlySkipped(Outcomes("teardown")) THEN 3 ELSE 0

\* What the run reports: the suite, or the setup that stopped it.
Aborted == SetupCode # 0
Summary == IF Aborted THEN Outcomes("setup") ELSE Outcomes("suite")

-----------------------------------------------------------------------------
(***************************************************************************)
(* The stream (core/event.rs).  Setup is before the suite, teardown after   *)
(* it; the suite's scenarios run side by side.                              *)
(***************************************************************************)

StartedEvent(s, worker) == [ev |-> "started", file |-> s.file, name |-> s.name, worker |-> worker]
StepEvent(s, step) ==
    [ev |-> "step", file |-> s.file, name |-> s.name, text |-> step.text,
     status |-> step.status, attempts |-> step.attempts, ms |-> step.ms]
FinishedEvent(s) ==
    [ev |-> "finished", file |-> s.file, name |-> s.name, status |-> Status(s.kind),
     phase |-> s.phase, tags |-> s.tags]
TailEvent(tallies) == [ev |-> "tail", tallies |-> tallies, cancelled |-> Cancelled]

Order == <<"setup", "suite", "teardown">>
Place(phase) == CHOOSE i \in DOMAIN Order : Order[i] = phase

Due(i) ==
    /\ ended = "running"
    /\ \A j \in DOMAIN plan : Place(plan[j].phase) < Place(plan[i].phase) => stage[j] = "closed"
    /\ plan[i].phase # "setup" => ~ Aborted

RunInit ==
    /\ plan \in Plans
    /\ stage = [i \in DOMAIN plan |-> "waiting"]
    /\ told = [i \in DOMAIN plan |-> 0]
    /\ ended = "running"
    /\ slots = <<>>
    /\ events = <<>>

(***************************************************************************)
(* stamp_scenario_timing: a scenario occupies the least free slot from its  *)
(* start, which its thread tells, to its finish, which the dispatcher tells.*)
(***************************************************************************)
FreeSlot ==
    LET used == {slots[k] : k \in DOMAIN slots}
    IN  CHOOSE n \in 0..Cardinality(used) : n \notin used /\ \A m \in 0..(n - 1) : m \in used

Begin(i) ==
    /\ Due(i) /\ stage[i] = "waiting" /\ Threaded(plan[i].kind)
    /\ stage' = [stage EXCEPT ![i] = "open"]
    /\ slots' = Inserted(slots, <<plan[i].file, plan[i].name>>, FreeSlot)
    /\ events' = Append(events, StartedEvent(plan[i], FreeSlot))
    /\ UNCHANGED <<plan, told, ended>>

FinishStep(i) ==
    /\ stage[i] = "open" /\ ended = "running"
    /\ told[i] < Len(Steps(plan[i].kind))
    /\ told' = [told EXCEPT ![i] = @ + 1]
    /\ events' = Append(events, StepEvent(plan[i], Steps(plan[i].kind)[told[i] + 1]))
    /\ UNCHANGED <<plan, stage, slots, ended>>

Settle(i) ==
    /\ Due(i)
    /\ stage[i] = IF Threaded(plan[i].kind) THEN "open" ELSE "waiting"
    /\ told[i] = Len(Steps(plan[i].kind))
    /\ stage' = [stage EXCEPT ![i] = "closed"]
    /\ slots' = [k \in DOMAIN slots \ {<<plan[i].file, plan[i].name>>} |-> slots[k]]
    /\ events' = Append(events, FinishedEvent(plan[i]))
    /\ UNCHANGED <<plan, told, ended>>

Reachable == {i \in DOMAIN plan : plan[i].phase = "setup" \/ ~ Aborted}

CloseRecord ==
    /\ ended = "running" /\ \A i \in Reachable : stage[i] = "closed"
    /\ ended' = "over"
    /\ events' = Append(events, TailEvent(IF Aborted THEN <<0, 0, 0>>
                                          ELSE Tallies(Outcomes("suite"))))
    /\ UNCHANGED <<plan, stage, told, slots>>

\* The process is killed: the record stays as it is.
Die ==
    /\ ended = "running"
    /\ ended' = "died"
    /\ UNCHANGED <<plan, stage, told, slots, events>>

RunStep ==
    \/ \E i \in DOMAIN plan : Begin(i) \/ FinishStep(i) \/ Settle(i)
    \/ CloseRecord
    \/ Die

-----------------------------------------------------------------------------
(***************************************************************************)
(* The key under which a reader files an event.                             *)
(***************************************************************************)
\* A bug: scenarios' names are taken for unique.
KeyByName(e) == <<"", e.name>>

Key(e) == <<e.file, e.name>>

(***************************************************************************)
(* parse_record (record.rs).  Old records close their scenarios without a   *)
(* file; such a one adopts the steps of the one pending scenario that has   *)
(* its name.                                                                *)
(***************************************************************************)
Blank == [pending |-> <<>>, seen |-> <<>>, scenarios |-> <<>>,
          completion |-> "Incomplete", totals |-> <<>>, legacy |-> FALSE]

Adopted(pending, key) ==
    LET named == {k \in DOMAIN pending : k[2] = key[2]}
    IN  IF key \in DOMAIN pending \/ key[1] # "" \/ Cardinality(named) # 1 THEN key
        ELSE CHOOSE k \in named : TRUE

ReadStep(r, e) ==
    LET text == <<e.file, e.name, e.text>>
        ordinal == At(r.seen, text, 0)
        run == [attempts |-> e.attempts, ms |-> e.ms]
    IN  [r EXCEPT !.seen = Inserted(@, text, ordinal + 1),
                  !.pending = Inserted(@, Key(e), Inserted(At(@, Key(e), <<>>), <<e.text, ordinal>>, run))]

ReadFinished(r, e) ==
    LET key == Adopted(r.pending, Key(e))
        run == [status |-> e.status, phase |-> e.phase, tags |-> e.tags,
                steps |-> At(r.pending, key, <<>>)]
    IN  [r EXCEPT !.pending = [k \in DOMAIN @ \ {key} |-> @[k]],
                  !.scenarios = Inserted(@, key, run)]

ReadTail(r, e) ==
    [r EXCEPT !.legacy = Given(r.totals), !.totals = e.tallies,
              !.completion = IF e.cancelled THEN "Cancelled" ELSE "Completed"]

ReadEvent(r, e) ==
    CASE e.ev = "step" -> ReadStep(r, e)
      [] e.ev = "finished" -> ReadFinished(r, e)
      [] e.ev = "tail" -> ReadTail(r, e)
      [] OTHER -> r

Record(stream) ==
    LET read[n \in 0..Len(stream)] ==
            IF n = 0 THEN Blank ELSE ReadEvent(read[n - 1], stream[n])
    IN  read[Len(stream)]

(***************************************************************************)
(* suite_totals (core/report.rs), from rows [phase, status].                *)
(***************************************************************************)
SuiteTotals(totals, legacy, rows) ==
    IF Given(totals) /\ ~ legacy THEN totals
    ELSE Tallies(SelectSeq(rows, LAMBDA row : row.phase = "suite"))

(***************************************************************************)
(* explain: the headline, and the failed steps of each scenario.            *)
(***************************************************************************)
StepEvents(stream) == SelectSeq(stream, LAMBDA e : e.ev = "step")

Explained(stream) ==
    LET rec == Record(stream)
        steps == StepEvents(stream)
        keys == SetToSeq(DOMAIN rec.scenarios)
    IN  [totals |-> SuiteTotals(rec.totals, rec.legacy,
                                [i \in DOMAIN keys |-> rec.scenarios[keys[i]]]),
         steps |-> Len(steps),
         attempts |-> FoldLeft(LAMBDA n, e : n + e.attempts, 0, steps),
         failed |-> {k \in DOMAIN rec.scenarios : rec.scenarios[k].status = "Failed"}]

FailureDetail(stream, key) ==
    SelectSeq(StepEvents(stream), LAMBDA e : e.status = "Failed" /\ Key(e) = key)

(***************************************************************************)
(* The HTML page: fold_events and block_index (core/html.rs).  A block is   *)
(* there from the first event of its scenario on, without a status until    *)
(* the scenario is finished.                                                *)
(***************************************************************************)
NoBlock(key) == [key |-> key, status |-> "none", phase |-> "suite", tags |-> {}, steps |-> <<>>]

BlockIndex(blocks, key) ==
    LET found == {i \in DOMAIN blocks : blocks[i].key = key}
    IN  IF found = {} THEN Len(blocks) + 1 ELSE CHOOSE i \in found : TRUE

FoldEvent(page, e) ==
    IF e.ev = "tail" THEN [page EXCEPT !.tails = @ + 1, !.totals = e.tallies]
    ELSE LET i == BlockIndex(page.blocks, Key(e))
             blocks == IF i > Len(page.blocks) THEN Append(page.blocks, NoBlock(Key(e)))
                       ELSE page.blocks
         IN  [page EXCEPT !.blocks =
                CASE e.ev = "started" -> blocks
                  [] e.ev = "step" -> [blocks EXCEPT ![i].steps = Append(@, e)]
                  [] e.ev = "finished" ->
                       [blocks EXCEPT ![i].status = e.status, ![i].phase = e.phase,
                                      ![i].tags = e.tags]]

Page(stream) == FoldLeft(FoldEvent, [blocks |-> <<>>, tails |-> 0, totals |-> <<>>], stream)

Headline(page) == SuiteTotals(page.totals, page.tails > 1, page.blocks)

\* render_tag_table; an unfinished block has no tags yet.
TagTable(page, tag) ==
    Tallies(SelectSeq(page.blocks, LAMBDA b : b.phase = "suite" /\ tag \in b.tags))

(***************************************************************************)
(* The console.  Lines are buffered per scenario and flushed as one block   *)
(* when it finishes, when the mode shows it.                                *)
(***************************************************************************)
Buffers(mode) == mode \in {"full", "failed"}
Shows(mode, status) == mode = "full" \/ (mode = "failed" /\ status \in {"Failed", "Warned"})

StepLines(e) ==
    <<<<"step", Key(e), e.status>>>>
        \o (IF e.status \in {"Warned", "Skipped"} THEN <<<<"why", Key(e), e.status>>>> ELSE <<>>)

BufferedLines(e) == IF e.ev = "started" THEN <<<<"scenario", Key(e)>>>> ELSE StepLines(e)

\* The glyphs wrap, and the summary begins on a line of its own.
Dot(c) == [c EXCEPT !.out = @ \o (IF c.col + 1 >= Wrap THEN <<<<"dot">>, <<"newline">>>> ELSE <<<<"dot">>>>),
                    !.col = IF c.col + 1 >= Wrap THEN 0 ELSE c.col + 1]

OnFinished(mode, c, e) ==
    CASE mode = "quiet" -> c
      [] mode = "dotted" -> Dot(c)
      [] Buffers(mode) ->
           [c EXCEPT !.buffers = [k \in DOMAIN @ \ {Key(e)} |-> @[k]],
                     !.out = IF ~ Shows(mode, e.status) THEN @
                             ELSE @ \o At(c.buffers, Key(e), <<>>)
                                    \o <<<<"verdict", Key(e), e.status>>>>]

OnEvent(mode, c, e) ==
    CASE e.ev \in {"started", "step"} ->
           IF ~ Buffers(mode) THEN c
           ELSE [c EXCEPT !.buffers =
                    Inserted(@, Key(e), At(@, Key(e), <<>>) \o BufferedLines(e))]
      [] e.ev = "finished" -> OnFinished(mode, c, e)
      [] e.ev = "tail" ->
           [c EXCEPT !.out = @ \o (IF mode = "dotted" /\ c.col > 0 THEN <<<<"newline">>>> ELSE <<>>)
                               \o <<<<"summary", e.tallies>>>>]

Console(mode, stream) ==
    FoldLeft(LAMBDA c, e : OnEvent(mode, c, e), [buffers |-> <<>>, out |-> <<>>, col |-> 0], stream)

-----------------------------------------------------------------------------
(***************************************************************************)
(* The documents of a finished run.  A quarantined scenario of the suite    *)
(* does not gate.                                                           *)
(***************************************************************************)
NonGating == IF Aborted THEN {}
             ELSE {<<o.file, o.name>> : o \in {p \in ToSet(Outcomes("suite")) : "quarantine" \in p.tags}}

Quarantined(o) == <<o.file, o.name>> \in NonGating

\* test_case (ci_reports.rs)
\* A bug: quarantine is asked before the fault.
JUnitStatusForgiving(o) ==
    CASE o.status \in {"Passed", "Warned"} -> "success"
      [] o.status = "Skipped" -> "skipped"
      [] o.status = "Failed" -> IF Quarantined(o) THEN "skipped" ELSE "failure"

JUnitStatus(o) ==
    CASE o.status \in {"Passed", "Warned"} -> "success"
      [] o.status = "Skipped" -> "skipped"
      [] o.status = "Failed" /\ o.fault = "none" /\ Quarantined(o) -> "skipped"
      [] o.status = "Failed" /\ o.fault # "none" -> "error"
      [] o.status = "Failed" /\ o.fault = "none" /\ ~ Quarantined(o) -> "failure"

\* test_value (ctrf.rs)
CtrfStatus(o) ==
    CASE o.status \in {"Passed", "Warned"} -> "passed"
      [] o.status = "Skipped" -> "skipped"
      [] o.status = "Failed" -> IF o.fault = "none" /\ Quarantined(o) THEN "skipped" ELSE "failed"

\* What either of them says beside a green status: the attempts a flaky pass
\* took, and a warning.
Attempts(o) == Worst({1} \cup {o.steps[i].attempts : i \in DOMAIN o.steps})
Remarks(o) ==
    IF o.status \notin {"Passed", "Warned"} THEN {}
    ELSE (IF Attempts(o) > 1 THEN {"flaky"} ELSE {}) \cup (IF o.status = "Warned" THEN {"warned"} ELSE {})

\* Both list a teardown that failed; a setup that failed is the summary.
Listed == Summary \o (IF ~ Aborted /\ TeardownBroken THEN Outcomes("teardown") ELSE <<>>)

\* render (tap.rs), which is given the summary of the suite.
TapPoint(o) ==
    [ok |-> o.status # "Failed",
     directive |-> IF o.status = "Skipped" THEN "SKIP"
                   ELSE IF o.status = "Failed" /\ Quarantined(o) THEN "TODO" ELSE ""]
TapOutcomes == IF Aborted THEN <<>> ELSE Outcomes("suite")

\* summary_body: the rollup by tag.
TagRollup(tag) == Tallies(SelectSeq(Summary, LAMBDA o : tag \in o.tags))

\* github_annotations: one for a scenario with a failed step or a fault, ten of
\* them at most, and a notice when that is not all.
Annotated(o) == o.fault # "none" \/ \E i \in DOMAIN o.steps : o.steps[i].status = "Failed"
Annotations ==
    LET all == SelectSeq(Summary, Annotated)
    IN  [shown |-> SubSeq(all, 1, IF Len(all) > MaxAnnotations THEN MaxAnnotations ELSE Len(all)),
         notice |-> Len(all) > MaxAnnotations]

(***************************************************************************)
(* The SLA gate (sla.rs): a percentile of the steps that were executed.     *)
(***************************************************************************)
Measured ==
    LET kept == SelectSeq(Summary, LAMBDA o : ~ Quarantined(o))
        steps == FlattenSeq([i \in DOMAIN kept |-> kept[i].steps])
        ran == SelectSeq(steps, LAMBDA s : s.status # "Skipped")
    IN  SortSeq([i \in DOMAIN ran |-> ran[i].ms], LAMBDA a, b : a < b)

Least(a, b) == IF a < b THEN a ELSE b

Percentile(sorted, p) ==
    LET rank == (p * Len(sorted) + 99) \div 100
    IN  sorted[Least(IF rank < 1 THEN 1 ELSE rank, Len(sorted))]

Breach == Given(Measured) /\ Percentile(Measured, Percent) > Budget

(***************************************************************************)
(* The exit code (exec.rs, exit_code_excluding and the end of execute).     *)
(***************************************************************************)
ExitExcluding ==
    Worst({IF Cancelled THEN 1 ELSE 0}
          \cup {CASE o.fault = "system" -> 3
                  [] o.fault = "user" -> 2
                  [] o.fault = "none" /\ o.status = "Failed" /\ ~ Quarantined(o) -> 1
                  [] OTHER -> 0 : o \in ToSet(Outcomes("suite"))})

ExitCode ==
    IF Aborted THEN SetupCode
    ELSE Worst({TeardownCode, IF ExitExcluding = 0 /\ Breach THEN 1 ELSE ExitExcluding})

-----------------------------------------------------------------------------
(***************************************************************************)
(* What is true of the run so far, against which the views are held.        *)
(***************************************************************************)
Id(i) == <<plan[i].file, plan[i].name>>
Closed == {i \in DOMAIN plan : stage[i] = "closed"}
Begun == {i \in DOMAIN plan : stage[i] # "waiting"}
Whose(key) == CHOOSE i \in DOMAIN plan : Id(i) = key

ToldSteps(i) == SubSeq(Steps(plan[i].kind), 1, told[i])
ToldTotals ==
    Tallies([n \in 1..Cardinality({i \in Closed : plan[i].phase = "suite"}) |->
               Outcome(plan[SetToSeq({i \in Closed : plan[i].phase = "suite"})[n]])])
ToldSum(Value(_)) == FoldLeft(LAMBDA n, e : n + Value(e), 0,
                              FlattenSeq([i \in DOMAIN plan |-> ToldSteps(i)]))

\* The record read back holds every closed scenario, under its own key and with
\* its own steps, those of one text told apart, and no other; and it is
\* complete only when the run is.
RecordTrue(rec) ==
    /\ DOMAIN rec.scenarios = {Id(i) : i \in Closed}
    /\ \A i \in Closed :
          LET read == rec.scenarios[Id(i)] IN
          /\ read.status = Status(plan[i].kind)
          /\ read.phase = plan[i].phase /\ read.tags = plan[i].tags
          /\ DOMAIN read.steps = {<<"step", n - 1>> : n \in DOMAIN Steps(plan[i].kind)}
          /\ \A n \in DOMAIN Steps(plan[i].kind) :
                read.steps[<<"step", n - 1>>].attempts = Steps(plan[i].kind)[n].attempts
    /\ rec.completion = IF ended # "over" THEN "Incomplete"
                        ELSE IF Cancelled THEN "Cancelled" ELSE "Completed"

\* A record from before the `file` field reads the same, as far as names tell
\* its scenarios apart.
AgedEvent(e) == IF e.ev = "finished" THEN [e EXCEPT !.file = ""] ELSE e
AgedRecordTrue(rec) ==
    LET aged == Record([n \in DOMAIN events |-> AgedEvent(events[n])])
    IN  \A i \in Closed :
          (/\ Steps(plan[i].kind) # <<>>
           /\ \A j \in DOMAIN plan : plan[j].name = plan[i].name => j = i)
          => aged.scenarios[Id(i)] = rec.scenarios[Id(i)]

\* The page has one block for each scenario that has begun, with its own steps
\* so far, and a status on the closed ones only.
PageTrue(page) ==
    /\ Len(page.blocks) = Cardinality(Begun)
    /\ {b.key : b \in ToSet(page.blocks)} = {Id(i) : i \in Begun}
    /\ \A b \in ToSet(page.blocks) :
          LET i == Whose(b.key) IN
          /\ b.status = IF i \in Closed THEN Status(plan[i].kind) ELSE "none"
          /\ [n \in DOMAIN b.steps |-> b.steps[n].status]
               = [n \in DOMAIN ToldSteps(i) |-> ToldSteps(i)[n].status]

\* The page and explain count alike, with or without a tail: the suite's
\* closed scenarios, the steps and their attempts.
CountsAgree(page, told_) ==
    /\ told_.totals = ToldTotals /\ Headline(page) = ToldTotals
    /\ told_.steps = ToldSum(LAMBDA e : 1)
    /\ told_.attempts = ToldSum(LAMBDA e : e.attempts)
    /\ told_.failed = {Id(i) : i \in {j \in Closed : Status(plan[j].kind) = "Failed"}}
    /\ \A i \in Begun :
          Len(FailureDetail(events, Id(i)))
            = CountOf(ToldSteps(i), LAMBDA e : e.status = "Failed")

(***************************************************************************)
(* The console: whole scenarios in the order they close, and nothing of     *)
(* one that is still open.                                                  *)
(***************************************************************************)
Closings == SelectSeq(events, LAMBDA e : e.ev = "finished")

TreeOf(i) ==
    (IF Threaded(plan[i].kind) THEN <<<<"scenario", Id(i)>>>> ELSE <<>>)
    \o FlattenSeq([n \in DOMAIN Steps(plan[i].kind) |-> StepLines(StepEvent(plan[i], Steps(plan[i].kind)[n]))])
    \o <<<<"verdict", Id(i), Status(plan[i].kind)>>>>

SummaryLines == IF ended = "over" THEN <<<<"summary", ToldTotals>>>> ELSE <<>>

TreesTrue(mode, c) ==
    /\ c.out = FlattenSeq([n \in DOMAIN Closings |->
                              IF Shows(mode, Closings[n].status) THEN TreeOf(Whose(Key(Closings[n])))
                              ELSE <<>>]) \o SummaryLines
    /\ DOMAIN c.buffers = {Id(i) : i \in Begun \ Closed}

\* One glyph per closed scenario on lines of `Wrap`, and the summary on a line
\* of its own.
DotsTrue(c) ==
    LET n == Cardinality(Closed)
        glyphs == [p \in 1..(n + n \div Wrap) |->
                     IF p % (Wrap + 1) = 0 THEN <<"newline">> ELSE <<"dot">>]
        ending == IF ended = "over" /\ n % Wrap # 0 THEN <<<<"newline">>>> ELSE <<>>
    IN  c.out = glyphs \o ending \o SummaryLines

\* The timeline has a lane for each of the scenarios that run at one time, and
\* no lane with two of them.
LanesTrue ==
    \A n \in DOMAIN events : events[n].ev = "started" =>
        LET open == {m \in 1..(n - 1) : /\ events[m].ev = "started"
                                        /\ \A l \in m..n : events[l].ev = "finished" => Key(events[l]) # Key(events[m])}
        IN  /\ \A m \in open : events[m].worker # events[n].worker
            /\ events[n].worker <= Cardinality(open)

(***************************************************************************)
(* ViewsAgree: whatever the order in which the threads' events come, and    *)
(* wherever the record breaks off, the record read back (parse_record), the *)
(* page (fold_events), explain and all four consoles tell one story, that   *)
(* of the run: no step or verdict is filed under another scenario, though   *)
(* names repeat across files and texts within a scenario.                   *)
(***************************************************************************)
ViewsAgree ==
    ended \in {"running", "over", "died"} =>
        /\ RecordTrue(Record(events)) /\ AgedRecordTrue(Record(events)) /\ LanesTrue
        /\ PageTrue(Page(events))
        /\ CountsAgree(Page(events), Explained(events))
        /\ \A mode \in {"full", "failed"} : TreesTrue(mode, Console(mode, events))
        /\ DotsTrue(Console("dotted", events))
        /\ Console("quiet", events).out = SummaryLines

(***************************************************************************)
(* DocumentsAgree.  Each case is the same in JUnit and CTRF.                *)
(***************************************************************************)
Red(o) == JUnitStatus(o) \in {"failure", "error"}

CasesAgree ==
    \A o \in ToSet(Listed) :
        /\ CtrfStatus(o) = "passed" <=> JUnitStatus(o) = "success"
        /\ CtrfStatus(o) = "failed" <=> Red(o)
        /\ Remarks(o) # {} => ~ Red(o)

\* TAP calls a point bad exactly when JUnit does, but for the quarantined
\* scenario that failed for a fault: its TODO is green, though it gates.
PointsAgree ==
    \A o \in ToSet(TapOutcomes) :
        ~ (Quarantined(o) /\ o.fault # "none")
            => (~ TapPoint(o).ok /\ TapPoint(o).directive = "" <=> Red(o))

\* Exit 0 leaves nothing red; a nonzero exit is told by something red, or is
\* one of the four that have no case of their own: an interrupt, the SLA gate,
\* a session that did not close, a phase that ran nothing.
VerdictShown ==
    /\ ExitCode = 0 => \A o \in ToSet(Listed) : ~ Red(o)
    /\ ExitCode # 0 =>
          \/ \E o \in ToSet(Listed) : Red(o)
          \/ Cancelled
          \/ Breach
          \/ \E i \in DOMAIN plan : plan[i].kind = "unclosed"
          \/ OnlySkipped(Outcomes("setup")) \/ OnlySkipped(Outcomes("teardown"))

\* Whatever is red is annotated, or a notice says that there is more.
RedIsAnnotated ==
    \A o \in ToSet(Summary) : Red(o) => o \in ToSet(Annotations.shown) \/ Annotations.notice

\* The gate is about counts: a breach is too few steps within the budget.
BreachIsCounted ==
    Breach <=> 100 * CountOf(Measured, LAMBDA ms : ms <= Budget) < Percent * Len(Measured)

(***************************************************************************)
(* DocumentsAgree: when the run is over, JUnit, CTRF, TAP, the annotations, *)
(* the job's rollup by tag, the page's table of tags and the exit code      *)
(* agree on what failed and what gates, quarantine, faults, broken phases   *)
(* and the SLA gate included (write_ci_reports and the end of execute).     *)
(***************************************************************************)
DocumentsAgree ==
    ended = "over" =>
        /\ CasesAgree /\ PointsAgree /\ VerdictShown /\ RedIsAnnotated /\ BreachIsCounted
        /\ ~ Aborted => TagRollup("quarantine") = TagTable(Page(events), "quarantine")

=============================================================================
