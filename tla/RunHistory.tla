----------------------------- MODULE RunHistory -----------------------------
(***************************************************************************)
(* The runs directory of proef-cli: the records that `proef test` leaves   *)
(* there, `--rerun`, which reads the latest one to decide what to run, and *)
(* the rotation that deletes old ones (exec.rs, record.rs, report.rs).     *)
(* Processes share the directory without a lock; a process runs one        *)
(* command after another.                                                  *)
(*                                                                         *)
(* A run is its number, in the order in which ids are minted.  What happens*)
(* inside a run is kept to what its record can tell: which scenarios are   *)
(* finished and how, whether it has a tail, and what the tail says.  Every *)
(* command selects the whole suite, and every scenario gates; phases, and  *)
(* scenarios tagged to be skipped, are invisible to a rerun.               *)
(***************************************************************************)
EXTENDS Integers, FiniteSets

CONSTANTS
    Procs,       \* processes
    Scenarios,   \* the suite
    MaxRuns,     \* bound: how many commands are started
    Named,       \* the runs with an id of the user's (--run-id)
    Keep,        \* [run] keep-runs
    Trouble      \* of "kill", "abort": what may go wrong

ASSUME RunsAssumption  == MaxRuns \in Nat /\ Keep \in Nat /\ Named \subseteq 1..MaxRuns

VARIABLES
    at,        \* per process: where its command is
    own,       \* per process: the run it is
    rerun,     \* per process: whether it is a --rerun
    base,      \* per process: the run it reruns, and that record as it read it
    todo,      \* per process: what is selected and not finished
    cancelled, \* per process: the token
    verdict,   \* per process: the suite's exit code, once it is known
    records,   \* per run: its record
    minted,    \* how many runs there are
    clock,     \* orders the ids and the modification times
    saw,       \* history: the tail that a run saw on its base
    green      \* history: the records that a --rerun with exit code 0 stands on -
               \* its own, or its base if that left nothing to rerun

procVars == <<at, own, rerun, base, todo, cancelled, verdict>>
vars     == <<procVars, records, minted, clock, saw, green>>

Runs     == 1..MaxRuns
Verdicts == {"none", "Passed", "Failed", "Skipped"}
Tails    == {"none", "Completed", "Cancelled"}
Unheard  == [s \in Scenarios |-> "none"]
NoRecord == [onDisk |-> FALSE, began |-> 0, verdict |-> Unheard, tail |-> "none", of |-> 0]
NoBase   == [of |-> 0, verdict |-> Unheard, tail |-> "none"]

-----------------------------------------------------------------------------
(* Reading records: all_runs, rerun_candidates, RerunFilter *)

OnDisk == {r \in Runs : records[r].onDisk}

\* all_runs is ordered by the moment an id was minted, or by the modification
\* time of a directory with a name of the user's.
IsLatest(r) == r \in OnDisk /\ \A t \in OnDisk : records[t].began <= records[r].began

Heard(b) == {s \in Scenarios : b.verdict[s] # "none"}

\* Mutant: a cancelled run's tail counts as finished.
QueuedFailures(b) == {s \in Scenarios : b.verdict[s] = "Failed"}

\* What the record names: failures, and on a cancelled record what was skipped
\* without being authored so.
Queued(b) == {s \in Scenarios : \/ b.verdict[s] = "Failed"
                                \/ b.verdict[s] = "Skipped" /\ b.tail = "Cancelled"}

Truncated(b) == b.tail = "none"

\* RerunFilter::keeps.
Keeps(b, s) == s \in Queued(b) \/ (Truncated(b) /\ s \notin Heard(b))

\* A rerun that ends before it has an id of its own on disk.
NothingToRerun(b) == Queued(b) = {} /\ ~Truncated(b)

Rotatable(r) == r \notin Named
Younger(r, S) == {t \in S : records[t].began > records[r].began}

\* rotate_runs: all but the youngest Keep.
Victims(current) ==
    LET dirs == {r \in OnDisk : r # current /\ Rotatable(r)}
    IN  {r \in dirs : Cardinality(Younger(r, dirs)) >= Keep}

-----------------------------------------------------------------------------
(* Composition: the JUnit overlay and the report's *)

\* carried_outcomes: the base's verdicts on what this run did not run.
Carried(b, ran) == [s \in Scenarios |-> IF ran[s] # "none" THEN ran[s] ELSE b.verdict[s]]

\* Mutant: the older record wins.
OverlayOver(page, b) ==
    [s \in Scenarios |-> IF b.verdict[s] # "none" THEN b.verdict[s] ELSE page[s]]

\* carried_scenario_events: a base adds what the page does not have yet.
Overlay(page, b) ==
    [s \in Scenarios |-> IF page[s] = "none" THEN b.verdict[s] ELSE page[s]]

\* The report's walk: the k-th record of the chain of bases, while it is on disk.
LinkOf(r) ==
    LET link[k \in 0..MaxRuns] ==
            IF k = 0 THEN r
            ELSE LET of == IF link[k - 1] = 0 THEN 0 ELSE records[link[k - 1]].of
                 IN  IF of # 0 /\ records[of].onDisk THEN of ELSE 0
    IN  link

PageOf(r) ==
    LET link == LinkOf(r)
        page[k \in 0..MaxRuns] ==
            IF k = 0 THEN records[r].verdict
            ELSE IF link[k] = 0 THEN page[k - 1]
            ELSE Overlay(page[k - 1], records[link[k]])
    IN  page[MaxRuns]

-----------------------------------------------------------------------------
(* A command *)

Init ==
    /\ at = [p \in Procs |-> "idle"]
    /\ own = [p \in Procs |-> 0]
    /\ rerun = [p \in Procs |-> FALSE]
    /\ base = [p \in Procs |-> NoBase]
    /\ todo = [p \in Procs |-> {}]
    /\ cancelled = [p \in Procs |-> FALSE]
    /\ verdict = [p \in Procs |-> "none"]
    /\ records = [r \in Runs |-> NoRecord]
    /\ minted = 0
    /\ clock = 0
    /\ saw = [r \in Runs |-> "none"]
    /\ green = {}

Goto(p, l) == at' = [at EXCEPT ![p] = l]

\* A command that ends takes its memory along.
Leave(p) ==
    /\ Goto(p, "idle")
    /\ own' = [own EXCEPT ![p] = 0]
    /\ rerun' = [rerun EXCEPT ![p] = FALSE]
    /\ base' = [base EXCEPT ![p] = NoBase]
    /\ todo' = [todo EXCEPT ![p] = {}]
    /\ cancelled' = [cancelled EXCEPT ![p] = FALSE]
    /\ verdict' = [verdict EXCEPT ![p] = "none"]

\* A command that ends well; it stands on the record r.
LeaveGreen(p, r) ==
    /\ Leave(p)
    /\ green' = IF rerun[p] THEN green \cup {r} ELSE green

\* The front end mints the id, before anything is read or written.
Start(p, again) ==
    /\ at[p] = "idle" /\ minted < MaxRuns
    /\ minted' = minted + 1
    /\ clock' = clock + 1
    /\ records' = [records EXCEPT ![minted + 1].began = clock + 1]
    /\ own' = [own EXCEPT ![p] = minted + 1]
    /\ rerun' = [rerun EXCEPT ![p] = again]
    /\ Goto(p, IF again THEN "find" ELSE "rotate")
    /\ UNCHANGED <<base, todo, cancelled, verdict, saw, green>>

\* --rerun resolves the latest record; without one it is a user error.
FindBase(p) ==
    /\ at[p] = "find"
    /\ \/ OnDisk = {} /\ Leave(p)
       \/ \E r \in OnDisk : /\ IsLatest(r)
                            /\ base' = [base EXCEPT ![p].of = r]
                            /\ Goto(p, "read")
                            /\ UNCHANGED <<own, rerun, todo, cancelled, verdict>>
    /\ UNCHANGED <<records, minted, clock, saw, green>>

\* It is read once; another process may be writing it, or have deleted it.
ReadBase(p) ==
    LET r == base[p].of
        b == [of |-> r, verdict |-> records[r].verdict, tail |-> records[r].tail]
    IN  /\ at[p] = "read"
        /\ \/ ~records[r].onDisk /\ Leave(p) /\ UNCHANGED green
           \/ records[r].onDisk /\ NothingToRerun(b) /\ LeaveGreen(p, r)
           \/ /\ records[r].onDisk /\ ~NothingToRerun(b)
              /\ base' = [base EXCEPT ![p] = b]
              /\ Goto(p, "rotate")
              /\ UNCHANGED <<own, rerun, todo, cancelled, verdict, green>>
        /\ UNCHANGED <<records, minted, clock, saw>>

\* The listing and the deletions are one step: no run that appears in between is
\* as old as the ones that go.
Rotate(p) ==
    /\ at[p] = "rotate"
    /\ records' = [r \in Runs |-> IF r \in Victims(own[p])
                                  THEN [records[r] EXCEPT !.onDisk = FALSE] ELSE records[r]]
    /\ Goto(p, "create")
    /\ UNCHANGED <<own, rerun, base, todo, cancelled, verdict, minted, clock, saw, green>>

\* A file made in a directory with a name of the user's moves its run in time.
Touch(r, rec) == IF r \in Named THEN [rec EXCEPT !.began = clock + 1] ELSE rec
Tick(r)       == clock' = IF r \in Named THEN clock + 1 ELSE clock

\* The directory and its events.jsonl, whose head names the base.
Create(p) ==
    LET r == own[p] IN
    /\ at[p] = "create"
    /\ records' = [records EXCEPT ![r] =
                     Touch(r, [@ EXCEPT !.onDisk = TRUE, !.of = base[p].of])]
    /\ Tick(r)
    /\ saw' = [saw EXCEPT ![r] = base[p].tail]
    /\ Goto(p, "setup")
    /\ UNCHANGED <<own, rerun, base, todo, cancelled, verdict, minted, green>>

TailOf(p) == IF cancelled[p] THEN "Cancelled" ELSE "Completed"

\* An early return drops the record, which writes its tail; no such return that
\* is modelled here exits 0.
EndEarly(p) ==
    /\ records' = [records EXCEPT ![own[p]].tail = TailOf(p)]
    /\ Leave(p)
    /\ UNCHANGED <<minted, clock, saw, green>>

\* The state file does not load, or setup fails or is interrupted.
Abort(p) == at[p] = "setup" /\ "abort" \in Trouble /\ EndEarly(p)

\* Setup is done: build_specs.  Nothing selected is a user error.
Selected(p) == {s \in Scenarios : rerun[p] => Keeps(base[p], s)}
NothingMatched(p) == at[p] = "setup" /\ Selected(p) = {} /\ EndEarly(p)
Select(p) ==
    /\ at[p] = "setup" /\ Selected(p) # {}
    /\ todo' = [todo EXCEPT ![p] = Selected(p)]
    /\ Goto(p, "suite")
    /\ UNCHANGED <<own, rerun, base, cancelled, verdict, records, minted, clock, saw, green>>

\* A scenario that runs or is still queued when the token falls may be skipped.
Outcomes(p) == {"Passed", "Failed"} \cup (IF cancelled[p] THEN {"Skipped"} ELSE {})
Finish(p, s, v) ==
    /\ at[p] = "suite" /\ s \in todo[p] /\ v \in Outcomes(p)
    /\ records' = [records EXCEPT ![own[p]].verdict[s] = v]
    /\ todo' = [todo EXCEPT ![p] = @ \ {s}]
    /\ UNCHANGED <<at, own, rerun, base, cancelled, verdict, minted, clock, saw, green>>

\* The exit code is the suite's; the token is read for it before teardown.
EndSuite(p) ==
    /\ at[p] = "suite" /\ todo[p] = {}
    /\ LET red == cancelled[p] \/ \E s \in Scenarios : records[own[p]].verdict[s] = "Failed"
       IN  verdict' = [verdict EXCEPT ![p] = IF red THEN "red" ELSE "green"]
    /\ Goto(p, "close")
    /\ UNCHANGED <<own, rerun, base, todo, cancelled, records, minted, clock, saw, green>>

\* The record is dropped after teardown.
CloseRecord(p) ==
    /\ at[p] = "close"
    /\ records' = [records EXCEPT ![own[p]].tail = TailOf(p)]
    /\ Goto(p, "report")
    /\ UNCHANGED <<own, rerun, base, todo, cancelled, verdict, minted, clock, saw, green>>

\* The JUnit file, which carries the base, and timings.json, which goes into the
\* run's directory.
JUnitOf(p) == Carried(base[p], records[own[p]].verdict)
Report(p) ==
    LET r == own[p] IN
    /\ at[p] = "report"
    /\ records' = [records EXCEPT ![r] = Touch(r, @)]
    /\ Tick(r)
    /\ IF verdict[p] = "green" THEN LeaveGreen(p, r) ELSE Leave(p) /\ UNCHANGED green
    /\ UNCHANGED <<minted, saw>>

\* The first interrupt, or --max-fail.  Nobody looks at the token before setup.
Cancel(p) ==
    /\ at[p] \in {"setup", "suite", "close"} /\ ~cancelled[p]
    /\ cancelled' = [cancelled EXCEPT ![p] = TRUE]
    /\ UNCHANGED <<at, own, rerun, base, todo, verdict, records, minted, clock, saw, green>>

\* The second one, a panic, SIGKILL, or a full disk: there is no tail.  Before the
\* rotation it is as if the command had not been given.
Kill(p) ==
    /\ "kill" \in Trouble /\ at[p] \in {"create", "setup", "suite", "close", "report"}
    /\ Leave(p)
    /\ UNCHANGED <<records, minted, clock, saw, green>>

Command(p) ==
    \/ \E again \in BOOLEAN : Start(p, again)
    \/ FindBase(p) \/ ReadBase(p) \/ Rotate(p) \/ Create(p)
    \/ Abort(p) \/ NothingMatched(p) \/ Select(p)
    \/ (\E s \in Scenarios, v \in Verdicts : Finish(p, s, v))
    \/ EndSuite(p) \/ CloseRecord(p) \/ Report(p)
    \/ Cancel(p) \/ Kill(p)

\* Every command has been given.
Done == minted = MaxRuns /\ (\A p \in Procs : at[p] = "idle") /\ UNCHANGED vars

Next == (\E p \in Procs : Command(p)) \/ Done

Spec == Init /\ [][Next]_vars

-----------------------------------------------------------------------------
(* Properties *)

\* A run and the bases behind it, whether or not they are still on disk.
Line(r) ==
    LET line[k \in 0..MaxRuns] == IF k = 0 THEN r
                                  ELSE IF line[k - 1] = 0 THEN 0
                                  ELSE records[line[k - 1]].of
    IN  line
Behind(r) == {Line(r)[k] : k \in 0..MaxRuns} \ {0}

\* How far behind r the last word on s was said (MaxRuns + 1: never was).
SaidAt(r, s) ==
    LET line == Line(r)
        said == {k \in 0..MaxRuns : line[k] # 0 /\ records[line[k]].verdict[s] # "none"}
    IN  IF said = {} THEN MaxRuns + 1 ELSE CHOOSE k \in said : \A j \in said : k <= j
LastWord(r, s) == IF SaidAt(r, s) > MaxRuns THEN "none"
                  ELSE records[Line(r)[SaidAt(r, s)]].verdict[s]

\* The two ways in which a chain of reruns loses a scenario: a run ended before its
\* suite, or the scenario was skipped in a record that was read without a tail.
NeverBegan(r) == \E t \in Behind(r) : /\ records[t].tail # "none"
                                      /\ \A s \in Scenarios : records[t].verdict[s] = "none"
SkippedUnseen(r, s) ==
    LET k == SaidAt(r, s) IN
    /\ k \in 1..MaxRuns /\ LastWord(r, s) = "Skipped"
    /\ saw[Line(r)[k - 1]] = "none"

(* A green --rerun means a green suite: along the chain of runs it continues,
   the last word on every scenario is that it passed - whatever was interrupted,
   killed, rotated away or running beside it - but for the two ways above
   (exec.rs and record.rs, `rerun_candidates`). *)
GreenRerunProven ==
    \A r \in green : \A s \in Scenarios :
        LastWord(r, s) = "Passed" \/ NeverBegan(r) \/ SkippedUnseen(r, s)

(* The JUnit file of a rerun and the page `report` makes of its record agree on
   every scenario both list, also when the base was still being written
   (record.rs, `carried_outcomes`; report.rs). *)
ReportsAgree ==
    \A p \in Procs : at[p] = "report" =>
        \A s \in Scenarios :
            JUnitOf(p)[s] # "none" => PageOf(own[p])[s] \in {"none", JUnitOf(p)[s]}

(* "An unexecuted scenario reported green is the failure this rule exists to
   prevent" (record.rs): when a --rerun is green, every scenario of the suite has
   been executed in the chain of runs it continues, and not skipped since. *)
GreenRerunRan ==
    \A r \in green : \A s \in Scenarios : LastWord(r, s) \in {"Passed", "Failed"}

-----------------------------------------------------------------------------
(* The inductive invariant of GreenRerunProven and ReportsAgree *)

Record == [onDisk : BOOLEAN, began : Nat, verdict : [Scenarios -> Verdicts],
           tail : Tails, of : Runs \cup {0}]
Base   == [of : Runs \cup {0}, verdict : [Scenarios -> Verdicts], tail : Tails]

\* Before the record is created, and from then on.
Ahead   == {"find", "read", "rotate", "create"}
Running == {"setup", "suite", "close", "report"}

TypeOK ==
    /\ at \in [Procs -> {"idle"} \cup Ahead \cup Running]
    /\ own \in [Procs -> Runs \cup {0}]
    /\ rerun \in [Procs -> BOOLEAN]
    /\ base \in [Procs -> Base]
    /\ todo \in [Procs -> SUBSET Scenarios]
    /\ cancelled \in [Procs -> BOOLEAN]
    /\ verdict \in [Procs -> {"none", "red", "green"}]
    /\ records \in [Runs -> Record]
    /\ minted \in 0..MaxRuns
    /\ clock \in Nat
    /\ saw \in [Runs -> Tails]
    /\ green \subseteq Runs

\* Nobody has written anything to the record of r.
Fresh(r) ==
    /\ ~records[r].onDisk /\ records[r].of = 0 /\ records[r].tail = "none"
    /\ \A s \in Scenarios : records[r].verdict[s] = "none"

\* A process has a run exactly while it has a command, and has it for itself.
Owned ==
    /\ \A p \in Procs : at[p] = "idle" => own[p] = 0
    /\ \A p \in Procs : at[p] # "idle" => own[p] \in 1..minted
    /\ \A p, q \in Procs : own[p] = own[q] /\ own[p] # 0 => p = q
    /\ \A r \in Runs : r > minted => Fresh(r)
    /\ \A p \in Procs : at[p] \in Ahead => Fresh(own[p])

\* What was read of a base is still so; what it left open may have been said since.
AsRead(b) ==
    /\ b.of # 0
    /\ \A s \in Scenarios :
          b.verdict[s] # "none" => records[b.of].verdict[s] = b.verdict[s]
    /\ b.tail # "none" =>
          /\ records[b.of].tail = b.tail
          /\ \A s \in Scenarios : records[b.of].verdict[s] = b.verdict[s]
BasesTrue ==
    \A p \in Procs :
        /\ at[p] = "idle" => ~rerun[p]
        /\ at[p] \in {"find", "read"} => rerun[p]
        /\ ~rerun[p] => base[p] = NoBase
        /\ at[p] = "read" => base[p].of # 0
        /\ rerun[p] /\ at[p] \in {"rotate", "create"} \cup Running => AsRead(base[p])

\* A record has a tail once its run is past the suite, and a completed one no
\* scenario that was skipped.
TailsTrue ==
    /\ \A p \in Procs :
          /\ at[p] \in {"setup", "suite", "close"} => records[own[p]].tail = "none"
          /\ at[p] = "report" => records[own[p]].tail # "none"
    /\ \A r \in Runs : records[r].tail = "Completed" =>
          \A s \in Scenarios : records[r].verdict[s] # "Skipped"

\* The record of a command that runs: what it is told to run, and not what is left,
\* has an outcome.
RunTrue(p) ==
    LET r == own[p] IN
    /\ at[p] \in Running => records[r].of = base[p].of /\ saw[r] = base[p].tail
    /\ at[p] = "setup" => \A s \in Scenarios : records[r].verdict[s] = "none"
    /\ at[p] \in {"suite", "close", "report"} => Selected(p) # {}
    /\ at[p] \in {"suite", "close", "report"} =>
          \A s \in Scenarios : s \notin Selected(p) => records[r].verdict[s] = "none"
    /\ at[p] = "suite" =>
          /\ todo[p] \subseteq Selected(p)
          /\ \A s \in todo[p] : records[r].verdict[s] = "none"
          /\ \A s \in Selected(p) \ todo[p] : records[r].verdict[s] # "none"
    /\ at[p] \in {"close", "report"} =>
          \A s \in Selected(p) : records[r].verdict[s] # "none"
    /\ at[p] \in {"suite", "close"} =>
          \A s \in Scenarios : records[r].verdict[s] = "Skipped" => cancelled[p]
    /\ at[p] \in {"close", "report"} /\ verdict[p] = "green" =>
          \A s \in Scenarios : records[r].verdict[s] \in {"none", "Passed"}
RunsTrue == \A p \in Procs : RunTrue(p)

\* What a finished record leaves out, its base has settled, or was never to run:
\* the step of the argument from a record to the one behind it.
SettledBehind(t, s) ==
    LET b == records[t].of IN
    /\ b # 0
    /\ \/ records[b].verdict[s] = "Passed"
       \/ records[b].verdict[s] = "Skipped" /\ saw[t] = "none"
       \/ records[b].verdict[s] = "none" /\ records[b].tail # "none"
ChainTrue ==
    \A t \in Runs :
        records[t].tail # "none" /\ (\E s \in Scenarios : records[t].verdict[s] # "none") =>
            \A s \in Scenarios : records[t].verdict[s] = "none" => SettledBehind(t, s)

GreenTrue ==
    \A r \in green :
        /\ records[r].tail # "none"
        /\ \A s \in Scenarios : records[r].verdict[s] \in {"none", "Passed"}

\* The order in which records were created: a base comes before its rerun, so that
\* no chain is longer than there are runs.
Ranked(rank) ==
    /\ \A r \in Runs : rank[r] <= Cardinality({t \in Runs : rank[t] # 0})
    /\ \A r \in Runs : records[r].of # 0 => rank[records[r].of] \in 1..(rank[r] - 1)
    /\ \A r \in Runs : records[r].onDisk => rank[r] # 0
    /\ \A p \in Procs : base[p].of # 0 => rank[base[p].of] # 0
    /\ \A r \in Runs : r > minted => rank[r] = 0
    /\ \A p \in Procs : at[p] \in Ahead => rank[own[p]] = 0
NoCycle == \E rank \in [Runs -> Nat] : Ranked(rank)

HistoryInv ==
    TypeOK /\ Owned /\ BasesTrue /\ TailsTrue /\ RunsTrue /\ ChainTrue /\ GreenTrue /\ NoCycle
=============================================================================
