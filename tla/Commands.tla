------------------------------ MODULE Commands ------------------------------
(***************************************************************************)
(* Four readers of one project (cli/commands.rs, cli/exec.rs): the gate     *)
(* `proef test --dry-run`, the listings `proef macros` and `proef fragments *)
(* --check`, and the jobs of a `proef test` matrix.  Each loads the project *)
(* afresh and leaves nothing to the others, so one order stands for all.    *)
(* A file is broken or loads; every secret is stored; a scenario that runs  *)
(* ends as the project says, unless an asset it sends is missing.           *)
(***************************************************************************)
EXTENDS Shards, Sequences

CONSTANTS
    Projects,   \* what the readers may find, see the uses below
    Asks,       \* the command lines, and the base that --rerun finds
    Hashes      \* shard_bucket: functions from identities to shards

\* "none" is no file; a hash has a shard for whatever identity there is.
ASSUME ProjectsAssumption ==
    \A p \in Projects :
        /\ "none" \notin p.broken
        /\ \A s \in DOMAIN p.scenarios :
              /\ p.scenarios[s].file # "none"
              /\ p.scenarios[s].ends \in {"passed", "failed", "missing"}
        /\ \A h \in Hashes : \A s \in DOMAIN p.scenarios : h[s] \in 0..(N - 1)

VARIABLES
    project, asked, hash,
    dry,        \* the answer of the gate
    listed,     \* that of `macros`
    checked,    \* that of `fragments --check`
    jobs        \* those of the matrix, in its order

cvars == <<project, asked, hash, dry, listed, checked, jobs>>

Unasked == [exit |-> "none"]

CommandInit ==
    /\ project \in Projects /\ asked \in Asks /\ hash \in Hashes
    /\ dry = Unasked /\ listed = Unasked /\ checked = Unasked /\ jobs = <<>>

-----------------------------------------------------------------------------
(* What is loaded, and early returns in their order *)

In(files) == {s \in DOMAIN project.scenarios : project.scenarios[s].file \in files}
PhaseFiles == {project.setup, project.teardown} \ {"none"}
Suite == In(project.suite)
Loads(files) == files \cap project.broken = {}
Ends(group) == {project.scenarios[s].ends : s \in group}

Stop(when, code) == [when |-> when, code |-> code]
Answer(stops) ==
    LET hit == {k \in DOMAIN stops : stops[k].when}
    IN  IF hit = {} THEN "Success" ELSE stops[CHOOSE k \in hit : \A l \in hit : k <= l].code

PhasesLoad == Loads(PhaseFiles)

\* no_scenarios_matched, the refusal that the gate and the run share.
Refuse(when) == Stop(when, "UserError")

\* --tags, --scenario and --scenario-file.
Filtered == \E value \in {asked.tag, asked.name, asked.file} : value # "any"
Picked(group) ==
    {s \in group : /\ asked.tag \in {"any"} \cup project.scenarios[s].tags
                   /\ asked.name \in {"any", project.scenarios[s].name}
                   /\ asked.file \in {"any", project.scenarios[s].file}}

\* warn_if_exclusive_matches_nothing: the suite whole, whatever is selected.
NoneExclusive ==
    /\ project.exclusive # "none"
    /\ \A s \in Suite : project.exclusive \notin project.scenarios[s].tags

\* The gate checks the assets of the suite, selected or not, and refuses a
\* selection of nothing before it looks at the phases.
Gate ==
    [exit |-> Answer(<<Stop(project.exclusive = "malformed", "UserError"),
                       Stop(~Loads(project.suite), "UserError"),
                       Stop("missing" \in Ends(Suite), "UserError"),
                       Refuse(Filtered /\ Picked(Suite) = {}),
                       Stop(~PhasesLoad, "UserError")>>),
     selected |-> Picked(Suite), warned |-> Loads(project.suite) /\ NoneExclusive]

DryRun ==
    /\ dry = Unasked
    /\ dry' = Gate
    /\ UNCHANGED <<project, asked, hash, listed, checked, jobs>>

-----------------------------------------------------------------------------
(* Listings *)

Says(group) == UNION {project.scenarios[s].says : s \in group}

\* What a step that says m runs: `use:` is followed when it is lowered.
Reach(m) == UNION {project.macros[n].refs : n \in {m} \cup project.macros[m].uses}
Runs(group) == UNION {Reach(m) : m \in Says(group)}

IsDead(m) == project.macros[m].said /\ m \notin Says(Suite)

\* A suite that does not load has no counts, and no verdict is drawn from none.
MacroList ==
    [exit |-> Answer(<<Stop(~Loads(project.suite), "UserError")>>),
     unused |-> {m \in DOMAIN project.macros : Loads(project.suite) /\ IsDead(m)}]

ListMacros ==
    /\ listed = Unasked /\ dry # Unasked
    /\ listed' = MacroList
    /\ UNCHANGED <<project, asked, hash, dry, checked, jobs>>

\* Setup and teardown run fragments too.  Either half missing withholds all.
Counted == Loads(project.suite) /\ PhasesLoad
NeverRun == project.fragments \ (Runs(Suite) \cup Runs(In(PhaseFiles)))
Refers(m, f) == f \in project.macros[m].refs

\* Two ways of being dead: no macro names it, or only macros that nobody says.
Unreferenced(f) == Counted /\ f \in NeverRun /\ \A m \in DOMAIN project.macros : ~Refers(m, f)
Unreachable(f) == Counted /\ f \in NeverRun /\ ~Unreferenced(f)

FragmentCheck ==
    [exit |-> Answer(<<Stop(~Counted, "UserError"),
                       Stop(~project.corpus, "UserError"),
                       Stop(NeverRun # {}, "TestFailure"),
                       Stop(asked.annotated /\ project.bare, "TestFailure")>>),
     unreachable |-> {f \in project.fragments : Unreachable(f)},
     unreferenced |-> {f \in project.fragments : Unreferenced(f)}]

CheckFragments ==
    /\ checked = Unasked /\ listed # Unasked
    /\ checked' = FragmentCheck
    /\ UNCHANGED <<project, asked, hash, dry, listed, jobs>>

-----------------------------------------------------------------------------
(* The jobs *)

\* Phase features leave the pool where their recorded names can be resolved:
\* in the project's root, and in no directory below it.
Excluded == IF asked.below THEN {} ELSE In(PhaseFiles)
Chosen == Picked(Suite \ Excluded) \cap asked.rerun
Own(i) == IF asked.sharded THEN Mine(Chosen, hash, i) ELSE Chosen

\* --shard 1/N .. N/N, or one job without it.
JobCount == IF asked.sharded THEN N ELSE 1

SetupStops ==
    LET ends == Ends(In({project.setup})) IN
    <<Stop(project.setup \in project.broken, "UserError"),
      Stop(project.setup # "none" /\ ends = {}, "UserError"),
      Stop(ends \cap {"missing", "failed"} # {}, "UserError")>>
TeardownStops ==
    LET ends == Ends(In({project.teardown})) IN
    <<Stop(project.teardown # "none" /\ ends = {}, "UserError"),
      Stop(ends \cap {"missing", "failed"} # {}, "SystemError")>>

\* A bug: an empty selection is as good as an empty shard.
NothingToRunEver(own) == own = {} /\ ~asked.sharded
\* An empty selection is refused, an empty shard is not.
NothingToRun(own) == own = {} /\ (~asked.sharded \/ Chosen = {})

\* --rerun, of a base that has its tail and names no scenario.
NothingToRerun == asked.base = "clean"

\* Teardown is loaded before anything runs, and run if the pool was.  A job that
\* is to rerun a clean base loads the project and goes no further.
LoadStops ==
    <<Stop(project.exclusive = "malformed", "UserError"),
      Stop(~Loads(project.suite), "UserError"),
      Stop(project.teardown \in project.broken, "UserError")>>
Refusal(own) ==
    Answer(LoadStops \o (IF NothingToRerun THEN <<>> ELSE SetupStops \o <<Refuse(NothingToRun(own))>>))
Ended(own) ==
    Answer((IF own = {} THEN <<>> ELSE TeardownStops)
           \o <<Stop("missing" \in Ends(own), "UserError"),
                Stop("failed" \in Ends(own), "TestFailure")>>)
JobOf(own) ==
    IF Refusal(own) # "Success" THEN [exit |-> Refusal(own), ran |-> {}]
    ELSE IF NothingToRerun THEN [exit |-> "Success", ran |-> {}]
    ELSE [exit |-> Ended(own), ran |-> own]

Job ==
    /\ checked # Unasked /\ Dealt /\ Len(jobs) < JobCount
    /\ jobs' = Append(jobs, JobOf(Own(Len(jobs))))
    /\ UNCHANGED <<project, asked, hash, dry, listed, checked>>

CommandStep == DryRun \/ ListMacros \/ CheckFragments \/ Job

\* The deal of the weights file, and the readers.
MatrixSpec ==
    /\ DealInit /\ CommandInit
    /\ [][(DealStep /\ UNCHANGED cvars) \/ (CommandStep /\ UNCHANGED svars)]_<<svars, cvars>>

-----------------------------------------------------------------------------
Ran == UNION {jobs[i].ran : i \in DOMAIN jobs}
Done == dry # Unasked /\ Len(jobs) = JobCount

\* Where the gate promises to see what a run will: every scenario is wanted,
\* the phases lie outside the suite and pass, and there is a suite.
Promised ==
    /\ Suite # {} /\ ~NothingToRerun /\ Suite \subseteq asked.rerun
    /\ Suite \cap In(PhaseFiles) = {}
    /\ Ends(In(PhaseFiles)) \subseteq {"passed"}
    /\ \A file \in PhaseFiles : In({file}) # {}

\* What the gate lets through no job refuses, and the jobs run what it counted;
\* what it refuses, an asset aside, no job runs, and every job refuses it too
\* unless it has nothing to rerun and the suite loads.
GateTrue ==
    Done =>
        /\ Promised /\ dry.exit = "Success" =>
              (\A i \in DOMAIN jobs : jobs[i].exit \in {"Success", "TestFailure"}) /\ Ran = dry.selected
        /\ dry.exit # "Success" /\ "missing" \notin Ends(Suite) =>
              \A i \in DOMAIN jobs :
                 /\ jobs[i].ran = {}
                 /\ \/ jobs[i].exit = "UserError"
                    \/ NothingToRerun /\ Loads(project.suite) /\ project.exclusive # "malformed"
        /\ dry.warned => \A s \in Ran : project.exclusive \notin project.scenarios[s].tags

RanOnce ==
    /\ Ran # {}
    /\ Ran = Chosen
    /\ \A i, j \in DOMAIN jobs : i # j => jobs[i].ran \cap jobs[j].ran = {}
    /\ Ends(Ran) = {"passed"}
    /\ ~asked.below => Ran \cap In(PhaseFiles) = {}

\* A green matrix has run the whole selection once, and there was one; or it had
\* nothing to rerun, and no job ran anything.
GreenMatrix ==
    Done /\ (\A i \in DOMAIN jobs : jobs[i].exit = "Success") =>
        /\ NothingToRerun => Ran = {}
        /\ ~NothingToRerun => RanOnce

\* The scenarios that a whole `proef test` runs, its phases among them.
Everything == Suite \cup In(PhaseFiles)
RunBy(f, s) == \E m \in project.scenarios[s].says :
                  Refers(m, f) \/ \E n \in project.macros[m].uses : Refers(n, f)

\* A fragment check that passes is about a corpus each entry of which runs; a
\* verdict of death is never about what a job has run; and a fragment that is
\* out of reach has no macro that `macros` takes for alive.
ListingsTrue ==
    checked # Unasked =>
        /\ checked.exit = "Success" =>
              project.corpus /\ \A f \in project.fragments : \E s \in Everything : RunBy(f, s)
        /\ \A f \in checked.unreachable \cup checked.unreferenced : \A s \in Everything \cup Ran : ~RunBy(f, s)
        /\ \A f \in checked.unreachable, m \in DOMAIN project.macros :
              Refers(m, f) /\ project.macros[m].said => m \in listed.unused
        /\ \A m \in listed.unused, s \in Ran : m \notin project.scenarios[s].says

(***************************************************************************)
(* MatrixTrue: the matrix that `--shard` and `--shard-weights` make         *)
(* (timings.rs, assign; exec.rs) is an even split of the selection, and     *)
(* what the gate and the listings say of a project is what its jobs do.     *)
(***************************************************************************)
MatrixTrue == ShardsEven /\ GateTrue /\ GreenMatrix /\ ListingsTrue

=============================================================================
