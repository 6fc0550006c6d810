------------------------------ MODULE MCReports ------------------------------
(***************************************************************************)
(* What runs leave behind: a run in full and the history it begins; or a    *)
(* weights file dealt to shards; or a project before the gate, the listings *)
(* and such shards; or the state file of two processes; or the asset roots  *)
(* of two scenarios.  Only the second and third tale share a variable.      *)
(***************************************************************************)
EXTENDS Trends, Commands, World, Staging

Scenario(file, name, phase, tags, kind) ==
    [file |-> file, name |-> name, phase |-> phase, tags |-> tags, kind |-> kind]

Q == {"quarantine"}

\* Two namesakes of different files, side by side.
Namesakes ==
    {<<Scenario("f", "a", "suite", {}, one), Scenario("g", "a", "suite", {}, other)>> :
        one \in Kinds, other \in {"passed", "failed", "cut"}}

\* Quarantine, alone and beside a scenario of its own file that has a fault.
Forgiven ==
    {<<Scenario("f", "a", "suite", Q, one), Scenario("f", "b", "suite", {}, other)>> :
        one \in {"passed", "failed", "system", "user", "slow", "parked"},
        other \in {"passed", "unclosed", "system"}}

\* The phases around a suite of one.
Phased ==
    {<<Scenario("s", "up", "setup", {}, up), Scenario("f", "a", "suite", tags, "failed"),
       Scenario("t", "down", "teardown", {}, down)>> :
        up \in {"passed", "failed", "system", "user", "parked", "unclosed"}, tags \in {{}, Q},
        down \in {"passed", "failed", "system", "user", "parked"}}

\* More scenarios than a line has glyphs and the job annotations.
Many == {<<Scenario("f", "a", "suite", {}, "user"), Scenario("f", "b", "suite", {}, "user"),
           Scenario("f", "c", "suite", {}, last)>> : last \in {"user", "parked"}}

AllPlans == Namesakes \cup Forgiven \cup Phased \cup Many

A == <<"f", "a">>
B == <<"g", "a">>
Run(status, attempts) == [status |-> status, phase |-> "suite", tags |-> {}, attempts |-> attempts]
Of(a, b, completion) == [scenarios |-> (A :> a) @@ (B :> b), completion |-> completion]

Later ==
    {Of(Run("Passed", 1), Run("Passed", 1), "Completed"),
     Of(Run("Passed", 2), Run("Passed", 1), "Completed"),
     Of(Run("Failed", 1), Run("Passed", 1), "Completed"),
     Of(Run("Failed", 1), Run("Failed", 1), "Completed"),
     Of([Run("Failed", 1) EXCEPT !.tags = Q], Run("Passed", 1), "Completed"),
     Of(Run("Skipped", 1), Run("Passed", 1), "Cancelled"),
     Of(Run("Skipped", 1), Run("Passed", 1), "Completed")}

Files == [1..5 -> 0..3] \cup {<<3, 1>>}
Selections == {{1, 2, 3}, {4, 5, 6, 7}}

\* One secret of two characters, its base64 with and without padding.
Secrets == {{<<"k", "l">>, <<"m">>, <<"m", "=">>}}
Answers ==
    {<<"p">>, <<"m", "=", "p">>, <<"p", "p", "p", "k", "l", "p", "p", "p", "p", "p">>}

\* Two scenarios, the second with a reference or two: of one feature, or of
\* features whose paths are one slug.
Asset(name, from) == [name |-> name, from |-> from]
Refs == {Asset(name, from) : name \in {"d", "./d", "D"}, from \in {"feature", "one.hurl", "two.hurl"}}
Odd == {Asset("../d", "feature"), Asset("gone", "feature"), Asset("d", "lost.hurl"), Asset("d", "three.hurl")}
First == [file |-> <<"a", "/", "b", "/", "c">>, name |-> <<"c">>, beside |-> "a/b", wants |-> <<Asset("d", "feature")>>]
AllCasts ==
    {<<First, [First EXCEPT !.name = <<"b", " ", "c">>, !.wants = <<one, two>>]>> :
        one \in Refs, two \in Refs \cup Odd}
    \cup {<<First, [First EXCEPT !.file = <<"a", "-", "b", "/", "c">>, !.beside = "a-b", !.wants = <<one>>]>> :
        one \in Refs}
Left == {<<"none", "none">>, <<"earlier", "d">>}

\* A suite of f and g, a setup and a teardown of one scenario each.
Some(file, name, tags, says) == [file |-> file, name |-> name, tags |-> tags, says |-> says, ends |-> "passed"]
Macro(refs, uses, said) == [refs |-> refs, uses |-> uses, said |-> said]
Sound ==
    [scenarios |-> <<Some("f", "a", {"smoke"}, {"m"}), Some("f", "b", {}, {"n"}), Some("g", "a", {"smoke"}, {"m"}),
                     Some("up", "c", {}, {"u"}), Some("down", "c", {"smoke"}, {"m"})>>,
     suite |-> {"f", "g"}, setup |-> "up", teardown |-> "down", broken |-> {}, exclusive |-> "none",
     macros |-> [m |-> Macro({"x"}, {}, TRUE), n |-> Macro({}, {"h"}, TRUE),
                 u |-> Macro({"z"}, {}, TRUE), h |-> Macro({"y"}, {}, FALSE)],
     corpus |-> TRUE, fragments |-> {"x", "y", "z"}, bare |-> FALSE]

\* Where the phases lie, and one thing more that is wrong with the project.
Layouts ==
    {[Sound EXCEPT !.suite = suite, !.setup = phases[1], !.teardown = phases[2]] :
        suite \in {{"f", "g"}, {"f", "g", "up"}, {}, {"up"}},
        phases \in {<<"none", "none">>, <<"up", "down">>, <<"up", "none">>, <<"none", "down">>,
                    <<"void", "down">>, <<"up", "void">>}}
Found ==
    UNION {{p, [p EXCEPT !.scenarios[2].ends = "missing"], [p EXCEPT !.scenarios[3].ends = "failed"],
            [p EXCEPT !.scenarios[4].ends = "missing"], [p EXCEPT !.scenarios[5].ends = "failed"],
            [p EXCEPT !.broken = {"g"}], [p EXCEPT !.broken = {"up"}], [p EXCEPT !.broken = {"down"}],
            [p EXCEPT !.exclusive = "malformed"], [p EXCEPT !.exclusive = "solo"],
            [p EXCEPT !.scenarios[3].tags = {"solo"}, !.exclusive = "solo"],
            [p EXCEPT !.scenarios[2].says = {}], [p EXCEPT !.scenarios[2].says = {}, !.macros.n.uses = {}],
            [p EXCEPT !.fragments = @ \cup {"w"}, !.bare = TRUE],
            [p EXCEPT !.corpus = FALSE, !.fragments = {}, !.macros = [m \in DOMAIN @ |-> [@[m] EXCEPT !.refs = {}]]]} :
        p \in Layouts}

Ask(tag, name, file, rerun, sharded) ==
    [tag |-> tag, name |-> name, file |-> file, rerun |-> rerun, sharded |-> sharded,
     below |-> FALSE, annotated |-> TRUE, base |-> "none"]
Asked ==
    {Ask("any", "any", "any", 1..5, sharded) : sharded \in BOOLEAN}
    \cup {Ask("smoke", "any", "any", 1..5, TRUE), Ask("any", "a", "f", 1..5, FALSE), Ask("any", "any", "f", 1..5, TRUE),
          Ask("any", "typo", "any", 1..5, TRUE), Ask("any", "any", "any", {1}, TRUE), Ask("any", "c", "any", {}, FALSE),
          [Ask("any", "any", "any", 1..5, TRUE) EXCEPT !.below = TRUE]}
    \cup {[Ask("any", name, "any", {}, TRUE) EXCEPT !.base = "clean"] : name \in {"any", "typo"}}
Spread == {[s \in 1..5 |-> 0], [s \in 1..5 |-> s % 2]}

vars == <<rvars, history, svars, cvars, wvars, gvars>>

NoRun == plan = <<>> /\ stage = <<>> /\ told = <<>> /\ events = <<>> /\ ended = "none" /\ slots = <<>> /\ history = <<>>
NoDeal == weights = <<>> /\ placed = <<>> /\ load = [i \in Buckets |-> 0] /\ taken = [i \in Buckets |-> 0]
NoCommand ==
    /\ project = <<>> /\ asked = <<>> /\ hash = <<>>
    /\ dry = Unasked /\ listed = Unasked /\ checked = Unasked /\ jobs = <<>>
NoState == stateFile = Missing /\ scratch = <<>> /\ runs = [p \in Procs |-> [NewRun EXCEPT !.at = "over"]] /\ author = {}
NoStaging == cast = <<>> /\ volume = "exact" /\ roots = <<>> /\ stagers = <<>> /\ records = <<>>

Init ==
    \/ TrendsInit /\ NoDeal /\ NoCommand /\ NoState /\ NoStaging
    \/ DealInit /\ NoRun /\ NoCommand /\ NoState /\ NoStaging
    \/ DealInit /\ weights = <<3, 1>> /\ CommandInit /\ NoRun /\ NoState /\ NoStaging
    \/ WorldInit /\ NoRun /\ NoDeal /\ NoCommand /\ NoStaging
    \/ StageInit /\ NoRun /\ NoDeal /\ NoCommand /\ NoState

Next ==
    \/ TrendsStep /\ UNCHANGED <<svars, cvars, wvars, gvars>>
    \/ DealStep /\ UNCHANGED <<rvars, history, cvars, wvars, gvars>>
    \/ project # <<>> /\ CommandStep /\ UNCHANGED <<rvars, history, svars, wvars, gvars>>
    \/ WorldStep /\ UNCHANGED <<rvars, history, svars, cvars, gvars>>
    \/ StageStep /\ UNCHANGED <<rvars, history, svars, cvars, wvars>>

Spec == Init /\ [][Next]_vars
=============================================================================
