----------------------------- MODULE HurlSession -----------------------------
(***************************************************************************)
(* The hurl engine's session (engine-hurl/session.rs) as it executes a      *)
(* lowered scenario, with the scenario thread's reaction to each batch      *)
(* (core/runner.rs).  A batch is cut into runs of contiguous entries; each  *)
(* run is one call of hurl, which is external: it evaluates an entry's      *)
(* options, sends the request, evaluates the response, retries, and stops   *)
(* at the first entry whose last attempt failed.  Between calls the session *)
(* carries the variables, the captures and the cookies.                     *)
(***************************************************************************)
EXTENDS Lowering, FiniteSetsExt

CONSTANTS
    Scenarios,                        \* the scenarios to choose from
    Timeout, Interval, Delay,         \* of every attempt, in ticks
    Following, Hops,                  \* scenarios under follow_location, max_redirect
    Margin, MaxBudget                 \* BUDGET_MARGIN, MAX_BATCH_BUDGET

ASSUME BudgetAssumption ==
    /\ {Timeout, Interval, Delay, Hops, Margin, MaxBudget} \subseteq Nat
    /\ \A s \in Scenarios : s \in Seq(StepType) /\ \A k \in Steps(s) : Pushed(s[k])

VARIABLES
    scn,         \* the scenario
    batch,       \* the batch that is next, or running
    pc,          \* "batch", "run", "call", "ended"
    at,          \* in a call: the entry that hurl is at
    tries,       \* in a call: attempts and repeats of that entry so far
    results,     \* the entry results of the call
    vars,        \* hurl's variable set: where each value comes from
    world,       \* the scenario's captures
    jar,         \* the steps whose cookies the cookie file holds
    outcome,     \* step -> its outcome, "none" while it has none
    error,       \* the batch's error
    broken,      \* a run of the batch failed
    cancelled,   \* the scenario's token
    failed,      \* the scenario failed
    told,        \* entry -> how often it was tried, and the last attempt's result
    saw,         \* step -> where the values it read last came from
    elapsed,     \* ticks that hurl took in the batch, at the longest
    followed     \* redirects that it followed in the batch

svars == <<scn, batch, pc, at, tries, results, vars, world, jar, outcome, error,
           broken, cancelled, failed, told, saw, elapsed, followed>>

Nobody == <<"none", 0>>
Sources == ({"capture", "literal", "own", "secret"} \X Nat) \cup {Nobody}
Unset == [v \in Vars |-> Nobody]

Untried == [entry |-> <<0, 0>>, errs |-> {}, class |-> "assert", answered |-> FALSE, n |-> 0]

AllEntries(s) == UNION {EntriesOf(s, k) : k \in Steps(s)}

(***************************************************************************)
(* Runs: guarded steps leave the plan, and a gap in the entries cuts it.    *)
(***************************************************************************)
Plan(b) == {k \in Batch(scn, b) : ~ scn[k].off}
HasEntries(k) == scn[k].entries > 0

\* is_contiguous: a step without entries joins any run.

OpensRun(b, k) ==
    /\ HasEntries(k)
    /\ \E p \in Plan(b) :
        /\ p < k /\ HasEntries(p)
        /\ \A q \in Plan(b) : q < k /\ HasEntries(q) => q <= p
        /\ \E i \in (p + 1)..(k - 1) : HasEntries(i)

RunOf(b, k) == Cardinality({j \in Plan(b) : j <= k /\ OpensRun(b, j)})

\* The steps of the first run of the batch that has not been dealt with.
Waiting(b) == {k \in Plan(b) : outcome[k] = "none"}
Run == {k \in Waiting(batch) : \A j \in Waiting(batch) : RunOf(batch, k) <= RunOf(batch, j)}

\* hurl is given the slice from the first to the last entry of the run.
Slice(run) ==
    LET owners == {k \in run : HasEntries(k)}
    IN  UNION {EntriesOf(scn, k) : k \in Min(owners)..Max(owners)}

Before(e, f) == e[1] < f[1] \/ (e[1] = f[1] /\ e[2] < f[2])
FirstOf(E) == CHOOSE e \in E : \A f \in E \ {e} : Before(e, f)
Rest(e) == {f \in Slice(Run) : Before(e, f)}

(***************************************************************************)
(* seed_variables: what was chained, overlaid by the world, overlaid by the *)
(* secrets under the names of the variables that read them.                 *)
(***************************************************************************)
Seed ==
    [v \in Vars |-> IF SecretOf(scn, v) # 0 THEN <<"secret", SecretOf(scn, v)>>
                    ELSE IF world[v] # Nobody THEN world[v] ELSE vars[v]]

\* An entry's options: the fragment's own lines, then the injected ones.
Options(k) ==
    [v \in Vars |-> IF v \in DOMAIN scn[k].bind THEN <<"literal", k>>
                    ELSE IF v \in scn[k].own THEN <<"own", k>> ELSE vars[v]]

Captured(k) == [v \in Vars |-> IF v \in scn[k].caps THEN <<"capture", k>> ELSE Nobody]

Overlay(f, g) == [v \in Vars |-> IF g[v] # Nobody THEN g[v] ELSE f[v]]

\* What the entry's template reads and nobody has set.
Undefined(k) ==
    {v \in scn[k].reads : Options(k)[v] = Nobody}
        \cup {w \in UNION {scn[k].bind[v] : v \in DOMAIN scn[k].bind} : Options(k)[w] = Nobody}

(***************************************************************************)
(* batch_budget: None when a timing option is a placeholder.  It knows of   *)
(* no redirects.                                                            *)
(***************************************************************************)
\* One round of an entry: its attempts, and the intervals between them.
RoundBudget(k) ==
    LET n == scn[k].retry + 1
    IN  Timeout * n + Interval * scn[k].retry + Delay * n

\* A bug: the retries' own time is forgotten.
EntryBudgetOnce(k) == (Timeout + Delay) * scn[k].repeat

EntryBudget(k) == RoundBudget(k) * scn[k].repeat

\* The budgets of the batch's entries, summed up step by step.
Granted(b) ==
    LET sum[k \in 0..Len(scn)] ==
            IF k = 0 THEN 0
            ELSE sum[k - 1] + (IF k \in Batch(scn, b) THEN scn[k].entries * EntryBudget(k) ELSE 0)
    IN  sum

BatchBudget(b) == Min({Granted(b)[Len(scn)] + Margin, MaxBudget})

Estimable(b) == \A k \in Batch(scn, b) : HasEntries(k) => scn[k].known

-----------------------------------------------------------------------------

Init ==
    /\ scn \in {s \in Scenarios : Lowers(s)}
    /\ batch = 1 /\ pc = "batch"
    /\ at = <<0, 0>> /\ tries = 0 /\ results = <<>>
    /\ vars = Unset /\ world = Unset
    /\ jar = {}
    /\ outcome = [k \in Steps(scn) |-> "none"]
    /\ error = "none" /\ broken = FALSE /\ cancelled = FALSE /\ failed = FALSE
    /\ told = [e \in AllEntries(scn) |-> Untried]
    /\ saw = [k \in Steps(scn) |-> Unset]
    /\ elapsed = 0 /\ followed = 0

\* The user, or the watchdog.  The token is looked at between calls only, so
\* that a cancellation during a call is one right after it.
Cancel ==
    /\ ~ cancelled /\ pc \in {"batch", "run"}
    /\ cancelled' = TRUE
    /\ UNCHANGED <<scn, batch, pc, at, tries, results, vars, world, jar, outcome, error,
                   broken, failed, told, saw, elapsed, followed>>

\* The thread stops before a batch when it failed or is cancelled; the steps
\* that were not reached are reported as skipped.
StopScenario ==
    /\ pc = "batch"
    /\ batch > BatchCount(scn) \/ failed \/ cancelled
    /\ pc' = "ended"
    /\ outcome' = [k \in Steps(scn) |-> IF outcome[k] = "none" THEN "skipped" ELSE outcome[k]]
    /\ UNCHANGED <<scn, batch, at, tries, results, vars, world, jar, error, broken,
                   cancelled, failed, told, saw, elapsed, followed>>

BeginBatch ==
    /\ pc = "batch" /\ batch <= BatchCount(scn) /\ ~ failed /\ ~ cancelled
    /\ pc' = "run" /\ error' = "none" /\ broken' = FALSE
    /\ elapsed' = 0 /\ followed' = 0
    /\ outcome' = [k \in Steps(scn) |->
                    IF k \in Batch(scn, batch) /\ scn[k].off THEN "skipped" ELSE outcome[k]]
    /\ UNCHANGED <<scn, batch, at, tries, results, vars, world, jar, cancelled, failed,
                   told, saw>>

\* A run is not executed after a failure in the batch, after a cancellation, or
\* when it has no entries.
SkipRun ==
    /\ pc = "run" /\ Waiting(batch) # {}
    /\ broken \/ cancelled \/ \A k \in Run : ~ HasEntries(k)
    /\ outcome' = [k \in Steps(scn) |-> IF k \in Run THEN "skipped" ELSE outcome[k]]
    /\ UNCHANGED <<scn, batch, pc, at, tries, results, vars, world, jar, error, broken,
                   cancelled, failed, told, saw, elapsed, followed>>

StartCall ==
    /\ pc = "run" /\ Waiting(batch) # {}
    /\ ~ broken /\ ~ cancelled /\ \E k \in Run : HasEntries(k)
    /\ pc' = "call" /\ at' = FirstOf(Slice(Run)) /\ tries' = 0 /\ results' = <<>>
    /\ vars' = Seed
    /\ UNCHANGED <<scn, batch, world, jar, outcome, error, broken, cancelled, failed,
                   told, saw, elapsed, followed>>

(***************************************************************************)
(* hurl, external.  One attempt of the entry it is at: a template, the      *)
(* network, a capture or the host's own asserts fail (k), or asserts that   *)
(* were merged into the entry do (their steps).  Captures are taken from    *)
(* every response (`answered`) whose status is the one that was asserted.   *)
(* Redirects are followed within an attempt, each on a timeout of its own.  *)
(***************************************************************************)
LastEntry(e) == e[2] = scn[e[1]].entries
Mergeable(e) == IF LastEntry(e) THEN ThensOf(scn, e[1]) ELSE {}

AnswersOf(e) ==
    IF Undefined(e[1]) # {} THEN {[errs |-> {e[1]}, class |-> "user", answered |-> FALSE]}
    ELSE {[errs |-> {e[1]}, class |-> c, answered |-> FALSE] : c \in {"infra", "assert"}}
          \cup [errs : SUBSET ({e[1]} \cup Mergeable(e)), class : {"assert"}, answered : {TRUE}]

MaxHops == IF scn \in Following THEN Hops ELSE 0

Attempts(k) == (scn[k].retry + 1) * scn[k].repeat

\* After an attempt that went well hurl repeats the entry or goes on; after one
\* that failed it retries while it may.
RoundOf(k, n) == n \div (scn[k].retry + 1)
NextRound(k, n) == (RoundOf(k, n) + 1) * (scn[k].retry + 1)

Attempt ==
    /\ pc = "call" /\ at # <<0, 0>>
    /\ LET k == at[1] IN
       \E a \in AnswersOf(at), hops \in 0..MaxHops :
        /\ told' = [told EXCEPT ![at] = [entry |-> at, errs |-> a.errs, class |-> a.class,
                                          answered |-> a.answered, n |-> @.n + 1]]
        /\ saw' = [saw EXCEPT ![k] = Options(k)]
        /\ results' = Append(results, [entry |-> at, errs |-> a.errs, class |-> a.class,
                                       answered |-> a.answered])
        /\ followed' = followed + hops
        /\ elapsed' = elapsed + Timeout * (hops + 1) + Delay
                        + (IF tries % (scn[k].retry + 1) = 0 THEN 0 ELSE Interval)
        /\ vars' = Overlay(Options(k), IF a.answered /\ LastEntry(at) THEN Captured(k) ELSE Unset)
        /\ LET used == IF a.errs = {} THEN NextRound(k, tries) ELSE tries + 1
               again == /\ used < Attempts(k)
                        /\ a.errs = {} \/ RoundOf(k, used) = RoundOf(k, tries)
               on == a.errs = {} /\ ~ again /\ Rest(at) # {}
           IN  /\ at' = IF again THEN at ELSE IF on THEN FirstOf(Rest(at)) ELSE <<0, 0>>
               /\ tries' = IF again THEN used ELSE 0
    /\ UNCHANGED <<scn, batch, pc, world, jar, outcome, error, broken, cancelled, failed>>

(***************************************************************************)
(* The call's results become outcomes.                                      *)
(***************************************************************************)
ResultsOf(e) == {i \in DOMAIN results : results[i].entry = e}
Final(e) == results[Max(ResultsOf(e))]
ReachedEntries(k) == {e \in EntriesOf(scn, k) : ResultsOf(e) # {}}

\* The steps whose merged asserts the run holds.
MergedIn(run) == {t \in run : scn[t].form = "then"}

HostEntry(t) == <<Host(scn, t), scn[Host(scn, t)].entries>>

Reached(run, k) ==
    IF scn[k].form = "then" THEN ResultsOf(HostEntry(k)) # {} ELSE ReachedEntries(k) # {}

\* last_result_failed, or an error of the last attempt within the asserts' span.
\* A bug: any attempt's errors decide, retried ones too.
FailedEver(run, k) ==
    \E i \in DOMAIN results :
        /\ results[i].entry[1] = (IF scn[k].form = "then" THEN Host(scn, k) ELSE k)
        /\ k \in results[i].errs

FinallyFailed(run, k) ==
    IF scn[k].form = "then"
    THEN ResultsOf(HostEntry(k)) # {} /\ k \in Final(HostEntry(k)).errs
    ELSE \E e \in ReachedEntries(k) : Final(e).errs \ MergedIn(run) # {}

\* user_fault and assert_failure gather over every attempt of the step.
ClassOf(k) ==
    LET mine == {i \in DOMAIN results :
                    /\ results[i].entry \in IF scn[k].form = "then" THEN {HostEntry(k)}
                                            ELSE EntriesOf(scn, k)
                    /\ k \in results[i].errs}
    IN  IF \E i \in mine : results[i].class = "user" THEN "user"
        ELSE IF \E i \in mine : results[i].class = "assert" THEN "assert" ELSE "infra"

\* A captured value that is a secret is not promoted, and its step warns.
Refused(k, tainted) == scn[k].save \cap tainted

Verdict(run, k, tainted) ==
    IF ~ Reached(run, k) THEN "skipped"
    ELSE IF FinallyFailed(run, k) THEN IF Optional(scn, k) THEN "warned" ELSE "failed"
    ELSE IF Refused(k, tainted) # {} THEN "warned" ELSE "passed"

CapturesOfCall ==
    {k \in Steps(scn) : \E i \in DOMAIN results :
        results[i].entry = <<k, scn[k].entries>> /\ results[i].answered}

\* The last step of the call that captured v, if any.
Harvest ==
    [v \in Vars |->
        LET takers == {k \in CapturesOfCall : v \in scn[k].caps}
        IN  IF takers = {} THEN Nobody ELSE <<"capture", Max(takers)>>]

\* What stops the batch: a failed step, or a cookie file that was not written.
\* A bug: the chain goes on without its cookies.
StopsOnFailure(written, bad) == bad # {}

Stops(written, bad) == ~ written \/ bad # {}

\* The call has returned.  The cookie file may not be writable.
EndCall ==
    /\ pc = "call" /\ at = <<0, 0>>
    /\ \E written \in BOOLEAN, tainted \in {{}, Vars} :
        LET run == Run
            bad == {k \in run : Verdict(run, k, tainted) = "failed"}
        IN  /\ jar' = IF written THEN jar \cup {results[i].entry[1] : i \in DOMAIN results}
                      ELSE jar
            /\ world' = Overlay(world, Harvest)
            /\ outcome' = [k \in Steps(scn) |->
                            IF k \in run THEN Verdict(run, k, tainted) ELSE outcome[k]]
            /\ broken' = (broken \/ Stops(written, bad))
            /\ error' = IF ~ written THEN "infra"
                        ELSE IF bad # {} THEN ClassOf(Min(bad)) ELSE error
    /\ pc' = "run" /\ results' = <<>>
    /\ UNCHANGED <<scn, batch, at, tries, vars, cancelled, failed, told, saw, elapsed, followed>>

\* The thread's reaction: an optional batch's error is a warning.
AllOptional(b) == \A k \in Batch(scn, b) : Optional(scn, k)

EndBatch ==
    /\ pc = "run" /\ Waiting(batch) = {}
    /\ pc' = "batch" /\ batch' = batch + 1
    /\ failed' = (error # "none" /\ ~ AllOptional(batch))
    /\ UNCHANGED <<scn, at, tries, results, vars, world, jar, outcome, error, broken,
                   cancelled, told, saw, elapsed, followed>>

Done == pc = "ended" /\ UNCHANGED svars

Next ==
    \/ Cancel \/ StopScenario \/ BeginBatch \/ SkipRun \/ StartCall \/ Attempt
    \/ EndCall \/ EndBatch \/ Done

Spec == Init /\ [][Next]_svars

-----------------------------------------------------------------------------

TypeOK ==
    /\ scn \in Scenarios
    /\ batch \in 1..(BatchCount(scn) + 1)
    /\ pc \in {"batch", "run", "call", "ended"}
    /\ at \in AllEntries(scn) \cup {<<0, 0>>}
    /\ tries \in Nat /\ {elapsed, followed} \subseteq Nat
    /\ vars \in [Vars -> Sources] /\ world \in [Vars -> Sources]
    /\ jar \subseteq Steps(scn)
    /\ outcome \in [Steps(scn) -> {"none", "skipped", "passed", "warned", "failed"}]
    /\ error \in {"none", "user", "assert", "infra"}
    /\ {broken, cancelled, failed} \subseteq BOOLEAN
    /\ saw \in [Steps(scn) -> [Vars -> Sources]]

(***************************************************************************)
(* What a step is reported as is what the last attempts of its entries      *)
(* showed, whatever was retried before: Passed, every entry of it ran and   *)
(* none of its lines failed; Failed or Warned, one of its own lines did, or *)
(* a promotion was refused; Skipped, nothing of it was sent.  An assert     *)
(* that was merged fails its own step, not its host.                        *)
(***************************************************************************)
OwnEntries(k) == IF scn[k].form = "then" THEN {HostEntry(k)} ELSE EntriesOf(scn, k)

VerdictsTrue ==
    \A k \in Steps(scn) :
        /\ outcome[k] = "passed" =>
              \A e \in OwnEntries(k) : told[e].n > 0 /\ k \notin told[e].errs
        /\ outcome[k] = "failed" => \E e \in OwnEntries(k) : k \in told[e].errs
        /\ outcome[k] = "warned" =>
              \/ \E e \in OwnEntries(k) : k \in told[e].errs /\ Optional(scn, k)
              \/ scn[k].save # {}
        /\ outcome[k] = "skipped" =>
              \A e \in OwnEntries(k) \cap EntriesOf(scn, k) : told[e].n = 0

(***************************************************************************)
(* No request is sent more often than its author allowed, and none that a   *)
(* guard turned off.  A scenario that was not cancelled and did not fail    *)
(* has run every other step, but for the asserts of an optional request     *)
(* that failed before its last entry: a failure anywhere ends in the        *)
(* scenario's or, behind `optional:`, in a warning.                         *)
(***************************************************************************)
Excused(k) ==
    \/ scn[k].off
    \/ LET host == Host(scn, k) IN
        /\ scn[k].form = "then"
        /\ scn[host].off \/ (scn[host].optional /\ outcome[host] = "warned")

Green == pc = "ended" /\ ~ failed /\ ~ cancelled

RanAsAuthored ==
    /\ \A e \in AllEntries(scn) :
        /\ told[e].n <= Attempts(e[1])
        /\ scn[e[1]].off => told[e].n = 0
    /\ Green => \A k \in Steps(scn) :
        /\ outcome[k] # "failed"
        /\ outcome[k] = "skipped" => Excused(k)

(***************************************************************************)
(* A fragment reads no variable that nothing has set, unless every step     *)
(* that was to capture it was guarded off or got no answer: the supply      *)
(* check of lowering holds at run time, however the batch is cut into       *)
(* calls.                                                                   *)
(***************************************************************************)
Answered(k) == scn[k].entries > 0 /\ told[<<k, scn[k].entries>>].answered

ReadsSupplied ==
    \A k \in Steps(scn) : \A v \in scn[k].reads :
        /\ scn[k].form = "ref"
        /\ \E e \in EntriesOf(scn, k) : told[e].n > 0
        /\ saw[k][v] = Nobody
        => \A j \in 1..(k - 1) : v \in scn[j].caps => ~ Answered(j)

(***************************************************************************)
(* "A broken cookie chain would run later requests against stale session    *)
(* state": every call starts with the cookies of all the requests before    *)
(* it, but for those of an optional step whose cookies could not be kept.   *)
(***************************************************************************)
CookiesChained ==
    pc = "call" =>
        \A k \in Steps(scn) :
            /\ k \notin Run /\ \E e \in EntriesOf(scn, k) : told[e].n > 0
            => k \in jar \/ Optional(scn, k)

(***************************************************************************)
(* A request is fed with what the requests before it left: their captures   *)
(* and their cookies.                                                       *)
(***************************************************************************)
RequestsFed == ReadsSupplied /\ CookiesChained

(***************************************************************************)
(* Unless it was clamped, the budget that the watchdog grants a batch       *)
(* covers the longest that hurl may take for it, retries, delays and        *)
(* repeats included, but for the redirects: each that is followed may take  *)
(* one timeout more (entry_budget, runner_options).  So a batch without     *)
(* redirects that does as it was authored is not abandoned; one that is was *)
(* redirected for longer than the margin.                                   *)
(***************************************************************************)
BudgetSuffices ==
    pc \in {"run", "call"} /\ Estimable(batch) /\ BatchBudget(batch) < MaxBudget =>
        elapsed + Margin <= BatchBudget(batch) + Timeout * followed

-----------------------------------------------------------------------------
(***************************************************************************)
(* The inductive invariant of VerdictsTrue, RanAsAuthored and RequestsFed.  *)
(***************************************************************************)
Inside == pc \in {"run", "call"}
Calling(k) == pc = "call" /\ k \in Run
Tried(k) == \E e \in EntriesOf(scn, k) : told[e].n > 0

ErrsOf(e) == SUBSET ({e[1]} \cup Mergeable(e))

SessionType ==
    /\ scn \in Scenarios /\ Lowers(scn)
    /\ batch \in Nat \ {0} /\ pc \in {"batch", "run", "call", "ended"}
    /\ at \in AllEntries(scn) \cup {<<0, 0>>} /\ tries \in Nat
    /\ results \in Seq([entry : AllEntries(scn), errs : SUBSET Steps(scn),
                        class : {"user", "assert", "infra"}, answered : BOOLEAN])
    /\ outcome \in [Steps(scn) -> {"none", "skipped", "passed", "warned", "failed"}]
    /\ error \in {"none", "user", "assert", "infra"}
    /\ broken \in BOOLEAN /\ cancelled \in BOOLEAN /\ failed \in BOOLEAN
    /\ told = [e \in AllEntries(scn) |-> told[e]]
    /\ \A e \in AllEntries(scn) : /\ told[e].errs \in ErrsOf(e) /\ told[e].answered \in BOOLEAN
                                  /\ told[e].n \in Nat
                                  /\ told[e].answered => told[e].n > 0
    /\ saw = [k \in Steps(scn) |-> saw[k]]

\* Batches settle one after the other, and in a batch the runs.
InOrder ==
    /\ \A k \in Steps(scn) : BatchOf(scn, k) < batch => outcome[k] # "none"
    /\ pc # "ended" => \A k \in Steps(scn) :
          /\ BatchOf(scn, k) > batch => outcome[k] = "none"
          /\ pc = "batch" /\ BatchOf(scn, k) = batch => outcome[k] = "none"
    /\ Inside =>
          /\ \A k \in Batch(scn, batch) : scn[k].off => outcome[k] = "skipped"
          /\ \A j, k \in Plan(batch) :
                RunOf(batch, j) <= RunOf(batch, k) /\ outcome[k] # "none" => outcome[j] # "none"

\* Only what was in a call has been sent, and never too often.
SentInCalls ==
    /\ \A k \in Steps(scn) : Tried(k) => ~ scn[k].off /\ (outcome[k] # "none" \/ Calling(k))
    /\ \A e \in AllEntries(scn) : told[e].n <= Attempts(e[1])

\* Where a call is: the entry that hurl is at, or the one it has stopped at.
Cursor == IF at # <<0, 0>> THEN at ELSE results[Len(results)].entry

\* A call goes through its entries in order, and what it knows of each is what
\* the last attempt showed.
CallGoesOn ==
    /\ \E k \in Run : HasEntries(k)
    /\ ~ broken
    /\ at # <<0, 0>> => tries < Attempts(at[1]) /\ told[at].n <= tries
    /\ at = <<0, 0>> => /\ results # <<>> /\ ResultsOf(Cursor) # {}
                        /\ told[Cursor].errs = {} => Rest(Cursor) = {}
    /\ Cursor \in Slice(Run)
    /\ \A i \in DOMAIN results : results[i].entry \in Slice(Run)
    /\ \A e \in Slice(Run) :
          /\ ResultsOf(e) = {} => told[e].n = 0
          /\ ResultsOf(e) # {} => /\ told[e].n > 0 /\ told[e].errs = Final(e).errs
                                  /\ told[e].answered => \E i \in ResultsOf(e) : results[i].answered
          /\ Before(e, Cursor) => ResultsOf(e) # {} /\ told[e].errs = {}
          /\ Before(Cursor, e) => ResultsOf(e) = {}

\* A failure is on its way to the scenario's, and so is the cause of a skip.
FailuresCount ==
    /\ Inside => ~ failed /\ (broken => error # "none")
    /\ Inside /\ broken /\ AllOptional(batch) => Waiting(batch) = {}
    /\ \A k \in Steps(scn) :
          /\ outcome[k] = "failed" =>
                /\ ~ Optional(scn, k)
                /\ failed \/ (Inside /\ k \in Batch(scn, batch) /\ error # "none")
          /\ outcome[k] = "skipped" =>
                \/ Excused(k) \/ failed \/ cancelled
                \/ Inside /\ k \in Batch(scn, batch) /\ error # "none" /\ ~ AllOptional(batch)

\* Cookies are kept, or the batch stops.
CookiesKept ==
    \A k \in Steps(scn) : Tried(k) /\ ~ Calling(k) =>
        k \in jar \/ Optional(scn, k) \/ failed \/ (Inside /\ broken /\ k \in Batch(scn, batch))

\* What a step captured is in the world after its call, and in hurl's variables
\* until then; and no earlier step answers once a later one was sent.
CapturesKept ==
    /\ \A j \in Steps(scn) : \A v \in scn[j].caps : Answered(j) =>
          /\ ~ Calling(j) => world[v] # Nobody
          /\ pc = "call" => vars[v] # Nobody
    /\ \A k \in Steps(scn) : \A v \in Vars : Tried(k) /\ saw[k][v] = Nobody =>
          \A j \in 1..(k - 1) : v \in scn[j].caps => ~ Answered(j)

SessionInv ==
    /\ SessionType /\ InOrder /\ SentInCalls /\ (pc = "call" => CallGoesOn)
    /\ VerdictsTrue /\ FailuresCount /\ CookiesKept /\ CapturesKept

(***************************************************************************)
(* The inductive invariant of BudgetSuffices: hurl, its redirects set       *)
(* apart, is never further in time than what was granted to the entries     *)
(* behind it and to the rounds of the one that it is at.                    *)
(***************************************************************************)
Apart == elapsed - Timeout * followed

\* The longest that the first n tries of an entry may take.
Spent(k, n) ==
    LET r == scn[k].retry + 1
        i == n % r
    IN  (n \div r) * RoundBudget(k) + i * (Timeout + Delay) + (IF i = 0 THEN 0 ELSE (i - 1) * Interval)

GrantedBefore(e) == Granted(batch)[e[1] - 1] + (e[2] - 1) * EntryBudget(e[1])

InTime ==
    /\ elapsed \in Nat /\ followed \in Nat /\ Apart \in Nat
    /\ pc = "run" => \E n \in 0..Len(scn) :
          /\ Apart <= Granted(batch)[n]
          /\ \A k \in Waiting(batch) : HasEntries(k) => n < k
    /\ pc = "call" => Apart <= IF at # <<0, 0>> THEN GrantedBefore(at) + Spent(at[1], tries)
                                 ELSE Granted(batch)[Cursor[1]]

=============================================================================
