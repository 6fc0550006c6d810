# A verification project for proef

proef is a BDD test runner for HTTP APIs: Gherkin features are bound to packs of
Hurl steps, lowered to batches, and run by a pool of scenario threads under a
watchdog; records of its runs feed reruns, reports and trends. This directory models
the parts of it that are concurrent, stateful, or decide what runs and what is said of
it, checks them with TLC on small instances, and proves what matters most with TLAPS for
every instance. Paths below are relative to `src/`; `core`, `cli`, `hurl` and `lsp` stand
for `crates/proef-core/src`, `crates/proef-cli/src`, `crates/proef-engine-hurl/src` and
`crates/proef-lsp/src`.

## The system

| component | state | operations | what makes it correct | modules |
|---|---|---|---|---|
| dispatcher (`core/runner.rs`) | queue, `active` map with deadlines, `exclusive_active`, outcomes, the mpsc channel | fill the pool, receive one message, sweep the expired, close the run | every scenario settles once; exclusive ones run alone; the run ends though threads hang | `Runner`, `RunContract` |
| scenario threads (`core/runner.rs`) | world snapshot, sessions, processed batches, fault | prepare, heartbeat, run batches, merge promotions, send Done | nothing not run is green; promotions are not lost | `Runner` |
| record gate (`core/runner.rs`, `core/event.rs`) | closed identities, `run_closed` | emit, finish a scenario, finish the run | the tail is the tail; record and summary agree | `Runner` |
| front end (`cli/front.rs`, `core/pack/`, `feature.rs`, `bind.rs`, `matcher.rs`, `tags.rs`, `resolve.rs`) | the walk's visited set, the search of the `use:` graph, the counter of generated values | find, load, check, bind, expand | each feature once; expansion is finite; each step once and in order; names stay apart | `Packs`, `UseGraph`, `Feature`, `FrontEnd`, `Tags`, `Selection` |
| lowering (`core/lower.rs`, `emit.rs`) | the open batch | merge, bake, cut | a step's engine, guard and retries are its own | `Lowering` |
| hurl engine (`hurl/session.rs`) | variables, captures, cookies, results of attempts | open, run a batch, close | verdicts are those of the last attempts; a request gets what earlier ones left | `HurlSession` |
| assets (`cli/assets.rs`, slugs in `core/emit.rs`) | asset roots on disk | resolve, stage, record | a request reads the file its author meant | `Staging` |
| state file and redaction (`core/world.rs`, `core/report.rs`) | values with scenario, run and file lifetime | load, snapshot, capture, promote, merge, save, mask | the file is whole; no secret in it or in a detail | `World`, `Runner` |
| test command (`cli/exec.rs`) | record, totals, interrupt count, token, exit code | preflight, setup, select, suite, teardown, reports | cleanup outlives the interrupt; 0 means done | `Execute` |
| gate, listings, matrix (`cli/commands.rs`, `cli/exec.rs`, `cli/timings.rs`) | none; the deal's loads | `--dry-run`, `macros`, `fragments --check`, `--shard`, `--shard-weights` | what the gate says is what the jobs do; a matrix runs a selection once | `Commands`, `Shards` |
| reports (`core/report.rs`, `html.rs`, `cli/record.rs`, `explain.rs`, `ci_reports.rs`, `ctrf.rs`, `tap.rs`, `sla.rs`) | folds over the event stream and the outcomes | print, read back, render | one run, one story | `Reports` |
| trends (`cli/flaky.rs`, `diff.rs`) | folds over records | classify, compare, gate | no verdict without evidence; no way round the gate | `Trends` |
| run history (`cli/record.rs`, rotation and `--rerun` in `cli/exec.rs`, `cli/report.rs`) | run directories, event logs | rotate, parse, rerun | a rerun runs what failed and what never ran | `RunHistory` |
| watch loop (`cli/watch.rs`) | `stop`, current token, registered runs dirs, notices | rerun, wait, drain, handler, notify callback | an interrupt reaches the run it is meant for; no self-feeding | `Watch` |
| secret store (`cli/secretstore.rs`, `cli/fsutil.rs`) | key file, store file, advisory lock | set, rm, resolve | no lost update; one project key; the lock is never left behind | `SecretStore` |
| language server (`lsp/server.rs`, `documents.rs`, `analysis.rs`) | open documents, fragments, cached analysis, dirty flags | edit, request, debounced recompute | no answer from stale text; a panic stops nothing | `LanguageServer` |
| configuration, scaffolding, formatting, editor features | none | functions over text | | not modelled |

The pieces interact in three ways. Inside one process the dispatcher, its threads
and the sink share the channel, the store's mutex, the gate's mutex and a tree of
cancellation tokens. Around it, `execute` calls the dispatcher once per phase and
wraps its sink (`--max-fail`, phase labels, one head and tail); the watch loop calls
`execute` and owns the token. Between processes there are only files: the key and the
secret store (locked), the state file and the runs directory (not locked). The front end
is a chain of functions, each of which trusts what the one before it has refused.

What is hard about it: threads that are abandoned but not dead; a Done that crosses
the sweep; an interrupt at any point of any phase; a record that may fail to be written; a
reader that finds a file between its creation and its first byte; a dozen documents that
each decide by themselves what a run came to; steps that are merged, cut, retried and
guarded between the author's text and the request. `PROJECT.json` lists the hazards with
their lines.

## Modules

`Runner` — `run`, `sweep_expired`, `spawn_scenario`, `run_scenario`, the
`RecordGate` and `trip_on_max_fail`. The dispatcher is a program counter (`pc`): a turn
fills the pool (`FillSkip`, `FillCancelled`, `FillSpawn`, `FillDone`), receives one message
(`RecvBatchBegin`, `RecvDone`, `RecvLateDone`, `RecvTimeout`) and sweeps (`Abandon`, one
scenario a step); then `EmitRunFinished` and `CloseGate` in the code's order. A scenario
thread is a program counter of its own (`wpc`): `Begin`, `Prepare` (which takes the
snapshot), `StartBatch` and `FinishBatch` or `CutBatch`, `EndBatches`, `Merge`, `SendDone`,
`Panic`. Time is abstracted to the set of deadlines that have passed (`Elapse`). A
scenario is its place in the queue: the front end makes names unique within a file, which
`FrontEnd` checks. What engines may do is the constant `Engine`, so that a run can pick
the misbehaviours it is about. Lines that touch only one thread's locals are merged into
the step that follows them; every lock, send, receive, emit and token test is a step.

`RunContract` — what a caller of the runner may rely on: scenarios start in order, at
most `Width` at a time, exclusive ones alone, each settles once, the run closes when all
have. `Runner` implements it (`KeepsContract`).

`Execute` — `cli/exec.rs`, `execute`, from preflight to exit code, with setup, suite and
teardown as three runs of the contract; the invocation (`conf`) is chosen in `Init`.
Surroundings that fail are the constant `Trouble`. A rerun whose base has nothing left to
rerun (`conf.clean`) ends in `Preflight` on 0, before setup; `ExitTells` names that case, and
what such a base may hide is finding 1. The suite starts in any order, as
`--shuffle` may.

`Commands` — four readers of one project: `dry_run`, `macros`, `fragments --check` and the
jobs of a matrix, each of which loads, selects and refuses in code of its own. Early returns
are a sequence of conditions (`Answer`); a job with nothing to rerun is green before it selects
(`NothingToRerun`, behind `LoadStops`). It extends `Shards`, the deal of a weights file to
shards (`timings.rs`, `assign`), one scenario a step; the frozen hash of a scenario that the
file does not name is any function (`hash`).

`Packs`, `UseGraph`, `Feature`, `FrontEnd`, `Tags`, `Selection` — from the disk to expanded
steps: the walk with its links and cycles (`Descend`); the load of packs and what makes a macro
or a step refused (`Packs`); the depth-first search with an explicit stack that colours macros,
ranks them and reports cycles (`UseGraph`, one iteration a step); outlines, inherited tags,
the columns filled into names, sentences, tables and docstrings, and matching (`Feature`); binding, expansion, scopes and generated values (`FrontEnd`);
tag expressions with globs (`Tags`), and what they select of what was lowered (`Selection`). A
text is the sequence of what it refers to. Gherkin and YAML are external.

`Lowering`, `HurlSession` — the second half of lowering (merges of `expect:`, baked options,
the cut into batches) and the session that runs it: an entry's attempts, retries, polls,
guards, cookies and captures, the verdicts, the budget of a batch, and cancellation. hurl is
external: `Attempt` says what one call of it may do, and that each redirect it follows may
take a timeout of its own (`Following`, `Hops`).

`Reports`, `Trends` — one run whose scenarios' events interleave, told by the console in
four modes, the record's reader, the page, `explain`, JUnit, CTRF, TAP, the annotations, the
job's rollup, the SLA gate and the exit code; then a history that begins with it, under `flaky`
and `diff`. Every reader is an operator on the event stream or on the outcomes.

`World` — processes that load the state file, run scenarios which capture and promote, and
save: `LoadState`, `OpenWorld`, `Capture`, `Merge`, then `OpenTmp`, `WriteTmp` and `Rename`, with a
failure (`SaveFails`, `Fail`), a panic or a kill anywhere; and the masks (`Needles`, `Detail`). `Staging` — scenarios that resolve
and stage assets side by side, on volumes that may fold case, over what an earlier run left.

`Watch` — the loop, the two-stage interrupt handler as it interleaves with it (the flag
first, the token second), edits, the config that moves the runs directory, and notify's late
delivery of what a run wrote.

`SecretStore` — processes that share the key file and the store. A process is one command
and takes its memory and its lock with it when it ends (`EndWith`). A secret's value is
abstracted to the key that sealed it; the cipher and base64 are external. Failures (`Fail`)
and kills (`Kill`) may come anywhere.

`RunHistory` — processes that run one command after another over a shared runs directory:
`Start` mints the id, `FindBase` and `ReadBase` resolve and read the latest record (two steps:
another process may write or delete it in between), `Rotate` deletes, `Create` makes the
record, then `Abort`, `NothingMatched` or `Select`, one `Finish` per scenario, `EndSuite`,
`CloseRecord`, `Report`; `Cancel` and `Kill` come anywhere in a run. A run is the number of
its id; the latest record is the one with the youngest `began`, which a user's own `--run-id`
moves with every file made in its directory.

`LanguageServer` — one thread that waits for a message or for the debounce (`Turn`,
`Elapse`, `Receive`), applies an edit (`ApplyEdit`), answers from the cache (`Answer`), or
rebuilds and publishes (`Recompute`). A panic may strike in the analysis, a handler, the
rebuild of the corpus and the publisher (`Panic`), and leaves the state as far as it got. The
channel is not a variable: it keeps the order, so a message appears when it is received.

`MC*` modules give the constants for TLC; `MCReports` puts five tales side by side
(reports and trends, the deal, the commands, the state file, staging) which share no variable
but that the commands use the deal. `*Proofs` modules hold the theorems. Operators introduced
as "A bug" or "Mutant" are deliberate mistakes in the definition that follows them: the
property each is listed with in `PROJECT.json` fails when it is put in that definition's place.

## Runs

| run | question | result and bounds |
|---|---|---|
| `exclusive` | Do pool, store and limits stay consistent while an exclusive scenario meets abandoned threads that merge late? Does `--max-fail` stop where it says? | holds; 4 scenarios, 2 slots, `--max-fail 2`, 1 late scenario: the first has two batches, two promote the one key, the third is exclusive, so it waits for a pool of two to drain, may start beside an abandoned thread, and keeps the fourth out |
| `watchdog` | Against every engine behaviour, deadline and cancellation: do record, summary and exit code agree, does 0 mean that all ran, does the run end, does it implement `RunContract`? | holds; 3 scenarios (one exclusive and quarantined, one parked), 2 may be late |
| `execute` | Setup, suite, teardown, record and exit code under interrupts, panics, lost writes, failed reports; a rerun with nothing to rerun | holds; 2 scenarios per phase, `--max-fail 1`, every trouble |
| `watch` | Interrupts, self-feeding, leaving the loop | holds; 2 directories |
| `secrets` | Lost updates, the key race, readers against writers, locks and kills | holds; 3 processes, 2 names |
| `history` | Does a green `--rerun` stand on a chain of runs in which every scenario last passed? Do its JUnit file and the report page agree on what both list? | holds, up to finding 1; 2 processes, 3 commands, 2 scenarios, one user's id, `keep-runs` 1, 1 interrupt, any kill and abort |
| `unbegun` | Was every scenario executed in the chain behind a green rerun, after an aborted setup? | violated: finding 1 |
| `editor` | Are answers and the screen true of the client's text, and does the screen come to rest while it types? | holds; one feature, one pack (broken on disk), one fragment, every panic |
| `session` | What is each step reported as, which requests run, what do they get, does the budget cover them? | holds; scenarios of up to 3 steps, at most two of them of two requests, with retries, repeats, polls, guards, merged asserts, optional batches, four of those of two steps under `follow-location`, with up to one redirect per attempt; every attempt may fail, every point may be cancelled |
| `frontend` | Is each feature found once, each expansion finite, each step kept, each identity one scenario's, each selection what its expression says? | holds; trees with links and a skipped directory at the deepest level, all `use:` graphs of 3 macros (`MaxUse` 2), expressions and globs over a small alphabet |
| `reports` | Do all readers of a run tell one story? Are trends earned? Is a matrix even, and true to the gate? Is the state file whole and free of secrets? Does a request read its own file? | holds; bounds below |
| `slugs` | Has every running scenario an asset root of its own? | violated: finding 2 |

The bounds. Two scenarios meet every crossing of a Done and a sweep; a third is needed for
a queue behind a full pool and for an exclusive scenario between two others; `MaxLate` with the
constraint `FewLate` bounds how many scenarios are seen past their deadline where more only
repeat the case. `Engine` is sliced: a run with every behaviour has few scenarios. Two scenarios
per phase make a phase that is half done; one quarantined and one parked scenario cover the
exceptions. Two names and three processes make a lost update visible and leave one process to
read in between. Three commands make a rerun of a rerun, and a record that is rotated away
under its reader; `OneInterrupted` leaves interrupts to one of them. One file of each kind is
enough for `editor`: diagnostics depend on the file and on those it reads. In `reports`: up to
three scenarios over the plans that `MCReports` names (namesakes in two files, quarantine
beside faults, phases, more failures than a line or the annotations hold: `Wrap` and
`MaxAnnotations` are 2, for 80 and 10); histories of 4 runs with `MinSamples` and
`RecoveryRuns` 2 and an outage at 8/10; all weights files of five scenarios of 0 to 3 ms on 2
shards; 24 layouts of a project of five scenarios with fifteen things wrong with it, and eleven
command lines, two of them reruns with nothing to rerun; two processes with one name, three answers and a number, two scenarios each,
and `Most`, the cap of a detail, of 8 characters; two scenarios with two references between
them on an exact and a folding volume. Smaller thresholds stand for the code's: the operators
take them as parameters, and the cases lie at the boundary of each.

Deadlock is checked except in `reports` and `slugs`, whose tales end.

Fairness. `Runner` assumes that the dispatcher's thread is scheduled and that time passes
(`WF` on `Dispatch` and on each `Elapse`); it assumes nothing of scenario threads, since an
engine may hang in any of them, and nothing of the user. `Watch` assumes its loop is
scheduled and that a run ends, which is `RunReturns`. `LanguageServer` assumes that its
thread is scheduled and that time passes, and nothing of the client. `SecretStore` assumes
that processes are scheduled, but not that a prompt is answered, and it does not count on a
step's failing. The other modules state no liveness.

## Findings

1. `cli/exec.rs:337` finds nothing to rerun after a setup that aborted, and exits 0 over a
   suite that never ran, against the comment above it (`unbegun`).
2. `core/emit.rs:133` gives features `a/b/c` and `a-b/c`, and scenarios `b c` and `b-c` of one
   feature, one slug: one stages its files over those the other is reading, and its artifact
   replaces the other's, against `docs/AUTHORING.md:610` (`slugs`).

Other disagreements met on the way. They have no run of their own; the properties above name
them as exceptions or leave their case out, and each is a place to look at in the code.

- Runs. An empty shard leaves `execute` at `cli/exec.rs:653` after a green setup without
  teardown and without the escalation of a lost record. An interrupt inside a scenario's last
  batch skips its rest without an error (`hurl/session.rs:307`), and the scenario is Passed with
  steps that did not run, against `core/runner.rs:786`. A Ctrl-C during the teardown of a
  complete green suite is recorded as `cancelled` with exit 0.
- Selection. From a directory below the project's root `exclude_phase_features`
  (`cli/exec.rs:1656`) cannot resolve the recorded names of features, and setup and teardown
  scenarios that lie in the suite run as ordinary ones too. The dry run counts them as
  selected where a run refuses the then empty selection; it says OK to a suite without scenarios,
  which a run refuses; it does not look at the assets of phases outside the suite. `macros`
  calls a macro UNUSED that only a phase says, where `fragments` counts phases. Scenarios
  tagged to be skipped count as running a fragment.
- Reruns. After an interrupt and a kill there is no tail, and `cli/record.rs:622` counts the
  scenarios that were skipped as finished: `--rerun` leaves them out and may exit 0. The JUnit
  file of a rerun of a rerun carries its immediate base only (`cli/exec.rs:886`), while the
  report walks the whole chain; what is carried loses its faults.
- Secrets. The process that loses the race for the key file reads it empty and fails
  (`cli/secretstore.rs:179`); a creator that dies in between leaves it empty for good.
- State. Two concurrent runs lose one another's promotions. A number that equals a secret
  passes the gate of `saveAs: global` (`core/world.rs:296`); a value promoted before it became a
  secret stays in the file, as does the older value after a refused promotion. Of two secrets
  that overlap in a text, a rest of the second stays.
- Budget. `entry_budget` (`hurl/session.rs:1086`) does not count redirects, each of which has the
  timeout to itself (`hurl/session.rs:166`): the watchdog may abandon a redirected batch that does
  as it was authored. `BudgetSuffices` adds a timeout for each redirect followed.
- Lowering. `expect: []` leaves a Then without a step (`core/lower.rs:589`). `$${x}` loses its
  escape through `use: with:`. Outcomes of steps that a guard turned off are emitted before
  those of the others. `repeat: N` is counted as attempts. A merged Then is Passed when its
  host's last attempt failed before the asserts. Cookies that cannot be written in an optional
  batch leave the scenario with stale ones.
- Front end. The order of `read_dir` decides which alias of a directory names a feature. A
  conflicted `ref:` that was dropped makes its macro's binding look unread.
- Reports. A session that cannot be closed leaves a Passed scenario with a fault: exit 3 while
  JUnit, CTRF, TAP, record and page are green. A quarantined scenario with a fault is a TODO in
  TAP, and gates. The annotations call a quarantined failure an error. A regression is taken
  past the gate of `diff` by a run that skips the scenario. Two names that differ in a masked
  secret only become one in the record. A record without step names lets a scenario adopt the
  steps of its namesake.
- Assets. `./d` and `d` are refused as two names of one file even from one source. A link from
  the asset root to an asset's source, on a volume that folds case, lets a second asset replace it.

## Proofs

Assumptions are the named `ASSUME`s of the modules, and nothing else; TLC evaluates them in
every run.

*Runner.* `TypeOK` is inductive. `Bookkeeping` is not the conjunction one would write
down first: that a scenario settles once (`SettledOnce`) needs that the pool and the
settled scenarios partition what has left the queue, that the gate has closed exactly the
settled ones, that a thread sends nothing after its Done (`ThreadsKnown`), and that the
loop is left with an outcome for everyone (`LoopLeft`). Exclusivity rests on `PoolOwned`:
the flag is up while an exclusive scenario is active. `RunnerProofs` proves `Bookkeeping`
inductive, action by action, and from it `SettledOnce`, `ExclusiveAlone` and `PoolBound`.
`RecordTold` and `TallyTold` (each outcome's terminal event is the
last of its scenario's; the tail counts the outcomes) give `TailIsTail` and
`RecordAgrees`, and with them the initial states and every step of the
runner map to the contract's safety part; the contract's fairness is left to `watchdog`.
A third invariant speaks of the threads: what a thread at each `wpc` has merged, which batches
it has behind it, what its flags and its outcome then say. From it `StoreKept` (what a thread
promoted is replaced only by a promotion of the same key, and a scenario that is kept apart
from an earlier one sees its keys), `StopsCleanly` (an upper bound: behind
the failure that `--max-fail` counts as the last, only what was running can fail, and no exclusive
scenario starts; that it never trips early is not stated) and `NoSilentGreen` (behind exit 0 every
scenario that is to run went through all of its batches, whatever the engine did).

*Execute.* For any features, selections, width, limit and troubles. `RunInv` says what each
stage finds: no phase is touched before its turn (`InTurn`), nothing starts behind a setup
that is not done (`Built`), a skip was the token's doing (`SkippedByToken`), the suite's summary
knows of it (`SuiteOver`), teardown is green, faulted, or never began (`TeardownOver`), a broken
setup and every early return carry their code (`SetupFault`, `UnwindTells`). `FixturesHold` and
`ExitTells` follow; the latter also needs that the worst of some codes is one of them and is 0
only when all are (`WorstIs`, `WorstIsGreen`), and that failures of the suite are only ever added
to (`MoveCause`). `RecordInv` adds the record: no tail before its time (`TailInv`), phases are
left whole (`PhasesInv`), and while no write is lost the record is as long as what has settled
(`StoryInv`); from it `TailTrue`.

*Watch.* `FlagTold` (the flag says whether the handler has begun) and `WritesRegistered`
(what was written was registered first) make `InterruptReachesRun` and `NeverSelfFed`
inductive.

*SecretStore.* `StoreInv`: the lock's holder is the only one that reads and saves, and what
it has read is still the store (`LockHeld`); one process writes the key file (`OneWriter`);
loaded keys and copied tokens belong to the key file (`KeysGood`, `CopiesOpen`). From it
`TokensOpen`, `KeyBeforeToken` and, for every step, `NoLostUpdate`.

*LanguageServer.* What is on the screen is in `published` (`ShownTracked`), the corpus is fresh
or its rebuild is due (`CorpusFresh`, `RebuildDue`); with these `AnswersFresh` and
`ScreenTrue` are inductive. Both leave out what a panic has torn (`torn`): a rebuild whose
flag was taken, a publish that was cut. `SessionProofs` holds the proofs of the two programs
that stay up, this one and `Watch`.

*UseGraph, FrontEnd.* For any menus of suites. The search keeps a stack of frames and the path of
gray macros, which are two views of one thing: `Stacked` gives each frame of the stack its place
on the path (an exit frame its own macro's, an enter frame that of the macro it is a target
of), and the places only grow along the stack. With it every target of a macro on the path is
known, waits in the stack, or is next on the path (`Accounted`), unless a cycle was reported;
so what turns black has ranked all that it uses (`Measured`). Expansion then keeps, for the
frame at depth i, that its macro's chain has room for i (`FrameFits`): what a step uses is a
target of its macro in the graph (`UsesListed`), so it is ranked below. `UsesSafe` follows, and
with it that the backstop of the expansion is never reached. The walk (`WalkInv`): a directory
that was entered is on the trail at one place only, and each of its entries is still to be read,
or found under that place's route, or entered, or skipped (`Covered`); what is found in one
directory has one route (`Routed`). When the trail is empty, what was entered is closed under
links and all of it can be reached, hence `FilesOnce`.

Identities (`IdInv`): all that a scenario resolves is made of occurrences up to the counter
`fakes`. The arguments of every frame are, and the occurrences of every step and of its label
(`StackMade`, `StepsMade`), a step's own occurrences lie above the counter it began with; a
label's replay begins there again, and the counter then goes on from the further of the two
ends (`HighWater`); the tables of a pack are made once and stay (`Bears`). That is inductive
because resolving a text never lowers the counter and gives only occurrences up to it
(`PassFits`, `ResolveFits`, `InOrderFits`), the passes over a text and the values of a table
being recursive functions, whose existence is an induction along the numbers. Names stay apart
by counting (`DedupFits`): of one more number than names are taken, one is free, and the ones
taken include all that were given so far. `IdentitiesKept` follows. Assumed of suites is that
packs and the steps of a macro are numbered and finitely many, that macros have names in
`Macros`, that an entry of a tree is a file or leads to a directory of the tree, and that
authors do not write generated values (`AuthoredAssumption`): a text of theirs has words,
references and escapes, and only resolving makes the rest.

*RunHistory.* A green rerun stands on a chain of runs of any length, whose members other
processes may delete or still be writing. The invariant speaks of one link at a time: what was
read of a base is still so (`AsRead`), what a finished record leaves out its base has settled
(`ChainTrue`), a green record holds nothing but what passed (`GreenTrue`), and the order in
which records were made ranks the chain, so that it ends (`NoCycle`). Counting along the chain
gives `GreenRerunProven` and `ReportsAgree`, for any number of processes, runs and scenarios.

*HurlSession.* For any scenarios that lower, and whatever an attempt does. `SessionInv` says
that batches, and in a batch the runs of entries, settle in the order of the file (`InOrder`);
that what was sent was in a call (`SentInCalls`); that a call goes through its entries in order
and knows of each what its last attempt showed (`CallGoesOn`); that a failure, and the cause of
a skip, are on their way to the scenario's (`FailuresCount`); and that cookies and captures
outlive the call (`CookiesKept`, `CapturesKept`). From it `VerdictsTrue`, `RanAsAuthored` and
`RequestsFed`. `InTime` adds the clock: hurl is never further than what was granted to the
entries behind it and to the rounds of the one that it is at (`GrantsAdd`, `TriesAre`), a grant
that only grows along the batch (`GrantedGrows`); from it `BudgetSuffices`. Redirects,
which the budget does not count, are set apart from the clock (`Apart`). The proof showed a
case that no small scenario had: an optional request of several entries that fails before its
last one leaves the asserts merged into that last entry skipped, in a scenario that is green
(`Excused`; a step of two entries is now in the run). What expansion pushes is an assumption on
the scenarios (`Pushed`, from `expand_macro`): a step that is no "then" has an entry. Entries
that are repeated zero times are left out.

*World.* Each process's store is what it loaded with the promotions of its scenarios over
it; its temporary file is its own, and empty, whole, or gone; with these the state file is
always whole (`StateSound`), for any number of processes, names and values, wherever they
fail or are killed. The gate on promotions keeps every text that holds a secret out of stores
and file (`StoresClean`), whatever secrets and texts are. For details (`SecretsStayOut`) masking
is followed by character: an output of `Replaced` has a trace of the places its characters are
from (`Traces`, `ReplacedIs`). A text is `Spelled` by a set of secrets when each character that
is not plain, a mask or a cut lies in one of them that stands apart; masking the longest of the
set leaves the text spelled by the others (`MaskOne`: a shorter secret that stands apart cannot
hold it, `NoLongerInside`), so after all of them nothing is left, and cutting such a text shows
nothing (`CapSafe`). Stores and Worlds hold values of answers only (`KnownInv`), so what a detail
quotes is one. Assumed is that answers quote secrets in full and apart from one another
(`TextsAssumption`) and that secrets are finitely many and share no character with the plain
text around them (`SecretsAssumption`). Of two secrets that overlap in a text, `Redactions::apply`
masks the longer and may show the rest of the other; the property does not claim otherwise.

*Shards.* For any number of shards and any weights: no step leaves a shard further ahead of
another one than its heaviest scenario (`LevelInv`), since the lightest shard is the one that
receives; where all costs are equal, counts follow loads or, at zero, the counts decide
(`EqualShare`); and the jobs partition every selection, whatever the hash (`SharedOut`). Books
are sums over finite sets: that such a sum may be taken apart at any element and that N shares
bound the whole (`SumTakes`, `SharesBound`) are inductions over the cardinality (`Shrinking`).
With them the ratio of 4/3 - 1/3N to the best split (`NearBest`) is an invariant of the deal. A
scenario of at most a third of the best split's longest shard fits by the average
(`LightFits`). A heavier one follows heavier ones only (`Heavier`); charge 2 for each of them
that is alone in its pile, 1 for the others: a shard of the best split bears 2 at most, and if
the next one did not fit, each pile of the deal would bear 2 without it (`HeavyFits`).

*Commands.* `MatrixInv`: what each reader has said is what it makes of the project, the jobs
began when the deal was over, and job i has run the i-th share. The rest compares the readers: an
answer is Success exactly when no condition of its sequence holds (`AnswerIs`), so each gets the
list of what it found in order (`GateSays`, `RefusalSays`, `VerdictSays`, `CheckSays`), and the
gate's list implies the jobs', where they have anything to rerun: else a job that loads is green
with nothing run, whatever the rest of the gate's list says. That the shares join to the selection and are disjoint comes
from the deal. Assumed of projects is that a scenario has a file, that an outcome is one of
three, and that the hash knows a shard for each scenario (`ProjectsAssumption`).

*Staging.* `StagingInv` says that a refusal has its cause (`HasCause`), under which name each
file of a root has landed (`Landed`), and that what a scenario with a slug of its own has staged
is in its place with the contents of its source, until it has run (`Placed`). `StagedTrue`
follows for any scenarios and any disk, on volumes that fold case or not. `ReportsProofs` holds
this proof with those of `World`, `Shards` and `Commands`.

*Trends.* What needs an invariant is that the history holds runs whose statuses are the four and
whose attempts are numbers: the first run is the fold of any interleaved stream of events
(`RunningTyped`: the fold is a recursive function whose every prefix `ReadsExist` proves to
exist), the later ones are the constant's. On such a history `TrendsTrue` is shown by
itself. A window that a run leaves alone is the same window, and one that a run adds to is
`Longer`; a turn of the shorter window is one of the longer, so a flake ends only by a clean
tail (`FlakeStays`), and what always failed had no other verdict (`BrokenStays`). The buckets of
`diff` are given by what both runs say (`BucketIs`, `DiffIs`), which are antisymmetric. And an
induction along the chain carries "not failed" through its gates (`GatesKept`). Thresholds, runs
and scenarios are any.

Induction. The library's induction theorems take an operator, which the provers cannot
instantiate. Where a proof needs induction over numbers (chains of runs, runs of entries), it
takes the least of the numbers that fail, which the order on the naturals being well-founded
gives (`LeastNumber`, `CountingOn`, `IterationExists`).

Only model-checked: everything temporal (`RunReturns`, `InterruptLeaves`, `CommandsEnd`,
`EditsReachScreen`, the contract's fairness), since the provers do not reach liveness;
`StepsKept`
and `SelectionAgrees`, which are about sums over an expansion and a parser's recursion; and the
console, pages and documents of `Reports`, which compare what several folds make of one stream
of events.

## Not modelled

Argument parsing, TOML and the merge of environments, Gherkin and YAML syntax, layout and wording
of reports, SARIF, the cipher, hurl itself, `fmt`, `init`, `doctor`, `flows`, `artifacts` and the
schemas: sequential code over text without state. The editor features are queries over one
analysis. Left out of modelled parts: the tables that `flaky` prints with their Wilson
intervals, durations and `--by`; which of `diff`'s notes of flakiness belongs to which step (the
model has one per scenario); the ceiling `max_ms` of the SLA gate (it has the p95); reading and writing of the weights file; the machine body's
format; the handshake of the language server and the conversion of positions; the cap of a
slug; `--shuffle`, but for the order being any. Fixture server, harness, xtask and fuzz targets
are not part of the program.

## Plan

1. `RunHistory`: reruns narrowed by tags, authored skips, phases.
2. The empty shard after a green setup as part of the composition of `Execute` and `Commands`.
3. The weights file between runs: `timings.json` of a run as the input of a later deal.
