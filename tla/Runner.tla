------------------------------- MODULE Runner -------------------------------
(***************************************************************************)
(* The scenario runner of proef-core (crates/proef-core/src/runner.rs):    *)
(* one dispatcher thread that fills a pool of at most Jobs scenario        *)
(* threads from a FIFO queue, receives their messages over one channel,    *)
(* abandons the ones whose deadline has passed, and writes the terminal    *)
(* events; the scenario threads themselves; the gate that decides what     *)
(* reaches the record; the cancellation tokens; the shared global store.   *)
(*                                                                         *)
(* Scenarios are numbered in queue order, so the queue is the number of    *)
(* the scenario at its head.  Time is abstracted to which deadlines have   *)
(* passed.  The `--max-fail` wrapper around the event sink (proef-cli,     *)
(* exec.rs) is part of the model: it runs inside the gate's emit.          *)
(***************************************************************************)
EXTENDS Integers, Sequences, FiniteSets

CONSTANTS
    N,              \* how many scenarios the run was given
    Jobs,           \* config.jobs, before the code raises 0 to 1
    Exclusive,      \* the scenarios whose spec says `exclusive`
    AuthoredSkip,   \* the scenarios whose spec carries a skip reason
    Quarantined,    \* the scenarios the exit code treats as non-gating
    Batches,        \* per scenario, the kinds of its prepared batches
    Promotes,       \* per scenario, the global keys its captures may promote
    Keys,           \* the keys of the global store
    MaxFail,        \* `--max-fail`; 0 when the option is absent
    Engine          \* what engines and the preparation may do (see Behaviours)

Scenarios == 1..N

ASSUME NAssumption    == N \in Nat
ASSUME JobsAssumption == Jobs \in Nat
ASSUME TagsAssumption == /\ Exclusive \subseteq Scenarios
                         /\ AuthoredSkip \subseteq Scenarios
                         /\ Quarantined \subseteq Scenarios
ASSUME BatchesAssumption ==
    Batches \in [Scenarios -> Seq({"plain", "optional"})]
ASSUME PromotesAssumption == Promotes \in [Scenarios -> SUBSET Keys]
ASSUME MaxFailAssumption == MaxFail \in Nat

\* How a batch may come back ("ok" with every step green, "warned" with a
\* refused promotion or a failure that is optional, the others as failed for an
\* assertion, for the user's input, or for the infrastructure), and what else
\* may go wrong around the batches.
Behaviours == {"ok", "warned", "assert", "user", "infra",
               "unprepared", "noSession", "teardownFails", "panic"}
ASSUME EngineAssumption == Engine \subseteq Behaviours

Slots == IF Jobs = 0 THEN 1 ELSE Jobs

VARIABLES
    \* the dispatcher
    pc,               \* where the dispatcher is in its loop
    head,             \* the scenario at the front of the queue
    active,           \* keys of the `active` map
    expired,          \* active scenarios whose deadline has passed
    doomed,           \* the sweep's own list, fixed when the sweep began
    exclusiveActive,  \* the dispatcher's flag of that name
    outcomes,         \* the summary's outcomes, in completion order
    chan,             \* the mpsc channel, oldest message first
    \* the cancellation tokens
    cancelled,        \* the run's token
    abandoned,        \* scenarios whose own child token the sweep cancelled
    \* the gate and what lies behind it
    closed,           \* GateState.closed
    runClosed,        \* GateState.run_closed
    record,           \* per scenario, the events that reached the sink
    runFinished,      \* the run_finished event, once written
    failCount,        \* the counter of trip_on_max_fail
    \* the scenario threads
    wpc,              \* where each thread is
    processed,        \* batches dispatched so far
    flags,            \* what has happened to it (see Flags)
    fault,            \* the fault the thread has recorded
    promoted,         \* keys of its World's write set
    snapshot,         \* the store as the thread cloned it
    \* the shared store: which scenario wrote each key last, 0 for none
    store

dispatcherVars == <<pc, head, active, expired, doomed, exclusiveActive, outcomes>>
gateVars       == <<closed, runClosed, record, runFinished, failCount>>
localVars      == <<processed, flags, fault, promoted, snapshot>>
vars == <<dispatcherVars, chan, cancelled, abandoned, gateVars, wpc, localVars, store>>

-----------------------------------------------------------------------------
(* Vocabulary *)

Statuses == {"Passed", "Warned", "Failed", "Skipped"}
Faults   == {"none", "user", "system"}
Reasons  == {"none", "authored", "cancelled"}
Outcome  == [s : Scenarios, status : Statuses, fault : Faults, reason : Reasons]
Message  == [type : {"BatchBegin"}, s : Scenarios]
                \cup [type : {"Done"}, outcome : Outcome]
Progress == [ev : {"started", "batch", "steps", "unreached"}, batch : Nat]
Terminal == [ev : {"finished"}, status : Statuses]
Tally    == [passed : Nat, failed : Nat, skipped : Nat, cancelled : BOOLEAN]
None     == [passed |-> 0]

Flags       == {"failed", "warned", "interrupted", "cut", "panicked", "unprepared"}
WorkerPC    == {"none", "begin", "snapshot", "next", "batch", "merge", "send", "gone"}
DispatchPC  == {"fill", "wait", "abandon", "close", "closeGate", "returned"}

\* A child token is cancelled with its parent, or on its own by the sweep.
TokenCancelled(s) == cancelled \/ s \in abandoned

Settled == {outcomes[i].s : i \in 1..Len(outcomes)}

\* What the aggregate at the end of run_scenario makes of a thread's steps.
StatusOf(fl) ==
    IF "failed" \in fl THEN "Failed"
    ELSE IF "interrupted" \in fl THEN "Skipped"
    ELSE IF "warned" \in fl THEN "Warned"
    ELSE "Passed"

OutcomeOf(s) ==
    [s |-> s, status |-> StatusOf(flags[s]), fault |-> fault[s],
     reason |-> IF StatusOf(flags[s]) = "Skipped" THEN "cancelled" ELSE "none"]

CountOf(S) == Cardinality({i \in 1..Len(outcomes) : outcomes[i].status \in S})

-----------------------------------------------------------------------------
(* The gate *)

\* Mutant: only the run-level close is looked at.
EmitUnlessRunClosed(s, ev, b) ==
    record' = IF runClosed THEN record
              ELSE [record EXCEPT ![s] = Append(@, [ev |-> ev, batch |-> b])]

\* scenario_sink: the check and the emit are one critical section.
Emit(s, ev, b) ==
    record' = IF runClosed \/ s \in closed THEN record
              ELSE [record EXCEPT ![s] = Append(@, [ev |-> ev, batch |-> b])]

\* Mutant: trips one failure late.
TripPastMaxFail(status) ==
    LET counted == ~runClosed /\ status = "Failed"
    IN  /\ failCount' = IF counted THEN failCount + 1 ELSE failCount
        /\ cancelled' = (cancelled \/ (counted /\ MaxFail > 0 /\ failCount + 1 > MaxFail))

\* trip_on_max_fail counts a failed suite scenario as its terminal event
\* passes, and cancels the run's token on the one that reaches the threshold.
TripOnMaxFail(status) ==
    LET counted == ~runClosed /\ status = "Failed"
    IN  /\ failCount' = IF counted THEN failCount + 1 ELSE failCount
        /\ cancelled' = (cancelled \/ (counted /\ failCount + 1 = MaxFail))

\* Mutant: the terminal event is written, its identity stays open.
FinishWithoutClosing(s, status) ==
    /\ record' = IF runClosed THEN record
                 ELSE [record EXCEPT ![s] =
                         Append(@, [ev |-> "finished", status |-> status])]
    /\ TripOnMaxFail(status)
    /\ UNCHANGED <<closed, runClosed, runFinished>>

\* finish_scenario: the terminal event and the closing of its identity.
FinishScenario(s, status) ==
    /\ record' = IF runClosed THEN record
                 ELSE [record EXCEPT ![s] =
                         Append(@, [ev |-> "finished", status |-> status])]
    /\ closed' = closed \cup {s}
    /\ TripOnMaxFail(status)
    /\ UNCHANGED <<runClosed, runFinished>>

-----------------------------------------------------------------------------
(* The dispatcher: one turn fills the pool, receives one message, and sweeps *)

\* Mutant: the loop ends when the queue is empty.
NextTurnWhileQueued(outs, act, flag) ==
    /\ pc' = IF head <= N THEN "fill" ELSE "close"
    /\ exclusiveActive' = (flag /\ act # {})

\* The loop's condition, and the clearing of the flag at its head.
NextTurn(outs, act, flag) ==
    /\ pc' = IF Len(outs) < N THEN "fill" ELSE "close"
    /\ exclusiveActive' = (flag /\ act # {})

SlotFree == Cardinality(active) < Slots /\ head <= N
\* Mutant: only one direction of exclusivity.
BlockedByNext == head \in Exclusive /\ active # {}
Blocked  == (head \in Exclusive \/ exclusiveActive) /\ active # {}
Settle(o) == outcomes' = Append(outcomes, o)

\* An authored skip leaves the queue whoever holds the pool.
FillSkip ==
    /\ pc = "fill" /\ SlotFree /\ head \in AuthoredSkip
    /\ FinishScenario(head, "Skipped")
    /\ Settle([s |-> head, status |-> "Skipped", fault |-> "none", reason |-> "authored"])
    /\ head' = head + 1
    /\ UNCHANGED <<pc, active, expired, doomed, exclusiveActive, chan, abandoned,
                   wpc, localVars, store>>

FillCancelled ==
    /\ pc = "fill" /\ SlotFree /\ head \notin AuthoredSkip /\ ~Blocked
    /\ cancelled
    /\ exclusiveActive' = (head \in Exclusive)
    /\ FinishScenario(head, "Skipped")
    /\ Settle([s |-> head, status |-> "Skipped", fault |-> "none", reason |-> "cancelled"])
    /\ head' = head + 1
    /\ UNCHANGED <<pc, active, expired, doomed, chan, abandoned, wpc, localVars, store>>

FillSpawn ==
    /\ pc = "fill" /\ SlotFree /\ head \notin AuthoredSkip /\ ~Blocked
    /\ ~cancelled
    /\ exclusiveActive' = (head \in Exclusive)
    /\ active' = active \cup {head}
    /\ wpc' = [wpc EXCEPT ![head] = "begin"]
    /\ head' = head + 1
    /\ UNCHANGED <<pc, expired, doomed, outcomes, chan, cancelled, abandoned,
                   gateVars, localVars, store>>

\* No slot, no queue, or an exclusive scenario in the way; with nothing active
\* the loop starts over instead of waiting.
FillDone ==
    /\ pc = "fill"
    /\ ~SlotFree \/ (head \notin AuthoredSkip /\ Blocked)
    /\ IF active = {} THEN NextTurn(outcomes, active, exclusiveActive)
                      ELSE pc' = "wait" /\ UNCHANGED exclusiveActive
    /\ UNCHANGED <<head, active, expired, doomed, outcomes, chan, cancelled,
                   abandoned, gateVars, wpc, localVars, store>>

\* Every turn ends with sweep_expired, which reads the clock once: that fixes
\* whom it abandons.
Sweep(outs, act, late) ==
    /\ doomed' = late
    /\ IF late = {} THEN NextTurn(outs, act, exclusiveActive)
                    ELSE pc' = "abandon" /\ UNCHANGED exclusiveActive

\* A heartbeat moves its scenario's deadline, if it is still active; it may
\* have waited in the channel past the deadline it carries.
RecvBatchBegin ==
    /\ pc = "wait" /\ chan # <<>> /\ Head(chan).type = "BatchBegin"
    /\ chan' = Tail(chan)
    /\ expired' \in {expired, expired \ {Head(chan).s}}
    /\ Sweep(outcomes, active, expired')
    /\ UNCHANGED <<head, active, outcomes, cancelled, abandoned, gateVars, wpc,
                   localVars, store>>

\* Mutant: every Done is taken, late or not.
RecvAnyDone ==
    /\ pc = "wait" /\ chan # <<>> /\ Head(chan).type = "Done"
    /\ LET o == Head(chan).outcome IN
       /\ active' = active \ {o.s}
       /\ expired' = expired \ {o.s}
       /\ FinishScenario(o.s, o.status)
       /\ Settle(o)
    /\ chan' = Tail(chan)
    /\ Sweep(outcomes', active', expired')
    /\ UNCHANGED <<head, abandoned, wpc, localVars, store>>

RecvDone ==
    /\ pc = "wait" /\ chan # <<>> /\ Head(chan).type = "Done"
    /\ LET o == Head(chan).outcome IN
       /\ o.s \in active
       /\ active' = active \ {o.s}
       /\ expired' = expired \ {o.s}
       /\ FinishScenario(o.s, o.status)
       /\ Settle(o)
    /\ chan' = Tail(chan)
    /\ Sweep(outcomes', active', expired')
    /\ UNCHANGED <<head, abandoned, wpc, localVars, store>>

\* An abandoned thread finished after all.
RecvLateDone ==
    /\ pc = "wait" /\ chan # <<>> /\ Head(chan).type = "Done"
    /\ Head(chan).outcome.s \notin active
    /\ chan' = Tail(chan)
    /\ Sweep(outcomes, active, expired)
    /\ UNCHANGED <<head, active, expired, outcomes, cancelled, abandoned, gateVars,
                   wpc, localVars, store>>

\* Mutant: a timed-out wait starts the next turn without sweeping.
RecvTimeoutNoSweep ==
    /\ pc = "wait" /\ chan = <<>> /\ expired # {}
    /\ NextTurn(outcomes, active, exclusiveActive)
    /\ UNCHANGED <<head, active, expired, doomed, outcomes, chan, cancelled,
                   abandoned, gateVars, wpc, localVars, store>>

\* recv_timeout waits for the earliest deadline, so it gives up only on an
\* empty channel with some deadline behind it.
RecvTimeout ==
    /\ pc = "wait" /\ chan = <<>> /\ expired # {}
    /\ Sweep(outcomes, active, expired)
    /\ UNCHANGED <<head, active, expired, outcomes, chan, cancelled, abandoned,
                   gateVars, wpc, localVars, store>>

\* The sweep goes through its list in the order of the map's keys.
Abandon(s) ==
    /\ pc = "abandon" /\ s \in doomed
    /\ \A t \in doomed : s <= t
    /\ doomed' = doomed \ {s}
    /\ active' = active \ {s}
    /\ expired' = expired \ {s}
    /\ abandoned' = abandoned \cup {s}
    /\ FinishScenario(s, "Failed")
    /\ Settle([s |-> s, status |-> "Failed", fault |-> "system", reason |-> "none"])
    /\ IF doomed = {s} THEN NextTurn(outcomes', active', exclusiveActive)
                       ELSE UNCHANGED <<pc, exclusiveActive>>
    /\ UNCHANGED <<head, chan, wpc, localVars, store>>

\* The tail of the record, and only then the closing of the gate.
EmitRunFinished ==
    /\ pc = "close"
    /\ runFinished' = IF runClosed THEN runFinished
                      ELSE [passed    |-> CountOf({"Passed", "Warned"}),
                            failed    |-> CountOf({"Failed"}),
                            skipped   |-> CountOf({"Skipped"}),
                            cancelled |-> cancelled]
    /\ pc' = "closeGate"
    /\ UNCHANGED <<head, active, expired, doomed, exclusiveActive, outcomes, chan,
                   cancelled, abandoned, closed, runClosed, record, failCount,
                   wpc, localVars, store>>

\* run returns: the receiver is gone, threads still out there send to nobody.
CloseRun ==
    /\ pc = "closeGate"
    /\ runClosed' = TRUE
    /\ pc' = "returned"
    /\ chan' = <<>>
    /\ UNCHANGED <<head, active, expired, doomed, exclusiveActive, outcomes,
                   cancelled, abandoned, closed, record, runFinished, failCount,
                   wpc, localVars, store>>

Dispatch ==
    \/ FillSkip \/ FillCancelled \/ FillSpawn \/ FillDone
    \/ RecvBatchBegin \/ RecvDone \/ RecvLateDone \/ RecvTimeout
    \/ (\E s \in doomed : Abandon(s))
    \/ EmitRunFinished \/ CloseRun

-----------------------------------------------------------------------------
(* A scenario thread: run_scenario, then the Done message of spawn_scenario *)

Send(m) == chan' = IF pc = "returned" THEN chan ELSE Append(chan, m)

Begin(s) ==
    /\ wpc[s] = "begin"
    /\ Emit(s, "started", 0)
    /\ wpc' = [wpc EXCEPT ![s] = "snapshot"]
    /\ UNCHANGED <<dispatcherVars, chan, cancelled, abandoned, closed, runClosed,
                   runFinished, failCount, localVars, store>>

\* catch_unwind: a panic in prepare, in an engine or in a session ends the
\* scenario as a system fault; its World, and what it captured, is dropped.
Panicked(s) ==
    /\ "panic" \in Engine
    /\ flags' = [flags EXCEPT ![s] = {"failed", "panicked"}]
    /\ fault' = [fault EXCEPT ![s] = "system"]
    /\ wpc' = [wpc EXCEPT ![s] = "send"]

\* The store is cloned under its lock; preparing is private to the thread.
\* A scenario that does not lower is a user fault, and returns at once.
Prepare(s) ==
    /\ wpc[s] = "snapshot"
    /\ snapshot' = [snapshot EXCEPT ![s] = store]
    /\ \/ /\ wpc' = [wpc EXCEPT ![s] = "next"]
          /\ UNCHANGED <<flags, fault>>
       \/ /\ "unprepared" \in Engine
          /\ flags' = [flags EXCEPT ![s] = @ \cup {"failed", "unprepared"}]
          /\ fault' = [fault EXCEPT ![s] = "user"]
          /\ wpc' = [wpc EXCEPT ![s] = "send"]
       \/ Panicked(s)
    /\ UNCHANGED <<dispatcherVars, chan, cancelled, abandoned, gateVars,
                   processed, promoted, store>>

BatchesLeft(s) == processed[s] < Len(Batches[s])

MoreToRun(s)   == BatchesLeft(s) /\ "failed" \notin flags[s]

\* The head of the batch loop, when a batch starts: the token is looked at,
\* the session is there, and the heartbeat announces the batch's deadline.
StartBatch(s) ==
    /\ wpc[s] = "next"
    /\ MoreToRun(s) /\ ~TokenCancelled(s)
    /\ Send([type |-> "BatchBegin", s |-> s])
    /\ Emit(s, "batch", processed[s] + 1)
    /\ wpc' = [wpc EXCEPT ![s] = "batch"]
    /\ UNCHANGED <<dispatcherVars, cancelled, abandoned, closed, runClosed,
                   runFinished, failCount, localVars, store>>

\* Why the loop ends when it does not start a batch.
StopReason(s) ==
    IF ~MoreToRun(s) THEN "done"
    ELSE IF TokenCancelled(s) THEN "interrupted"
    ELSE "noSession"

\* After the loop, the steps of the batches never dispatched are reported as
\* skipped, and the sessions are finished: a failure of that is a fault if
\* there is none yet.
EndBatches(s) ==
    LET why == StopReason(s)
        ft  == IF why = "noSession" THEN "system" ELSE fault[s]
    IN  /\ wpc[s] = "next"
        /\ why = "noSession" => why \in Engine
        /\ IF BatchesLeft(s) THEN Emit(s, "unreached", processed[s] + 1)
                             ELSE UNCHANGED record
        /\ \/ /\ flags' = [flags EXCEPT ![s] = @ \cup
                             (IF why = "interrupted" THEN {"interrupted"}
                              ELSE IF why = "noSession" THEN {"failed"} ELSE {})]
              /\ \/ fault' = [fault EXCEPT ![s] = ft]
                 \/ /\ processed[s] > 0 /\ "teardownFails" \in Engine
                    /\ fault' = [fault EXCEPT ![s] = IF ft = "none" THEN "system" ELSE ft]
              /\ wpc' = [wpc EXCEPT ![s] = "merge"]
           \/ processed[s] > 0 /\ Panicked(s)
        /\ UNCHANGED <<dispatcherVars, chan, cancelled, abandoned, closed, runClosed,
                       runFinished, failCount, processed, promoted, snapshot, store>>

\* What a batch can come back with.  Every step of an optional batch is
\* optional: its failures are warnings and its error stops nothing.
Results(kind) ==
    Engine \cap (IF kind = "optional" THEN {"ok", "warned"}
                 ELSE {"ok", "warned", "assert", "user", "infra"})

FaultOf(result, old) ==
    IF result = "user" THEN "user" ELSE IF result = "infra" THEN "system" ELSE old

FinishBatch(s, result) ==
    /\ wpc[s] = "batch"
    /\ result \in Results(Batches[s][processed[s] + 1])
    /\ flags' = [flags EXCEPT ![s] = @ \cup
                   (IF result = "warned" THEN {"warned"}
                    ELSE IF result \in {"assert", "user", "infra"} THEN {"failed"}
                    ELSE {})]
    /\ fault' = [fault EXCEPT ![s] = FaultOf(result, @)]
    /\ \E more \in SUBSET Promotes[s] : promoted' = [promoted EXCEPT ![s] = @ \cup more]
    /\ Emit(s, "steps", processed[s] + 1)
    /\ processed' = [processed EXCEPT ![s] = @ + 1]
    /\ wpc' = [wpc EXCEPT ![s] = "next"]
    /\ UNCHANGED <<dispatcherVars, chan, cancelled, abandoned, closed, runClosed,
                   runFinished, failCount, snapshot, store>>

\* The hurl session looks at the token before each run of entries, and
\* reports the runs it leaves out as skipped steps, with no error; earlier runs
\* of the batch may have captured and warned.
CutBatch(s) ==
    /\ wpc[s] = "batch" /\ TokenCancelled(s)
    /\ \E seen \in SUBSET (Engine \cap {"warned"}) :
         flags' = [flags EXCEPT ![s] = @ \cup {"cut"} \cup seen]
    /\ \E more \in SUBSET Promotes[s] : promoted' = [promoted EXCEPT ![s] = @ \cup more]
    /\ Emit(s, "steps", processed[s] + 1)
    /\ processed' = [processed EXCEPT ![s] = @ + 1]
    /\ wpc' = [wpc EXCEPT ![s] = "next"]
    /\ UNCHANGED <<dispatcherVars, chan, cancelled, abandoned, closed, runClosed,
                   runFinished, failCount, fault, snapshot, store>>

\* Mutant: the whole World goes back, unwritten keys included.
MergeWorld(s) ==
    /\ wpc[s] = "merge"
    /\ store' = [k \in Keys |-> IF k \in promoted[s] THEN s ELSE snapshot[s][k]]
    /\ wpc' = [wpc EXCEPT ![s] = "send"]
    /\ UNCHANGED <<dispatcherVars, chan, cancelled, abandoned, gateVars, localVars>>

\* Only the write set goes back, under the store's lock.
Merge(s) ==
    /\ wpc[s] = "merge"
    /\ store' = [k \in Keys |-> IF k \in promoted[s] THEN s ELSE store[k]]
    /\ wpc' = [wpc EXCEPT ![s] = "send"]
    /\ UNCHANGED <<dispatcherVars, chan, cancelled, abandoned, gateVars, localVars>>

SendDone(s) ==
    /\ wpc[s] = "send"
    /\ Send([type |-> "Done", outcome |-> OutcomeOf(s)])
    /\ wpc' = [wpc EXCEPT ![s] = "gone"]
    /\ UNCHANGED <<dispatcherVars, cancelled, abandoned, gateVars, localVars, store>>

\* A panic while opening a session, estimating its budget or running a batch.
Panic(s) ==
    /\ \/ wpc[s] = "next" /\ MoreToRun(s) /\ ~TokenCancelled(s)
       \/ wpc[s] = "batch"
    /\ Panicked(s)
    /\ UNCHANGED <<dispatcherVars, chan, cancelled, abandoned, gateVars,
                   processed, promoted, snapshot, store>>

Thread(s) ==
    \/ Begin(s) \/ Prepare(s) \/ StartBatch(s) \/ EndBatches(s)
    \/ (\E result \in Results("plain") : FinishBatch(s, result))
    \/ CutBatch(s) \/ Merge(s) \/ SendDone(s) \/ Panic(s)

-----------------------------------------------------------------------------
(* The environment: time, and the user *)

Elapse(s) ==
    /\ s \in active \ expired
    /\ expired' = expired \cup {s}
    /\ UNCHANGED <<pc, head, active, doomed, exclusiveActive, outcomes, chan,
                   cancelled, abandoned, gateVars, wpc, localVars, store>>

Interrupt ==
    /\ ~cancelled
    /\ cancelled' = TRUE
    /\ UNCHANGED <<dispatcherVars, chan, abandoned, gateVars, wpc, localVars, store>>

\* The runner has returned; threads it detached may or may not still move.
Returned == pc = "returned" /\ UNCHANGED vars

-----------------------------------------------------------------------------
Init ==
    /\ pc = (IF N = 0 THEN "close" ELSE "fill") /\ head = 1 /\ active = {} /\ expired = {} /\ doomed = {}
    /\ exclusiveActive = FALSE /\ outcomes = <<>> /\ chan = <<>>
    /\ cancelled \in BOOLEAN      \* a run may start on a cancelled token
    /\ abandoned = {}
    /\ closed = {} /\ runClosed = FALSE
    /\ record = [s \in Scenarios |-> <<>>]
    /\ runFinished = None /\ failCount = 0
    /\ wpc = [s \in Scenarios |-> "none"]
    /\ processed = [s \in Scenarios |-> 0]
    /\ flags = [s \in Scenarios |-> {}]
    /\ fault = [s \in Scenarios |-> "none"]
    /\ promoted = [s \in Scenarios |-> {}]
    /\ snapshot = [s \in Scenarios |-> [k \in Keys |-> 0]]
    /\ store = [k \in Keys |-> 0]

Next ==
    \/ Dispatch
    \/ \E s \in Scenarios : Thread(s) \/ Elapse(s)
    \/ Interrupt
    \/ Returned

\* The dispatcher runs and time passes.  Nothing is assumed of the scenario
\* threads: an engine may hang in any of them.
Fairness == WF_vars(Dispatch) /\ \A s \in Scenarios : WF_vars(Elapse(s))

Spec == Init /\ [][Next]_vars /\ Fairness
-----------------------------------------------------------------------------
(* Properties *)

(* Every variable stays in its range. *)
TypeOK ==
    /\ pc \in DispatchPC
    /\ head \in 1..(N + 1)
    /\ active \subseteq Scenarios
    /\ expired \subseteq active
    /\ doomed \subseteq expired
    /\ exclusiveActive \in BOOLEAN
    /\ outcomes \in Seq(Outcome)
    /\ chan \in Seq(Message)
    /\ cancelled \in BOOLEAN
    /\ abandoned \subseteq Scenarios
    /\ closed \subseteq Scenarios
    /\ runClosed \in BOOLEAN
    /\ record \in [Scenarios -> Seq(Progress \cup Terminal)]
    /\ runFinished \in Tally \cup {None}
    /\ failCount \in Nat
    /\ wpc \in [Scenarios -> WorkerPC]
    /\ processed \in [Scenarios -> Nat]
    /\ flags \in [Scenarios -> SUBSET Flags]
    /\ fault \in [Scenarios -> Faults]
    /\ promoted \in [Scenarios -> SUBSET Keys]
    /\ snapshot \in [Scenarios -> [Keys -> 0..N]]
    /\ store \in [Keys -> 0..N]

(* A scenario that has left the queue is either in the pool or has exactly
   one outcome, never both and never two, whichever of the fill loop, the
   Done message and the watchdog sweep got to it (runner.rs, `run`). *)
SettledOnce ==
    /\ active \cup Settled = 1..(head - 1)
    /\ active \cap Settled = {}
    /\ \A i, j \in 1..Len(outcomes) : outcomes[i].s = outcomes[j].s => i = j

\* A scenario's events, with their terminal one last and nowhere else.
Told(events, status) ==
    /\ events # <<>>
    /\ events[Len(events)] = [ev |-> "finished", status |-> status]
    /\ \A j \in 1..(Len(events) - 1) : events[j].ev # "finished"

(* When run returns, the record and the summary tell the same story: every
   scenario was given to the sink with one terminal event, its last, and the
   statuses and the tallies agree (runner.rs, `finish_scenario`, `RunFinished`). *)
RecordAgrees ==
    pc = "returned" =>
        /\ Settled = Scenarios
        /\ \A i \in 1..Len(outcomes) :
             Told(record[outcomes[i].s], outcomes[i].status)
        /\ runFinished.passed + runFinished.failed + runFinished.skipped = N

(* The tail is the tail: nothing is added to a scenario's events after its
   terminal event, nor to any event after run_finished, whatever detached
   threads still do (runner.rs, `RecordGate`). *)
TailIsTail ==
    [][ /\ \A s \in closed : record'[s] = record[s]
        /\ runFinished # None => UNCHANGED <<record, runFinished>> ]_vars

(* The events of a scenario that ran to its end account for each of its
   batches exactly once: dispatched ones by their own steps, the others by
   one report of what was not reached (runner.rs, `processed`). *)
BatchesReportedOnce ==
    \A s \in Scenarios \ abandoned :
        (wpc[s] = "gone" /\ flags[s] \cap {"panicked", "unprepared"} = {}) =>
            LET steps == {i \in 1..Len(record[s]) : record[s][i].ev = "steps"}
                rest  == {i \in 1..Len(record[s]) : record[s][i].ev = "unreached"}
            IN  /\ {record[s][i].batch : i \in steps} = 1..Cardinality(steps)
                /\ Cardinality(steps) = Len(Batches[s]) <=> rest = {}
                /\ \A i \in rest : /\ record[s][i].batch = Cardinality(steps) + 1
                                   /\ Cardinality(rest) = 1

(* While an exclusive scenario holds the pool, every other thread that still
   runs is one the watchdog has abandoned (runner.rs, the fill gate; the
   exception is the one ADR-0007 states). *)
Live == {s \in Scenarios : wpc[s] \notin {"none", "gone"}}
ExclusiveAlone ==
    \A e \in Exclusive \cap active :
        /\ active = {e}
        /\ Live \ {e} \subseteq abandoned

(* The pool is never wider than its slots, counting the threads that are
   really running and not only the dispatcher's bookkeeping. *)
PoolBound == Cardinality(Live \ abandoned) <= Slots

(* --max-fail N: once the Nth failure is in, only what was running can still
   fail; with one job the run stops after exactly N, and an exclusive scenario,
   that ran beside nobody, is not started after it (exec.rs,
   `trip_on_max_fail`). *)
MaxFailBound ==
    MaxFail > 0 =>
        /\ CountOf({"Failed"}) <= MaxFail + Slots - 1
        /\ Exclusive \cap active # {} => CountOf({"Failed"}) < MaxFail

(* StopsCleanly: a run that stops early stops where it was told to, and what
   it does not reach is accounted for once: the failures past --max-fail are
   those already running, and no batch is reported twice or left out. *)
StopsCleanly == MaxFailBound /\ BatchesReportedOnce

\* Mutant: quarantine forgives a fault, too.
ExitCodeForgiving ==
    LET some(P(_)) == \E i \in 1..Len(outcomes) : outcomes[i].s \notin Quarantined /\ P(outcomes[i])
    IN  IF some(LAMBDA o : o.fault = "system") THEN "SystemError"
        ELSE IF some(LAMBDA o : o.fault = "user") THEN "UserError"
        ELSE IF runFinished.cancelled \/ some(LAMBDA o : o.status = "Failed") THEN "TestFailure"
        ELSE "Success"

\* exit_code_excluding: system over user over test failure; a cancelled run
\* is never a success.
ExitCode ==
    LET some(P(_)) == \E i \in 1..Len(outcomes) : P(outcomes[i])
        system(o)  == o.fault = "system"
        user(o)    == o.fault = "user"
        failed(o)  == o.fault = "none" /\ o.status = "Failed" /\ o.s \notin Quarantined
    IN  IF some(system) THEN "SystemError"
        ELSE IF some(user) THEN "UserError"
        ELSE IF runFinished.cancelled \/ some(failed) THEN "TestFailure"
        ELSE "Success"

(* A run that exits 0 ran everything: each scenario not parked by its author
   had a thread that finished, dispatched every batch, was cut nowhere and
   failed nowhere, quarantine aside (runner.rs, `exit_code_excluding`). *)
NoSilentGreen ==
    (pc = "returned" /\ ExitCode = "Success") =>
        \A s \in Scenarios \ AuthoredSkip :
            /\ wpc[s] = "gone" /\ s \notin abandoned
            /\ s \notin Quarantined =>
                 /\ flags[s] \subseteq {"warned"}
                 /\ processed[s] = Len(Batches[s])

(* What a scenario promoted is never lost from the store: another scenario's
   merge replaces it only with a promotion of the same key (runner.rs, the
   merge of the write set only). *)
Merged(s) == wpc[s] \in {"send", "gone"} /\ flags[s] \cap {"panicked", "unprepared"} = {}
PromotionsSurvive ==
    \A k \in Keys :
        LET writers == {s \in Scenarios : Merged(s) /\ k \in promoted[s]}
        IN  IF writers = {} THEN store[k] = 0 ELSE store[k] \in writers

\* Two scenarios that are never in the pool together.
KeptApart(s, t) == Slots = 1 \/ {s, t} \cap Exclusive # {}

(* A scenario that cannot overlap an earlier one reads what the earlier one
   promoted: with one job, or when either is exclusive, its snapshot has the
   keys of every earlier scenario that was not abandoned (runner.rs, the
   merge before the Done message). *)
SequentialVisibility ==
    \A t \in Scenarios : wpc[t] \notin {"none", "begin", "snapshot"} =>
        \A s \in 1..(t - 1) :
            (s \notin abandoned /\ Merged(s) /\ KeptApart(s, t))
                => \A k \in promoted[s] : snapshot[t][k] # 0

(* The store keeps what scenarios hand on: nothing promoted is lost, and who
   comes strictly after sees it. *)
StoreKept == PromotionsSurvive /\ SequentialVisibility

(* The run ends although any number of its threads hang: the watchdog
   settles them (runner.rs, `sweep_expired`). *)
RunReturns == <>(pc = "returned")

-----------------------------------------------------------------------------
(* The inductive invariant behind the theorems of RunnerProofs. *)

\* The loop is left only with an outcome for everyone, and the tail written.
LoopLeft ==
    /\ pc \in {"close", "closeGate", "returned"} => Len(outcomes) = N
    /\ runFinished # None <=> pc \in {"closeGate", "returned"}
    /\ runClosed => pc = "returned"

\* A thread was spawned from the queue, is known to the dispatcher until its
\* Done is taken or it is abandoned, and sends nothing after its Done.
ThreadsKnown ==
    /\ \A s \in Scenarios : wpc[s] # "none" => s < head
    /\ \A s \in active : wpc[s] # "none"
    /\ Live \subseteq active \cup abandoned
    /\ \A i \in 1..Len(chan) :
         chan[i].type = "Done" => wpc[chan[i].outcome.s] = "gone"

\* The pool fits its slots; an active exclusive scenario is alone in it, and
\* the flag says so.
PoolOwned ==
    /\ Cardinality(active) <= Slots
    /\ \A e \in Exclusive \cap active : active = {e} /\ exclusiveActive

\* The record holds the terminal event of each outcome, and of nobody else.
RecordTold ==
    /\ \A i \in 1..Len(outcomes) : Told(record[outcomes[i].s], outcomes[i].status)
    /\ \A s \in Scenarios \ Settled :
         \A j \in 1..Len(record[s]) : record[s][j].ev # "finished"

\* The tail counts the outcomes.
TallyTold ==
    runFinished # None =>
        /\ runFinished.passed = CountOf({"Passed", "Warned"})
        /\ runFinished.failed = CountOf({"Failed"})
        /\ runFinished.skipped = CountOf({"Skipped"})

(* The parts of the dispatcher's bookkeeping agree with one another: outcomes,
   pool, queue, gate, threads and the exclusive flag (runner.rs, `run`). *)
Bookkeeping ==
    /\ SettledOnce
    /\ Len(outcomes) + Cardinality(active) = head - 1
    /\ closed = Settled
    /\ LoopLeft
    /\ ThreadsKnown
    /\ PoolOwned

\* What a thread's place, its flags and its progress say of one another: one
\* that was dropped failed and is past its merge, a cut or interrupted one was
\* told to stop, and a batch is left out only after a failure or an interrupt.
Dropped(s) == flags[s] \cap {"panicked", "unprepared"} # {}
Ended(s)   == wpc[s] \in {"merge", "send", "gone"}
ThreadTrue(s) ==
    /\ Dropped(s) => "failed" \in flags[s] /\ wpc[s] \in {"send", "gone"}
    /\ flags[s] \cap {"interrupted", "cut"} # {} => TokenCancelled(s)
    /\ "interrupted" \in flags[s] => Ended(s)
    /\ wpc[s] \in {"none", "begin", "snapshot"} => flags[s] = {} /\ processed[s] = 0
    /\ processed[s] <= Len(Batches[s])
    /\ wpc[s] = "batch" => BatchesLeft(s)
    /\ Ended(s) /\ flags[s] \cap {"failed", "interrupted"} = {} => ~BatchesLeft(s)
ThreadsTrue == \A s \in Scenarios : ThreadTrue(s)

\* Of two scenarios the pool keeps apart, once the later one has its thread, the
\* earlier one's is gone, unless it was abandoned.
EarlierGone ==
    \A t \in Scenarios : wpc[t] # "none" =>
        \A s \in 1..(t - 1) :
            s \notin abandoned /\ KeptApart(s, t) => wpc[s] \in {"none", "gone"}

\* The wrapper's counter is the number of failed outcomes; from the failure
\* that reaches the threshold on, nothing more is let into the pool.
FailuresCounted ==
    /\ failCount = CountOf({"Failed"})
    /\ MaxFail > 0 =>
         \/ failCount < MaxFail
         \/ cancelled /\ failCount + Cardinality(active) <= MaxFail + Slots - 1
    /\ MaxFail > 0 /\ Exclusive \cap active # {} => failCount < MaxFail

\* The record of a thread that was neither abandoned nor dropped holds the
\* steps of each batch it went through, and then at most one report of the rest.
EventsOf(s, ev) == {i \in 1..Len(record[s]) : record[s][i].ev = ev}
BatchTold(s) ==
    /\ {record[s][i].batch : i \in EventsOf(s, "steps")} = 1..processed[s]
    /\ Cardinality(EventsOf(s, "steps")) = processed[s]
    /\ ~(Ended(s) /\ BatchesLeft(s)) => EventsOf(s, "unreached") = {}
    /\ Ended(s) /\ BatchesLeft(s) =>
         \E i \in 1..Len(record[s]) : /\ EventsOf(s, "unreached") = {i}
                                     /\ record[s][i].batch = processed[s] + 1
BatchesTold == \A s \in Scenarios \ abandoned : ~Dropped(s) => BatchTold(s)

\* Each outcome has its cause: its author parked it, the watchdog gave it up,
\* the cancelled run never started it, or its thread is gone and said so.
Justified(o) ==
    \/ o.s \in AuthoredSkip /\ o.reason = "authored"
    \/ o.s \in abandoned /\ o.fault = "system"
    \/ o.s \notin abandoned /\ wpc[o.s] = "none" /\ o.status = "Skipped" /\ cancelled
    \/ o.s \notin abandoned /\ wpc[o.s] = "gone" /\ o = OutcomeOf(o.s)
Given == {outcomes[i] : i \in 1..Len(outcomes)}
Sent  == {chan[i] : i \in 1..Len(chan)}
OutcomesTrue ==
    /\ abandoned \subseteq Settled
    /\ \A o \in Given : Justified(o)
    /\ \A m \in Sent : m.type = "Done" => m.outcome = OutcomeOf(m.outcome.s)

\* A tail that says the run was not cancelled was written when nobody had been
\* cut or kept from starting; who is not abandoned has not moved since.
TailUncancelled ==
    runFinished # None /\ ~runFinished.cancelled =>
        /\ \A s \in Scenarios \ abandoned : flags[s] \cap {"interrupted", "cut"} = {}
        /\ \A s \in Scenarios \ (AuthoredSkip \cup abandoned) : wpc[s] = "gone"

\* Where the contract sees a scenario, and with what verdict.
PhaseOf(s) == IF s \in Settled THEN "settled"
              ELSE IF s \in active THEN "running" ELSE "queued"
VerdictOf(s) ==
    IF s \in Settled
    THEN outcomes[CHOOSE i \in 1..Len(outcomes) : outcomes[i].s = s].status
    ELSE "none"

(* The runner keeps the contract its callers build on: in order, within the
   pool's width, exclusive ones alone, each settled once and for all, closed
   at the end and not before - and it does get there. *)
Contract == INSTANCE RunContract WITH
    Width   <- Slots,
    phase   <- [s \in Scenarios |-> PhaseOf(s)],
    verdict <- [s \in Scenarios |-> VerdictOf(s)],
    open    <- (runFinished = None)
KeepsContract == Contract!Spec
=============================================================================
