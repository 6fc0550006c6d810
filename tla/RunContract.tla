---------------------------- MODULE RunContract ----------------------------
(***************************************************************************)
(* What `runner::run` promises its caller, without threads, messages, or   *)
(* clocks: scenarios are taken in the order given, at most Width of them   *)
(* at a time, an exclusive one alone; each is settled once; and the run is *)
(* closed when, and only when, all of them are.  This is what the phases   *)
(* of `proef test` build on.                                               *)
(***************************************************************************)
EXTENDS Integers, FiniteSets

CONSTANTS
    N,          \* how many scenarios, \in Nat
    Width,      \* how many may run at a time, \in Nat \ {0}
    Exclusive   \* the ones that run alone, \subseteq 1..N

VARIABLES
    phase,      \* per scenario: queued, running or settled
    verdict,    \* per scenario: its status, once settled
    open        \* whether the run is still open

vars == <<phase, verdict, open>>

Status == {"Passed", "Warned", "Failed", "Skipped"}
In(p)  == {s \in 1..N : phase[s] = p}

\* The first of the queue.
FirstInQueue(s) == phase[s] = "queued" /\ \A t \in 1..(s - 1) : phase[t] # "queued"

Init == /\ phase = [s \in 1..N |-> "queued"]
        /\ verdict = [s \in 1..N |-> "none"]
        /\ open = TRUE

Start(s) ==
    /\ open /\ FirstInQueue(s)
    /\ Cardinality(In("running")) < Width
    /\ \A t \in In("running") : s \notin Exclusive /\ t \notin Exclusive
    /\ phase' = [phase EXCEPT ![s] = "running"]
    /\ UNCHANGED <<verdict, open>>

\* Skipped by its author, or because the run was cancelled.
PassOver(s) ==
    /\ open /\ FirstInQueue(s)
    /\ phase' = [phase EXCEPT ![s] = "settled"]
    /\ verdict' = [verdict EXCEPT ![s] = "Skipped"]
    /\ UNCHANGED open

Settle(s) ==
    /\ open /\ phase[s] = "running"
    /\ phase' = [phase EXCEPT ![s] = "settled"]
    /\ \E v \in Status : verdict' = [verdict EXCEPT ![s] = v]
    /\ UNCHANGED open

Close ==
    /\ open /\ In("settled") = 1..N
    /\ open' = FALSE
    /\ UNCHANGED <<phase, verdict>>

Next == (\E s \in 1..N : Start(s) \/ PassOver(s) \/ Settle(s)) \/ Close

Safety == Init /\ [][Next]_vars

\* Whatever is still running is settled one day, and the run is closed.
Spec == Safety /\ WF_vars(Next)
=============================================================================
