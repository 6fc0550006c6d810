---------------------------- MODULE MCRunHistory ----------------------------
(* A short history of runs for TLC. *)
EXTENDS RunHistory, TLC

CONSTANTS p1, p2, s1, s2

\* The processes are interchangeable, and so are the scenarios.
Symmetry == {f @@ g : f \in Permutations(Procs), g \in Permutations(Scenarios)}

\* State constraint: one command is interrupted at most.
Interrupted(r) == records[r].tail = "Cancelled" \/ \E p \in Procs : own[p] = r /\ cancelled[p]
OneInterrupted == Cardinality({r \in Runs : Interrupted(r)}) <= 1
=============================================================================
