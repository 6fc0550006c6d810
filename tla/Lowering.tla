------------------------------ MODULE Lowering ------------------------------
(***************************************************************************)
(* The second half of lowering (core/lower.rs) and the sidecar of the      *)
(* emitted artifact (core/emit.rs): what a scenario's expanded steps become *)
(* and which of them are refused.  Expansion itself is in Packs.            *)
(*                                                                         *)
(* A scenario is a sequence of steps.  A step is an inline block, a         *)
(* reference to a fragment, or a "then": asserts that are merged into the   *)
(* nearest request before them.  Text is abstracted to what supply checks   *)
(* and the engine tell apart: which variables an entry reads, which it      *)
(* captures, which its own [Options] set, and which are bound to it.  There *)
(* is one engine, the one the registry holds (cli/registry.rs).             *)
(***************************************************************************)
EXTENDS Naturals, Sequences, FiniteSets

CONSTANT Vars        \* variable names; their order is the order of names

ASSUME VarsAreOrdered == Vars \subseteq Nat

Forms == {"inline", "ref", "then"}

\* A step, as expansion leaves it.
StepType ==
    [form : Forms, entries : Nat, optional : BOOLEAN,
     off : BOOLEAN,              \* it has a `when:` guard that says no
     reads : SUBSET Vars, caps : SUBSET Vars, own : SUBSET Vars,
     secrets : SUBSET Vars,      \* variables that it binds to a secret
     bind : UNION {[D -> SUBSET Vars] : D \in SUBSET Vars},
                                 \* literals, and what each of them reads
     save : SUBSET Vars,         \* captures that go to the global store
     retry : Nat, repeat : Nat,
     known : BOOLEAN]            \* no timing option is a placeholder

\* A payload without an entry is refused when it is loaded, and so is a count
\* without an end; a "then" is pushed with asserts only, and without a guard.
\* Entries that are repeated zero times are left out.
Pushed(s) ==
    IF s.form = "then"
    THEN /\ s.entries = 0 /\ ~ s.off
         /\ UNION {s.reads, s.caps, s.own, s.secrets, DOMAIN s.bind, s.save} = {}
    ELSE s.entries > 0 /\ s.repeat > 0

Steps(scn) == 1..Len(scn)

(***************************************************************************)
(* What must be supplied, and by whom.                                      *)
(***************************************************************************)
CapturedBefore(scn, k) == UNION {scn[j].caps : j \in 1..(k - 1)}
SecretsBefore(scn, k) == UNION {scn[j].secrets : j \in 1..(k - 1)}

\* expand_ref_step: what a fragment reads and nothing supplies.
Missing(scn, k) ==
    LET s == scn[k]
    IN  s.reads \ (DOMAIN s.bind \cup s.secrets \cup SecretsBefore(scn, k)
                     \cup s.own \cup CapturedBefore(scn, k))

\* lint_bind_values: what the value bound to v reads and nothing supplies by
\* the time its line is evaluated; injected lines are evaluated in name order.
Unsupplied(scn, k) ==
    LET s == scn[k]
    IN  {w \in Vars : \E v \in DOMAIN s.bind :
            /\ w \in s.bind[v]
            /\ ~ (w < v /\ w \in DOMAIN s.bind)
            /\ w \notin CapturedBefore(scn, k) \cup s.own
                          \cup SecretsBefore(scn, k) \cup s.secrets}


(***************************************************************************)
(* The Then-merge rule: the host is the nearest request before the asserts. *)
(***************************************************************************)
Requests(scn) == {k \in Steps(scn) : scn[k].form # "then"}

HasHost(scn, k) == \E j \in Requests(scn) : j < k
Host(scn, k) == CHOOSE j \in Requests(scn) :
                    j < k /\ \A i \in Requests(scn) : i < k => i <= j

\* A "then" shares its host's fate.
Optional(scn, k) ==
    IF scn[k].form = "then" THEN scn[Host(scn, k)].optional ELSE scn[k].optional

ThensOf(scn, k) == {t \in Steps(scn) : scn[t].form = "then" /\ Host(scn, t) = k}

Errors(scn) ==
    UNION {(IF scn[k].form = "then" /\ ~ HasHost(scn, k) THEN {"then_before_when"} ELSE {})
            \cup (IF scn[k].form = "ref" /\ Missing(scn, k) # {}
                    THEN {"unbound_placeholder"} ELSE {})
            \cup (IF scn[k].form = "ref" /\ Unsupplied(scn, k) # {}
                    THEN {"unbound_placeholder"} ELSE {}) : k \in Steps(scn)}

Lowers(scn) == Errors(scn) = {}

\* Secrets are gathered for the scenario as a whole: a variable that two steps
\* bind has the secret of the later one.
SecretOf(scn, v) ==
    LET binders == {k \in Steps(scn) : v \in scn[k].secrets}
    IN  IF binders = {} THEN 0 ELSE CHOOSE k \in binders : \A j \in binders : j <= k

(***************************************************************************)
(* Segmentation into batches: a batch breaks around optional steps, and a   *)
(* "then" never opens one.                                                  *)
(***************************************************************************)
\* A bug: a "then" behind an optional step opens a batch of its own.
OpensUnglued(scn, k) ==
    k = 1 \/ Optional(scn, k) \/ Optional(scn, k - 1)

Opens(scn, k) ==
    \/ k = 1
    \/ /\ scn[k].form # "then"
       /\ Optional(scn, k) \/ Optional(scn, k - 1)

BatchOf(scn, k) == Cardinality({j \in 1..k : Opens(scn, j)})
BatchCount(scn) == IF scn = <<>> THEN 0 ELSE BatchOf(scn, Len(scn))
Batch(scn, b) == {k \in Steps(scn) : BatchOf(scn, k) = b}

(***************************************************************************)
(* The artifact: every request contributes its entries in order; the        *)
(* sidecar gives each step the lines of its own, a "then" those of its      *)
(* asserts at the end of its host's last entry.                             *)
(***************************************************************************)
EntriesOf(scn, k) == {k} \X (1..scn[k].entries)

=============================================================================
