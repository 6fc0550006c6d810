------------------------------ MODULE MCRunner ------------------------------
(* Small runs of the scenario runner for TLC. *)
EXTENDS Runner

CONSTANTS
    k1,       \* a key of the global store
    MaxLate   \* bound: how many scenarios may be seen past their deadline

\* One plain batch each; or the first scenario has an optional one after it.
OneBatch    == [s \in Scenarios |-> <<"plain">>]
FirstHasTwo == [s \in Scenarios |-> IF s = 1 THEN <<"plain", "optional">> ELSE <<"plain">>]

\* Everyone may promote every key, or only the first two.
AllPromote == [s \in Scenarios |-> Keys]
TwoPromote == [s \in Scenarios |-> IF s <= 2 THEN Keys ELSE {}]

\* State constraint.
FewLate == Cardinality(expired \cup abandoned) <= MaxLate
=============================================================================
