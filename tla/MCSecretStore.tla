--------------------------- MODULE MCSecretStore ---------------------------
(* Three concurrent commands over two names: two of them set one, which covers
   the races of key and store; the third is a removal or a run. *)
EXTENDS SecretStore

CONSTANTS p1, p2, p3, a, b

TwoSetters == [p \in Procs |-> IF p = p3 THEN {"rm", "resolve"} ELSE {"set"}]
=============================================================================
