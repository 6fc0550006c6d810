------------------------------ MODULE MCWatch ------------------------------
(* Two directories are enough for a runs dir that changes under way. *)
EXTENDS Watch
CONSTANTS a, b
MCDirs == {a, b}
=============================================================================
