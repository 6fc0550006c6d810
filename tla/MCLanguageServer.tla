-------------------------- MODULE MCLanguageServer --------------------------
(* A suite of one file of each kind for TLC. *)
EXTENDS LanguageServer

\* On disk the pack is broken.
BrokenPack == [f \in Files |-> IF f \in Packs THEN "bad" ELSE "good"]
=============================================================================
