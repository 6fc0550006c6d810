----------------------------- MODULE MCExecute -----------------------------
(* A setup of two scenarios, a suite of two, one of them quarantined, and a
   teardown of two, one of them parked. *)
EXTENDS Execute

MCSetup       == {1, 2}
MCSuite       == {3, 4}
MCTeardown    == {5, 6}
MCParked      == {6}
MCQuarantined == {4}
EveryTrouble  == Troubles
=============================================================================
