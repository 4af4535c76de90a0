----------------------------- MODULE MCResilience -----------------------------
(* The fault sets for TLC: everything that may go wrong on the devnet, and     *)
(* nothing.                                                                   *)
EXTENDS Resilience

MCAllFaults == FaultKinds
MCNoFaults == {}
=============================================================================
