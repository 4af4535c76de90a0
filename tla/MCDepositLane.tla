---------------------------- MODULE MCDepositLane ----------------------------
(* Two runs of the deposit lane on a short chain: deposit_lane.cfg. *)
EXTENDS DepositLane
=============================================================================
