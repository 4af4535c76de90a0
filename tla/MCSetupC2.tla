------------------------------ MODULE MCSetupC2 ------------------------------
(* The environments for TLC: END at a step in the middle or at the end, a     *)
(* Jovian offset set or not, a machine that is fast or slow.                  *)
EXTENDS SetupC2

MCAnyEnd == {3, 7}
MCWholeRun == {7}
MCEither == {TRUE, FALSE}
MCYes == {TRUE}
MCNo == {FALSE}
=============================================================================
