--------------------------- MODULE MCWithdrawClaim ---------------------------
(* Programs for TLC: the lane of withdraw_e2e_ephemeral.sh, and a claim that  *)
(* another script's claim or contest runs beside.                             *)
EXTENDS WithdrawClaim

CONSTANTS w1, w2, s1, s2

Run(kind, w) == [kind |-> kind, wd |-> w]

MCLane == {[s \in {s1} |-> <<Run("claim", w1), Run("abandoned", w2), Run("dishonest", w2)>>]}

Partners == {Run("claim", w1), Run("claim", w2), Run("abandoned", w1),
             Run("dishonest", w1)}

MCPairs ==
  {[s \in {s1, s2} |-> IF s = first THEN <<Run("claim", w1)>> ELSE <<other>>] :
     first \in {s1, s2}, other \in Partners}
=============================================================================
