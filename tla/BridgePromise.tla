---------------------------- MODULE BridgePromise ----------------------------
(***************************************************************************)
(* What the withdrawal path promises, without games, proofs or clocks: a    *)
(* withdrawal is sent on L2, becomes final there, and is then claimed on L1 *)
(* at most once; the claim may pay it out, and nothing else does.           *)
(***************************************************************************)
CONSTANT Withdrawals

VARIABLES
  sent,      \* withdrawals in some L2 block
  final,     \* withdrawals in a finalized L2 block
  claimed,   \* withdrawals the portal has finalized
  received   \* withdrawals whose value arrived

bvars == <<sent, final, claimed, received>>

PromiseInit == sent = {} /\ final = {} /\ claimed = {} /\ received = {}

Send(w) ==
  /\ w \notin sent
  /\ sent' = sent \cup {w}
  /\ UNCHANGED <<final, claimed, received>>

Settle ==
  /\ final' = sent
  /\ UNCHANGED <<sent, claimed, received>>

Claim(w) ==
  /\ w \in final \ claimed
  /\ claimed' = claimed \cup {w}
  /\ received' \in {received, received \cup {w}}
  /\ UNCHANGED <<sent, final>>

PromiseNext == Settle \/ \E w \in Withdrawals : Send(w) \/ Claim(w)

PromiseSpec == PromiseInit /\ [][PromiseNext]_bvars
=============================================================================
