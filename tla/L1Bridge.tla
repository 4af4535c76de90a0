------------------------------ MODULE L1Bridge ------------------------------
(***************************************************************************)
(* The L1 contracts that tools/op-e2e/withdraw_claim.py drives: the dispute *)
(* game factory, one PermissionedDisputeGame per created game, the portal's *)
(* prove/finalize ledger, and the two-step bond recovery behind DelayedWETH.*)
(* None of that Solidity is in the repository, so every operator here is    *)
(* external: it states what the script's own guards, comments and expected  *)
(* revert selectors say the contracts do.                                   *)
(*                                                                         *)
(* A root claim is the number of the L2 block whose output it commits to;   *)
(* FakeRoot is the script's FAKE_ROOT, the output of no block.  A claim's   *)
(* index is one more than the contract's, so that a claim DAG is a sequence.*)
(* Amounts are thousandths of an ETH; the gas of L1 transactions, that the  *)
(* scripts allow for, is left out.                                          *)
(***************************************************************************)
EXTENDS Integers, Sequences

CONSTANTS
  Withdrawals,     \* the L2 withdrawals that may be claimed
  Scripts,         \* the claim scripts, recorded as the creator of a game
  ProofMaturity,   \* PROOF_MATURITY_SECONDS
  FinalityDelay,   \* DISPUTE_FINALITY_SECONDS
  MaxClock,        \* FAULT_GAME_MAX_CLOCK
  UnlockDelay,     \* WETH_UNLOCK_SECONDS
  InitBond,        \* the 0.08 ETH sent with create
  RootBond,        \* getRequiredBond(2): the bond of an attack on the root
  RebutBond,       \* getRequiredBond(4): the bond of an attack on that attack
  PortalFunds      \* what the portal may hold at the start

ASSUME DelayAssumption ==
  /\ ProofMaturity \in Nat
  /\ FinalityDelay \in Nat
  /\ MaxClock \in Nat \ {0}
  /\ UnlockDelay \in Nat
  /\ PortalFunds \subseteq Nat

ASSUME BondAssumption ==
  /\ InitBond \in Nat \ {0}
  /\ RootBond \in Nat \ {0}
  /\ RebutBond \in Nat \ {0}

VARIABLES
  now,         \* timestamp of the L1 head
  games,       \* the factory's games, in creation order
  proven,      \* provenWithdrawals[w][proposer]: the game and the timestamp
  finalized,   \* finalizedWithdrawals
  paid,        \* withdrawals whose value reached the target
  portalBal,   \* the portal's ETH
  dev1,        \* what DEV1, proposer of the games and target of the withdrawals, has
               \* gained on L1
  anchor       \* the L2 block of the registry's anchor game

bridgeVars == <<now, games, proven, finalized, paid, portalBal, dev1, anchor>>

Ether == 1000

FakeRoot == 0
Actors == {"proposer", "challenger"}
Statuses == {"IN_PROGRESS", "CHALLENGER_WINS", "DEFENDER_WINS"}

Claims ==
  [parent : 0..2, by : Actors, bond : Nat, at : Nat, used : Int,
   resolved : BOOLEAN, counteredBy : Actors \cup {"nobody"}]

Games ==
  [root : Nat, block : Nat, created : Nat, owner : Scripts, claims : Seq(Claims),
   status : Statuses, resolvedAt : Nat, credit : [Actors -> Nat],
   unlockedAt : [Actors -> Nat]]

\* Every claim but the root answers an earlier one.
TreeOK(g) == \A i \in 1..Len(g.claims) : g.claims[i].parent < i

BridgeTypeOK ==
  /\ now \in Nat
  /\ games \in Seq(Games)
  /\ \A i \in 1..Len(games) : TreeOK(games[i])
  /\ proven \in [Withdrawals -> [game : Nat, at : Nat]]
  /\ finalized \subseteq Withdrawals
  /\ paid \subseteq Withdrawals
  /\ portalBal \in Nat
  /\ dev1 \in Int
  /\ anchor \in Nat

BridgeInit ==
  /\ now = 1
  /\ games = <<>>
  /\ proven = [w \in Withdrawals |-> [game |-> 0, at |-> 0]]
  /\ finalized = {}
  /\ paid = {}
  /\ portalBal \in PortalFunds
  /\ dev1 = 0
  /\ anchor = 0

-----------------------------------------------------------------------------
(* DisputeGameFactory.create *)

Claim(parent, who, bond, used) ==
  [parent |-> parent, by |-> who, bond |-> bond, at |-> now, used |-> used,
   resolved |-> FALSE, counteredBy |-> "nobody"]

\* GameAlreadyExists keeps (root, extraData) unique; UnexpectedRootClaim wants
\* the claimed block past the anchor.
CanCreate(root, block) ==
  /\ \A i \in 1..Len(games) : <<games[i].root, games[i].block>> # <<root, block>>
  /\ block > anchor

NewGame(s, root, block) ==
  [root |-> root, block |-> block, created |-> now, owner |-> s,
   claims |-> <<Claim(0, "proposer", InitBond, 0)>>,
   status |-> "IN_PROGRESS", resolvedAt |-> 0,
   credit |-> [a \in Actors |-> 0], unlockedAt |-> [a \in Actors |-> 0]]

-----------------------------------------------------------------------------
(* The chess clock, moves and resolution of one game g. *)

\* Time on the clock of whoever would counter claim i: what their side had used
\* when the claim they answer was made, plus the time since claim i.
ChallengeClock(g, i) ==
  LET c == g.claims[i]
      before == IF c.parent = 0 THEN 0 ELSE g.claims[c.parent].used
      spent == before + (now - c.at)
  IN IF spent > MaxClock THEN MaxClock ELSE spent

RequiredBond(i) == IF i = 1 THEN RootBond ELSE RebutBond

Children(g, i) == {j \in 1..Len(g.claims) : g.claims[j].parent = i}

\* The move's first argument is the claim it disputes: for the root that is the
\* game's root claim, and a mismatch reverts.  COUNTER_CLAIM and REBUT_CLAIM are
\* constants, so that a second move against the same claim would repeat a claim.
CanAttack(g, i, disputed) ==
  /\ g.status = "IN_PROGRESS"
  /\ i \in 1..Len(g.claims)
  /\ i = 1 => g.root = disputed
  /\ Children(g, i) = {}
  /\ ChallengeClock(g, i) < MaxClock

Attacked(g, i, who) ==
  [g EXCEPT !.claims =
     Append(@, Claim(i, who, RequiredBond(i), ChallengeClock(g, i)))]

\* ClockNotExpired, ClaimAlreadyResolved and OutOfOrderResolution.
CanResolveClaim(g, i) ==
  /\ g.status = "IN_PROGRESS"
  /\ i \in 1..Len(g.claims)
  /\ ChallengeClock(g, i) = MaxClock
  /\ ~g.claims[i].resolved
  /\ \A j \in Children(g, i) : g.claims[j].resolved

\* A claim is countered by its uncountered child, if it has one, and its bond is
\* credited to the winner.
Counter(g, i) ==
  LET winning == {j \in Children(g, i) : g.claims[j].counteredBy = "nobody"}
  IN IF winning = {} THEN "nobody" ELSE g.claims[CHOOSE j \in winning : TRUE].by

Winner(g, i) == IF Counter(g, i) = "nobody" THEN g.claims[i].by ELSE Counter(g, i)

ResolvedClaim(g, i) ==
  LET c == g.claims[i]
      w == Winner(g, i)
  IN [g EXCEPT
        !.claims[i] = [c EXCEPT !.resolved = TRUE, !.counteredBy = Counter(g, i)],
        !.credit[w] = g.credit[w] + c.bond]

CanResolve(g) ==
  /\ g.status = "IN_PROGRESS"
  /\ g.claims[1].resolved

ResolvedGame(g) ==
  [g EXCEPT !.status = IF g.claims[1].counteredBy = "nobody"
                       THEN "DEFENDER_WINS" ELSE "CHALLENGER_WINS",
            !.resolvedAt = now]

Settled(g) == g.status # "IN_PROGRESS" /\ now - g.resolvedAt > FinalityDelay

-----------------------------------------------------------------------------
(* claimCredit: closes the game, then unlocks, then (after the delay) pays. *)

CanClaimCredit(g, who) ==
  /\ Settled(g)
  /\ \/ g.unlockedAt[who] = 0
     \/ g.credit[who] > 0 /\ now >= g.unlockedAt[who] + UnlockDelay

Credited(g, who) ==
  IF g.unlockedAt[who] = 0 THEN [g EXCEPT !.unlockedAt[who] = now]
                           ELSE [g EXCEPT !.credit[who] = 0]

\* What the second of the two calls sends.
PaidOut(g, who) == IF g.unlockedAt[who] = 0 THEN 0 ELSE g.credit[who]

AnchorAfter(g) ==
  IF g.status = "DEFENDER_WINS" /\ g.block > anchor THEN g.block ELSE anchor

-----------------------------------------------------------------------------
(* OptimismPortal *)

\* InvalidProofTimestamp: not in the block the game was created in.
PastCreation(g) == now > g.created

\* InvalidOutputRootProof: the supplied output preimage must hash to the root.
RootMatches(g, block) == g.root = block

CanProve(g, block) ==
  /\ g.status # "CHALLENGER_WINS"
  /\ PastCreation(g)
  /\ RootMatches(g, block)

CanFinalize(w) ==
  /\ w \notin finalized
  /\ proven[w].game # 0
  /\ now - proven[w].at > ProofMaturity
  /\ LET g == games[proven[w].game] IN g.status = "DEFENDER_WINS" /\ Settled(g)

\* The relayed call runs inside SafeCall: with too little ETH it fails silently
\* and the withdrawal is finalized all the same.
Finalize(w) ==
  /\ finalized' = finalized \cup {w}
  /\ IF portalBal >= Ether
     THEN /\ paid' = paid \cup {w}
          /\ portalBal' = portalBal - Ether /\ dev1' = dev1 + Ether
     ELSE UNCHANGED <<paid, portalBal, dev1>>
=============================================================================
