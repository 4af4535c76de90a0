---------------------------- MODULE WithdrawClaim ----------------------------
(***************************************************************************)
(* tools/op-e2e/withdraw_claim.py (claim, --contest abandoned, --contest    *)
(* dishonest) as run by withdraw_e2e.sh and the contest leg of              *)
(* withdraw_e2e_ephemeral.sh: fund the portal and, if need be, DEV1 on L2,  *)
(* initiate there, wait for the finalized output, build a storage proof,    *)
(* post a dispute game, prove, sit out the clocks, resolve, finalize,       *)
(* recover the bond, and see that the money came and L2 goes on.            *)
(*                                                                         *)
(* A script runs a program, a sequence of phases.  Every RPC read, every    *)
(* simulated call and every transaction is a step of its own, so whatever   *)
(* L1, L2 and another script do may fall between any two of them.  A        *)
(* SystemExit ends the script ("exit", with the reason in why).             *)
(***************************************************************************)
EXTENDS L1Bridge

CONSTANTS
  Programs,        \* which script may run what: each a sequence of [kind, wd]
  ProveBudget,     \* 120 s
  ClockBudget,     \* 360 s
  FinalizeBudget,  \* 600 s
  UnlockBudget,    \* 120 s
  OutputBudget,    \* --wait-finalized 2400 (0 for the dishonest phase)
  HeadroomBudget,  \* 300 s
  L2Funds,         \* what DEV1 may have on L2 at the start
  L2Gas,           \* what a transaction of its may cost there
  Slow,            \* scripts that may be arbitrarily slow, so that a wait of
                   \* theirs may also run out at any time; the others act before
                   \* the L1 clock moves on, and their budgets are measured
  MaxTime,         \* bound on the L1 clock
  MaxL2            \* bound on the L2 chain

Kinds == {"claim", "abandoned", "dishonest"}

ASSUME ProgramAssumption ==
  \A p \in Programs :
    /\ p \in [Scripts -> Seq([kind : Kinds, wd : Withdrawals])]
    /\ \A s \in Scripts : Len(p[s]) > 0

ASSUME BudgetAssumption ==
  /\ {ProveBudget, ClockBudget, FinalizeBudget, UnlockBudget, OutputBudget,
      HeadroomBudget} \subseteq Nat
  /\ L2Funds \subseteq Nat /\ L2Gas \subseteq Nat /\ L2Gas # {}
  /\ Slow \subseteq Scripts
  /\ MaxTime \in Nat
  /\ MaxL2 \in Nat

VARIABLES
  latest,    \* L2 "latest" block
  fin,       \* op-node's finalized_l2
  wdBlock,   \* the L2 block of each withdrawal's MessagePassed, 0 before it
  funds,     \* DEV1's balance on L2
  pending,   \* headroom deposits sent on L1 that L2 has not derived yet
  prog,      \* each script's program
  ph,        \* the phase it is in
  pc,        \* what it does next
  mem,       \* what the phase's processes hold in memory:
             \*   bal  L2_BAL, what DEV1 had on L2
             \*   before  L1_BEFORE, what it had on L1
             \*   out  l2_block, the finalized block whose output it claims
             \*   hdr  the L2 block of the header (then of the proof) it read
             \*   gi   the index of the game it believes it created
             \*   k    how many claims of the phase's order it has resolved
  since,     \* when the wait in progress began
  why        \* the reason of its SystemExit

l2Vars == <<latest, fin, wdBlock, funds, pending>>
scriptVars == <<prog, ph, pc, mem, since, why>>
vars == <<bridgeVars, l2Vars, scriptVars>>

Waits == {"credit", "output", "prove", "oracle", "clock", "fin", "pay"}
Sends == {"create", "prove_send", "attack", "rebut", "clock_send",
          "resolve_send", "fin_send", "unlock_send", "pay_send"}
Labels == Waits \cup Sends \cup
          {"fund", "balance", "headroom", "before", "initiate", "header", "proof", "index",
           "recorded", "check", "delta", "sendoff", "done", "exit"}
Reasons == {"none", "not_credited", "no_funds", "not_finalized", "not_anchored",
            "storage_root", "reverted", "timeout", "fake_root_proved", "unexpected_revert",
            "lifecycle", "ledger", "delta"}

TypeOK ==
  /\ BridgeTypeOK
  /\ latest \in Nat /\ fin \in 0..latest
  /\ wdBlock \in [Withdrawals -> 0..latest]
  /\ funds \in Nat /\ pending \in Nat
  /\ prog \in Programs
  /\ ph \in [Scripts -> Nat]
  /\ \A s \in Scripts : ph[s] \in 1..Len(prog[s])
  /\ pc \in [Scripts -> Labels]
  /\ mem \in [Scripts -> [bal : Nat, before : Int, out : 0..latest, hdr : 0..latest,
                         gi : 0..Len(games), k : Nat]]
  /\ since \in [Scripts -> Nat]
  /\ why \in [Scripts -> Reasons]

Phase(s) == prog[s][ph[s]]
Kind(s) == Phase(s).kind
Wd(s) == Phase(s).wd
Game(s) == games[mem[s].gi]

\* withdraw_e2e.sh funds and initiates; the contest leg only initiates; the
\* dishonest phase reuses the withdrawal of the phase before it.
First(kind) == CASE kind = "claim" -> "fund"
                 [] kind = "abandoned" -> "initiate"
                 [] kind = "dishonest" -> "output"

Blank == [bal |-> 0, before |-> 0, out |-> 0, hdr |-> 0, gi |-> 0, k |-> 0]

Init ==
  /\ BridgeInit
  /\ latest = 0 /\ fin = 0
  /\ wdBlock = [w \in Withdrawals |-> 0]
  /\ funds \in L2Funds /\ pending = 0
  /\ prog \in Programs
  /\ ph = [s \in Scripts |-> 1]
  /\ pc = [s \in Scripts |-> First(prog[s][1].kind)]
  /\ mem = [s \in Scripts |-> Blank]
  /\ since = [s \in Scripts |-> 0]
  /\ why = [s \in Scripts |-> "none"]

-----------------------------------------------------------------------------
(* Control: go on, exit, or move to the next phase. *)

Advance(s, label) ==
  /\ pc' = [pc EXCEPT ![s] = label]
  /\ since' = [since EXCEPT ![s] = IF s \notin Slow /\ label \in Waits THEN now ELSE 0]
  /\ UNCHANGED why

Exit(s, reason) ==
  /\ pc' = [pc EXCEPT ![s] = "exit"]
  /\ mem' = [mem EXCEPT ![s] = [Blank EXCEPT !.bal = mem[s].bal]]
  /\ since' = [since EXCEPT ![s] = 0]
  /\ why' = [why EXCEPT ![s] = reason]

\* Every phase is a process of its own.
EndPhase(s) ==
  /\ mem' = [mem EXCEPT ![s] = Blank]
  /\ IF ph[s] = Len(prog[s])
     THEN Advance(s, "done") /\ UNCHANGED ph
     ELSE /\ Advance(s, First(prog[s][ph[s] + 1].kind))
          /\ ph' = [ph EXCEPT ![s] = @ + 1]

-----------------------------------------------------------------------------
(* L2 side: fund, initiate, read the output and build the proof. *)

TopUpBelowOne(bal) == IF bal < Ether THEN bal + 2 * Ether ELSE bal

TopUp(bal) == IF bal < 2 * Ether THEN bal + 2 * Ether ELSE bal

Fund(s) ==
  /\ pc[s] = "fund"
  /\ portalBal' = TopUp(portalBal)
  /\ Advance(s, "balance")
  /\ UNCHANGED <<now, games, proven, finalized, paid, dev1, anchor, l2Vars,
                 prog, ph, mem>>

\* GAS_HEADROOM_WEI, and what is deposited if DEV1 has less than it on top of the ETH.
Headroom == 100

ReadL2Balance(s) ==
  /\ pc[s] = "balance"
  /\ mem' = [mem EXCEPT ![s].bal = funds]
  /\ Advance(s, IF funds >= Ether + Headroom THEN "before" ELSE "headroom")
  /\ UNCHANGED <<bridgeVars, l2Vars, prog, ph>>

DepositHeadroom(s) ==
  /\ pc[s] = "headroom"
  /\ portalBal' = portalBal + Headroom /\ dev1' = dev1 - Headroom
  /\ pending' = pending + 1
  /\ Advance(s, "credit")
  /\ UNCHANGED <<now, games, proven, finalized, paid, anchor, latest, fin, wdBlock, funds,
                 prog, ph, mem>>

ReadL1Balance(s) ==
  /\ pc[s] = "before"
  /\ mem' = [mem EXCEPT ![s].before = dev1]
  /\ Advance(s, "initiate")
  /\ UNCHANGED <<bridgeVars, l2Vars, prog, ph>>

\* cast refuses a transaction of DEV1's that it cannot pay.
Value(label) == IF label = "initiate" THEN Ether ELSE 1

NoFunds(s) ==
  /\ pc[s] \in {"initiate", "sendoff"} /\ (pc[s] = "initiate" => wdBlock[Wd(s)] = 0)
  /\ \E gas \in L2Gas : funds < Value(pc[s]) + gas
  /\ Exit(s, "no_funds")
  /\ UNCHANGED <<bridgeVars, l2Vars, prog, ph>>

\* A script given the hash of a withdrawal somebody already sent has nothing
\* to initiate.
Initiate(s) ==
  /\ pc[s] = "initiate"
  /\ \/ wdBlock[Wd(s)] # 0 /\ UNCHANGED l2Vars
     \/ /\ wdBlock[Wd(s)] = 0
        /\ \E gas \in L2Gas : funds >= Ether + gas /\ funds' = funds - Ether - gas
        /\ latest' = latest + 1
        /\ wdBlock' = [wdBlock EXCEPT ![Wd(s)] = latest + 1]
        /\ UNCHANGED <<fin, pending>>
  /\ Advance(s, "output")
  /\ UNCHANGED <<bridgeVars, prog, ph, mem>>

\* output_at_finalized polls finalized_l2 and takes the output of the first one
\* at or past the withdrawal.
UnsafeHead == latest
NextHead == latest + 1
OutputHead == fin

ReadOutput(s) ==
  /\ pc[s] = "output"
  /\ wdBlock[Wd(s)] # 0
  /\ OutputHead >= wdBlock[Wd(s)]
  /\ mem' = [mem EXCEPT ![s].out = OutputHead]
  /\ Advance(s, "header")
  /\ UNCHANGED <<bridgeVars, l2Vars, prog, ph>>

NeverExpired(s, budget) == FALSE
Expired(s, budget) == s \notin Slow => now >= since[s] + budget
InTime(s, budget) == s \notin Slow => now < since[s] + budget

WaitFinalized(kind) == IF kind = "dishonest" THEN 0 ELSE OutputBudget

NotFinalized(s) ==
  /\ pc[s] = "output"
  /\ wdBlock[Wd(s)] # 0
  /\ OutputHead < wdBlock[Wd(s)]
  /\ Expired(s, WaitFinalized(Kind(s)))
  /\ Exit(s, "not_finalized")
  /\ UNCHANGED <<bridgeVars, l2Vars, prog, ph>>

\* rpc_inclusion_proof reads the header at "latest" and then, in a second call,
\* the proof at "latest".
ReadHeader(s) ==
  /\ pc[s] = "header"
  /\ mem' = [mem EXCEPT ![s].hdr = latest]
  /\ Advance(s, "proof")
  /\ UNCHANGED <<bridgeVars, l2Vars, prog, ph>>

\* The message passer's storage after block b.
Storage(b) == {w \in Withdrawals : wdBlock[w] \in 1..b}

\* Two anchors: the account proof at the header's state root (every block has
\* its own), and the storage root at the one the finalized output commits to.
ReadProof(s) ==
  /\ pc[s] = "proof"
  /\ IF mem[s].hdr # latest THEN Exit(s, "not_anchored")
     ELSE IF Storage(latest) # Storage(mem[s].out) THEN Exit(s, "storage_root")
     ELSE Advance(s, "create") /\ UNCHANGED mem
  /\ UNCHANGED <<bridgeVars, l2Vars, prog, ph>>

-----------------------------------------------------------------------------
(* What a simulated call, or the transaction that follows it, needs. *)

\* extraData: contest_dishonest claims one block past the output it read.
Root(s) == IF Kind(s) = "dishonest" THEN FakeRoot ELSE mem[s].out
HeadBlock(s) == IF Kind(s) = "dishonest" THEN mem[s].out + 1 ELSE latest
ClaimedBlock(s) == IF Kind(s) = "dishonest" THEN mem[s].out + 1 ELSE mem[s].out

\* Claims are resolved bottom-up.
TopDown(kind) == CASE kind = "claim" -> <<1>>
                   [] kind = "abandoned" -> <<1, 2, 3>>
                   [] kind = "dishonest" -> <<1, 2>>

Order(kind) == CASE kind = "claim" -> <<1>>
                 [] kind = "abandoned" -> <<3, 2, 1>>
                 [] kind = "dishonest" -> <<2, 1>>

ResolveNext(s) == Order(Kind(s))[mem[s].k + 1]

Gate(s) ==
  CASE pc[s] = "credit" -> funds >= mem[s].bal + Headroom
    [] pc[s] = "create" -> CanCreate(Root(s), ClaimedBlock(s))
    [] pc[s] \in {"prove", "prove_send"} ->
         /\ CanProve(Game(s), mem[s].out)
         /\ Wd(s) \in Storage(mem[s].out)
         /\ Storage(mem[s].hdr) = Storage(mem[s].out)
    [] pc[s] = "attack" -> CanAttack(Game(s), 1, Root(s))
    [] pc[s] = "rebut" -> CanAttack(Game(s), 2, Root(s))
    [] pc[s] \in {"clock", "clock_send"} -> CanResolveClaim(Game(s), ResolveNext(s))
    [] pc[s] = "resolve_send" -> CanResolve(Game(s))
    [] pc[s] \in {"fin", "fin_send"} -> CanFinalize(Wd(s))
    [] pc[s] \in {"unlock_send", "pay", "pay_send"} -> CanClaimCredit(Game(s), "proposer")
    [] OTHER -> FALSE

Budget(label) == CASE label = "credit" -> HeadroomBudget
                   [] label = "prove" -> ProveBudget
                   [] label = "oracle" -> ProveBudget
                   [] label = "clock" -> ClockBudget
                   [] label = "fin" -> FinalizeBudget
                   [] label = "pay" -> UnlockBudget

\* c2lib.wait_until: a revert is a wait state, success lets the send follow.  The wait
\* for the headroom is a loop of withdraw_e2e.sh's own.
Gated == {"credit", "prove", "clock", "fin", "pay"}
Then == [credit |-> "before", prove |-> "prove_send", clock |-> "clock_send", fin |-> "fin_send",
         pay |-> "pay_send"]

Poll(s) ==
  /\ pc[s] \in Gated
  /\ InTime(s, Budget(pc[s]))
  /\ Gate(s)
  /\ Advance(s, Then[pc[s]])
  /\ UNCHANGED <<bridgeVars, l2Vars, prog, ph, mem>>

TimedOut(s) ==
  /\ pc[s] \in Gated \cup {"oracle"}
  /\ Expired(s, Budget(pc[s]))
  /\ Exit(s, IF pc[s] = "credit" THEN "not_credited" ELSE "timeout")
  /\ UNCHANGED <<bridgeVars, l2Vars, prog, ph>>

\* cast() exits on any failed transaction.
Reverted(s) ==
  /\ pc[s] \in Sends
  /\ ~Gate(s)
  /\ Exit(s, "reverted")
  /\ UNCHANGED <<bridgeVars, l2Vars, prog, ph>>

\* A transaction of s that succeeds.
Sent(s, label) == pc[s] = label /\ Gate(s)

UpdateGame(s, g) == games' = [games EXCEPT ![mem[s].gi] = g]

-----------------------------------------------------------------------------
(* The dispute game. *)

CreateGame(s) ==
  /\ Sent(s, "create")
  /\ games' = Append(games, NewGame(s, Root(s), ClaimedBlock(s)))
  /\ dev1' = dev1 - InitBond
  /\ Advance(s, "index")
  /\ UNCHANGED <<now, proven, finalized, paid, portalBal, anchor, l2Vars,
                 prog, ph, mem>>

\* gameCount() - 1 and gameAtIndex: a read after the transaction, not its result.  The
\* claim asserts that the game it found is in progress.
LastIndex == Len(games)

ReadIndex(s) ==
  /\ pc[s] = "index"
  /\ IF Kind(s) = "claim" /\ games[LastIndex].status # "IN_PROGRESS"
     THEN Exit(s, "lifecycle")
     ELSE /\ mem' = [mem EXCEPT ![s].gi = LastIndex]
          /\ Advance(s, IF Kind(s) = "dishonest" THEN "oracle" ELSE "prove")
  /\ UNCHANGED <<bridgeVars, l2Vars, prog, ph>>

Prove(s) ==
  /\ Sent(s, "prove_send")
  /\ proven' = [proven EXCEPT ![Wd(s)] = [game |-> mem[s].gi, at |-> now]]
  /\ Advance(s, IF Kind(s) = "abandoned" THEN "attack" ELSE "recorded")
  /\ UNCHANGED <<now, games, finalized, paid, portalBal, dev1, anchor, l2Vars,
                 prog, ph, mem>>

\* lifecycle: the portal's record still names this script's game.
Recorded(s) ==
  /\ pc[s] = "recorded"
  /\ IF proven[Wd(s)].game = mem[s].gi THEN Advance(s, "clock") /\ UNCHANGED mem
                                       ELSE Exit(s, "lifecycle")
  /\ UNCHANGED <<bridgeVars, l2Vars, prog, ph>>

\* contest_dishonest: past the creation block a real proof must die on the root.
Oracle(s) ==
  /\ pc[s] = "oracle"
  /\ InTime(s, Budget(pc[s]))
  /\ PastCreation(Game(s))
  /\ IF Game(s).status = "CHALLENGER_WINS" THEN Exit(s, "unexpected_revert")
     ELSE IF RootMatches(Game(s), mem[s].out) THEN Exit(s, "fake_root_proved")
     ELSE Advance(s, "attack") /\ UNCHANGED mem
  /\ UNCHANGED <<bridgeVars, l2Vars, prog, ph>>

Attack(s) ==
  /\ Sent(s, "attack")
  /\ UpdateGame(s, Attacked(Game(s), 1, "challenger"))
  /\ Advance(s, IF Kind(s) = "abandoned" THEN "rebut" ELSE "clock")
  /\ UNCHANGED <<now, proven, finalized, paid, portalBal, dev1, anchor, l2Vars,
                 prog, ph, mem>>

Rebut(s) ==
  /\ Sent(s, "rebut")
  /\ UpdateGame(s, Attacked(Game(s), 2, "proposer"))
  /\ dev1' = dev1 - RebutBond
  /\ Advance(s, "clock")
  /\ UNCHANGED <<now, proven, finalized, paid, portalBal, anchor, l2Vars,
                 prog, ph, mem>>

ResolveClaim(s) ==
  /\ Sent(s, "clock_send")
  /\ UpdateGame(s, ResolvedClaim(Game(s), ResolveNext(s)))
  /\ mem' = [mem EXCEPT ![s].k = @ + 1]
  /\ Advance(s, IF mem[s].k + 1 = Len(Order(Kind(s))) THEN "resolve_send" ELSE "clock")
  /\ UNCHANGED <<now, proven, finalized, paid, portalBal, dev1, anchor, l2Vars,
                 prog, ph>>

Resolve(s) ==
  /\ Sent(s, "resolve_send")
  /\ UpdateGame(s, ResolvedGame(Game(s)))
  /\ Advance(s, "check")
  /\ UNCHANGED <<now, proven, finalized, paid, portalBal, dev1, anchor, l2Vars,
                 prog, ph, mem>>

\* The status and the bond ledger the phase expects.
LedgerOK(s) ==
  LET g == Game(s) IN
  CASE Kind(s) = "claim" -> g.status = "DEFENDER_WINS"
    [] Kind(s) = "abandoned" ->
         /\ g.status = "DEFENDER_WINS"
         /\ g.credit["proposer"] = InitBond + RootBond + RebutBond
         /\ g.credit["challenger"] = 0
    [] Kind(s) = "dishonest" ->
         /\ g.status = "CHALLENGER_WINS"
         /\ g.credit["challenger"] = InitBond + RootBond
         /\ g.credit["proposer"] = 0

Check(s) ==
  /\ pc[s] = "check"
  /\ IF ~LedgerOK(s) THEN Exit(s, "ledger") /\ UNCHANGED ph
     ELSE IF Kind(s) = "dishonest" THEN EndPhase(s)
     ELSE Advance(s, "fin") /\ UNCHANGED <<ph, mem>>
  /\ UNCHANGED <<bridgeVars, l2Vars, prog>>

-----------------------------------------------------------------------------
(* Finalization and bond recovery. *)

FinalizeWithdrawal(s) ==
  /\ Sent(s, "fin_send")
  /\ Finalize(Wd(s))
  /\ IF Kind(s) = "claim" THEN Advance(s, "unlock_send") /\ UNCHANGED <<ph, mem>>
                          ELSE EndPhase(s)
  /\ UNCHANGED <<now, games, proven, anchor, l2Vars, prog>>

Unlock(s) ==
  /\ Sent(s, "unlock_send")
  /\ UpdateGame(s, Credited(Game(s), "proposer"))
  /\ anchor' = AnchorAfter(Game(s)) /\ dev1' = dev1 + PaidOut(Game(s), "proposer")
  /\ Advance(s, "pay")
  /\ UNCHANGED <<now, proven, finalized, paid, portalBal, l2Vars,
                 prog, ph, mem>>

\* The second claimCredit, and the assertion that the credit is drained.
RecoverBond(s) ==
  /\ Sent(s, "pay_send")
  /\ UpdateGame(s, Credited(Game(s), "proposer"))
  /\ anchor' = AnchorAfter(Game(s)) /\ dev1' = dev1 + PaidOut(Game(s), "proposer")
  /\ Advance(s, "delta")
  /\ UNCHANGED <<now, proven, finalized, paid, portalBal, l2Vars,
                 prog, ph, mem>>

\* withdraw_e2e.sh again: the balance assertion, which leaves 0.01 ETH for gas, and a last
\* transaction on L2.
GasAllowance == 10

CheckDelta(s) ==
  /\ pc[s] = "delta"
  /\ IF dev1 - mem[s].before \in Ether - GasAllowance..Ether
     THEN Advance(s, "sendoff") /\ UNCHANGED mem
     ELSE Exit(s, "delta")
  /\ UNCHANGED <<bridgeVars, l2Vars, prog, ph>>

Sendoff(s) ==
  /\ pc[s] = "sendoff"
  /\ \E gas \in L2Gas : funds >= Value("sendoff") + gas /\ funds' = funds - gas
  /\ latest' = latest + 1
  /\ EndPhase(s)
  /\ UNCHANGED <<bridgeVars, fin, wdBlock, pending, prog>>

-----------------------------------------------------------------------------
(* The chains. *)

\* An L2 block without a withdrawal.
SealBlock ==
  /\ latest < MaxL2
  /\ latest' = latest + 1
  /\ UNCHANGED <<bridgeVars, fin, wdBlock, funds, pending, scriptVars>>

\* op-node derives a headroom deposit, whenever it does.
Derive ==
  /\ pending > 0
  /\ pending' = pending - 1 /\ funds' = funds + Headroom
  /\ latest' = latest + 1
  /\ UNCHANGED <<bridgeVars, fin, wdBlock, scriptVars>>

FinalizeL2 ==
  /\ fin < latest
  /\ fin' = latest
  /\ UNCHANGED <<bridgeVars, latest, wdBlock, funds, pending, scriptVars>>

\* Nothing a script can do before the L1 clock (or the finalized head) moves.
Idle(s) ==
  \/ pc[s] \in {"done", "exit"}
  \/ pc[s] \in Gated /\ InTime(s, Budget(pc[s])) /\ ~Gate(s)
  \/ pc[s] = "oracle" /\ InTime(s, Budget(pc[s])) /\ ~PastCreation(Game(s))
  \/ /\ pc[s] = "output"
     /\ OutputHead < wdBlock[Wd(s)]
     /\ InTime(s, WaitFinalized(Kind(s)))

Tick ==
  /\ now < MaxTime
  /\ \A s \in Scripts \ Slow : Idle(s)
  /\ now' = now + 1
  /\ UNCHANGED <<games, proven, finalized, paid, portalBal, dev1, anchor, l2Vars, scriptVars>>

ScriptStep(s) ==
  \/ Fund(s) \/ ReadL2Balance(s) \/ DepositHeadroom(s) \/ ReadL1Balance(s)
  \/ Initiate(s) \/ NoFunds(s)
  \/ ReadOutput(s) \/ NotFinalized(s) \/ ReadHeader(s) \/ ReadProof(s)
  \/ Poll(s) \/ TimedOut(s) \/ Reverted(s)
  \/ CreateGame(s) \/ ReadIndex(s) \/ Prove(s) \/ Recorded(s) \/ Oracle(s)
  \/ Attack(s) \/ Rebut(s) \/ ResolveClaim(s) \/ Resolve(s) \/ Check(s)
  \/ FinalizeWithdrawal(s) \/ Unlock(s) \/ RecoverBond(s)
  \/ CheckDelta(s) \/ Sendoff(s)

Next ==
  \/ \E s \in Scripts : ScriptStep(s)
  \/ SealBlock
  \/ Derive
  \/ FinalizeL2
  \/ Tick

Spec == Init /\ [][Next]_vars

\* The scripts are running processes and anvil mines on a timer; nothing makes
\* the L2 chain grow, derive a deposit or become final.
Fairness ==
  /\ \A s \in Scripts : WF_vars(ScriptStep(s))
  /\ WF_vars(Tick)

FairSpec == Spec /\ Fairness

-----------------------------------------------------------------------------
(* Properties *)

\* The abstract promise, read off the concrete state.
Promise == INSTANCE BridgePromise WITH
  sent <- {w \in Withdrawals : wdBlock[w] # 0},
  final <- Storage(fin),
  claimed <- finalized,
  received <- paid

\* The claim path keeps the bridge's promise whatever two scripts, the L2 head
\* and its finality do between any two of their calls: nothing is finalized on
\* L1 twice, nor before its L2 block is final, nor paid without being finalized
\* (the script claims the output of a finalized block only).
KeepsPromise == Promise!PromiseSpec

\* gameCount() - 1 is read after the create transaction, so another script's
\* game may be the last one by then.  Uniqueness of (root, block) and the
\* portal's root binding must still keep an honest script off foreign games:
\* once it has proven, every later move is in the game it created.
ProvenIn(s) == pc[s] \in {"attack", "rebut", "clock", "clock_send", "resolve_send",
                         "check", "unlock_send", "pay", "pay_send"}

OwnGame ==
  \A s \in Scripts :
    Kind(s) # "dishonest" /\ ProvenIn(s) => Game(s).owner = s

\* The portal's record of w names a game created before the proof, whose root
\* commits to a finalized block that holds w.
GoodRecord(w) ==
  LET p == proven[w]
      g == games[p.game]
  IN /\ p.game \in 1..Len(games)
     /\ g.created < p.at
     /\ g.root \in 1..fin
     /\ w \in Storage(g.root)

\* A withdrawal may be proven anew against another game while an earlier proof
\* matures; the portal's record must always point to a game created before the
\* proof was, whose root commits to a finalized block holding the withdrawal.
ProvenIsFinal == \A w \in Withdrawals : proven[w].game # 0 => GoodRecord(w)

\* A lane that ends green has moved the money: every withdrawal of its claim and
\* abandoned phases was really paid (the silent inner-call failure of an empty
\* portal leaves finalizedWithdrawals true and every assertion green).
GreenMeansPaid ==
  \A s \in Scripts : pc[s] = "done" =>
    \A i \in 1..Len(prog[s]) :
      prog[s][i].kind # "dishonest" => prog[s][i].wd \in paid

\* With the devnet's compressed clocks a lane that runs alone and does not dawdle
\* exits early for four reasons only: an L2 block between its two "latest" reads, a
\* withdrawal that is not final within --wait-finalized, a headroom deposit that L2 has
\* not credited within its 300 s, and a DEV1 with too little ETH on L2.  The last ends a
\* claim only if DEV1 had less than the ETH itself when its balance was read: the
\* headroom covers the gas of both its transactions.  (The contest reads no balance, and
\* deposits nothing.)  No gate outlasts its budget, no transaction reverts after its
\* simulation passed, no created game collides with an earlier one or with the anchor,
\* every ledger adds up and so does DEV1's balance on L1, and the dishonest phase never
\* has to wait for finality.
OnlyRaceFailures ==
  \A s \in Scripts :
    \/ why[s] \in {"none", "not_anchored"}
    \/ why[s] = "not_finalized" /\ Kind(s) # "dishonest"
    \/ why[s] = "not_credited" /\ Kind(s) = "claim"
    \/ why[s] = "no_funds" /\ (Kind(s) = "claim" => mem[s].bal < Ether)

\* Every lane ends, green or with a reason, even when L2 finality stalls for good:
\* the deadlines of its polling loops are what ends it.
LaneEnds == <>(\A s \in Scripts : pc[s] \in {"done", "exit"})
=============================================================================
