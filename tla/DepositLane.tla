----------------------------- MODULE DepositLane -----------------------------
(***************************************************************************)
(* tools/op-e2e/deposit_e2e.sh: an ETH deposit and two calldata variants go  *)
(* into the portal on L1; the script looks for what op-node derives from     *)
(* them on L2, by polling a balance and by scanning the last blocks.  Runs   *)
(* follow each other on one devnet, and each sends deposits of the same      *)
(* form, so that the properties say whose deposits a verdict rests on.       *)
(*                                                                         *)
(* A block's number, and a deposit's place in the order of L1, stand for     *)
(* them.  op-node derives every deposit once, in the order of L1; L2 does    *)
(* not reorganise.                                                          *)
(***************************************************************************)
EXTENDS Integers, Sequences, FiniteSets

CONSTANTS
  Runs,       \* how many times the script is run
  EthWindow,  \* how far below the tip phase 1 scans: 40
  VarWindow,  \* and phase 2: 80
  Indices,    \* the transactions of a block that a scan looks at: 8
  MaxTip,     \* bound on the L2 chain
  Others,     \* bound on the deposits of other users
  Spends      \* and on DEV1's own transactions on L2, by other scripts

ASSUME DepositAssumption ==
  /\ Runs \in Nat \ {0} /\ Indices \in Nat \ {0}
  /\ EthWindow \in Nat /\ VarWindow \in Nat
  /\ MaxTip \in Nat \ {0} /\ Others \in Nat /\ Spends \in Nat

\* receive() with 1 ETH to DEV1; data to an empty address; an unknown selector to the passer.
Kinds == {"eth", "a", "b"}

Troubles ==
  {"late",      \* the time was up and the deposit was not on L2
   "unsafe",    \* the safe head did not reach the deposit's block in its budget
   "burst",     \* more blocks than a window holds between two looks
   "crowded",   \* a block with more deposits than a scan looks at
   "leftover",  \* an earlier run's ETH deposit was credited after the baseline
   "spent",     \* DEV1 paid for something on L2
   "down"}      \* a call failed

VARIABLES
  l1,       \* the deposits sent, in order: [run, kind], run 0 for other users
  at,       \* of those derived, the L2 block: a sequence along l1
  tip, safe,
  spends,   \* DEV1's own transactions on L2 so far
  run, pc,
  mem,      \* what the run has read: see Fresh
  why,      \* of a red run: the assertion that failed
  trouble

devVars == <<l1, at, tip, safe, spends>>
runVars == <<run, pc, mem, why, trouble>>
vars == <<devVars, runVars>>

Fresh ==
  [credits |-> 0, spends |-> 0,      \* L2_BEFORE, as the credits and the spends in it
   tip0 |-> 0,                       \* TIP0
   born |-> 0, mark |-> 0,           \* the tip when L2_BEFORE was read and when phase 2 began
   looked |-> 0,                     \* the tip at the last look that found nothing
   found |-> [k \in Kinds |-> 0]]    \* the deposits found; 0 is none

Derived == DOMAIN at
Own(k) == {d \in DOMAIN l1 : l1[d].run = run /\ l1[d].kind = k}
Credits == Cardinality({d \in Derived : l1[d].kind = "eth"})

\* Index 0 is the L1-attributes deposit, then come the others in the order of L1.
IndexOf(d) == Cardinality({e \in 1..d : at[e] = at[d]})

Init ==
  /\ l1 = <<>> /\ at = <<>> /\ tip = 1 /\ safe = 0 /\ spends = 0
  /\ run = 1 /\ pc = "before" /\ mem = Fresh /\ why = "none" /\ trouble = {}

----------------------------------------------------------------------------
(* The devnet.                                                               *)

\* A block takes any number of the deposits that are next in the order of L1.
Seal ==
  /\ tip < MaxTip /\ tip' = tip + 1
  /\ \E n \in 0..(Len(l1) - Len(at)) : at' = at \o [i \in 1..n |-> tip + 1]
  /\ UNCHANGED <<l1, safe, spends, runVars>>

\* By any number of blocks, when it is looked at.
AdvanceSafe ==
  /\ pc = "safe" /\ safe' \in (safe + 1)..tip
  /\ UNCHANGED <<l1, at, tip, spends, runVars>>

OtherUser ==
  /\ Cardinality({d \in DOMAIN l1 : l1[d].run = 0}) < Others
  /\ l1' = Append(l1, [run |-> 0, kind |-> "other"])
  /\ UNCHANGED <<at, tip, safe, spends, runVars>>

Spend ==
  /\ spends < Spends /\ spends' = spends + 1
  /\ UNCHANGED <<l1, at, tip, safe, runVars>>

----------------------------------------------------------------------------
(* The script.                                                               *)

Goes(p, m, ts) ==
  pc' = p /\ mem' = m /\ trouble' = trouble \cup ts /\ UNCHANGED <<run, why>>

Red(reason, ts) ==
  pc' = "red" /\ why' = reason /\ trouble' = trouble \cup ts /\ UNCHANGED <<run, mem>>

\* A look that found nothing: another one, or the time is up.
LookAgain(k, p, ts) ==
  \/ Goes(p, [mem EXCEPT !.looked = tip], ts)
  \/ Red(k, ts \cup (IF Own(k) \subseteq Derived THEN {} ELSE {"late"}))

ReadBefore ==
  /\ pc = "before"
  /\ Goes("tip0", [mem EXCEPT !.credits = Credits, !.spends = spends, !.born = tip], {})
  /\ UNCHANGED devVars

\* ReadTip0Next: the scan is to start at the block after the tip.
ReadTip0Next ==
  /\ pc = "tip0" /\ Goes("send", [mem EXCEPT !.tip0 = tip + 1, !.looked = tip], {})
  /\ UNCHANGED devVars

ReadTip0 ==
  /\ pc = "tip0" /\ Goes("send", [mem EXCEPT !.tip0 = tip, !.looked = tip], {})
  /\ UNCHANGED devVars

Deposit(k) == l1' = Append(l1, [run |-> run, kind |-> k]) /\ UNCHANGED <<at, tip, safe, spends>>

SendEth == pc = "send" /\ Deposit("eth") /\ Goes("balance", mem, {})

\* The balance is exactly one ether up, or more: it counts each credit as one
\* ether and each spend as a little less.
Exact == Credits = mem.credits + 1 /\ spends = mem.spends
Excess == Credits > mem.credits + 1

Leftover == \E d \in Derived : l1[d].kind = "eth" /\ l1[d].run # run /\ at[d] > mem.born

LookAtBalance ==
  /\ pc = "balance"
  /\ CASE Excess -> Red("unexpected", IF Leftover THEN {"leftover"} ELSE {})
       [] Exact -> Goes("scan", mem, {})
       [] OTHER -> LookAgain("eth", "balance", IF spends > mem.spends THEN {"spent"} ELSE {})
  /\ UNCHANGED devVars

Larger(m, n) == IF m > n THEN m ELSE n

\* ScanPastTip0: the scan does not stop at TIP0.
ScanPastTip0 == tip - EthWindow

EthFrom == Larger(mem.tip0, tip - EthWindow)

\* VarFromTip: the newest block only.
VarFromTip == tip

VarFrom == Larger(1, tip - VarWindow)

\* The deposits of a kind that a scan from block `from` on finds.
Scanned(k, from) ==
  {d \in Derived : l1[d].kind = k /\ at[d] >= from /\ IndexOf(d) < Indices}

\* Why such a scan may miss the run's own.
Missed(k, window) ==
  {t \in {"burst", "crowded"} :
     \E d \in Derived \cap Own(k) :
       IF t = "burst" THEN at[d] > mem.looked /\ at[d] < tip - window ELSE IndexOf(d) >= Indices}

First(S) == CHOOSE d \in S : \A e \in S : d <= e

Look(k, from, window, there, again) ==
  IF Scanned(k, from) # {}
  THEN Goes(there, [mem EXCEPT !.found[k] = First(Scanned(k, from))], {})
  ELSE LookAgain(k, again, Missed(k, window))

Scan == pc = "scan" /\ Look("eth", EthFrom, EthWindow, "safe", "balance") /\ UNCHANGED devVars

\* The safe head has to reach the block in which the scan has found a deposit.
WaitSafe ==
  /\ pc = "safe"
  /\ IF safe >= at[mem.found["eth"]]
     THEN Goes("variantA", [mem EXCEPT !.mark = tip, !.looked = tip], {})
     ELSE Red("safe", {"unsafe"})
  /\ UNCHANGED devVars

SendVariant ==
  \/ pc = "variantA" /\ Deposit("a") /\ Goes("variantB", mem, {})
  \/ pc = "variantB" /\ Deposit("b") /\ Goes("findA", mem, {})

\* find_deposit, for the one and then for the other.
FindDeposit ==
  /\ \/ pc = "findA" /\ Look("a", VarFrom, VarWindow, "findB", "findA")
     \/ pc = "findB" /\ Look("b", VarFrom, VarWindow, "green", "findB")
  /\ UNCHANGED devVars

\* The polling of phase 1 swallows a call that fails and starts over; nothing else does.
CallFails ==
  /\ \/ /\ pc \in {"before", "tip0", "send", "variantA", "variantB", "findA", "findB"}
        /\ Red("raised", {"down"})
     \/ /\ pc \in {"balance", "scan", "safe"}
        /\ Goes("balance", mem, {"down"}) \/ Red("eth", {"down"})
  /\ UNCHANGED devVars

RunAgain ==
  /\ pc \in {"green", "red"} /\ run < Runs
  /\ run' = run + 1 /\ pc' = "before" /\ mem' = Fresh /\ why' = "none" /\ trouble' = {}
  /\ UNCHANGED devVars

Next ==
  \/ Seal \/ AdvanceSafe \/ OtherUser \/ Spend
  \/ ReadBefore \/ ReadTip0 \/ SendEth \/ LookAtBalance \/ Scan \/ WaitSafe
  \/ SendVariant \/ FindDeposit \/ CallFails \/ RunAgain

Spec == Init /\ [][Next]_vars

----------------------------------------------------------------------------
TypeOK ==
  /\ l1 \in Seq([run : 0..Runs, kind : Kinds \cup {"other"}])
  /\ at \in Seq(1..tip) /\ Len(at) <= Len(l1)
  /\ \A d, e \in Derived : d <= e => at[d] <= at[e]
  /\ tip \in 1..MaxTip /\ safe \in 0..tip /\ spends \in 0..Spends
  /\ run \in 1..Runs
  /\ pc \in {"before", "tip0", "send", "balance", "scan", "safe", "variantA", "variantB",
             "findA", "findB", "green", "red"}
  /\ mem \in [credits : 0..Len(l1), spends : 0..spends, tip0 : 0..tip, born : 0..tip,
             mark : 0..tip, looked : 0..tip, found : [Kinds -> {0} \cup Derived]]
  /\ why \in {"none", "unexpected", "safe", "raised"} \cup Kinds
  /\ trouble \subseteq Troubles

\* An earlier run's deposit that the script cannot tell from its own: of the ETH deposits
\* one in the block of the baseline or derived after it, of a variant one in the window.
InSight(k) ==
  \E d \in Derived : /\ l1[d].kind = k /\ l1[d].run # run
                     /\ at[d] >= IF k = "eth" THEN mem.tip0 ELSE mem.mark - VarWindow

\* A green run means that its own three deposits are on L2, and the ETH deposit safe.  The
\* exact balance and TIP0 see to it for the ETH deposit, the order of L1 and the windows
\* for the variants; unless an earlier run's deposit of the same kind is still in sight.
GreenMeansDerived ==
  pc = "green" =>
    /\ \A k \in Kinds : Own(k) \subseteq Derived \/ InSight(k)
    /\ InSight("eth") \/ \A d \in Own("eth") : at[d] <= safe

Excuses ==
  [unexpected |-> {"leftover"}, safe |-> {"unsafe"},
   eth |-> {"late", "burst", "crowded", "spent", "down"},
   a |-> {"late", "burst", "crowded"}, b |-> {"late", "burst", "crowded"}, raised |-> {"down"}]

\* A red run is no one's doing but the devnet's: a deposit that was there, in a block that a
\* window can hold, at a place that a scan looks at, is found before the budget ends, and
\* no credit but an earlier run's makes the balance exceed what was sent.
RedMeansTrouble == pc = "red" => Excuses[why] \cap trouble # {}
=============================================================================
