-------------------------- MODULE DepositLaneProofs --------------------------
(***************************************************************************)
(* Proofs about DepositLane: any number of runs and of other users'         *)
(* deposits, any windows, a chain of any length.                            *)
(***************************************************************************)
EXTENDS DepositLane, FiniteSetTheorems, WellFoundedInduction, TLAPS

-----------------------------------------------------------------------------
(* The inductive invariant. *)

Phase1 == {"tip0", "send", "balance", "scan", "safe"}
Phase2 == {"variantA", "variantB", "findA", "findB", "green"}

\* Where the run's own deposit of a kind has been sent.
Sent(k) ==
  {"findA", "findB", "green"}
    \cup (IF k = "b" THEN {} ELSE {"variantB"})
    \cup (IF k = "eth" THEN {"balance", "scan", "safe", "variantA"} ELSE {})

\* A run sends one deposit of each kind, the second variant after the first.
One ==
  /\ \A d \in DOMAIN l1 : l1[d].run <= run
  /\ \A k \in Kinds : pc \in Sent(k) => \E d \in DOMAIN l1 : Own(k) = {d}
  /\ \A k \in Kinds : pc \notin Sent(k) \cup {"red"} => Own(k) = {}
  /\ pc \in Sent("b") => \A d \in Own("a"), e \in Own("b") : d < e

\* The run's own ETH deposit comes to L2 after the baseline and after TIP0.
After == \A d \in Own("eth") \cap Derived : at[d] > mem.born /\ at[d] > mem.tip0

\* The baseline counts the credits up to the tip at which it was read.
Old == {d \in Derived : l1[d].kind = "eth" /\ at[d] <= mem.born}
Baseline == pc \in Phase1 => mem.credits = Cardinality(Old)

\* A deposit that was there at the last look was missed for a reason that is on record.
Seen(k) == \E d \in Own(k) \cap Derived : at[d] <= mem.looked
Looked ==
  /\ pc \in Phase1 /\ Seen("eth") => trouble \cap {"burst", "crowded", "spent", "down"} # {}
  /\ pc \in {"variantB", "findA"} /\ Seen("a") => trouble \cap {"burst", "crowded"} # {}
  /\ pc \in {"findA", "findB"} /\ Seen("b") => trouble \cap {"burst", "crowded"} # {}

\* From which block on a deposit of a kind was found.
Sight(k) == IF k = "eth" THEN mem.tip0 ELSE mem.mark - VarWindow

\* What is found is the run's own, or an earlier run's that is in sight.
Found ==
  /\ \A k \in Kinds : mem.found[k] # 0 =>
       /\ mem.found[k] \in Derived /\ l1[mem.found[k]].kind = k
       /\ l1[mem.found[k]].run = run \/ at[mem.found[k]] >= Sight(k)
  /\ pc \in {"before", "tip0"} => mem.found["eth"] = 0
  /\ pc \in {"before"} \cup Phase1 => mem.found["a"] = 0 /\ mem.found["b"] = 0
  /\ pc \in {"safe"} \cup Phase2 => mem.found["eth"] # 0
  /\ pc \in {"findB", "green"} => mem.found["a"] # 0
  /\ pc = "green" => mem.found["b"] # 0
  /\ pc \in Phase2 => at[mem.found["eth"]] <= safe

IInv == TypeOK /\ One /\ After /\ Baseline /\ Looked /\ Found /\ RedMeansTrouble

-----------------------------------------------------------------------------
(* Types. *)

Deposits == [run : 0..Runs, kind : Kinds \cup {"other"}]
Mems(n, s, t, D) ==
  [credits : 0..n, spends : 0..s, tip0 : 0..t, born : 0..t, mark : 0..t, looked : 0..t,
   found : [Kinds -> {0} \cup D]]

\* The shape of L1 and of what is derived from it.
LEMMA Shape ==
  ASSUME TypeOK
  PROVE  /\ l1 \in Seq(Deposits) /\ Len(l1) \in Nat /\ DOMAIN l1 = 1..Len(l1)
         /\ Len(at) \in Nat /\ Derived = 1..Len(at) /\ Derived \subseteq DOMAIN l1
         /\ \A d \in DOMAIN l1 : l1[d] \in Deposits
         /\ \A d \in Derived : at[d] \in 1..tip
         /\ tip \in Nat /\ tip >= 1 /\ run \in Nat /\ run >= 1 /\ run <= Runs
         /\ mem \in Mems(Len(l1), spends, tip, Derived)
<1>1. l1 \in Seq(Deposits) /\ at \in Seq(1..tip) /\ Len(at) <= Len(l1)
  BY DEF TypeOK, Deposits
<1>2. tip \in Nat /\ tip >= 1 /\ run \in Nat /\ run >= 1 /\ run <= Runs
  BY DepositAssumption DEF TypeOK
<1>3. mem \in Mems(Len(l1), spends, tip, Derived)
  BY DEF TypeOK, Mems
<1>4. QED
  BY <1>1, <1>2, <1>3 DEF Derived

\* What is known of a run stays well-formed as the devnet grows.
LEMMA MemsGrow ==
  ASSUME NEW n \in Nat, NEW s \in Nat, NEW t \in Nat, NEW D,
         NEW n2 \in Nat, NEW s2 \in Nat, NEW t2 \in Nat, NEW D2,
         n <= n2, s <= s2, t <= t2, D \subseteq D2,
         NEW m \in Mems(n, s, t, D)
  PROVE  m \in Mems(n2, s2, t2, D2)
<1>1. m.found \in [Kinds -> {0} \cup D2]
  BY DEF Mems
<1>2. /\ m.credits \in 0..n2 /\ m.spends \in 0..s2 /\ m.tip0 \in 0..t2
      /\ m.born \in 0..t2 /\ m.mark \in 0..t2 /\ m.looked \in 0..t2
  BY DEF Mems
<1>3. QED
  BY <1>1, <1>2 DEF Mems

\* The credits on L2 are those of deposits sent.
LEMMA SomeDerived ==
  ASSUME TypeOK, NEW S, S \subseteq Derived
  PROVE  /\ IsFiniteSet(S) /\ Cardinality(S) \in 0..Len(l1)
         /\ S \subseteq Nat /\ \A d \in S : d >= 1
<1>1. Derived = 1..Len(at) /\ Len(at) \in Nat /\ Len(l1) \in Nat /\ Len(at) <= Len(l1)
  BY Shape DEF TypeOK
<1>2. IsFiniteSet(1..Len(at)) /\ Cardinality(1..Len(at)) = Len(at)
  <2>1. ASSUME NEW n \in Nat
        PROVE  IsFiniteSet(1..n) /\ Cardinality(1..n) = n
    <3>1. IsFiniteSet(1..n) /\ Cardinality(1..n) = IF 1 > n THEN 0 ELSE n - 1 + 1
      BY <2>1, FS_Interval
    <3>2. QED
      BY <3>1
  <2>2. QED
    BY <1>1, <2>1
<1>3. IsFiniteSet(S) /\ Cardinality(S) <= Len(at)
  BY <1>1, <1>2, FS_Subset
<1>4. Cardinality(S) \in Nat
  BY <1>3, FS_CardinalityType
<1>5. QED
  BY <1>1, <1>3, <1>4

\* A block adds to what is derived, at the new tip.
LEMMA SealedBlock ==
  ASSUME TypeOK, Seal
  PROVE  /\ at' \in Seq(1..tip') /\ Len(at) <= Len(at') /\ Len(at') <= Len(l1)
         /\ \A d \in Derived : d \in Derived' /\ at'[d] = at[d]
         /\ \A d \in Derived' : d \notin Derived => at'[d] = tip + 1
<1>1. PICK n \in 0..(Len(l1) - Len(at)) : at' = at \o [i \in 1..n |-> tip + 1]
  BY DEF Seal
<1> DEFINE new == [i \in 1..n |-> tip + 1]
<1>2. Len(l1) \in Nat /\ Len(at) \in Nat /\ n \in Nat /\ Len(at) + n <= Len(l1)
  BY <1>1, Shape
<1>3. tip \in Nat /\ tip' = tip + 1 /\ tip >= 1 /\ at \in Seq(1..tip)
  BY Shape DEF Seal, TypeOK
<1>4. new \in Seq(1..(tip + 1)) /\ Len(new) = n /\ \A i \in 1..n : new[i] = tip + 1
  BY <1>2, <1>3
<1>5. at \in Seq(1..(tip + 1))
  BY <1>3
<1> HIDE DEF new
<1>6. /\ at' \in Seq(1..(tip + 1)) /\ Len(at') = Len(at) + n
      /\ \A d \in 1..Len(at) : at'[d] = at[d]
      /\ \A i \in 1..n : at'[Len(at) + i] = new[i]
  BY <1>1, <1>2, <1>4, <1>5 DEF new
<1>7. Derived = 1..Len(at) /\ Derived' = 1..(Len(at) + n)
  BY <1>3, <1>6 DEF Derived
<1>8. ASSUME NEW d \in Derived', d \notin Derived
      PROVE  at'[d] = tip + 1
  <2>1. d - Len(at) \in 1..n /\ d = Len(at) + (d - Len(at))
    BY <1>2, <1>7, <1>8
  <2>2. QED
    BY <1>4, <1>6, <2>1
<1>9. QED
  BY <1>2, <1>3, <1>6, <1>7, <1>8

\* A deposit goes to the end of L1.
LEMMA Appended ==
  ASSUME TypeOK, NEW r \in Deposits, l1' = Append(l1, r)
  PROVE  /\ l1' \in Seq(Deposits) /\ Len(l1') = Len(l1) + 1
         /\ DOMAIN l1' = DOMAIN l1 \cup {Len(l1) + 1} /\ Len(l1) + 1 \notin DOMAIN l1
         /\ \A d \in DOMAIN l1 : l1'[d] = l1[d]
         /\ l1'[Len(l1) + 1] = r
<1>1. l1 \in Seq(Deposits) /\ Len(l1) \in Nat /\ DOMAIN l1 = 1..Len(l1)
  BY Shape
<1>2. QED
  BY <1>1

\* A step of the script that leaves the devnet alone.
Script ==
  ReadBefore \/ ReadTip0 \/ LookAtBalance \/ Scan \/ WaitSafe \/ FindDeposit \/ CallFails

\* The first of a set of deposits is one of them.
LEMMA FirstOf ==
  ASSUME NEW S, S \subseteq Nat, S # {}
  PROVE  First(S) \in S
<1> DEFINE R == OpToRel(<, Nat)
<1>1. IsWellFoundedOn(R, Nat)
  BY NatLessThanWellFounded
<1>2. \A x, y \in Nat : y < x => <<y, x>> \in R
  BY DEF OpToRel
<1> HIDE DEF R
<1>3. PICK x \in S : \A y \in S : <<y, x>> \notin R
  BY <1>1, WFMin
<1>4. ASSUME NEW y \in S
      PROVE  x <= y
  <2>1. x \in Nat /\ y \in Nat /\ ~(y < x)
    BY <1>2, <1>3
  <2>2. QED
    BY <2>1
<1>5. QED
  BY <1>4 DEF First

\* A scan finds a deposit that is on L2, of the kind, in the window.
LEMMA ScannedLemma ==
  ASSUME TypeOK, NEW k \in Kinds, NEW from, Scanned(k, from) # {}
  PROVE  LET d == First(Scanned(k, from))
         IN  d \in Derived /\ l1[d].kind = k /\ at[d] >= from /\ d # 0
<1>1. Scanned(k, from) \subseteq Derived
  BY DEF Scanned
<1>2. Scanned(k, from) \subseteq Nat /\ \A d \in Scanned(k, from) : d >= 1
  BY <1>1, SomeDerived
<1>3. First(Scanned(k, from)) \in Scanned(k, from)
  BY <1>2, FirstOf
<1>4. QED
  BY <1>2, <1>3 DEF Scanned

\* What a look may do.
LEMMA LookCases ==
  ASSUME TypeOK, NEW k \in Kinds, NEW from, NEW window, NEW there, NEW again,
         Look(k, from, window, there, again)
  PROVE  \/ \E d \in Derived :
              /\ l1[d].kind = k /\ at[d] >= from /\ d # 0
              /\ Goes(there, [mem EXCEPT !.found[k] = d], {})
         \/ /\ Scanned(k, from) = {}
            /\ LookAgain(k, again, Missed(k, window))
BY ScannedLemma DEF Look

-----------------------------------------------------------------------------
(* Type correctness. *)

Pcs == {"before", "tip0", "send", "balance", "scan", "safe", "variantA", "variantB",
        "findA", "findB", "green", "red"}
Whys == {"none", "unexpected", "safe", "raised"} \cup Kinds

LEMMA GoesTypes ==
  ASSUME TypeOK, NEW p \in Pcs, NEW m \in Mems(Len(l1), spends, tip, Derived),
         NEW ts \in SUBSET Troubles, Goes(p, m, ts), UNCHANGED devVars
  PROVE  TypeOK'
BY DEF TypeOK, Goes, devVars, Derived, Pcs, Mems

LEMMA RedTypes ==
  ASSUME TypeOK, NEW reason \in Whys,
         NEW ts \in SUBSET Troubles, Red(reason, ts), UNCHANGED devVars
  PROVE  TypeOK'
BY DEF TypeOK, Red, devVars, Derived, Whys

LEMMA AgainTypes ==
  ASSUME TypeOK, NEW k \in Kinds, NEW p \in Pcs,
         NEW ts \in SUBSET Troubles, LookAgain(k, p, ts), UNCHANGED devVars
  PROVE  TypeOK'
<1>1. CASE Goes(p, [mem EXCEPT !.looked = tip], ts)
  <2>1. [mem EXCEPT !.looked = tip] \in Mems(Len(l1), spends, tip, Derived)
    BY Shape DEF Mems
  <2>2. QED
    BY <1>1, <2>1, GoesTypes
<1>2. CASE Red(k, ts \cup (IF Own(k) \subseteq Derived THEN {} ELSE {"late"}))
  <2>1. k \in Whys /\ ts \cup (IF Own(k) \subseteq Derived THEN {} ELSE {"late"}) \in SUBSET Troubles
    BY DEF Whys, Troubles
  <2>2. QED
    BY <1>2, <2>1, RedTypes
<1>3. QED
  BY <1>1, <1>2 DEF LookAgain

LEMMA LookTypes ==
  ASSUME TypeOK, NEW k \in Kinds, NEW from, NEW window, NEW there \in Pcs, NEW again \in Pcs,
         Look(k, from, window, there, again), UNCHANGED devVars
  PROVE  TypeOK'
<1>1. ASSUME NEW d \in Derived, Goes(there, [mem EXCEPT !.found[k] = d], {})
      PROVE  TypeOK'
  <2>1. [mem EXCEPT !.found[k] = d] \in Mems(Len(l1), spends, tip, Derived)
    BY Shape DEF Mems
  <2>2. QED
    BY <1>1, <2>1, GoesTypes
<1>2. CASE LookAgain(k, again, Missed(k, window))
  <2>1. Missed(k, window) \in SUBSET Troubles
    BY DEF Missed, Troubles
  <2>2. QED
    BY <1>2, <2>1, AgainTypes
<1>3. QED
  BY <1>1, <1>2, LookCases

LEMMA ScriptTypes ==
  ASSUME TypeOK, Script
  PROVE  TypeOK'
<1>1. /\ mem \in Mems(Len(l1), spends, tip, Derived)
      /\ {} \in SUBSET Troubles /\ UNCHANGED devVars
  BY Shape DEF Script, ReadBefore, ReadTip0, LookAtBalance, Scan, WaitSafe, FindDeposit, CallFails
<1>2. tip \in 0..tip /\ spends \in 0..spends
  BY DEF TypeOK
<1>3. CASE ReadBefore
  <2>1. Credits \in 0..Len(l1)
    BY SomeDerived DEF Credits
  <2>2. [mem EXCEPT !.credits = Credits, !.spends = spends, !.born = tip]
          \in Mems(Len(l1), spends, tip, Derived)
    BY <1>1, <1>2, <2>1 DEF Mems
  <2>3. QED
    BY <1>1, <1>3, <2>2, GoesTypes DEF ReadBefore, Pcs
<1>4. CASE ReadTip0
  <2>1. [mem EXCEPT !.tip0 = tip, !.looked = tip] \in Mems(Len(l1), spends, tip, Derived)
    BY <1>1, <1>2 DEF Mems
  <2>2. QED
    BY <1>1, <1>4, <2>1, GoesTypes DEF ReadTip0, Pcs
<1>5. CASE LookAtBalance
  <2>1. (IF Leftover THEN {"leftover"} ELSE {}) \in SUBSET Troubles
    BY DEF Troubles
  <2>2. (IF spends > mem.spends THEN {"spent"} ELSE {}) \in SUBSET Troubles
    BY DEF Troubles
  <2>3. "unexpected" \in Whys /\ "scan" \in Pcs /\ "balance" \in Pcs /\ "eth" \in Kinds
    BY DEF Whys, Pcs, Kinds
  <2>4. QED
    BY <1>1, <1>5, <2>1, <2>2, <2>3, GoesTypes, RedTypes, AgainTypes DEF LookAtBalance
<1>6. CASE Scan
  BY <1>1, <1>6, LookTypes DEF Scan, Pcs, Kinds
<1>7. CASE WaitSafe
  <2>1. [mem EXCEPT !.mark = tip, !.looked = tip] \in Mems(Len(l1), spends, tip, Derived)
    BY <1>1, <1>2 DEF Mems
  <2>2. {"unsafe"} \in SUBSET Troubles /\ "safe" \in Whys /\ "variantA" \in Pcs
    BY DEF Troubles, Whys, Pcs
  <2>3. QED
    BY <1>1, <1>7, <2>1, <2>2, GoesTypes, RedTypes DEF WaitSafe
<1>8. CASE FindDeposit
  BY <1>1, <1>8, LookTypes DEF FindDeposit, Pcs, Kinds
<1>9. CASE CallFails
  <2>1. {"down"} \in SUBSET Troubles /\ "raised" \in Whys /\ "eth" \in Whys /\ "balance" \in Pcs
    BY DEF Troubles, Whys, Pcs, Kinds
  <2>2. QED
    BY <1>1, <1>9, <2>1, GoesTypes, RedTypes DEF CallFails
<1>10. QED
  BY <1>3, <1>4, <1>5, <1>6, <1>7, <1>8, <1>9 DEF Script

\* A step that sends a deposit.
Sends(k, p) == Deposit(k) /\ Goes(p, mem, {})

LEMMA SendsTypes ==
  ASSUME TypeOK, NEW r \in Deposits, l1' = Append(l1, r), UNCHANGED <<at, tip, safe, spends>>,
         run' = run, why' = why, mem' = mem, pc' \in Pcs, trouble' \subseteq Troubles
  PROVE  TypeOK'
<1>1. l1' \in Seq(Deposits) /\ Len(l1') = Len(l1) + 1
  BY Appended
<1>2. mem' \in Mems(Len(l1'), spends, tip, Derived)
  <2>1. Len(l1) \in Nat /\ Len(l1) + 1 \in Nat /\ spends \in Nat /\ tip \in Nat
    BY Shape DEF TypeOK
  <2>2. mem \in Mems(Len(l1) + 1, spends, tip, Derived)
    BY <2>1, Shape, MemsGrow
  <2>3. QED
    BY <1>1, <2>2
<1>3. Len(at') <= Len(l1')
  BY <1>1, Shape DEF TypeOK
<1>4. QED
  BY <1>1, <1>2, <1>3 DEF TypeOK, Derived, Mems, Pcs, Deposits

LEMMA TypeStep ==
  ASSUME TypeOK, [Next]_vars
  PROVE  TypeOK'
<1>1. CASE UNCHANGED vars
  BY <1>1 DEF TypeOK, vars, devVars, runVars, Derived
<1>2. CASE Seal
  <2>1. /\ at' \in Seq(1..tip') /\ Len(at') <= Len(l1') /\ l1' = l1 /\ Derived \subseteq Derived'
        /\ \A d \in Derived : at'[d] = at[d]
        /\ \A d \in Derived' : d \notin Derived => at'[d] = tip + 1
    BY <1>2, SealedBlock DEF Seal
  <2>2. \A d \in Derived : at[d] \in 1..tip /\ d \in Nat
    BY Shape
  <2>3. tip' = tip + 1 /\ tip' \in 1..MaxTip /\ safe' \in 0..tip' /\ spends' \in 0..Spends
    BY <1>2, DepositAssumption DEF Seal, TypeOK, runVars
  <2>4. ASSUME NEW d \in Derived', NEW e \in Derived', d <= e
        PROVE  at'[d] <= at'[e]
    <3>1. Derived = 1..Len(at) /\ Len(at) \in Nat /\ d \in Nat /\ e \in Nat /\ d >= 1
      BY <2>1, Shape DEF Derived
    <3>2. CASE e \in Derived
      <4>1. d \in Derived
        BY <2>4, <3>1, <3>2
      <4>2. at[d] <= at[e]
        BY <2>4, <3>2, <4>1 DEF TypeOK
      <4>3. QED
        BY <2>1, <3>2, <4>1, <4>2
    <3>3. CASE e \notin Derived /\ d \in Derived
      BY <2>1, <2>2, <3>3, Shape
    <3>4. CASE e \notin Derived /\ d \notin Derived
      BY <2>1, <3>4, Shape
    <3>5. QED
      BY <3>2, <3>3, <3>4
  <2>5. mem' \in Mems(Len(l1'), spends', tip', Derived')
    <3>1. Len(l1) \in Nat /\ spends \in Nat /\ tip \in Nat /\ tip' \in Nat /\ tip <= tip'
      BY <2>3, Shape DEF TypeOK
    <3>2. mem' = mem /\ spends' = spends /\ l1' = l1
      BY <1>2 DEF Seal, runVars
    <3>3. mem \in Mems(Len(l1), spends, tip', Derived')
      <4>1. Len(l1) <= Len(l1) /\ spends <= spends /\ mem \in Mems(Len(l1), spends, tip, Derived)
        BY <3>1, Shape
      <4>2. ASSUME NEW t2 \in Nat, NEW D2, tip <= t2, Derived \subseteq D2
            PROVE  mem \in Mems(Len(l1), spends, t2, D2)
        BY <3>1, <4>1, <4>2, MemsGrow
      <4>3. QED
        BY <2>1, <3>1, <4>2
    <3>4. QED
      BY <3>2, <3>3
  <2>6. QED
    BY <1>2, <2>1, <2>3, <2>4, <2>5 DEF TypeOK, Seal, runVars, Mems
<1>3. CASE AdvanceSafe
  <2>1. UNCHANGED <<l1, at, tip, spends, runVars>> /\ safe' \in 0..tip
    BY <1>3 DEF AdvanceSafe, TypeOK
  <2>2. QED
    BY <2>1 DEF TypeOK, runVars, Derived
<1>4. CASE OtherUser
  <2>1. [run |-> 0, kind |-> "other"] \in Deposits
    BY DepositAssumption DEF Deposits
  <2>2. QED
    BY <1>4, <2>1, SendsTypes DEF OtherUser, runVars, TypeOK, Pcs
<1>5. CASE Spend
  <2>1. mem' = mem /\ spends' \in 0..Spends /\ spends <= spends' /\ spends \in Nat /\ spends' \in Nat
    BY <1>5, DepositAssumption DEF Spend, runVars, TypeOK
  <2>2. mem' \in Mems(Len(l1), spends', tip, Derived)
    BY <2>1, Shape, MemsGrow
  <2>3. UNCHANGED <<l1, at, tip, safe, runVars>>
    BY <1>5 DEF Spend
  <2>4. QED
    BY <2>1, <2>2, <2>3 DEF TypeOK, runVars, Derived, Mems
<1>6. CASE Script
  BY <1>6, ScriptTypes
<1>7. ASSUME NEW k \in Kinds, NEW p \in Pcs, Sends(k, p)
      PROVE  TypeOK'
  <2>1. [run |-> run, kind |-> k] \in Deposits
    BY DEF Deposits, TypeOK
  <2>2. QED
    BY <1>7, <2>1, SendsTypes DEF Sends, Deposit, Goes, TypeOK
<1>8. CASE SendEth \/ SendVariant
  BY <1>7, <1>8 DEF SendEth, SendVariant, Sends, Pcs, Kinds
<1>9. CASE RunAgain
  <2>1. Fresh \in Mems(Len(l1), spends, tip, Derived)
    <3>1. 0 \in 0..Len(l1) /\ 0 \in 0..spends /\ 0 \in 0..tip
      BY Shape DEF TypeOK
    <3>2. QED
      BY <3>1 DEF Fresh, Mems
  <2>2. UNCHANGED devVars /\ run' \in 1..Runs
    BY <1>9, DepositAssumption DEF RunAgain, TypeOK
  <2>3. QED
    BY <1>9, <2>1, <2>2 DEF TypeOK, RunAgain, devVars, Derived, Mems
<1>10. QED
  BY <1>1, <1>2, <1>3, <1>4, <1>5, <1>6, <1>8, <1>9 DEF Next, Script

LEMMA TypeInit == Init => TypeOK
<1>1. SUFFICES ASSUME Init PROVE TypeOK
  OBVIOUS
<1>2. l1 = <<>> /\ at = <<>> /\ Len(l1) = 0 /\ Len(at) = 0 /\ Derived = {}
  BY <1>1 DEF Init, Derived
<1>3. Fresh \in Mems(Len(l1), 0, 1, Derived)
  BY <1>2 DEF Fresh, Mems
<1>4. QED
  BY <1>1, <1>2, <1>3, DepositAssumption DEF Init, TypeOK, Mems

\* The types of the deposit lane hold in every state: the properties read at, l1 and what
\* the script has found as sequences along the order of L1.
THEOREM TypeCorrect == Spec => []TypeOK
<1>1. TypeOK /\ [Next]_vars => TypeOK'
  BY TypeStep
<1>2. QED
  BY <1>1, TypeInit, PTL DEF Spec

-----------------------------------------------------------------------------
(* A run's own deposits. *)

Of(L, r, k) == {d \in DOMAIN L : L[d].run = r /\ L[d].kind = k}

LEMMA OwnOf ==
  ASSUME NEW k
  PROVE  Own(k) = Of(l1, run, k) /\ Own(k)' = Of(l1', run', k)
BY DEF Own, Of

\* A script's step sends nothing, and stays on the same side of what is sent.
LEMMA ScriptMoves ==
  ASSUME TypeOK, Script
  PROVE  /\ UNCHANGED devVars /\ run' = run /\ pc \notin {"green", "red"}
         /\ pc' # "red" =>
              /\ pc' # "before"
              /\ \A k \in Kinds : pc' \in Sent(k) <=> pc \in Sent(k)
<1>1. Script => UNCHANGED devVars /\ run' = run /\ pc \notin {"green", "red"}
  BY DEF Script, ReadBefore, ReadTip0, LookAtBalance, Scan, WaitSafe, FindDeposit, CallFails,
         Goes, Red, Look, LookAgain
<1>2. ASSUME pc' # "red"
      PROVE  \/ pc \in {"before", "tip0"} /\ pc' \in {"tip0", "send"}
             \/ pc \in {"balance", "scan", "safe"} /\ pc' \in {"balance", "scan", "safe", "variantA"}
             \/ pc \in {"findA", "findB"} /\ pc' \in {"findA", "findB", "green"}
  BY <1>2 DEF Script, ReadBefore, ReadTip0, LookAtBalance, Scan, WaitSafe, FindDeposit, CallFails,
              Goes, Red, Look, LookAgain
<1>3. ASSUME pc' # "red", NEW k \in Kinds
      PROVE  pc' \in Sent(k) <=> pc \in Sent(k)
  BY <1>2, <1>3 DEF Sent, Kinds
<1>4. QED
  BY <1>1, <1>2, <1>3

\* Where a deposit is sent, it has not been, and the others have or have not.
LEMMA SendMoves ==
  ASSUME SendEth \/ SendVariant
  PROVE  \E k \in Kinds :
           /\ Deposit(k) /\ UNCHANGED <<run, mem, why>> /\ trouble' = trouble
           /\ pc \notin Sent(k) \cup {"red"} /\ pc' \in Sent(k) /\ pc' \notin {"before", "red", "green"}
           /\ \A j \in Kinds \ {k} : pc' \in Sent(j) <=> pc \in Sent(j)
           /\ k = "eth" => pc = "send" /\ pc' = "balance"
           /\ k = "a" => pc = "variantA" /\ pc' = "variantB"
           /\ k = "b" => pc = "variantB" /\ pc' = "findA"
<1>1. CASE SendEth
  <2>1. pc = "send" /\ pc' = "balance" /\ Deposit("eth") /\ Goes("balance", mem, {})
    BY <1>1 DEF SendEth, Goes
  <2>2. QED
    BY <2>1 DEF Goes, Sent, Kinds
<1>2. CASE SendVariant /\ pc = "variantA"
  <2>1. pc = "variantA" /\ pc' = "variantB" /\ Deposit("a") /\ Goes("variantB", mem, {})
    BY <1>2 DEF SendVariant, Goes
  <2>2. QED
    BY <2>1 DEF Goes, Sent, Kinds
<1>3. CASE SendVariant /\ pc = "variantB"
  <2>1. pc = "variantB" /\ pc' = "findA" /\ Deposit("b") /\ Goes("findA", mem, {})
    BY <1>3 DEF SendVariant, Goes
  <2>2. QED
    BY <2>1 DEF Goes, Sent, Kinds
<1>4. QED
  BY <1>1, <1>2, <1>3 DEF SendVariant

\* Sending a deposit adds it to the run's own, of its kind.
LEMMA SendOwn ==
  ASSUME TypeOK, NEW k \in Kinds, Deposit(k), NEW j \in Kinds
  PROVE  Of(l1', run, j) = IF j = k THEN Of(l1, run, j) \cup {Len(l1) + 1} ELSE Of(l1, run, j)
<1>1. [run |-> run, kind |-> k] \in Deposits
  BY DEF Deposits, TypeOK
<1>2. /\ DOMAIN l1' = DOMAIN l1 \cup {Len(l1) + 1} /\ Len(l1) + 1 \notin DOMAIN l1
      /\ \A d \in DOMAIN l1 : l1'[d] = l1[d]
      /\ l1'[Len(l1) + 1] = [run |-> run, kind |-> k]
  BY <1>1, Appended DEF Deposit
<1>3. QED
  BY <1>2 DEF Of

\* Another user's deposit is not the run's own.
LEMMA OtherOwn ==
  ASSUME TypeOK, OtherUser, NEW j \in Kinds
  PROVE  Of(l1', run, j) = Of(l1, run, j)
<1>1. [run |-> 0, kind |-> "other"] \in Deposits
  BY DepositAssumption DEF Deposits
<1>2. /\ DOMAIN l1' = DOMAIN l1 \cup {Len(l1) + 1} /\ Len(l1) + 1 \notin DOMAIN l1
      /\ \A d \in DOMAIN l1 : l1'[d] = l1[d]
      /\ l1'[Len(l1) + 1] = [run |-> 0, kind |-> "other"]
  BY <1>1, Appended DEF OtherUser
<1>3. run # 0
  BY Shape
<1>4. QED
  BY <1>2, <1>3 DEF Of

\* The steps of the devnet leave the run alone, and what is on L1 but for another user's deposit.
Devnet == Seal \/ AdvanceSafe \/ OtherUser \/ Spend \/ UNCHANGED vars

LEMMA DevnetOwn ==
  ASSUME TypeOK, Devnet
  PROVE  /\ UNCHANGED runVars
         /\ \A j \in Kinds : Of(l1', run, j) = Of(l1, run, j)
         /\ DOMAIN l1 \subseteq DOMAIN l1' /\ \A d \in DOMAIN l1 : l1'[d] = l1[d]
         /\ \A d \in DOMAIN l1' \ DOMAIN l1 : l1'[d].run = 0 /\ l1'[d].kind = "other"
<1>1. CASE OtherUser
  <2>1. [run |-> 0, kind |-> "other"] \in Deposits
    BY DepositAssumption DEF Deposits
  <2>2. QED
    BY <1>1, <2>1, Appended, OtherOwn DEF OtherUser
<1>2. CASE Seal \/ AdvanceSafe \/ Spend \/ UNCHANGED vars
  BY <1>2 DEF Seal, AdvanceSafe, Spend, vars, devVars, runVars
<1>3. QED
  BY <1>1, <1>2 DEF Devnet

LEMMA OneStep ==
  ASSUME TypeOK, One, [Next]_vars
  PROVE  One'
<1>1. \A d \in DOMAIN l1 : l1[d].run <= run
  BY DEF One
<1>2. /\ \A k \in Kinds : pc \in Sent(k) => \E d \in DOMAIN l1 : Of(l1, run, k) = {d}
      /\ \A k \in Kinds : pc \notin Sent(k) \cup {"red"} => Of(l1, run, k) = {}
      /\ pc \in Sent("b") => \A d \in Of(l1, run, "a"), e \in Of(l1, run, "b") : d < e
  BY OwnOf DEF One, Kinds
<1>3. SUFFICES
        /\ \A d \in DOMAIN l1' : l1'[d].run <= run'
        /\ \A k \in Kinds : pc' \in Sent(k) => \E d \in DOMAIN l1' : Of(l1', run', k) = {d}
        /\ \A k \in Kinds : pc' \notin Sent(k) \cup {"red"} => Of(l1', run', k) = {}
        /\ pc' \in Sent("b") => \A d \in Of(l1', run', "a"), e \in Of(l1', run', "b") : d < e
  BY OwnOf DEF One, Kinds, Sent
<1>4. CASE Devnet
  <2>1. run' = run /\ pc' = pc /\ run >= 0
    BY <1>4, DevnetOwn, Shape DEF runVars
  <2>2. "a" \in Kinds /\ "b" \in Kinds
    BY DEF Kinds
  <2>3. \A d \in DOMAIN l1' : l1'[d].run <= run'
    BY <1>1, <1>4, <2>1, DevnetOwn
  <2>4. QED
    BY <1>2, <1>4, <2>1, <2>2, <2>3, DevnetOwn
<1>5. CASE Script
  <2>1. l1' = l1 /\ run' = run
    BY <1>5, ScriptMoves DEF devVars
  <2>2. pc' = "red" => pc' \notin Sent("a") \cup Sent("b") \cup Sent("eth")
    BY DEF Sent
  <2>3. "a" \in Kinds /\ "b" \in Kinds /\ \A k \in Kinds : k \in {"a", "b", "eth"}
    BY DEF Kinds
  <2>4. QED
    BY <1>1, <1>2, <1>5, <2>1, <2>2, <2>3, ScriptMoves
<1>6. CASE SendEth \/ SendVariant
  <2>1. PICK k \in Kinds :
          /\ Deposit(k) /\ run' = run /\ pc' # "red"
          /\ pc \notin Sent(k) \cup {"red"} /\ pc' \in Sent(k)
          /\ \A j \in Kinds \ {k} : pc' \in Sent(j) <=> pc \in Sent(j)
          /\ k = "eth" => pc = "send" /\ pc' = "balance"
          /\ k = "a" => pc = "variantA" /\ pc' = "variantB"
          /\ k = "b" => pc = "variantB" /\ pc' = "findA"
    BY <1>6, SendMoves
  <2>2. [run |-> run, kind |-> k] \in Deposits
    BY DEF Deposits, TypeOK
  <2>3. /\ DOMAIN l1' = DOMAIN l1 \cup {Len(l1) + 1} /\ Len(l1) \in Nat /\ DOMAIN l1 = 1..Len(l1)
        /\ \A d \in DOMAIN l1 : l1'[d] = l1[d]
        /\ l1'[Len(l1) + 1] = [run |-> run, kind |-> k]
    BY <2>1, <2>2, Appended, Shape DEF Deposit
  <2>4. \A d \in DOMAIN l1' : l1'[d].run <= run'
    BY <1>1, <2>1, <2>3, Shape
  <2>5. ASSUME NEW j \in Kinds, pc' \in Sent(j)
        PROVE  \E d \in DOMAIN l1' : Of(l1', run', j) = {d}
    <3>1. CASE j = k
      BY <1>2, <2>1, <2>3, <3>1, SendOwn
    <3>2. CASE j # k
      BY <1>2, <2>1, <2>3, <2>5, <3>2, SendOwn
    <3>3. QED
      BY <3>1, <3>2
  <2>6. ASSUME NEW j \in Kinds, pc' \notin Sent(j) \cup {"red"}
        PROVE  Of(l1', run', j) = {}
    BY <1>2, <2>1, <2>6, SendOwn
  <2>7. ASSUME pc' \in Sent("b"), NEW d \in Of(l1', run', "a"), NEW e \in Of(l1', run', "b")
        PROVE  d < e
    <3>1. k = "b"
      BY <2>1, <2>7 DEF Sent, Kinds
    <3>2. d \in Of(l1, run, "a") /\ Of(l1, run, "b") = {}
      BY <1>2, <2>1, <2>7, <3>1, SendOwn DEF Kinds
    <3>3. e = Len(l1) + 1 /\ d \in 1..Len(l1)
      BY <2>1, <2>3, <2>7, <3>1, <3>2, SendOwn DEF Of
    <3>4. QED
      BY <2>3, <3>3
  <2>8. QED
    BY <2>4, <2>5, <2>6, <2>7
<1>7. CASE RunAgain
  <2>1. l1' = l1 /\ run' = run + 1 /\ pc' = "before"
    BY <1>7 DEF RunAgain, devVars
  <2>2. \A d \in DOMAIN l1 : l1[d].run \in Nat /\ l1[d].run < run + 1
    BY <1>1, Shape, DepositAssumption DEF Deposits
  <2>3. \A k : Of(l1', run', k) = {}
    BY <2>1, <2>2, Shape DEF Of
  <2>4. \A k : "before" \notin Sent(k)
    BY DEF Sent
  <2>5. \A d \in DOMAIN l1' : l1'[d].run <= run'
    BY <2>1, <2>2, Shape
  <2>6. QED
    BY <2>1, <2>3, <2>4, <2>5
<1>8. QED
  BY <1>4, <1>5, <1>6, <1>7 DEF Next, Script, Devnet

-----------------------------------------------------------------------------
(* What is derived, and when. *)

\* What has been derived stays where it is; what a step adds is at the new tip.
LEMMA Grows ==
  ASSUME TypeOK, [Next]_vars
  PROVE  /\ \A d \in Derived : d \in DOMAIN at' /\ at'[d] = at[d] /\ l1'[d] = l1[d]
         /\ \A d \in DOMAIN at' : d \notin Derived => at'[d] = tip + 1
         /\ safe' >= safe
<1>1. safe \in Nat /\ Derived \subseteq DOMAIN l1
  BY Shape DEF TypeOK
<1>2. CASE Seal
  BY <1>1, <1>2, SealedBlock DEF Seal, Derived
<1>3. CASE AdvanceSafe
  BY <1>1, <1>3 DEF AdvanceSafe, Derived, TypeOK
<1>4. CASE OtherUser
  <2>1. at' = at /\ safe' = safe
    BY <1>4 DEF OtherUser
  <2>2. QED
    BY <1>1, <1>4, <2>1, DevnetOwn DEF Devnet, Derived
<1>5. CASE Spend \/ UNCHANGED vars \/ RunAgain
  BY <1>1, <1>5 DEF Spend, vars, devVars, RunAgain, Derived
<1>6. CASE Script
  BY <1>1, <1>6, ScriptMoves DEF devVars, Derived
<1>7. CASE SendEth \/ SendVariant
  <2>1. PICK k \in Kinds : Deposit(k)
    BY <1>7, SendMoves
  <2>2. [run |-> run, kind |-> k] \in Deposits
    BY DEF Deposits, TypeOK
  <2>3. \A d \in DOMAIN l1 : l1'[d] = l1[d]
    BY <2>1, <2>2, Appended DEF Deposit
  <2>4. QED
    BY <1>1, <2>1, <2>3 DEF Deposit, Derived
<1>8. QED
  BY <1>2, <1>3, <1>4, <1>5, <1>6, <1>7 DEF Next, Script

\* Past the baseline and TIP0 the script does not read them again.
LEMMA ScriptMem ==
  ASSUME TypeOK, Script, pc \notin {"before", "tip0"}
  PROVE  mem'.born = mem.born /\ mem'.tip0 = mem.tip0 /\ mem'.credits = mem.credits
<1>1. mem \in Mems(Len(l1), spends, tip, Derived)
  BY Shape
<1>2. ASSUME NEW k \in Kinds, NEW from, NEW window, NEW there, NEW again,
             Look(k, from, window, there, again)
      PROVE  mem'.born = mem.born /\ mem'.tip0 = mem.tip0 /\ mem'.credits = mem.credits
  BY <1>1, <1>2 DEF Look, LookAgain, Goes, Red, Mems
<1>3. CASE LookAtBalance
  BY <1>1, <1>3 DEF LookAtBalance, LookAgain, Goes, Red, Mems
<1>4. CASE Scan \/ FindDeposit
  BY <1>2, <1>4 DEF Scan, FindDeposit, Kinds
<1>5. CASE WaitSafe \/ CallFails
  BY <1>1, <1>5 DEF WaitSafe, CallFails, Goes, Red, Mems
<1>6. QED
  BY <1>3, <1>4, <1>5 DEF Script, ReadBefore, ReadTip0

LEMMA AfterStep ==
  ASSUME TypeOK, One, One', After, [Next]_vars
  PROVE  After'
<1>1. /\ \A d \in Derived : at[d] \in 1..tip
      /\ \A d \in Derived : d \in DOMAIN at' /\ at'[d] = at[d]
      /\ \A d \in DOMAIN at' : d \notin Derived => at'[d] = tip + 1
  BY Shape, Grows
<1>2. mem.born \in 0..tip /\ mem.tip0 \in 0..tip /\ tip \in Nat
  BY Shape DEF Mems
<1>3. \A d \in Of(l1, run, "eth") \cap Derived : at[d] > mem.born /\ at[d] > mem.tip0
  BY OwnOf DEF After
<1>4. SUFFICES ASSUME NEW d \in Of(l1', run', "eth"), d \in DOMAIN at'
               PROVE  at'[d] > mem'.born /\ at'[d] > mem'.tip0
  BY OwnOf DEF After, Derived
<1>5. "eth" \in Kinds
  BY DEF Kinds
<1>6. CASE Devnet
  BY <1>1, <1>2, <1>3, <1>4, <1>5, <1>6, DevnetOwn DEF runVars
<1>7. CASE Script
  <2>1. l1' = l1 /\ at' = at /\ run' = run /\ pc # "red"
    BY <1>7, ScriptMoves DEF devVars, Script, ReadBefore, ReadTip0, LookAtBalance, Scan, WaitSafe,
                             FindDeposit, CallFails
  <2>2. CASE pc \in {"before", "tip0"}
    <3>1. pc \notin Sent("eth") \cup {"red"}
      BY <2>2 DEF Sent
    <3>2. QED
      BY <1>4, <1>5, <2>1, <3>1, OwnOf DEF One
  <2>3. CASE pc \notin {"before", "tip0"}
    BY <1>3, <1>4, <1>7, <2>1, <2>3, ScriptMem DEF Derived
  <2>4. QED
    BY <2>2, <2>3
<1>8. CASE SendEth \/ SendVariant
  <2>1. PICK k \in Kinds : Deposit(k) /\ UNCHANGED <<run, mem>>
    BY <1>8, SendMoves
  <2>2. at' = at /\ Len(l1) + 1 \notin Derived
    BY <2>1, Shape DEF Deposit
  <2>3. d \in Of(l1, run, "eth") \cap Derived
    BY <1>4, <1>5, <2>1, <2>2, SendOwn DEF Derived
  <2>4. QED
    BY <1>3, <2>1, <2>2, <2>3
<1>9. CASE RunAgain
  <2>1. pc' \notin Sent("eth") \cup {"red"}
    BY <1>9 DEF RunAgain, Sent
  <2>2. QED
    BY <1>4, <1>5, <2>1, OwnOf DEF One
<1>10. QED
  BY <1>6, <1>7, <1>8, <1>9 DEF Next, Script, Devnet

LEMMA BaselineStep ==
  ASSUME TypeOK, Baseline, [Next]_vars
  PROVE  Baseline'
<1>1. /\ \A d \in Derived : at[d] \in 1..tip
      /\ \A d \in Derived : d \in DOMAIN at' /\ at'[d] = at[d] /\ l1'[d] = l1[d]
      /\ \A d \in DOMAIN at' : d \notin Derived => at'[d] = tip + 1
  BY Shape, Grows
<1>2. mem.born \in 0..tip /\ tip \in Nat
  BY Shape DEF Mems
<1> DEFINE New == {d \in DOMAIN at' : l1'[d].kind = "eth" /\ at'[d] <= mem'.born}
<1>3. mem'.born = mem.born => New = Old
  BY <1>1, <1>2 DEF Old
<1>4. SUFFICES ASSUME pc' \in Phase1 PROVE mem'.credits = Cardinality(New)
  BY DEF Baseline, Old, Derived
<1>5. CASE ReadBefore
  <2>1. /\ UNCHANGED devVars
        /\ mem' = [mem EXCEPT !.credits = Credits, !.spends = spends, !.born = tip]
    BY <1>5 DEF ReadBefore, Goes
  <2>2. mem'.credits = Credits /\ mem'.born = tip
    BY <2>1, Shape DEF Mems
  <2>3. New = {d \in Derived : l1[d].kind = "eth"}
    BY <1>1, <2>1, <2>2 DEF devVars, Derived
  <2>4. QED
    BY <2>2, <2>3 DEF Credits
<1>6. CASE pc \in Phase1 /\ mem'.born = mem.born /\ mem'.credits = mem.credits
  BY <1>3, <1>6 DEF Baseline
<1>7. CASE Devnet
  BY <1>4, <1>6, <1>7, DevnetOwn DEF runVars
<1>8. CASE ReadTip0
  <2>1. mem' = [mem EXCEPT !.tip0 = tip, !.looked = tip] /\ pc \in Phase1
    BY <1>8 DEF ReadTip0, Goes, Phase1
  <2>2. QED
    BY <1>6, <2>1, Shape DEF Mems
<1>9. CASE Script /\ ~ReadBefore /\ ~ReadTip0
  <2>1. CASE pc \in {"before", "tip0"}
    BY <1>4, <1>9, <2>1 DEF Script, LookAtBalance, Scan, WaitSafe, FindDeposit, CallFails, Red, Phase1
  <2>2. CASE pc \notin {"before", "tip0"}
    <3>1. pc \in Phase1
      BY <1>4, <1>9, <2>2 DEF Script, LookAtBalance, Scan, WaitSafe, FindDeposit, CallFails, Red,
                                Goes, Look, LookAgain, Phase1
    <3>2. QED
      BY <1>6, <1>9, <2>2, <3>1, ScriptMem
  <2>3. QED
    BY <2>1, <2>2
<1>10. CASE SendEth \/ SendVariant
  <2>1. mem' = mem /\ pc \in Phase1
    BY <1>4, <1>10, SendMoves DEF Phase1, SendEth, SendVariant, Goes
  <2>2. QED
    BY <1>6, <2>1
<1>11. CASE RunAgain
  BY <1>4, <1>11 DEF RunAgain, Phase1
<1>12. QED
  BY <1>5, <1>7, <1>8, <1>9, <1>10, <1>11 DEF Next, Script, Devnet

-----------------------------------------------------------------------------
(* What the balance tells. *)

Since == {d \in Derived : l1[d].kind = "eth" /\ at[d] > mem.born}

\* The credits are those of the baseline and those derived since.
LEMMA CreditsSplit ==
  ASSUME TypeOK
  PROVE  /\ Cardinality(Old) \in Nat /\ Cardinality(Since) \in Nat /\ IsFiniteSet(Since)
         /\ Credits = Cardinality(Old) + Cardinality(Since)
<1> DEFINE E == {d \in Derived : l1[d].kind = "eth"}
<1>1. mem.born \in 0..tip /\ \A d \in Derived : at[d] \in 1..tip
  BY Shape DEF Mems
<1>2. Old \subseteq Derived /\ Since \subseteq Derived
  BY DEF Old, Since
<1>3. IsFiniteSet(Old) /\ IsFiniteSet(Since)
  BY <1>2, SomeDerived
<1>4. Cardinality(Old) \in Nat /\ Cardinality(Since) \in Nat
  BY <1>3, FS_CardinalityType
<1>5. E = Old \cup Since /\ Old \cap Since = {}
  BY <1>1 DEF Old, Since
<1>6. Cardinality(Old \cup Since) = Cardinality(Old) + Cardinality(Since) - Cardinality(Old \cap Since)
  BY <1>3, FS_Union
<1>7. Cardinality({}) = 0
  BY FS_EmptySet
<1>8. Credits = Cardinality(Old \cup Since) /\ Cardinality(Old \cap Since) = 0
  BY <1>5, <1>7 DEF Credits
<1>9. QED
  BY <1>3, <1>4, <1>6, <1>8

\* More than one credit since the baseline is not the run's own doing.
LEMMA ExcessIsLeftover ==
  ASSUME TypeOK, One, Baseline, pc = "balance", Excess
  PROVE  Leftover
<1>1. mem.credits = Cardinality(Old)
  BY DEF Baseline, Phase1
<1>2. Cardinality(Since) \in Nat /\ Cardinality(Since) > 1
  BY <1>1, CreditsSplit DEF Excess
<1>3. PICK o : Own("eth") = {o}
  BY DEF One, Sent, Kinds
<1>4. IsFiniteSet({o}) /\ Cardinality({o}) = 1
  BY FS_Singleton
<1>5. ~(Since \subseteq {o})
  <2>1. SUFFICES ASSUME Since \subseteq {o} PROVE FALSE
    OBVIOUS
  <2>2. Cardinality(Since) <= Cardinality({o})
    BY <1>4, <2>1, FS_Subset
  <2>3. QED
    BY <1>2, <1>4, <2>2
<1>6. PICK d \in Since : d \notin Own("eth")
  BY <1>3, <1>5
<1>7. d \in DOMAIN l1
  BY <1>6, Shape DEF Since
<1>8. QED
  BY <1>6, <1>7 DEF Leftover, Since, Own

\* A balance that is still short of its ether, with nothing spent, has not had the run's own.
LEMMA ShortMeansAway ==
  ASSUME TypeOK, After, Baseline, pc = "balance", ~Excess, ~Exact, ~(spends > mem.spends)
  PROVE  Own("eth") \cap Derived = {}
<1>1. SUFFICES ASSUME NEW d \in Own("eth") \cap Derived PROVE FALSE
  OBVIOUS
<1>2. mem.credits = Cardinality(Old)
  BY DEF Baseline, Phase1
<1>3. d \in Since
  BY DEF Since, Own, After
<1>4. Cardinality(Since) \in Nat /\ Cardinality(Since) # 0
  BY <1>3, CreditsSplit, FS_EmptySet
<1>5. mem.spends \in 0..spends /\ spends \in Nat
  BY Shape DEF Mems, TypeOK
<1>6. QED
  BY <1>2, <1>4, <1>5, CreditsSplit DEF Excess, Exact

-----------------------------------------------------------------------------
(* What a look misses. *)

\* A deposit that is on L2 and that a look does not find was there before the last look,
\* or its block or its place in it is out of the look's reach.
LEMMA MissedLemma ==
  ASSUME TypeOK, NEW k \in Kinds, NEW low \in Int, NEW window \in Nat, NEW from,
         from = Larger(low, tip - window), Scanned(k, from) = {},
         NEW d \in Own(k) \cap Derived, at[d] >= low
  PROVE  Missed(k, window) \cap {"burst", "crowded"} # {} \/ Seen(k)
<1>1. at[d] \in Nat /\ tip \in Nat /\ tip - window \in Int /\ mem.looked \in Nat
  BY Shape DEF Mems
<1>2. IndexOf(d) \in Nat /\ Indices \in Nat
  <2>1. {e \in 1..d : at[e] = at[d]} \subseteq Derived
    BY Shape
  <2>2. QED
    BY <2>1, SomeDerived, Shape, DepositAssumption DEF IndexOf
<1>3. ~(at[d] >= from) \/ ~(IndexOf(d) < Indices)
  BY DEF Scanned, Own
<1>4. CASE ~(IndexOf(d) < Indices)
  <2>1. "crowded" \in Missed(k, window)
    BY <1>2, <1>4 DEF Missed
  <2>2. QED
    BY <2>1
<1>5. CASE ~(at[d] >= from)
  <2>1. at[d] < tip - window
    BY <1>1, <1>5 DEF Larger
  <2>2. CASE at[d] > mem.looked
    <3>1. "burst" \in Missed(k, window)
      BY <2>1, <2>2 DEF Missed
    <3>2. QED
      BY <3>1
  <2>3. CASE ~(at[d] > mem.looked)
    BY <1>1, <2>3 DEF Seen
  <2>4. QED
    BY <2>2, <2>3
<1>6. QED
  BY <1>3, <1>4, <1>5

\* What is on record, or is put there, when a look of each phase finds nothing.
LEMMA ScanMissed ==
  ASSUME TypeOK, After, Looked, pc = "scan", Scanned("eth", EthFrom) = {},
         Own("eth") \cap Derived # {}
  PROVE  (trouble \cup Missed("eth", EthWindow)) \cap {"burst", "crowded", "spent", "down"} # {}
<1>1. PICK d \in Own("eth") \cap Derived : TRUE
  OBVIOUS
<1>2. at[d] \in Nat /\ mem.tip0 \in Nat /\ EthWindow \in Nat /\ tip \in Nat
  BY Shape, DepositAssumption DEF Mems
<1>3. at[d] >= mem.tip0
  BY <1>2 DEF After
<1>4. Missed("eth", EthWindow) \cap {"burst", "crowded"} # {} \/ Seen("eth")
  BY <1>2, <1>3, MissedLemma DEF EthFrom, Kinds
<1>5. QED
  BY <1>4 DEF Looked, Phase1

LEMMA FindMissed ==
  ASSUME TypeOK, Looked, NEW k \in {"a", "b"}, k = "a" => pc = "findA", k = "b" => pc = "findB",
         Scanned(k, VarFrom) = {}, Own(k) \cap Derived # {}
  PROVE  (trouble \cup Missed(k, VarWindow)) \cap {"burst", "crowded"} # {}
<1>1. PICK d \in Own(k) \cap Derived : TRUE
  OBVIOUS
<1>2. at[d] >= 1 /\ VarWindow \in Nat
  BY Shape, DepositAssumption
<1>3. Missed(k, VarWindow) \cap {"burst", "crowded"} # {} \/ Seen(k)
  BY <1>2, MissedLemma DEF VarFrom, Kinds
<1>4. QED
  BY <1>3 DEF Looked

LEMMA ExcusesAre ==
  /\ Excuses["unexpected"] = {"leftover"} /\ Excuses["safe"] = {"unsafe"}
  /\ Excuses["eth"] = {"late", "burst", "crowded", "spent", "down"}
  /\ Excuses["a"] = {"late", "burst", "crowded"} /\ Excuses["b"] = {"late", "burst", "crowded"}
  /\ Excuses["raised"] = {"down"}
BY DEF Excuses

-----------------------------------------------------------------------------
(* The record of missed looks. *)

LEMMA SeenOf ==
  ASSUME NEW k
  PROVE  /\ Seen(k) <=> \E d \in Of(l1, run, k) \cap Derived : at[d] <= mem.looked
         /\ Seen(k)' <=> \E d \in Of(l1', run', k) \cap DOMAIN at' : at'[d] <= mem'.looked
BY OwnOf DEF Seen, Derived

\* A step that neither looks nor sends leaves what has been seen as it was.
LEMMA SeenSame ==
  ASSUME TypeOK, [Next]_vars, NEW k \in Kinds, mem'.looked = mem.looked,
         Of(l1', run', k) = Of(l1, run, k), Seen(k)'
  PROVE  Seen(k)
<1>1. PICK d \in Of(l1, run, k) \cap DOMAIN at' : at'[d] <= mem.looked
  BY SeenOf
<1>2. mem.looked \in 0..tip /\ tip \in Nat
  BY Shape DEF Mems
<1>3. d \in Derived /\ at'[d] = at[d]
  BY <1>1, <1>2, Grows
<1>4. QED
  BY <1>1, <1>3, SeenOf

\* The first variant is on L2 where the second is.
LEMMA FirstVariant ==
  ASSUME TypeOK, One, pc = "findA", Own("b") \cap Derived # {}
  PROVE  Own("a") \cap Derived # {}
<1>1. PICK d \in Own("b") : d \in Derived
  OBVIOUS
<1>2. PICK e \in DOMAIN l1 : e \in Own("a")
  BY DEF One, Sent, Kinds, Own
<1>3. e < d
  BY <1>1, <1>2 DEF One, Sent
<1>4. e \in Derived
  BY <1>1, <1>2, <1>3, Shape
<1>5. QED
  BY <1>2, <1>4

LEMMA LookedStep ==
  ASSUME TypeOK, One, One', After, Baseline, Looked, [Next]_vars
  PROVE  Looked'
<1>1. mem \in Mems(Len(l1), spends, tip, Derived) /\ "eth" \in Kinds /\ "a" \in Kinds /\ "b" \in Kinds
  BY Shape DEF Kinds
<1>2. CASE /\ mem'.looked = mem.looked /\ trouble \subseteq trouble'
           /\ pc' \in Phase1 => /\ pc \in Phase1 /\ Of(l1', run', "eth") = Of(l1, run, "eth")
           /\ pc' \in {"variantB", "findA"} =>
                pc \in {"variantB", "findA"} /\ Of(l1', run', "a") = Of(l1, run, "a")
           /\ pc' \in {"findA", "findB"} =>
                pc \in {"findA", "findB"} /\ Of(l1', run', "b") = Of(l1, run, "b")
  <2>1. pc' \in Phase1 /\ Seen("eth")' => pc \in Phase1 /\ Seen("eth")
    BY <1>1, <1>2, SeenSame
  <2>2. pc' \in {"variantB", "findA"} /\ Seen("a")' => pc \in {"variantB", "findA"} /\ Seen("a")
    BY <1>1, <1>2, SeenSame
  <2>3. pc' \in {"findA", "findB"} /\ Seen("b")' => pc \in {"findA", "findB"} /\ Seen("b")
    BY <1>1, <1>2, SeenSame
  <2>4. QED
    BY <1>2, <2>1, <2>2, <2>3 DEF Looked
<1>3. ASSUME NEW k \in Kinds, pc' \notin Sent(k) \cup {"red"}
      PROVE  ~Seen(k)'
  BY <1>3, SeenOf, OwnOf DEF One
<1>4. CASE Devnet
  BY <1>1, <1>2, <1>4, DevnetOwn DEF runVars
<1>5. CASE ReadBefore \/ ReadTip0
  <2>1. pc' \in {"tip0", "send"}
    BY <1>5 DEF ReadBefore, ReadTip0, Goes
  <2>2. ~Seen("eth")'
    BY <1>1, <1>3, <2>1 DEF Sent
  <2>3. QED
    BY <2>1, <2>2 DEF Looked
<1>6. ASSUME UNCHANGED devVars, run' = run, NEW k \in Kinds, Seen(k)'
      PROVE  Own(k) \cap Derived # {}
  BY <1>6, SeenOf, OwnOf DEF devVars, Derived
<1>7. CASE LookAtBalance
  <2>1. pc = "balance" /\ UNCHANGED devVars
    BY <1>7 DEF LookAtBalance
  <2>2. CASE Goes("scan", mem, {})
    BY <1>2, <2>1, <2>2 DEF Goes, devVars, Phase1
  <2>3. ASSUME ~Excess, ~Exact,
               Goes("balance", [mem EXCEPT !.looked = tip], IF spends > mem.spends THEN {"spent"} ELSE {})
        PROVE  Looked'
    <3>1. run' = run /\ pc' = "balance" /\ (spends > mem.spends => "spent" \in trouble')
      BY <2>3 DEF Goes
    <3>2. Seen("eth")' => spends > mem.spends
      BY <1>1, <1>6, <2>1, <2>3, <3>1, ShortMeansAway
    <3>3. QED
      BY <3>1, <3>2 DEF Looked
  <2>4. CASE pc' = "red"
    BY <2>4 DEF Looked, Phase1
  <2>5. QED
    BY <1>7, <2>2, <2>3, <2>4 DEF LookAtBalance, LookAgain, Red
<1>8. CASE Scan
  <2>1. UNCHANGED devVars /\ pc = "scan" /\ Look("eth", EthFrom, EthWindow, "safe", "balance")
    BY <1>8 DEF Scan
  <2>2. ASSUME NEW d \in Derived, Goes("safe", [mem EXCEPT !.found["eth"] = d], {})
        PROVE  Looked'
    BY <1>1, <1>2, <2>1, <2>2 DEF Goes, devVars, Phase1, Mems
  <2>3. ASSUME Scanned("eth", EthFrom) = {},
               Goes("balance", [mem EXCEPT !.looked = tip], Missed("eth", EthWindow))
        PROVE  Looked'
    <3>1. run' = run /\ pc' = "balance" /\ trouble' = trouble \cup Missed("eth", EthWindow)
      BY <2>3 DEF Goes
    <3>2. Seen("eth")' => trouble' \cap {"burst", "crowded", "spent", "down"} # {}
      BY <1>1, <1>6, <2>1, <2>3, <3>1, ScanMissed
    <3>3. QED
      BY <3>1, <3>2 DEF Looked
  <2>4. CASE pc' = "red"
    BY <2>4 DEF Looked, Phase1
  <2>5. QED
    BY <1>1, <2>1, <2>2, <2>3, <2>4, LookCases DEF LookAgain, Red
<1>9. CASE WaitSafe
  <2>1. pc' \in {"variantA", "red"}
    BY <1>9 DEF WaitSafe, Goes, Red
  <2>2. QED
    BY <2>1 DEF Looked, Phase1
<1>10. CASE FindDeposit
  <2>1. PICK k \in {"a", "b"}, there \in {"findB", "green"}, again \in {"findA", "findB"} :
          /\ k = "a" => pc = "findA" /\ there = "findB" /\ again = "findA"
          /\ k = "b" => pc = "findB" /\ there = "green" /\ again = "findB"
          /\ Look(k, VarFrom, VarWindow, there, again)
    BY <1>10 DEF FindDeposit
  <2>2. UNCHANGED devVars /\ k \in Kinds
    BY <1>1, <1>10, <2>1 DEF FindDeposit
  <2>3. ASSUME NEW d \in Derived, Goes(there, [mem EXCEPT !.found[k] = d], {})
        PROVE  Looked'
    <3>1. mem'.looked = mem.looked /\ pc' = there /\ run' = run /\ trouble \subseteq trouble'
      BY <1>1, <2>3 DEF Goes, Mems
    <3>2. QED
      BY <1>2, <2>1, <2>2, <3>1 DEF devVars, Phase1
  <2>4. ASSUME Scanned(k, VarFrom) = {},
               Goes(again, [mem EXCEPT !.looked = tip], Missed(k, VarWindow))
        PROVE  Looked'
    <3>1. run' = run /\ pc' = again /\ trouble' = trouble \cup Missed(k, VarWindow) /\ pc = again
      BY <2>1, <2>4 DEF Goes
    <3>2. Own(k) \cap Derived # {} => trouble' \cap {"burst", "crowded"} # {}
      BY <2>1, <2>4, <3>1, FindMissed
    <3>3. Seen("a")' /\ pc' = "findA" => trouble' \cap {"burst", "crowded"} # {}
      BY <1>1, <1>6, <2>1, <2>2, <3>1, <3>2
    <3>4. Seen("b")' => trouble' \cap {"burst", "crowded"} # {}
      BY <1>1, <1>6, <2>1, <2>2, <3>1, <3>2, FirstVariant
    <3>5. QED
      BY <3>1, <3>3, <3>4 DEF Looked, Phase1
  <2>5. CASE pc' = "red"
    BY <2>5 DEF Looked, Phase1
  <2>6. QED
    BY <2>1, <2>2, <2>3, <2>4, <2>5, LookCases DEF LookAgain, Red
<1>11. CASE CallFails
  <2>1. pc' = "red" \/ (pc' = "balance" /\ "down" \in trouble')
    BY <1>11 DEF CallFails, Goes, Red
  <2>2. QED
    BY <2>1 DEF Looked, Phase1
<1>12. CASE SendEth
  <2>1. PICK k \in Kinds : /\ Deposit(k) /\ run' = run /\ mem' = mem
                           /\ k = "eth" /\ pc' = "balance" /\ pc = "send"
    BY <1>12, SendMoves DEF SendEth, Kinds
  <2>2. ~Seen("eth")'
    <3>1. Own("eth") = {}
      BY <1>1, <2>1 DEF One, Sent
    <3>2. Of(l1', run, "eth") = {Len(l1) + 1}
      BY <1>1, <2>1, <3>1, SendOwn, OwnOf
    <3>3. Len(l1) + 1 \notin DOMAIN at'
      BY <2>1, Shape DEF Deposit, Derived
    <3>4. QED
      BY <2>1, <3>2, <3>3, SeenOf
  <2>3. QED
    BY <2>1, <2>2 DEF Looked, Phase1
<1>13. CASE SendVariant
  <2>1. PICK k \in Kinds : /\ Deposit(k) /\ run' = run /\ mem' = mem /\ trouble' = trouble
                           /\ \/ k = "a" /\ pc' = "variantB" /\ pc = "variantA"
                              \/ k = "b" /\ pc' = "findA" /\ pc = "variantB"
    BY <1>13, SendMoves DEF SendVariant, Kinds
  <2>2. ~Seen(k)'
    <3>1. Own(k) = {}
      BY <1>1, <2>1 DEF One, Sent
    <3>2. Of(l1', run, k) = {Len(l1) + 1}
      BY <2>1, <3>1, SendOwn, OwnOf
    <3>3. Len(l1) + 1 \notin DOMAIN at'
      BY <2>1, Shape DEF Deposit, Derived
    <3>4. QED
      BY <2>1, <3>2, <3>3, SeenOf
  <2>3. CASE k = "a"
    BY <2>1, <2>2, <2>3 DEF Looked, Phase1
  <2>4. CASE k = "b"
    <3>1. Of(l1', run', "a") = Of(l1, run, "a")
      BY <1>1, <2>1, <2>4, SendOwn
    <3>2. Seen("a")' => Seen("a")
      BY <1>1, <2>1, <3>1, SeenSame
    <3>3. QED
      BY <2>1, <2>2, <2>4, <3>2 DEF Looked, Phase1
  <2>5. QED
    BY <2>1, <2>3, <2>4
<1>14. CASE RunAgain
  BY <1>14 DEF RunAgain, Looked, Phase1
<1>15. QED
  BY <1>4, <1>5, <1>7, <1>8, <1>9, <1>10, <1>11, <1>12, <1>13, <1>14 DEF Next, Devnet

-----------------------------------------------------------------------------
(* Red runs. *)

\* A look that is the last one is late, or something is on record.
LEMMA LateOr ==
  ASSUME NEW k \in {"eth", "a", "b"}, NEW ts,
         Red(k, ts \cup (IF Own(k) \subseteq Derived THEN {} ELSE {"late"})),
         Own(k) \subseteq Derived => (trouble \cup ts) \cap (Excuses[k] \ {"late"}) # {}
  PROVE  RedMeansTrouble'
<1>1. why' = k /\ trouble' = trouble \cup ts \cup (IF Own(k) \subseteq Derived THEN {} ELSE {"late"})
  BY DEF Red
<1>2. "late" \in Excuses[k]
  BY ExcusesAre
<1>3. Excuses[k] \cap trouble' # {}
  BY <1>1, <1>2
<1>4. QED
  BY <1>1, <1>3, ExcusesAre DEF RedMeansTrouble, Excuses

LEMMA RedStep ==
  ASSUME TypeOK, One, After, Baseline, Looked, RedMeansTrouble, [Next]_vars
  PROVE  RedMeansTrouble'
<1>1. CASE pc' # "red"
  BY <1>1 DEF RedMeansTrouble
<1>2. CASE Devnet
  BY <1>2, DevnetOwn DEF RedMeansTrouble, runVars, Excuses
<1>3. CASE LookAtBalance
  <2>1. CASE Excess
    <3>1. Leftover
      BY <1>3, <2>1, ExcessIsLeftover DEF LookAtBalance
    <3>2. Red("unexpected", {"leftover"})
      <4>1. ~Exact
        BY <2>1, Shape, CreditsSplit DEF Excess, Exact, Mems
      <4>2. Red("unexpected", IF Leftover THEN {"leftover"} ELSE {})
        BY <1>3, <2>1, <4>1 DEF LookAtBalance
      <4>3. QED
        BY <3>1, <4>2
    <3>3. QED
      BY <3>2, ExcusesAre DEF Red, RedMeansTrouble, Excuses
  <2>2. CASE ~Excess /\ Exact
    BY <1>1, <1>3, <2>2 DEF LookAtBalance, Goes
  <2>3. CASE ~Excess /\ ~Exact
    <3> DEFINE ts == IF spends > mem.spends THEN {"spent"} ELSE {}
    <3>1. pc = "balance" /\ LookAgain("eth", "balance", ts)
      BY <1>3, <2>3 DEF LookAtBalance
    <3>2. Own("eth") \subseteq Derived => "spent" \in ts
      <4>1. Own("eth") # {}
        BY <3>1 DEF One, Sent, Kinds
      <4>2. QED
        BY <2>3, <3>1, <4>1, ShortMeansAway
    <3> HIDE DEF ts
    <3>3. Own("eth") \subseteq Derived => (trouble \cup ts) \cap (Excuses["eth"] \ {"late"}) # {}
      BY <3>2, ExcusesAre
    <3>4. CASE Red("eth", ts \cup (IF Own("eth") \subseteq Derived THEN {} ELSE {"late"}))
      BY <3>3, <3>4, LateOr
    <3>5. QED
      BY <1>1, <3>1, <3>4 DEF LookAgain, Goes
  <2>4. QED
    BY <2>1, <2>2, <2>3
<1>4. CASE Scan
  <2>1. pc = "scan" /\ Look("eth", EthFrom, EthWindow, "safe", "balance")
    BY <1>4 DEF Scan
  <2>2. CASE Scanned("eth", EthFrom) # {}
    BY <1>1, <2>1, <2>2 DEF Look, Goes
  <2>3. ASSUME Scanned("eth", EthFrom) = {}
        PROVE  Own("eth") \subseteq Derived =>
                 (trouble \cup Missed("eth", EthWindow)) \cap (Excuses["eth"] \ {"late"}) # {}
    <3>1. Own("eth") # {}
      BY <2>1 DEF One, Sent, Kinds
    <3>2. QED
      BY <2>1, <2>3, <3>1, ScanMissed, ExcusesAre
  <2>4. CASE /\ Scanned("eth", EthFrom) = {}
             /\ Red("eth", Missed("eth", EthWindow)
                            \cup (IF Own("eth") \subseteq Derived THEN {} ELSE {"late"}))
    BY <2>3, <2>4, LateOr
  <2>5. QED
    BY <1>1, <2>1, <2>2, <2>4 DEF Look, LookAgain, Goes
<1>5. CASE FindDeposit
  <2>1. PICK k \in {"a", "b"}, there \in {"findB", "green"}, again \in {"findA", "findB"} :
          /\ k = "a" => pc = "findA"
          /\ k = "b" => pc = "findB"
          /\ Look(k, VarFrom, VarWindow, there, again)
    BY <1>5 DEF FindDeposit
  <2>2. CASE Scanned(k, VarFrom) # {}
    BY <1>1, <2>1, <2>2 DEF Look, Goes
  <2>3. ASSUME Scanned(k, VarFrom) = {}
        PROVE  Own(k) \subseteq Derived =>
                 (trouble \cup Missed(k, VarWindow)) \cap (Excuses[k] \ {"late"}) # {}
    <3>1. Own(k) # {}
      BY <2>1 DEF One, Sent, Kinds
    <3>2. Own(k) \subseteq Derived => (trouble \cup Missed(k, VarWindow)) \cap {"burst", "crowded"} # {}
      BY <2>1, <2>3, <3>1, FindMissed
    <3>3. {"burst", "crowded"} \subseteq Excuses[k] \ {"late"}
      BY ExcusesAre
    <3>4. QED
      BY <3>2, <3>3
  <2>4. CASE /\ Scanned(k, VarFrom) = {}
             /\ Red(k, Missed(k, VarWindow) \cup (IF Own(k) \subseteq Derived THEN {} ELSE {"late"}))
    BY <2>3, <2>4, LateOr
  <2>5. QED
    BY <1>1, <2>1, <2>2, <2>4 DEF Look, LookAgain, Goes
<1>6. CASE WaitSafe
  <2>1. CASE safe >= at[mem.found["eth"]]
    BY <1>1, <1>6, <2>1 DEF WaitSafe, Goes
  <2>2. CASE ~(safe >= at[mem.found["eth"]])
    <3>1. Red("safe", {"unsafe"})
      BY <1>6, <2>2 DEF WaitSafe
    <3>2. QED
      BY <3>1, ExcusesAre DEF Red, RedMeansTrouble, Excuses
  <2>3. QED
    BY <2>1, <2>2
<1>7. CASE CallFails
  <2>1. pc' = "balance" \/ (why' \in {"raised", "eth"} /\ "down" \in trouble')
    BY <1>7 DEF CallFails, Goes, Red
  <2>2. QED
    BY <1>1, <2>1, ExcusesAre DEF RedMeansTrouble, Excuses
<1>8. CASE ReadBefore \/ ReadTip0 \/ SendEth \/ SendVariant \/ RunAgain
  BY <1>1, <1>8 DEF ReadBefore, ReadTip0, SendEth, SendVariant, RunAgain, Goes
<1>9. QED
  BY <1>2, <1>3, <1>4, <1>5, <1>6, <1>7, <1>8 DEF Next, Devnet

-----------------------------------------------------------------------------
(* What is found. *)

FoundIs(k, n, L, a, r, sight) ==
  n # 0 => n \in DOMAIN a /\ L[n].kind = k /\ (L[n].run = r \/ a[n] >= sight)

Stages(p, f, a, s) ==
  /\ p \in {"before", "tip0"} => f["eth"] = 0
  /\ p \in {"before"} \cup Phase1 => f["a"] = 0 /\ f["b"] = 0
  /\ p \in {"safe"} \cup Phase2 => f["eth"] # 0
  /\ p \in {"findB", "green"} => f["a"] # 0
  /\ p = "green" => f["b"] # 0
  /\ p \in Phase2 => a[f["eth"]] <= s

LEMMA FoundParts ==
  /\ Found <=> /\ \A k \in Kinds : FoundIs(k, mem.found[k], l1, at, run, Sight(k))
               /\ Stages(pc, mem.found, at, safe)
  /\ Found' <=> /\ \A k \in Kinds : FoundIs(k, mem'.found[k], l1', at', run', Sight(k)')
                /\ Stages(pc', mem'.found, at', safe')
BY DEF Found, FoundIs, Stages, Derived

\* A find stays one as the chain grows.
LEMMA FoundKeeps ==
  ASSUME TypeOK, [Next]_vars, NEW k \in Kinds, NEW n \in {0} \cup Derived, NEW sight,
         FoundIs(k, n, l1, at, run, sight)
  PROVE  FoundIs(k, n, l1', at', run, sight)
BY Grows DEF FoundIs, Derived

\* Nothing but a look finds, and nothing but a look changes what a find was judged by.
LEMMA FoundSame ==
  ASSUME TypeOK, [Next]_vars, Found, mem'.found = mem.found, run' = run,
         mem'.tip0 = mem.tip0 \/ mem.found["eth"] = 0,
         mem'.mark = mem.mark \/ (mem.found["a"] = 0 /\ mem.found["b"] = 0),
         Stages(pc', mem.found, at', safe')
  PROVE  Found'
<1>1. ASSUME NEW k \in Kinds
      PROVE  FoundIs(k, mem'.found[k], l1', at', run', Sight(k)')
  <2>1. FoundIs(k, mem.found[k], l1, at, run, Sight(k)) /\ mem.found[k] \in {0} \cup Derived
    BY FoundParts, Shape DEF Mems
  <2>2. FoundIs(k, mem.found[k], l1', at', run, Sight(k))
    BY <2>1, FoundKeeps
  <2>3. Sight(k)' = Sight(k) \/ mem.found[k] = 0
    BY DEF Sight, Kinds
  <2>4. QED
    BY <2>2, <2>3 DEF FoundIs
<1>2. QED
  BY <1>1, FoundParts

LEMMA FoundLook ==
  ASSUME TypeOK, Found, NEW k \in Kinds, NEW from, NEW there, NEW d \in Derived,
         l1[d].kind = k, at[d] >= from, from >= Sight(k), from \in Int, Sight(k) \in Int, d # 0,
         Goes(there, [mem EXCEPT !.found[k] = d], {}), UNCHANGED devVars,
         Stages(there, [mem.found EXCEPT ![k] = d], at, safe)
  PROVE  Found'
<1>1. mem \in Mems(Len(l1), spends, tip, Derived) /\ at[d] \in Nat
  BY Shape
<1>2. /\ mem'.found = [mem.found EXCEPT ![k] = d] /\ mem'.tip0 = mem.tip0 /\ mem'.mark = mem.mark
      /\ run' = run /\ pc' = there /\ l1' = l1 /\ at' = at /\ safe' = safe
  BY <1>1 DEF Goes, Mems, devVars
<1>3. ASSUME NEW j \in Kinds
      PROVE  FoundIs(j, mem'.found[j], l1', at', run', Sight(j)')
  <2>1. Sight(j)' = Sight(j)
    BY <1>2 DEF Sight
  <2>2. FoundIs(j, mem.found[j], l1, at, run, Sight(j)) /\ mem.found \in [Kinds -> {0} \cup Derived]
    BY <1>1, FoundParts DEF Mems
  <2>3. CASE j = k
    <3>1. mem'.found[j] = d
      BY <1>2, <2>2, <2>3
    <3>2. at[d] >= Sight(k)
      BY <1>1
    <3>3. QED
      BY <1>2, <2>1, <2>3, <3>1, <3>2 DEF FoundIs, Derived
  <2>4. CASE j # k
    <3>1. mem'.found[j] = mem.found[j]
      BY <1>2, <2>2, <2>4
    <3>2. QED
      BY <1>2, <2>1, <2>2, <3>1
  <2>5. QED
    BY <2>3, <2>4
<1>4. QED
  BY <1>2, <1>3, FoundParts

LEMMA FoundStep ==
  ASSUME TypeOK, Found, [Next]_vars
  PROVE  Found'
<1>1. /\ mem \in Mems(Len(l1), spends, tip, Derived) /\ Stages(pc, mem.found, at, safe)
      /\ \A k \in Kinds : mem.found[k] # 0 => mem.found[k] \in Derived
  BY Shape, FoundParts DEF FoundIs, Derived
<1>2. mem.found \in [Kinds -> {0} \cup Derived] /\ "eth" \in Kinds /\ "a" \in Kinds /\ "b" \in Kinds
  BY <1>1 DEF Mems, Kinds
<1>3. ASSUME pc \in Phase2
      PROVE  at'[mem.found["eth"]] = at[mem.found["eth"]]
  <2>1. mem.found["eth"] \in Derived
    BY <1>1, <1>2, <1>3 DEF Stages
  <2>2. QED
    BY <2>1, Grows
<1>4. at[mem.found["eth"]] <= safe /\ pc \in Phase2 => at[mem.found["eth"]] <= safe'
  <2>1. SUFFICES ASSUME at[mem.found["eth"]] <= safe, pc \in Phase2
                 PROVE  at[mem.found["eth"]] <= safe'
    OBVIOUS
  <2>2. mem.found["eth"] \in Derived
    BY <1>1, <1>2, <2>1 DEF Stages
  <2>3. at[mem.found["eth"]] \in Nat /\ safe \in Nat /\ safe' >= safe
    BY <2>2, Shape, Grows, SMTT(30) DEF TypeOK
  <2>4. safe' \in Int
    BY TypeStep DEF TypeOK
  <2>5. QED
    BY <2>1, <2>3, <2>4
<1>5. CASE Devnet
  <2>1. mem' = mem /\ run' = run /\ pc' = pc
    BY <1>5, DevnetOwn DEF runVars
  <2>2. Stages(pc', mem.found, at', safe')
    BY <1>1, <1>3, <1>4, <2>1 DEF Stages
  <2>3. QED
    BY <2>1, <2>2, FoundSame
<1>6. CASE ReadBefore \/ ReadTip0
  <2>1. /\ pc \in {"before", "tip0"} /\ pc' \in {"tip0", "send"}
        /\ pc = "tip0" => pc' = "send"
        /\ mem'.found = mem.found /\ mem'.mark = mem.mark /\ run' = run
    BY <1>1, <1>6 DEF ReadBefore, ReadTip0, Goes, Mems
  <2>2. mem.found["eth"] = 0 /\ mem.found["a"] = 0 /\ mem.found["b"] = 0
    BY <1>1, <2>1 DEF Stages, Phase1
  <2>3. Stages(pc', mem.found, at', safe')
    BY <2>1, <2>2 DEF Stages, Phase1, Phase2
  <2>4. QED
    BY <2>1, <2>2, <2>3, FoundSame
<1>7. ASSUME mem'.found = mem.found, mem'.tip0 = mem.tip0, mem'.mark = mem.mark, run' = run,
             \/ pc' = "red"
             \/ pc \in Phase1 /\ pc' \in {"balance", "scan"}
             \/ /\ pc \in Phase2 /\ pc' \in Phase2
                /\ pc' \in {"findB", "green"} => pc = pc'
      PROVE  Found'
  <2>1. Stages(pc', mem.found, at', safe')
    BY <1>1, <1>3, <1>4, <1>7 DEF Stages, Phase1, Phase2
  <2>2. QED
    BY <1>7, <2>1, FoundSame
<1>8. ASSUME NEW k \in Kinds, NEW p, NEW ts, LookAgain(k, p, ts),
             \/ pc \in Phase1 /\ p \in {"balance", "scan"}
             \/ pc \in {"findA", "findB"} /\ p = pc
      PROVE  Found'
  BY <1>1, <1>7, <1>8 DEF LookAgain, Goes, Red, Mems, Phase2
<1>9. CASE LookAtBalance
  BY <1>1, <1>7, <1>9 DEF LookAtBalance, LookAgain, Goes, Red, Mems, Phase1
<1>10. CASE Scan
  <2>1. UNCHANGED devVars /\ pc = "scan" /\ Look("eth", EthFrom, EthWindow, "safe", "balance")
    BY <1>10 DEF Scan
  <2>2. ASSUME NEW d \in Derived, l1[d].kind = "eth", at[d] >= EthFrom, d # 0,
               Goes("safe", [mem EXCEPT !.found["eth"] = d], {})
        PROVE  Found'
    <3>1. EthFrom >= Sight("eth") /\ EthFrom \in Int /\ Sight("eth") \in Int
      BY <1>1, Shape, DepositAssumption DEF EthFrom, Sight, Larger, Mems
    <3>2. Stages("safe", [mem.found EXCEPT !["eth"] = d], at, safe)
      BY <1>1, <1>2, <2>1, <2>2 DEF Stages, Phase1, Phase2
    <3>3. QED
      BY <1>2, <2>1, <2>2, <3>1, <3>2, FoundLook
  <2>3. CASE LookAgain("eth", "balance", Missed("eth", EthWindow))
    BY <1>2, <1>8, <2>1, <2>3 DEF Phase1
  <2>4. QED
    BY <1>2, <2>1, <2>2, <2>3, LookCases
<1>11. CASE WaitSafe
  <2>1. pc = "safe" /\ UNCHANGED devVars
    BY <1>11 DEF WaitSafe
  <2>2. CASE safe >= at[mem.found["eth"]]
    <3>1. Goes("variantA", [mem EXCEPT !.mark = tip, !.looked = tip], {})
      BY <1>11, <2>2 DEF WaitSafe
    <3>2. mem'.found = mem.found /\ mem'.tip0 = mem.tip0 /\ run' = run /\ pc' = "variantA"
      BY <1>1, <3>1 DEF Goes, Mems
    <3>3. at[mem.found["eth"]] <= safe
      <4>1. mem.found["eth"] \in Derived
        BY <1>1, <1>2, <2>1 DEF Stages
      <4>2. at[mem.found["eth"]] \in Nat /\ safe \in Nat
        BY <4>1, Shape DEF TypeOK
      <4>3. QED
        BY <2>2, <4>2
    <3>4. mem.found["a"] = 0 /\ mem.found["b"] = 0 /\ mem.found["eth"] # 0
      BY <1>1, <2>1 DEF Stages, Phase1
    <3>5. Stages(pc', mem.found, at', safe')
      BY <2>1, <3>2, <3>3, <3>4 DEF Stages, Phase1, Phase2, devVars
    <3>6. QED
      BY <3>2, <3>4, <3>5, FoundSame
  <2>3. CASE ~(safe >= at[mem.found["eth"]])
    BY <1>1, <1>7, <1>11, <2>3 DEF WaitSafe, Red
  <2>4. QED
    BY <2>2, <2>3
<1>12. CASE FindDeposit
  <2>1. PICK k \in {"a", "b"}, there \in {"findB", "green"}, again \in {"findA", "findB"} :
          /\ k = "a" => pc = "findA" /\ there = "findB" /\ again = "findA"
          /\ k = "b" => pc = "findB" /\ there = "green" /\ again = "findB"
          /\ Look(k, VarFrom, VarWindow, there, again)
    BY <1>12 DEF FindDeposit
  <2>2. UNCHANGED devVars /\ k \in Kinds /\ k # "eth"
    BY <1>2, <1>12, <2>1 DEF FindDeposit
  <2>3. ASSUME NEW d \in Derived, l1[d].kind = k, at[d] >= VarFrom, d # 0,
               Goes(there, [mem EXCEPT !.found[k] = d], {})
        PROVE  Found'
    <3>1. VarFrom >= Sight(k) /\ VarFrom \in Int /\ Sight(k) \in Int
      BY <1>1, <2>2, Shape, DepositAssumption DEF VarFrom, Sight, Larger, Mems
    <3>2. Stages(there, [mem.found EXCEPT ![k] = d], at, safe)
      BY <1>1, <1>2, <2>1, <2>2, <2>3 DEF Stages, Phase1, Phase2
    <3>3. QED
      BY <2>2, <2>3, <3>1, <3>2, FoundLook
  <2>4. QED
    BY <1>8, <2>1, <2>2, <2>3, LookCases
<1>13. CASE CallFails
  BY <1>1, <1>7, <1>13 DEF CallFails, Goes, Red, Phase1
<1>14. CASE SendEth \/ SendVariant
  BY <1>7, <1>14, SendMoves DEF Phase1, Phase2, Kinds
<1>15. CASE RunAgain
  <2>1. mem' = Fresh /\ pc' = "before" /\ \A k \in Kinds : Fresh.found[k] = 0
    BY <1>15 DEF RunAgain, Fresh
  <2>2. QED
    BY <1>2, <2>1, FoundParts DEF FoundIs, Stages, Phase1, Phase2
<1>16. QED
  BY <1>5, <1>6, <1>9, <1>10, <1>11, <1>12, <1>13, <1>14, <1>15 DEF Next, Devnet

-----------------------------------------------------------------------------
(* The theorems. *)

LEMMA IInvInit == Init => IInv
<1>1. SUFFICES ASSUME Init PROVE IInv
  OBVIOUS
<1>2. TypeOK /\ l1 = <<>> /\ at = <<>> /\ pc = "before" /\ mem = Fresh
  BY <1>1, TypeInit DEF Init
<1>3. DOMAIN l1 = {} /\ Derived = {} /\ \A k : Own(k) = {}
  BY <1>2 DEF Derived, Own
<1>4. Fresh.found \in [Kinds -> {0}]
  BY DEF Fresh
<1>5. QED
  BY <1>2, <1>3, <1>4
     DEF IInv, One, After, Baseline, Looked, Found, RedMeansTrouble, Sent, Phase1, Phase2, Kinds

LEMMA IInvStep ==
  ASSUME IInv, [Next]_vars
  PROVE  IInv'
<1>1. TypeOK' /\ One'
  BY TypeStep, OneStep DEF IInv
<1>2. After' /\ Baseline' /\ Looked' /\ Found' /\ RedMeansTrouble'
  BY <1>1, AfterStep, BaselineStep, LookedStep, FoundStep, RedStep DEF IInv
<1>3. QED
  BY <1>1, <1>2 DEF IInv

\* A red run of the deposit lane is excused by what the devnet did to it: by the exact
\* balance, the baseline and TIP0, and by windows that hold what is new since the last look.
THEOREM RedIsExcused == Spec => []RedMeansTrouble
<1>1. IInv => RedMeansTrouble
  BY DEF IInv
<1>2. IInv /\ [Next]_vars => IInv'
  BY IInvStep
<1>3. QED
  BY <1>1, <1>2, IInvInit, PTL DEF Spec

\* A green run found its own deposits, or an earlier run's that is still in sight.
LEMMA GreenLemma == IInv => GreenMeansDerived
<1>1. SUFFICES ASSUME IInv, pc = "green" PROVE GreenMeansDerived
  BY DEF GreenMeansDerived
<1>2. TypeOK /\ One /\ Found
  BY <1>1 DEF IInv
<1>3. ASSUME NEW k \in Kinds
      PROVE  /\ mem.found[k] \in Derived /\ l1[mem.found[k]].kind = k
             /\ Own(k) = {mem.found[k]} \/ InSight(k)
  <2>1. mem.found[k] # 0
    BY <1>1, <1>2 DEF Found, Phase2, Kinds
  <2>2. /\ mem.found[k] \in Derived /\ l1[mem.found[k]].kind = k
        /\ l1[mem.found[k]].run = run \/ at[mem.found[k]] >= Sight(k)
    BY <1>2, <2>1 DEF Found
  <2>3. CASE l1[mem.found[k]].run = run
    <3>1. mem.found[k] \in Own(k)
      BY <1>2, <2>2, <2>3, Shape DEF Own
    <3>2. pc \in Sent(k)
      BY <1>1 DEF Sent
    <3>3. QED
      BY <1>2, <2>2, <3>1, <3>2 DEF One
  <2>4. CASE l1[mem.found[k]].run # run
    BY <2>2, <2>4 DEF InSight, Sight
  <2>5. QED
    BY <2>2, <2>3, <2>4
<1>4. \A k \in Kinds : Own(k) \subseteq Derived \/ InSight(k)
  BY <1>3
<1>5. InSight("eth") \/ \A d \in Own("eth") : at[d] <= safe
  BY <1>1, <1>2, <1>3 DEF Found, Phase2, Kinds
<1>6. QED
  BY <1>4, <1>5 DEF GreenMeansDerived

\* A green run of the deposit lane means that its own deposits are on L2 and the ETH
\* deposit safe, unless an earlier run's of the same kind is in sight.
THEOREM GreenIsDerived == Spec => []GreenMeansDerived
<1>1. IInv /\ [Next]_vars => IInv'
  BY IInvStep
<1>2. QED
  BY <1>1, GreenLemma, IInvInit, PTL DEF Spec
=============================================================================
