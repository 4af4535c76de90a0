------------------------- MODULE ScriptLaneRedProofs -------------------------
(***************************************************************************)
(* The proof that the scripts of the gate turn red only for a reason that    *)
(* they do not control, on top of what ScriptLaneProofs shows of them.       *)
(***************************************************************************)
EXTENDS ScriptLaneProofs

-----------------------------------------------------------------------------
(* What each script has read, sent and landed, instruction by instruction.   *)

ChainFacts ==
  InUnit("reads", 3) => /\ pc > 2 => regs["gasPrice"] = fee \/ "fee" \in trouble
                        /\ pc > 3 => regs["gasPrice"] >= regs["baseFee"] \/ "fee" \in trouble
Resolved(tag, window) ==
  /\ regs[tag] <= regs["num"] \/ "sealed" \in trouble
  /\ regs[tag] > 0 \/ "unsafe" \in trouble
  /\ regs[tag] >= regs["num"] - window \/ "behind" \in trouble
BlocksFacts ==
  InUnit("reads", 4) =>
    /\ pc > 1 => regs["num"] <= height /\ (regs["num"] = height \/ "sealed" \in trouble)
    /\ pc > 3 => Resolved("safe", SafeWindow)
    /\ pc > 7 => Resolved("finalized", FinalizedWindow)
    /\ pc > 11 => regs["pending"] = regs["num"] \/ "sealed" \in trouble
TableFacts ==
  InUnit("reads", 9) => /\ pc > 1 => regs["number"] <= height
                        /\ pc > 2 => regs["cn"] >= regs["number"]

\* The processes of the second part of the gate, while none outlives its ten seconds.
Procs ==
  plan = "transactions" /\ "lingered" \notin trouble =>
    /\ \A p, q \in live : p = q
    /\ doomed \cap live # {} => unit = 2 /\ pc = 3
    /\ unit = 1 \/ (unit = 2 /\ pc <= 3) => live \subseteq {pidFile}
    /\ unit = 2 /\ pc = 4 => live = {}
    /\ InUnit("transactions", 3) /\ pc > 1 => holder # 0

\* chain_driver.py: what it has read,
DriverReads ==
  InUnit("transactions", 1) =>
    /\ pc = 2 => regs["bal0"] = 0 \/ "stray" \in trouble
    /\ pc > 2 => 0 <= regs["nonce0"] /\ regs["nonce0"] <= Front /\ regs["nonce0"] <= 1
    /\ pc > 2 => (regs["nonce0"] = 0 /\ regs["bal0"] = 0) \/ "stray" \in trouble
    /\ pc > 3 => regs["prev_head"] <= height
    /\ pc \in {7, 12} => regs["index"] = 1 \/ "late" \in trouble
    /\ pc > 14 => regs["bal1"] = regs["nonce0"] + 2 \/ Noted({"lag", "late"})
    /\ pc > 15 => regs["nonce1"] = regs["nonce0"] + 2 \/ Noted({"lag", "late"})
    /\ pc > 18 => regs["prev_head"] <= regs["head"]
\* what it has sent,
DriverSends ==
  InUnit("transactions", 1) =>
    /\ pc <= 4 => Queue({<<"stray", 0>>}, 0)
    /\ pc = 5 => /\ Queue({<<"stray", 0>>, <<"transfer0", regs["nonce0"]>>}, 0)
                 /\ Ready("transfer0", regs["nonce0"])
    /\ pc \in 6..9 => "late" \in trouble \/ Idle(regs["nonce0"] + 1)
    /\ pc = 10 => \/ "late" \in trouble
                  \/ /\ Queue({<<"transfer1", regs["nonce0"] + 1>>}, regs["nonce0"] + 1)
                     /\ Ready("transfer1", regs["nonce0"] + 1)
    /\ pc > 10 => "late" \in trouble \/ Idle(regs["nonce0"] + 2)
\* what it has landed,
DriverLands ==
  InUnit("transactions", 1) =>
    /\ pc \in 6..8 => "transfer0" \in DOMAIN mined
    /\ pc \in 11..13 => "transfer1" \in DOMAIN mined
    /\ \A i \in {"transfer0", "transfer1"} \cap DOMAIN mined :
         mined[i].index = 1 \/ "late" \in trouble
\* and what it leaves.
DriverLeaves ==
  plan = "transactions" /\ unit = 1 =>
    /\ "receipt" \in failed => Noted({"late", "stray"})
    /\ ~Noted({"stray", "late"}) => \A t \in pool : t.nonce >= Front
    /\ ~Noted({"stray", "lingered"}) /\ holder = 0 => pool = {}
    /\ ~Noted({"stray", "late", "lingered"}) /\ pc = End => pool = {}
DriverFacts == DriverReads /\ DriverSends /\ DriverLands /\ DriverLeaves

PersistFacts ==
  InUnit("transactions", 2) =>
    /\ pc > 1 => regs["h1"] <= height \/ "cut" \in trouble
    /\ pc > 5 => regs["h2"] >= regs["h1"] \/ "cut" \in trouble
    /\ pc > 7 => regs["h3"] > regs["h2"] \/ "idle" \in trouble
\* b3_contracts.py: what it finds, sends and lands.
PersistLeaves ==
  plan = "transactions" /\ unit = 2 /\ ~Noted({"stray", "late", "lingered"}) => pool = {}
ContractsSends ==
  InUnit("transactions", 3) =>
    \/ Noted({"stray", "late", "lingered", "lag"})
    \/ /\ pc = 1 => pool = {}
       /\ pc = 2 => Idle(regs["nonce"])
       /\ pc = 3 => Queue({<<"store", regs["nonce"]>>}, regs["nonce"]) /\ Ready("store", regs["nonce"])
       /\ pc \in 4..6 => Idle(regs["nonce"] + 1)
       /\ pc = 7 => /\ Queue({<<"revert", regs["nonce"] + 1>>}, regs["nonce"] + 1)
                    /\ Ready("revert", regs["nonce"] + 1)
ContractsLands ==
  InUnit("transactions", 3) =>
    /\ pc \in 4..5 => "store" \in DOMAIN mined
    /\ pc \in 8..9 => "revert" \in DOMAIN mined
    /\ pc \in {5, 9} => regs["code"] = 1 \/ "lag" \in trouble
ContractsFacts == PersistLeaves /\ ContractsSends /\ ContractsLands

Read(j, r, v) == pc > j => regs[r] = v \/ "lag" \in trouble
PredeployFacts ==
  InUnit("predeploys", 1) =>
    /\ pc > 2 => regs["seq0"] = 0 \/ "written" \in trouble
    /\ pc > 3 => regs["seq1"] = 0 \/ "written" \in trouble
    /\ pc > 12 => regs["root_before"] <= 0
    /\ Read(16, "sm", 1) /\ Read(21, "sv", 1)
    /\ pc > 18 => regs["n"] = mined["withdrawal"].block
    /\ pc > 19 => regs["root_at"] = 1
    /\ pc <= 23 => regs["later"] = -1
    /\ pc > 23 => regs["later"] > regs["n"] \/ (regs["later"] = -1 /\ "idle" \in trouble)
    /\ pc > 24 => regs["stable_root"] = 1 \/ "idle" \in trouble
    /\ Read(28, "nonce0", 0) /\ Read(32, "nonce1", 1)
    /\ Read(37, "bal0", 0) /\ (Read(41, "bal1", 1) \/ "bridge" \in trouble)
    /\ Read(43, "bal2", 0) /\ (Read(47, "bal3", 1) \/ "bridge" \in trouble)
ScenarioFacts ==
  InUnit("scenarios", 1) =>
    /\ Read(4, "code", 1) /\ Read(9, "counter1", 1) /\ Read(13, "counter2", 2)
    /\ Read(19, "counter3", 2)

\* nonce_fee_boundaries.sh: what is sent, section by section.
EvictedAt(o, past, n, id, control) ==
  LET q == <<id, regs[n]>> IN
  /\ pc \in {o + 1, o + 2} => Idle(regs[past] + 1)
  /\ pc \in {o + 2, o + 3} => Quoted
  /\ pc = o + 3 => Idle(regs[n])
  /\ pc \in {o + 4, o + 5} => Queue({q}, regs[n])
  /\ pc \in o + 4..o + 6 => /\ \A t \in pool : t.id = id => t.cap < fee \/ "fee" \in trouble
                            /\ id \in DOMAIN mined => "fee" \in trouble
  /\ pc = o + 6 => Queue({q, <<control, regs[n]>>}, regs[n]) /\ Sure(control, regs[n])
ChargedAt(o, past, n, id) ==
  /\ pc \in {o + 1, o + 2} => Idle(regs[past] + 1)
  /\ pc \in {o + 2, o + 3} => Quoted
  /\ pc = o + 3 => Idle(regs[n])
  /\ pc = o + 4 =>
       /\ Queue({<<id, regs[n]>>}, regs[n]) /\ Sure(id, regs[n])
       /\ \A t \in pool : t.id = id =>
            EffectivePrice(t, fee) = Expected(id, regs["bf"]) \/ "fee" \in trouble
  /\ pc \in {o + 4, o + 5} =>
       (id \in DOMAIN mined => mined[id].price = Expected(id, regs["bf"]) \/ "fee" \in trouble)
  /\ pc \in {o + 5, o + 6} => id \in DOMAIN mined /\ Idle(regs[n] + 1)
  /\ pc = o + 6 => regs["effective"] = Expected(id, regs["bf"]) \/ "fee" \in trouble
FirstSections ==
  LET s == <<"stray", 0>>
      c == <<"c0", regs["n0"]>>
      f == <<"first", regs["n1"]>>
      g == <<"second", regs["n1"] + 1>>
      h == <<"gap", regs["n1"] + 2>>
  IN
  /\ pc <= 3 => Queue({s}, 0)
  /\ pc \in {3, 4} => 0 <= regs["n0"] /\ regs["n0"] <= Front /\ (regs["n0"] = 0 \/ regs["n0"] = 1)
  /\ pc = 4 => Queue({s, c}, 0) /\ Sure("c0", regs["n0"])
  /\ pc = 5 => Idle(regs["n0"] + 1)
  /\ pc = 6 => Idle(regs["n1"])
  /\ pc \in {7, 8} => Queue({h}, regs["n1"])
  /\ pc \in 7..12 => Sure("gap", regs["n1"] + 2)
  /\ pc = 9 => Queue({f, h}, regs["n1"])
  /\ pc \in 9..12 => Sure("first", regs["n1"])
  /\ pc \in 10..12 => Queue({f, g, h}, regs["n1"]) /\ Sure("second", regs["n1"] + 1)
  /\ pc \in 10..13 => /\ {"first", "second"} \subseteq DOMAIN mined => Before("first", "second")
                      /\ {"second", "gap"} \subseteq DOMAIN mined => Before("second", "gap")
  /\ pc > 10 /\ pc < 14 => "first" \in DOMAIN mined
  /\ pc > 11 /\ pc < 14 => "second" \in DOMAIN mined
  /\ pc = 13 => "gap" \in DOMAIN mined
  /\ pc \in 13..14 => Idle(regs["n1"] + 3)
TwinSections ==
  LET t == <<"twin1", regs["n2"]>>
      u == <<"twin2", regs["n2"]>>
      lo == regs["n1"] + 3
  IN
  /\ pc \in 15..17 => regs["n2"] = lo \/ (regs["n2"] < lo /\ "lag" \in trouble)
  /\ pc = 15 => Idle(lo)
  /\ pc = 16 => Queue({t}, lo)
  /\ pc = 17 => Queue({t, u}, lo) /\ Sure("twin2", regs["n2"])
  /\ pc = 18 => \E i \in {"twin1", "twin2"} : {"twin1", "twin2"} \cap DOMAIN mined = {i}
  /\ pc \in 18..19 => Idle(regs["n2"] + 1)
  /\ pc \in 20..22 => Idle(regs["n3"])
  /\ pc = 23 => Queue({<<"c3", regs["n3"]>>}, regs["n3"]) /\ Sure("c3", regs["n3"])
BoundariesFacts ==
  InUnit("boundaries", 1) =>
    /\ failed = {}
    /\ pc <= 19 => regs["n3"] = -1
    /\ FirstSections /\ TwinSections
    /\ EvictedAt(23, "n3", "n4", "half", "c4") /\ EvictedAt(29, "n4", "n5", "under", "c5")
    /\ ChargedAt(35, "n5", "n6", "exact") /\ ChargedAt(41, "n6", "n7", "legacy")
    /\ ChargedAt(47, "n7", "n8", "double") /\ ChargedAt(53, "n8", "n9", "tipped")
-----------------------------------------------------------------------------
(* The scripts that send one transaction at a time.                          *)

\* What has been waited for, and what is under way.
Excused == Noted({"stray", "late", "lag", "fee"})
OneAtATime ==
  IF Ins.op = "await"
  THEN \A id \in Ins.of : /\ Queue({<<id, regs["nonce"]>>}, regs["nonce"])
                          /\ Sure(id, regs["nonce"])
  ELSE /\ Idle(Front)
       /\ Primed(Running.body, pc) => Idle(regs["nonce"])
Waited == \A q \in 1..(pc - 1) : Item(1, q).op = "await" => Item(1, q).of \subseteq DOMAIN mined
SoloFacts ==
  plan \in {"predeploys", "scenarios"} /\ InUnit(plan, 1) =>
    (Excused \/ OneAtATime) /\ Waited

LEMMA NothingPooled ==
  ASSUME IInv, pool = {}
  PROVE  Idle(Front)
<1>1. Front \in Nat
  BY FrontLemma
<1>2. QED
  BY <1>1 DEF Idle, Queue, Line

LEMMA InitSolo == ASSUME IInv, Init PROVE SoloFacts
<1>1. SUFFICES ASSUME plan \in {"predeploys", "scenarios"}, InUnit(plan, 1), ~Excused
               PROVE  OneAtATime
  <2>1. pc = 1
    BY DEF Init
  <2>2. Waited
    BY <2>1 DEF Waited
  <2>3. QED
    BY <2>2 DEF SoloFacts
<1>2. pool = {} /\ pc = 1 /\ unit = 1
  BY <1>1 DEF Init, Excused, Noted
<1>3. ~Finished /\ pc # End
  BY <1>1, <1>2, PlanNames, PredeploysUnits, SingleUnits DEF InUnit, Finished, End, Running
<1>4. SoloScript(Running.body) /\ Ins = Running.body[1] /\ 1 \in 1..Len(Running.body)
  BY <1>1, <1>2, <1>3, InSolo DEF Ins
<1>5. Ins.op # "await"
  <2>1. Len(Running.body) \in Nat
    BY <1>3, Here
  <2>2. QED
    BY <1>4, <2>1 DEF SoloScript
<1>6. Idle(Front) /\ ~Primed(Running.body, pc)
  BY <1>2, NothingPooled DEF Primed
<1>7. QED
  BY <1>5, <1>6 DEF OneAtATime

LEMMA EmptyLine ==
  ASSUME NEW from, NEW chain, NEW front \in Nat, NEW lo \in Int, Line(from, chain, front, {}, lo)
  PROVE  front = lo
<1>1. lo <= front /\ \A n \in lo..(front - 1) : FALSE
  BY DEF Line
<1>2. SUFFICES ASSUME lo < front PROVE FALSE
  BY <1>1
<1>3. lo \in lo..(front - 1)
  BY <1>2
<1>4. QED
  BY <1>1, <1>3

LEMMA NodeSolo ==
  ASSUME IInv, IInv', General, SoloFacts, Node
  PROVE  SoloFacts'
<1>1. /\ UNCHANGED <<plan, unit, pc, regs>> /\ \A u, j : Item(u, j)' = Item(u, j)
      /\ Running' = Running /\ Ins' = Ins
  BY NodeHere DEF Ins
<1>2. SUFFICES ASSUME plan \in {"predeploys", "scenarios"}, InUnit(plan, 1)
               PROVE  (Excused' \/ OneAtATime') /\ Waited'
  BY <1>1 DEF SoloFacts, InUnit
<1>3. Alone /\ OnePerNonce
  BY <1>2 DEF General, Solitary
<1>4. trouble \subseteq trouble'
  BY NodeSteps DEF Takes, Stays, Comes
<1>5. DOMAIN mined \subseteq DOMAIN mined'
  BY <1>3, AloneNode DEF Takes
<1>6. Waited'
  BY <1>1, <1>2, <1>5 DEF SoloFacts, Waited
<1>7. SUFFICES ASSUME OneAtATime, ~Excused' PROVE OneAtATime'
  BY <1>2, <1>4, <1>6 DEF SoloFacts, Excused, Noted
<1>8. Front \in Nat /\ regs \in [Regs -> Int] /\ "nonce" \in Regs
  BY FrontLemma DEF IInv, TypeOK, Regs
<1>9. CASE Ins.op = "await"
  <2>1. ASSUME NEW id \in Ins.of
        PROVE  /\ Line(pool', DOMAIN mined', Front', {<<id, regs["nonce"]>>}, regs["nonce"])
               /\ "fee" \in trouble' \/ Offered(pool', Front', fee', id, regs["nonce"])
    <3>1. Queue({<<id, regs["nonce"]>>}, regs["nonce"]) /\ Sure(id, regs["nonce"])
      BY <1>7, <1>9 DEF OneAtATime
    <3>2. Named({<<id, regs["nonce"]>>})
      BY <1>8 DEF Named
    <3>3. QED
      BY <1>3, <1>8, <3>1, <3>2, AloneQueue
  <2>2. QED
    BY <1>1, <1>9, <2>1 DEF OneAtATime, Queue, Sure
<1>10. CASE Ins.op # "await"
  <2>1. Idle(Front) /\ (Primed(Running.body, pc) => Idle(regs["nonce"]))
    BY <1>7, <1>10 DEF OneAtATime
  <2>2. Named({})
    BY DEF Named
  <2>3. ASSUME NEW k \in Int, Idle(k) PROVE Line(pool', DOMAIN mined', Front', {}, k) /\ Front' = k
    <3>1. Line(pool', DOMAIN mined', Front', {}, k) /\ Front' \in Nat
      BY <1>3, <2>2, <2>3, AloneQueue DEF Idle
    <3>2. Front' = k
      BY <2>3, <3>1, EmptyLine
    <3>3. QED
      BY <3>1, <3>2
  <2>4. Line(pool', DOMAIN mined', Front', {}, Front')
    BY <1>8, <2>1, <2>3
  <2>5. Primed(Running.body, pc) => Line(pool', DOMAIN mined', Front', {}, regs["nonce"])
    BY <1>8, <2>1, <2>3
  <2>6. Primed(Running.body, pc)' = Primed(Running.body, pc)
    BY <1>1 DEF Primed
  <2>7. QED
    BY <1>1, <1>10, <2>4, <2>5, <2>6 DEF OneAtATime, Idle, Queue
<1>11. QED
  BY <1>9, <1>10

LEMMA NextSolo == ASSUME IInv, NextUnit PROVE SoloFacts'
<1>1. unit' # 1
  BY NextHere, PlanHere
<1>2. QED
  BY <1>1 DEF SoloFacts, InUnit

\* The unit goes on with the next instruction, unless it ends or skips some.
LEMMA Onward ==
  ASSUME IInv, Runs, NEW p, NEW u, InUnit(p, u)', Ins.op = "await" => Ins.timeout = Raise
  PROVE  /\ InUnit(p, u) /\ plan = p /\ unit = u /\ Passes /\ pc \in Nat
         /\ Ins = PlanOf[p][u].body[pc] /\ Running = PlanOf[p][u]
         /\ pc' = pc + 1 /\ pc \in 1..(Len(Running.body) - 1) /\ Len(Running.body) \in Nat
<1>1. /\ ~Finished /\ UNCHANGED <<plan, unit>> /\ unit \in 1..Len(PlanOf[plan])
      /\ pc \in 1..Len(PlanOf[plan][unit].body) /\ Ins = Item(unit, pc)
      /\ Running = PlanOf[plan][unit] /\ pc # End
      /\ Len(Running.body) \in Nat /\ End = Len(Running.body) + 1
  BY RunsHere, PlanHere, Here, RunsTells DEF Steps, Goes
<1>2. plan = p /\ unit = u /\ pc' \in 1..Len(Running.body)
  BY <1>1 DEF InUnit
<1>3. ~Skipped /\ ~Raises
  BY <1>1, <1>2 DEF Skipped, Skips, Raises
<1>4. Passes
  BY <1>3, RunsEffect DEF Effect
<1>5. QED
  BY <1>1, <1>2, <1>4 DEF InUnit, Passes, Item

\* The scripts that send one by one always do.
LEMMA SoloOnward ==
  ASSUME IInv, Runs, NEW p \in {"predeploys", "scenarios"}, InUnit(p, 1)'
  PROVE  /\ InUnit(p, 1) /\ plan = p /\ unit = 1 /\ Passes /\ pc \in Nat
         /\ Ins = PlanOf[p][1].body[pc] /\ Running = PlanOf[p][1]
         /\ pc' = pc + 1 /\ pc \in 1..(Len(Running.body) - 1) /\ Len(Running.body) \in Nat
<1>1. /\ ~Finished /\ pc # End /\ UNCHANGED <<plan, unit>> /\ pc \in 1..Len(Running.body)
      /\ Running = PlanOf[plan][unit]
  BY RunsHere, PlanHere, RunsTells DEF Steps, Goes
<1>2. SoloScript(Running.body)
  <2>1. plan = p /\ unit = 1
    BY <1>1 DEF InUnit
  <2>2. QED
    BY <1>1, <2>1, InSolo
<1>3. Ins.op = "await" => Ins.timeout = Raise
  BY <1>1, <1>2 DEF SoloScript, Ins
<1>4. QED
  BY <1>3, Onward

LEMMA RunsSolo ==
  ASSUME IInv, InOrder, General, SoloFacts, Runs
  PROVE  SoloFacts'
<1>1. SUFFICES ASSUME plan' \in {"predeploys", "scenarios"}, InUnit(plan, 1)'
               PROVE  (Excused' \/ OneAtATime') /\ Waited'
  BY DEF SoloFacts
<1>2. /\ UNCHANGED <<height, ledger, fee, mined, plan, unit, bridge>> /\ trouble \subseteq trouble'
      /\ Front' = Front /\ (pool' = pool \/ (Ins.op = "send" /\ Sends))
      /\ ~Finished /\ pc # End
  BY RunsPool, RunsTells DEF Steps, Goes
<1>3. unit = 1 /\ plan \in {"predeploys", "scenarios"}
  BY <1>1, <1>2 DEF InUnit
<1>4. /\ InUnit(plan, 1) /\ SoloScript(Running.body) /\ \A j : Item(1, j) = Running.body[j]
      /\ Running.body = PlanOf[plan][1].body
  BY <1>2, <1>3, InSolo
<1> DEFINE s == Running.body
<1>5. /\ Passes /\ pc \in Nat /\ pc \in 1..Len(s) /\ Ins = s[pc] /\ Len(s) \in Nat /\ pc + 1 \in 1..Len(s)
      /\ Ins' = s[pc + 1] /\ Running' = Running /\ pc' = pc + 1
  <2>1. /\ Passes /\ pc \in Nat /\ Ins = PlanOf[plan][1].body[pc] /\ Running = PlanOf[plan][1]
        /\ pc' = pc + 1 /\ pc \in 1..(Len(Running.body) - 1) /\ Len(Running.body) \in Nat
    <3>1. InUnit(plan, 1)' /\ plan' = plan
      BY <1>1, <1>2
    <3>2. PICK p \in {"predeploys", "scenarios"} : p = plan
      BY <1>3
    <3>3. InUnit(p, 1)'
      BY <3>1, <3>2 DEF InUnit
    <3>4. QED
      BY <3>2, <3>3, SoloOnward
  <2>2. Running' = Running
    BY <1>2 DEF Running
  <2>3. QED
    BY <2>1, <2>2 DEF Ins
<1> HIDE DEF s
<1>6. (Excused \/ OneAtATime) /\ Waited
  BY <1>3, <1>4 DEF SoloFacts
<1>7. Ins.op = "await" => \E id : Ins.of = {id} /\ id \in DOMAIN mined
  BY <1>4, <1>5 DEF Passes, Found, SoloScript, s
<1>8. Waited'
  <2>1. ASSUME NEW q \in 1..pc, s[q].op = "await" PROVE s[q].of \subseteq DOMAIN mined
    <3>1. CASE q = pc
      BY <1>5, <1>7, <2>1, <3>1
    <3>2. CASE q # pc
      <4>1. q \in 1..(pc - 1) /\ Item(1, q) = s[q]
        BY <1>4, <1>5, <3>2 DEF s
      <4>2. QED
        BY <1>6, <2>1, <4>1 DEF Waited
    <3>3. QED
      BY <3>1, <3>2
  <2>2. \A j : Item(1, j)' = s[j]
    BY <1>2, <1>4 DEF Item, s
  <2>3. pc' - 1 = pc
    BY <1>5
  <2>4. QED
    BY <1>2, <2>1, <2>2, <2>3 DEF Waited
<1>9. SUFFICES ASSUME ~Excused', OneAtATime PROVE OneAtATime'
  BY <1>2, <1>6, <1>8 DEF Excused, Noted
<1>10. regs \in [Regs -> Int] /\ "nonce" \in Regs /\ Front \in Nat
  BY FrontLemma DEF IInv, TypeOK, Regs
<1>11. Ins'.op = "await" => Ins.op = "send" /\ Ins'.of = {Ins.id}
  <2>1. (pc + 1) - 1 = pc
    BY <1>5
  <2>2. QED
    BY <1>4, <1>5, <2>1 DEF SoloScript, s
<1>12. CASE Ins.op = "send"
  <2>1. Ins'.op = "await" /\ Ins'.of = {Ins.id} /\ Primed(s, pc) /\ Ins.nonce = "nonce" /\ Ins.plus = 0
        /\ Ins.price \in {"gwei", "quoted"} /\ Ins.op \notin Readers
    BY <1>4, <1>5, <1>12 DEF SoloScript, s, Readers
  <2>2. UNCHANGED regs /\ Sends
    BY <1>5, <1>12, <2>1 DEF Passes
  <2>3. Idle(regs["nonce"])
    BY <1>9, <1>12, <2>1 DEF OneAtATime, s
  <2>4. PICK t \in Tx : /\ t.id = Ins.id /\ t.nonce = NonceOf(Ins) /\ Admit(t)
                        /\ t.cap = Priced(Ins.price, regs["bf"]).cap
    BY <2>2 DEF Sends
  <2>5. t.nonce = regs["nonce"]
    BY <1>10, <2>1, <2>4 DEF NonceOf
  <2>6. t.cap >= fee
    <3>1. fee \in Nat /\ Ample \in Nat /\ fee < Ample
      BY L2NodeAssumption DEF IInv, TypeOK
    <3>2. Priced("gwei", regs["bf"]).cap = Ample /\ Priced("quoted", regs["bf"]).cap = fee
      BY DEF Priced
    <3>3. t.cap = Ample \/ t.cap = fee
      BY <2>1, <2>4, <3>2
    <3>4. QED
      BY <3>1, <3>3
  <2>7. t.id \notin DOMAIN mined
    BY <1>12, <2>4, NotYet DEF General
  <2>8. Line(pool', DOMAIN mined, Front, {} \cup {<<t.id, t.nonce>>}, regs["nonce"])
    BY <2>3, <2>4, <2>7, QueueSends DEF Idle
  <2>9. {} \cup {<<t.id, t.nonce>>} = {<<Ins.id, regs["nonce"]>>}
    BY <2>4, <2>5
  <2>10. Offered(pool', Front, fee, Ins.id, regs["nonce"])
    BY <2>4, <2>5, <2>6, SendsOffer
  <2>11. Line(pool', DOMAIN mined', Front', {<<Ins.id, regs'["nonce"]>>}, regs'["nonce"])
    BY <1>2, <2>2, <2>8, <2>9
  <2>12. QED
    BY <1>2, <2>1, <2>2, <2>10, <2>11 DEF OneAtATime, Queue, Sure
<1>13. CASE Ins.op # "send"
  <2>1. Ins'.op # "await" /\ UNCHANGED pool
    BY <1>2, <1>11, <1>13
  <2>2. ASSUME NEW k, Idle(k) PROVE Line(pool', DOMAIN mined', Front', {}, k)
    BY <1>2, <2>1, <2>2 DEF Idle, Queue
  <2>3. Primed(Running.body, pc)' => Ins.op = "nonce" \/ (Primed(s, pc) /\ Ins.op # "await")
    <3>1. SUFFICES ASSUME NEW q \in 1..pc, s[q].op = "nonce", \A k \in q..pc : s[k].op # "send", q # pc
                   PROVE  Primed(s, pc) /\ Ins.op # "await"
      <4>1. pc' - 1 = pc /\ Running'.body = s
        BY <1>5 DEF s
      <4>2. Primed(Running.body, pc)' =>
              \E q \in 1..pc : s[q].op = "nonce" /\ \A k \in q..pc : s[k].op # "send"
        BY <4>1 DEF Primed
      <4>3. QED
        BY <1>5, <4>2
    <3>2. q \in 1..(pc - 1) /\ \A k \in q..(pc - 1) : k \in q..pc
      BY <1>5, <3>1
    <3>3. Primed(s, pc)
      BY <3>1, <3>2 DEF Primed
    <3>4. pc - 1 \in q..pc
      BY <1>5, <3>2
    <3>5. Ins.op # "await"
      BY <1>4, <1>5, <3>1, <3>4 DEF SoloScript, s
    <3>6. QED
      BY <3>3, <3>5
  <2>4. CASE Ins.op = "await"
    <3>1. PICK id : Ins.of = {id} /\ id \in DOMAIN mined
      BY <1>7, <2>4
    <3>2. Queue({<<id, regs["nonce"]>>}, regs["nonce"])
      BY <1>9, <2>4, <3>1 DEF OneAtATime
    <3>3. regs["nonce"] \in Int /\ regs["nonce"] < Front /\ regs["nonce"] <= regs["nonce"] + 1
      BY <1>10, <3>1, <3>2 DEF Queue, Line
    <3>4. Idle(regs["nonce"] + 1) /\ Front = regs["nonce"] + 1
      BY <3>2, <3>3, Drained
    <3>5. Line(pool', DOMAIN mined', Front', {}, Front')
      BY <1>2, <2>2, <3>4
    <3>6. ~Primed(Running.body, pc)'
      BY <2>3, <2>4
    <3>7. QED
      BY <2>1, <3>5, <3>6 DEF OneAtATime, Idle, Queue
  <2>5. CASE Ins.op # "await"
    <3>1. Idle(Front) /\ (Primed(s, pc) => Idle(regs["nonce"]))
      BY <1>9, <2>5 DEF OneAtATime, s
    <3>2. Line(pool', DOMAIN mined', Front', {}, Front')
      BY <1>2, <2>2, <3>1
    <3>3. Ins.op = "nonce" => regs'["nonce"] = Front
      <4>1. SUFFICES ASSUME Ins.op = "nonce" PROVE regs'["nonce"] = Front
        OBVIOUS
      <4>2. Ins.into = "nonce" /\ Ins.op \in Readers
        BY <1>4, <1>5, <4>1 DEF SoloScript, s, Readers
      <4>3. PICK v \in Int : regs' = [regs EXCEPT ![Ins.into] = v] /\ Value(v)
        BY <1>5, <4>1, <4>2 DEF Passes, Reads
      <4>4. v = Latest(height)
        BY <1>9, <4>1, <4>3 DEF Value, Excused, Noted
      <4>5. v = Front
        BY <4>1, <4>4 DEF Latest, Front
      <4>6. QED
        BY <1>10, <4>2, <4>3, <4>5
    <3>4. Ins.op # "nonce" => regs'["nonce"] = regs["nonce"]
      <4>1. SUFFICES ASSUME Ins.op # "nonce" PROVE regs'["nonce"] = regs["nonce"]
        OBVIOUS
      <4>2. Ins.op \in Readers => Ins.into # "nonce"
        BY <1>4, <1>5, <4>1 DEF SoloScript, s
      <4>3. QED
        BY <1>10, <4>2, RunsTells DEF Told
    <3>5. Primed(Running.body, pc)' => Line(pool', DOMAIN mined', Front', {}, regs'["nonce"])
      BY <1>2, <2>2, <2>3, <3>1, <3>3, <3>4
    <3>6. QED
      BY <2>1, <3>2, <3>5 DEF OneAtATime, Idle, Queue
  <2>6. QED
    BY <2>4, <2>5
<1>14. QED
  BY <1>12, <1>13

LEMMA NextGeneral == ASSUME IInv, General, NextUnit PROVE General'
<1>1. /\ UNCHANGED <<plan, nodeVars>> /\ regs' = Fresh /\ unit' = unit + 1 /\ unit \in 1..Len(PlanOf[plan])
      /\ \A u, j : Item(u, j)' = Item(u, j)
      /\ \A u \in 1..Len(PlanOf[plan]) : \A j \in 1..Len(PlanOf[plan][u].body) :
           Past(u, j)' <=> Past(u, j)
  BY NextHere
<1>2. UNCHANGED <<pool, mined, live, holder, bridge>> /\ trouble' = trouble \cap Lasting
  BY <1>1 DEF NextUnit, nodeVars, chainVars, settings
<1>3. OnePerNonce' /\ Strays'
  BY <1>2 DEF General, OnePerNonce, Strays, Pooled, Lasting
<1>4. Constants'
  BY <1>1, <1>2 DEF General, Constants, Fresh, Regs, Lasting
<1>5. Solitary'
  <2>1. unit' # 1
    BY <1>1, PlanHere
  <2>2. QED
    BY <1>1, <1>2, <2>1 DEF General, Solitary, Alone
<1>6. FromScript'
  <2>1. plan \in {"predeploys", "scenarios"} => 1 \in 1..Len(PlanOf[plan])
    BY <1>1, PlanHere
  <2>2. QED
    BY <1>1, <1>2, <2>1 DEF General, FromScript, Pooled
<1>7. QED
  BY <1>3, <1>4, <1>5, <1>6 DEF General
-----------------------------------------------------------------------------
(* What the scripts that send one by one have read.                          *)

\* What is not sent yet is in no block.
LEMMA Absentee ==
  ASSUME IInv, FromScript, plan \in {"predeploys", "scenarios"}, unit = 1, NEW s, s = PlanOf[plan][1].body,
         SoloScript(s), NEW j \in 1..Len(s), s[j].op = "send", pc <= j
  PROVE  s[j].id \notin DOMAIN mined
<1>1. SUFFICES ASSUME s[j].id \in DOMAIN mined PROVE FALSE
  OBVIOUS
<1>2. s[j].id # "stray"
  BY DEF SoloScript
<1>3. PICK i \in 1..Len(s) : Past(1, i) /\ Item(1, i).op = "send" /\ Item(1, i).id = s[j].id
  BY <1>1, <1>2 DEF FromScript
<1>4. i = j
  BY <1>3 DEF SoloScript, Item
<1>5. pc > j
  BY <1>3, <1>4 DEF Past
<1>6. pc \in Int /\ j \in Int
  <2>1. ~Finished /\ Len(s) \in Nat
    BY PlanHere, PlanNames, PredeploysUnits, SingleUnits DEF Finished
  <2>2. QED
    BY <2>1, PlanHere
<1>7. QED
  BY <1>5, <1>6

LEMMA CountNone == ASSUME NEW S, S \cap DOMAIN mined = {}, NEW b PROVE Effects(S, b) = 0
<1>1. MinedBy(IF bridge THEN S ELSE S \ {"deposit", "withdraw"}, b) = {}
  BY DEF MinedBy
<1>2. QED
  BY <1>1, FS_EmptySet DEF Effects

LEMMA CountOne ==
  ASSUME NEW S, NEW id, S \cap DOMAIN mined = {id}, NEW b, mined[id].block <= b,
         bridge \/ id \notin {"deposit", "withdraw"}
  PROVE  Effects(S, b) = 1
<1>1. MinedBy(IF bridge THEN S ELSE S \ {"deposit", "withdraw"}, b) = {id}
  BY DEF MinedBy
<1>2. QED
  BY <1>1, FS_Singleton DEF Effects

LEMMA CountTwo ==
  ASSUME NEW S, {"inc1", "inc2"} = S, S \subseteq DOMAIN mined, NEW b, \A i \in S : mined[i].block <= b
  PROVE  Effects(S, b) = 2
<1>1. MinedBy(IF bridge THEN S ELSE S \ {"deposit", "withdraw"}, b) = {"inc1"} \cup {"inc2"}
  BY DEF MinedBy
<1>2. IsFiniteSet({"inc1"}) /\ Cardinality({"inc1"}) = 1
  BY FS_Singleton
<1>3. Cardinality({"inc1"} \cup {"inc2"}) = 2
  BY <1>2, FS_AddElement
<1>4. QED
  BY <1>1, <1>3 DEF Effects

\* The register is set by the instruction j alone.
Writes(s, r, j) == \A i \in 1..Len(s) : s[i].op \in Readers /\ s[i].into = r => i = j

LEMMA Otherwise ==
  ASSUME IInv, Runs, NEW r \in Regs, NEW j, Writes(Running.body, r, j), pc # j
  PROVE  regs'[r] = regs[r]
<1>1. pc \in 1..Len(Running.body)
  BY RunsHere, PlanHere
<1>2. QED
  BY <1>1, RunsTells DEF Writes, Ins, Told

LEMMA ReadOnward ==
  ASSUME IInv, Runs, Passes, pc \in Nat, NEW j \in Nat, NEW r \in Regs, NEW v, Writes(Running.body, r, j),
         Read(j, r, v), pc = j => Ins.into = r /\ Ins.op \in {"count", "nonce"} /\ Latest(height) = v
  PROVE  Read(j, r, v)'
<1>1. pc' = pc + 1 /\ trouble \subseteq trouble'
  BY RunsPool DEF Passes
<1>2. CASE pc # j
  BY <1>1, <1>2, Otherwise DEF Read
<1>3. CASE pc = j
  <2>1. PICK w \in Int : regs' = [regs EXCEPT ![Ins.into] = w] /\ Value(w)
    BY <1>3 DEF Passes, Reads, Readers
  <2>2. regs'[r] = w
    BY <1>3, <2>1 DEF IInv, TypeOK
  <2>3. QED
    BY <1>3, <2>1, <2>2 DEF Value, Read
<1>4. QED
  BY <1>2, <1>3

\* What a step of the node leaves of what was waited for.
LEMMA NodeKeepsMined ==
  ASSUME IInv, General, Node, plan \in {"predeploys", "scenarios"}
  PROVE  /\ trouble \subseteq trouble' /\ UNCHANGED <<plan, unit, pc, regs, bridge>>
         /\ DOMAIN mined \subseteq DOMAIN mined' /\ \A i \in DOMAIN mined : mined'[i] = mined[i]
<1>1. trouble \subseteq trouble' /\ UNCHANGED <<plan, unit, pc, regs, bridge>>
  BY NodeHere, NodeSteps DEF Takes, Stays, Comes
<1>2. Alone /\ Pooled \cap DOMAIN mined = {}
  BY DEF General, Solitary, FromScript
<1>3. CASE \E taken, n : Takes(taken, n)
  <2>1. PICK taken, n : Takes(taken, n)
    BY <1>3
  <2>2. \A t \in taken : t.id \notin DOMAIN mined
    BY <1>2, <2>1 DEF Takes, Pooled
  <2>3. QED
    BY <1>1, <2>1, <2>2 DEF Takes
<1>4. QED
  BY <1>1, <1>2, <1>3, AloneNode

LEMMA NodePredeploys ==
  ASSUME IInv, General, SoloFacts, PredeployFacts, Node PROVE PredeployFacts'
<1>1. SUFFICES ASSUME InUnit("predeploys", 1) PROVE PredeployFacts'
  BY NodeHere DEF PredeployFacts, InUnit
<1>2. /\ trouble \subseteq trouble' /\ UNCHANGED <<plan, unit, pc, regs, bridge>>
      /\ DOMAIN mined \subseteq DOMAIN mined' /\ \A i \in DOMAIN mined : mined'[i] = mined[i]
  BY <1>1, NodeKeepsMined DEF InUnit
<1>3. pc > 18 => "withdrawal" \in DOMAIN mined
  <2>1. Len(predeploy_matrix) = 52 /\ predeploy_matrix[15] = Await("withdrawal", Raise)
    BY PredeployItems
  <2>5. PlanOf[plan][1].body = predeploy_matrix
    BY <1>1, PlanNames, PredeploysUnits DEF InUnit
  <2>6. Item(1, 15) = Await("withdrawal", Raise)
    BY <2>1, <2>5 DEF Item
  <2>2. Item(1, 15).op = "await" /\ Item(1, 15).of = {"withdrawal"}
    BY <2>6 DEF Await
  <2>3. Waited
    BY <1>1 DEF SoloFacts, InUnit
  <2>7. pc > 18 => 15 \in 1..(pc - 1)
    <3>1. pc \in 1..52
      BY <1>1, <2>1, <2>5 DEF InUnit
    <3>2. QED
      BY <3>1
  <2>4. QED
    BY <2>2, <2>3, <2>7 DEF Waited
<1>4. QED
  BY <1>1, <1>2, <1>3 DEF PredeployFacts, Read, InUnit

LEMMA NodeScenarios == ASSUME IInv, General, ScenarioFacts, Node PROVE ScenarioFacts'
<1>1. SUFFICES ASSUME InUnit("scenarios", 1) PROVE ScenarioFacts'
  BY NodeHere DEF ScenarioFacts, InUnit
<1>2. trouble \subseteq trouble' /\ UNCHANGED <<plan, unit, pc, regs>>
  BY <1>1, NodeKeepsMined DEF InUnit
<1>3. QED
  BY <1>1, <1>2 DEF ScenarioFacts, Read, InUnit

LEMMA PredeployWrites ==
  LET s == predeploy_matrix IN
  /\ Writes(s, "seq0", 2) /\ Writes(s, "seq1", 3)
  /\ Writes(s, "root_before", 12) /\ Writes(s, "sm", 16) /\ Writes(s, "n", 18) /\ Writes(s, "root_at", 19)
  /\ Writes(s, "sv", 21) /\ Writes(s, "later", 23) /\ Writes(s, "stable_root", 24)
  /\ Writes(s, "nonce0", 28) /\ Writes(s, "nonce1", 32) /\ Writes(s, "bal0", 37) /\ Writes(s, "bal1", 41)
  /\ Writes(s, "bal2", 43) /\ Writes(s, "bal3", 47)
<1> DEFINE s == predeploy_matrix
<1>1. \A i \in 1..Len(s) : s[i].op \in Readers =>
        \/ s[i].into = "nonce"
        \/ i = 2 /\ s[i].into = "seq0"
        \/ i = 3 /\ s[i].into = "seq1"
        \/ i = 11 /\ s[i].into = "head"
        \/ i = 12 /\ s[i].into = "root_before"
        \/ i = 16 /\ s[i].into = "sm"
        \/ i = 18 /\ s[i].into = "n"
        \/ i = 19 /\ s[i].into = "root_at"
        \/ i = 21 /\ s[i].into = "sv"
        \/ i = 23 /\ s[i].into = "later"
        \/ i = 24 /\ s[i].into = "stable_root"
        \/ i = 28 /\ s[i].into = "nonce0"
        \/ i = 32 /\ s[i].into = "nonce1"
        \/ i = 37 /\ s[i].into = "bal0"
        \/ i = 41 /\ s[i].into = "bal1"
        \/ i = 43 /\ s[i].into = "bal2"
        \/ i = 47 /\ s[i].into = "bal3"
  BY PredeployItems
     DEF Readers, Ask, SequenceNumber, BlockNumber, Root, Field, LaterBlock, Nonce, Send, Await, Count,
         Check
<1> HIDE DEF s
<1>2. /\ Writes(s, "seq0", 2) /\ Writes(s, "seq1", 3)
      /\ Writes(s, "root_before", 12) /\ Writes(s, "sm", 16) /\ Writes(s, "n", 18) /\ Writes(s, "root_at", 19)
      /\ Writes(s, "sv", 21) /\ Writes(s, "later", 23) /\ Writes(s, "stable_root", 24)
  BY <1>1 DEF Writes
<1>3. /\ Writes(s, "nonce0", 28) /\ Writes(s, "nonce1", 32) /\ Writes(s, "bal0", 37)
      /\ Writes(s, "bal1", 41) /\ Writes(s, "bal2", 43) /\ Writes(s, "bal3", 47)
  BY <1>1 DEF Writes
<1>4. QED
  BY <1>2, <1>3 DEF s

LEMMA ScenarioWrites ==
  LET s == l2_tx_scenarios IN
  /\ Writes(s, "code", 4) /\ Writes(s, "counter1", 9) /\ Writes(s, "counter2", 13)
  /\ Writes(s, "counter3", 19)
BY ScenarioItems DEF Writes, Readers, Nonce, Send, Await, Count, Check

\* What predeploy_matrix.py has put into the chain.
LEMMA PredeployMined ==
  ASSUME IInv, General, SoloFacts, InUnit("predeploys", 1)
  PROVE  /\ pc <= 14 => "withdrawal" \notin DOMAIN mined
         /\ pc <= 29 => "message" \notin DOMAIN mined
         /\ pc <= 39 => "deposit" \notin DOMAIN mined
         /\ pc <= 45 => "withdraw" \notin DOMAIN mined
         /\ pc > 15 => "withdrawal" \in DOMAIN mined
         /\ pc > 30 => "message" \in DOMAIN mined
         /\ pc > 40 => "deposit" \in DOMAIN mined
         /\ pc > 46 => "withdraw" \in DOMAIN mined
<1> DEFINE s == predeploy_matrix
<1>1. /\ Len(s) = 52 /\ SoloScript(s) /\ s = PlanOf[plan][1].body /\ unit = 1 /\ plan = "predeploys"
      /\ pc \in 1..52
  BY PredeployItems, PredeploysAreSolo, PlanNames, PredeploysUnits DEF InUnit
<1>2. /\ s[14].op = "send" /\ s[14].id = "withdrawal" /\ s[29].op = "send" /\ s[29].id = "message"
      /\ s[39].op = "send" /\ s[39].id = "deposit" /\ s[45].op = "send" /\ s[45].id = "withdraw"
      /\ s[15].op = "await" /\ s[15].of = {"withdrawal"} /\ s[30].op = "await" /\ s[30].of = {"message"}
      /\ s[40].op = "await" /\ s[40].of = {"deposit"} /\ s[46].op = "await" /\ s[46].of = {"withdraw"}
  BY PredeployItems DEF Send, Await
<1> HIDE DEF s
<1>3. \A j \in 1..52 : s[j].op = "send" /\ pc <= j => s[j].id \notin DOMAIN mined
  BY <1>1, Absentee DEF General
<1>4. \A q \in 1..(pc - 1) : s[q].op = "await" => s[q].of \subseteq DOMAIN mined
  <2>1. Waited
    BY <1>1 DEF SoloFacts, InUnit
  <2>2. QED
    BY <1>1, <2>1 DEF Waited, Item
<1>5. /\ pc <= 14 => "withdrawal" \notin DOMAIN mined
      /\ pc <= 29 => "message" \notin DOMAIN mined
      /\ pc <= 39 => "deposit" \notin DOMAIN mined
      /\ pc <= 45 => "withdraw" \notin DOMAIN mined
  BY <1>2, <1>3
<1>6. /\ pc > 15 => 15 \in 1..(pc - 1)
      /\ pc > 30 => 30 \in 1..(pc - 1)
      /\ pc > 40 => 40 \in 1..(pc - 1)
      /\ pc > 46 => 46 \in 1..(pc - 1)
  BY <1>1
<1>7. QED
  BY <1>2, <1>4, <1>5, <1>6

LEMMA ScenarioMined ==
  ASSUME IInv, General, SoloFacts, InUnit("scenarios", 1)
  PROVE  /\ pc <= 11 => "inc2" \notin DOMAIN mined
         /\ pc > 3 => "create" \in DOMAIN mined
         /\ pc > 8 => "inc1" \in DOMAIN mined
         /\ pc > 12 => "inc2" \in DOMAIN mined
<1> DEFINE s == l2_tx_scenarios
<1>1. /\ Len(s) = 20 /\ SoloScript(s) /\ s = PlanOf[plan][1].body /\ unit = 1 /\ plan = "scenarios"
      /\ pc \in 1..20
  BY ScenarioItems, ScenariosAreSolo, SingleUnits DEF InUnit
<1>2. /\ s[11].op = "send" /\ s[11].id = "inc2"
      /\ s[3].op = "await" /\ s[3].of = {"create"} /\ s[8].op = "await" /\ s[8].of = {"inc1"}
      /\ s[12].op = "await" /\ s[12].of = {"inc2"}
  BY ScenarioItems DEF Send, Await
<1> HIDE DEF s
<1>3. \A j \in 1..20 : s[j].op = "send" /\ pc <= j => s[j].id \notin DOMAIN mined
  BY <1>1, Absentee DEF General
<1>4. \A q \in 1..(pc - 1) : s[q].op = "await" => s[q].of \subseteq DOMAIN mined
  <2>1. Waited
    BY <1>1 DEF SoloFacts, InUnit
  <2>2. QED
    BY <1>1, <2>1 DEF Waited, Item
<1>5. QED
  BY <1>1, <1>2, <1>3, <1>4

LEMMA RunsScenarios ==
  ASSUME IInv, General, SoloFacts, ScenarioFacts, Runs
  PROVE  ScenarioFacts'
<1> DEFINE s == l2_tx_scenarios
<1>1. SUFFICES ASSUME InUnit("scenarios", 1)'
               PROVE  Read(4, "code", 1)' /\ Read(9, "counter1", 1)' /\ Read(13, "counter2", 2)'
                      /\ Read(19, "counter3", 2)'
  BY DEF ScenarioFacts
<1>2. InUnit("scenarios", 1) /\ Passes /\ pc \in Nat /\ Ins = s[pc] /\ Running.body = s
  BY <1>1, SoloOnward, SingleUnits
<1>3. Read(4, "code", 1) /\ Read(9, "counter1", 1) /\ Read(13, "counter2", 2) /\ Read(19, "counter3", 2)
  BY <1>2 DEF ScenarioFacts
<1>4. /\ Writes(Running.body, "code", 4) /\ Writes(Running.body, "counter1", 9)
      /\ Writes(Running.body, "counter2", 13) /\ Writes(Running.body, "counter3", 19)
  BY <1>2, ScenarioWrites
<1>5. /\ s[4] = Count({"create"}, "code") /\ s[9] = Count({"inc1", "inc2"}, "counter1")
      /\ s[13] = Count({"inc1", "inc2"}, "counter2") /\ s[19] = Count({"inc1", "inc2"}, "counter3")
  BY ScenarioItems
<1>6. /\ pc <= 11 => "inc2" \notin DOMAIN mined
      /\ pc > 3 => "create" \in DOMAIN mined
      /\ pc > 8 => "inc1" \in DOMAIN mined
      /\ pc > 12 => "inc2" \in DOMAIN mined
  BY <1>2, ScenarioMined
<1> HIDE DEF s
<1>7. \A i \in DOMAIN mined : mined[i].block <= height
  BY DEF IInv, Shape
<1>8. pc = 4 => Ins.into = "code" /\ Ins.op \in {"count", "nonce"} /\ Latest(height) = 1
  <2>1. pc = 4 => Effects({"create"}, height) = 1
    BY <1>6, <1>7, CountOne
  <2>2. QED
    BY <1>2, <1>5, <2>1 DEF Count, Latest
<1>9. pc = 9 => Ins.into = "counter1" /\ Ins.op \in {"count", "nonce"} /\ Latest(height) = 1
  <2>1. pc = 9 => {"inc1", "inc2"} \cap DOMAIN mined = {"inc1"}
    BY <1>6
  <2>2. pc = 9 => Effects({"inc1", "inc2"}, height) = 1
    BY <1>6, <1>7, <2>1, CountOne
  <2>3. QED
    BY <1>2, <1>5, <2>2 DEF Count, Latest
<1>10. pc > 12 => Effects({"inc1", "inc2"}, height) = 2
  <2>1. pc > 12 => {"inc1", "inc2"} \subseteq DOMAIN mined
    BY <1>2, <1>6
  <2>2. QED
    BY <1>7, <2>1, CountTwo
<1>11. pc = 13 => Ins.into = "counter2" /\ Ins.op \in {"count", "nonce"} /\ Latest(height) = 2
  BY <1>2, <1>5, <1>10 DEF Count, Latest
<1>12. pc = 19 => Ins.into = "counter3" /\ Ins.op \in {"count", "nonce"} /\ Latest(height) = 2
  BY <1>2, <1>5, <1>10 DEF Count, Latest
<1>13. {"code", "counter1", "counter2", "counter3"} \subseteq Regs
  BY DEF Regs
<1>14. Read(4, "code", 1)' /\ Read(9, "counter1", 1)'
  BY <1>2, <1>3, <1>4, <1>8, <1>9, <1>13, ReadOnward
<1>15. Read(13, "counter2", 2)' /\ Read(19, "counter3", 2)'
  BY <1>2, <1>3, <1>4, <1>11, <1>12, <1>13, ReadOnward
<1>16. QED
  BY <1>14, <1>15

\* The counts of predeploy_matrix.py.
LEMMA PredeployCounts ==
  ASSUME IInv, General, SoloFacts, InUnit("predeploys", 1)
  PROVE  /\ pc <= 14 => \A b : PasserRoot(b) = 0
         /\ pc > 15 /\ pc <= 29 => \A b : mined["withdrawal"].block <= b => PasserRoot(b) = 1
         /\ pc > 15 => Effects({"withdrawal"}, height) = 1
         /\ pc <= 29 => Effects({"message"}, height) = 0
         /\ pc > 30 => Effects({"message"}, height) = 1
         /\ pc <= 39 => Effects({"deposit"}, height) = 0
         /\ pc > 40 => Effects({"deposit"}, height) = 1 \/ "bridge" \in trouble
         /\ pc <= 45 => Effects({"withdraw"}, height) = 0
         /\ pc > 46 => Effects({"withdraw"}, height) = 1 \/ "bridge" \in trouble
<1>1. /\ pc <= 14 => "withdrawal" \notin DOMAIN mined
      /\ pc <= 29 => "message" \notin DOMAIN mined
      /\ pc <= 39 => "deposit" \notin DOMAIN mined
      /\ pc <= 45 => "withdraw" \notin DOMAIN mined
      /\ pc > 15 => "withdrawal" \in DOMAIN mined
      /\ pc > 30 => "message" \in DOMAIN mined
      /\ pc > 40 => "deposit" \in DOMAIN mined
      /\ pc > 46 => "withdraw" \in DOMAIN mined
      /\ pc \in Nat
  <2>1. pc \in 1..52
    BY PredeployItems, PlanNames, PredeploysUnits DEF InUnit
  <2>2. QED
    BY <2>1, PredeployMined
<1>2. \A i \in DOMAIN mined : mined[i].block <= height
  BY DEF IInv, Shape
<1>3. bridge \/ "bridge" \in trouble
  BY DEF General, Constants
<1> DEFINE S == {"withdrawal", "message", "deposit", "withdraw"}
<1>4. pc <= 14 => \A b : PasserRoot(b) = 0
  <2>1. pc <= 14 => S \cap DOMAIN mined = {}
    BY <1>1
  <2>2. QED
    BY <2>1, CountNone DEF PasserRoot
<1>5. pc > 15 /\ pc <= 29 => \A b : mined["withdrawal"].block <= b => PasserRoot(b) = 1
  <2>1. pc > 15 /\ pc <= 29 => S \cap DOMAIN mined = {"withdrawal"}
    BY <1>1
  <2>2. QED
    BY <2>1, CountOne DEF PasserRoot
<1>6. pc > 15 => Effects({"withdrawal"}, height) = 1
  BY <1>1, <1>2, CountOne
<1>7. pc > 30 => Effects({"message"}, height) = 1
  BY <1>1, <1>2, CountOne
<1>8. pc > 40 => Effects({"deposit"}, height) = 1 \/ "bridge" \in trouble
  BY <1>1, <1>2, <1>3, CountOne
<1>9. pc > 46 => Effects({"withdraw"}, height) = 1 \/ "bridge" \in trouble
  BY <1>1, <1>2, <1>3, CountOne
<1>10. /\ pc <= 29 => Effects({"message"}, height) = 0
       /\ pc <= 39 => Effects({"deposit"}, height) = 0
       /\ pc <= 45 => Effects({"withdraw"}, height) = 0
  BY <1>1, CountNone
<1>11. QED
  BY <1>4, <1>5, <1>6, <1>7, <1>8, <1>9, <1>10

LEMMA RunsPredeploys ==
  ASSUME IInv, General, SoloFacts, PredeployFacts, Runs
  PROVE  PredeployFacts'
<1> DEFINE s == predeploy_matrix
<1>1. SUFFICES ASSUME InUnit("predeploys", 1)' PROVE PredeployFacts'
  BY DEF PredeployFacts
<1>2. /\ InUnit("predeploys", 1) /\ Passes /\ pc \in Nat /\ Ins = s[pc] /\ Running.body = s
      /\ pc' = pc + 1 /\ pc \in 1..51
  <2>1. PlanOf["predeploys"][1].body = s
    BY PlanNames, PredeploysUnits
  <2>2. Len(s) = 52
    BY PredeployItems
  <2> HIDE DEF s
  <2>3. /\ InUnit("predeploys", 1) /\ Passes /\ pc \in Nat /\ Ins = PlanOf["predeploys"][1].body[pc]
        /\ Running = PlanOf["predeploys"][1]
        /\ pc' = pc + 1 /\ pc \in 1..(Len(Running.body) - 1)
    BY <1>1, SoloOnward
  <2>4. Running.body = s /\ Ins = s[pc]
    BY <2>1, <2>3
  <2>5. Len(Running.body) - 1 = 51
    BY <2>2, <2>4
  <2>6. QED
    BY <2>3, <2>4, <2>5
<1>3. /\ pc > 2 => regs["seq0"] = 0 \/ "written" \in trouble
      /\ pc > 3 => regs["seq1"] = 0 \/ "written" \in trouble
      /\ pc > 12 => regs["root_before"] <= 0
      /\ Read(16, "sm", 1) /\ Read(21, "sv", 1)
      /\ pc > 18 => regs["n"] = mined["withdrawal"].block
      /\ pc > 19 => regs["root_at"] = 1
      /\ pc <= 23 => regs["later"] = -1
      /\ pc > 23 => regs["later"] > regs["n"] \/ (regs["later"] = -1 /\ "idle" \in trouble)
      /\ pc > 24 => regs["stable_root"] = 1 \/ "idle" \in trouble
      /\ Read(28, "nonce0", 0) /\ Read(32, "nonce1", 1)
      /\ Read(37, "bal0", 0) /\ (Read(41, "bal1", 1) \/ "bridge" \in trouble)
      /\ Read(43, "bal2", 0) /\ (Read(47, "bal3", 1) \/ "bridge" \in trouble)
  BY <1>2 DEF PredeployFacts
<1>4. /\ Writes(Running.body, "seq0", 2) /\ Writes(Running.body, "seq1", 3)
      /\ Writes(Running.body, "root_before", 12) /\ Writes(Running.body, "sm", 16)
      /\ Writes(Running.body, "n", 18) /\ Writes(Running.body, "root_at", 19)
      /\ Writes(Running.body, "sv", 21) /\ Writes(Running.body, "later", 23)
      /\ Writes(Running.body, "stable_root", 24) /\ Writes(Running.body, "nonce0", 28)
      /\ Writes(Running.body, "nonce1", 32) /\ Writes(Running.body, "bal0", 37)
      /\ Writes(Running.body, "bal1", 41) /\ Writes(Running.body, "bal2", 43)
      /\ Writes(Running.body, "bal3", 47)
  BY <1>2, PredeployWrites
<1>5. /\ s[2] = SequenceNumber("seq0") /\ s[3] = SequenceNumber("seq1")
      /\ s[12] = Root("head", "root_before") /\ s[16] = Count({"withdrawal"}, "sm")
      /\ s[18] = Field("withdrawal", "block", "n") /\ s[19] = Root("n", "root_at")
      /\ s[21] = Count({"withdrawal"}, "sv") /\ s[23] = LaterBlock("n", "later")
      /\ s[24] = Root("later", "stable_root")
      /\ s[28] = Count({"message"}, "nonce0") /\ s[32] = Count({"message"}, "nonce1")
      /\ s[37] = Count({"deposit"}, "bal0") /\ s[41] = Count({"deposit"}, "bal1")
      /\ s[43] = Count({"withdraw"}, "bal2") /\ s[47] = Count({"withdraw"}, "bal3")
  BY PredeployItems
<1> HIDE DEF s
<1>6. /\ pc <= 14 => \A b : PasserRoot(b) = 0
      /\ pc > 15 /\ pc <= 29 => \A b : mined["withdrawal"].block <= b => PasserRoot(b) = 1
      /\ pc > 15 => Effects({"withdrawal"}, height) = 1
      /\ pc <= 29 => Effects({"message"}, height) = 0
      /\ pc > 30 => Effects({"message"}, height) = 1
      /\ pc <= 39 => Effects({"deposit"}, height) = 0
      /\ pc > 40 => Effects({"deposit"}, height) = 1 \/ "bridge" \in trouble
      /\ pc <= 45 => Effects({"withdraw"}, height) = 0
      /\ pc > 46 => Effects({"withdraw"}, height) = 1 \/ "bridge" \in trouble
  BY <1>2, PredeployCounts
<1>7. /\ {"root_before", "sm", "n", "root_at", "sv", "later", "stable_root"} \subseteq Regs
      /\ {"seq0", "seq1", "nonce0", "nonce1", "bal0", "bal1", "bal2", "bal3"} \subseteq Regs
  BY DEF Regs
<1>8. UNCHANGED <<mined, height>> /\ trouble \subseteq trouble' /\ regs \in [Regs -> Int]
  BY RunsPool DEF IInv, TypeOK
<1>9. Ins.op \in {"root", "field", "later"} /\ Ins.into \in Regs =>
        \/ Value(regs'[Ins.into])
        \/ Ins.op = "later" /\ ~(height > regs[Ins.past]) /\ "idle" \in trouble' /\ UNCHANGED regs
  BY <1>2, <1>8 DEF Passes, Reads, Readers
<1>10. Read(16, "sm", 1)' /\ Read(21, "sv", 1)'
  <2>1. /\ pc = 16 => Ins.into = "sm" /\ Ins.op \in {"count", "nonce"} /\ Latest(height) = 1
        /\ pc = 21 => Ins.into = "sv" /\ Ins.op \in {"count", "nonce"} /\ Latest(height) = 1
    <3>1. pc = 16 => Ins = Count({"withdrawal"}, "sm") /\ Effects({"withdrawal"}, height) = 1
      BY <1>2, <1>5, <1>6
    <3>2. pc = 21 => Ins = Count({"withdrawal"}, "sv") /\ Effects({"withdrawal"}, height) = 1
      BY <1>2, <1>5, <1>6
    <3>3. QED
      BY <3>1, <3>2 DEF Count, Latest
  <2>2. QED
    BY <1>2, <1>3, <1>4, <1>7, <2>1, ReadOnward
<1>11. Read(28, "nonce0", 0)' /\ Read(32, "nonce1", 1)'
  <2>1. /\ pc = 28 => Ins.into = "nonce0" /\ Ins.op \in {"count", "nonce"} /\ Latest(height) = 0
        /\ pc = 32 => Ins.into = "nonce1" /\ Ins.op \in {"count", "nonce"} /\ Latest(height) = 1
    <3>1. pc = 28 => Ins = Count({"message"}, "nonce0") /\ Effects({"message"}, height) = 0
      BY <1>2, <1>5, <1>6
    <3>2. pc = 32 => Ins = Count({"message"}, "nonce1") /\ Effects({"message"}, height) = 1
      BY <1>2, <1>5, <1>6
    <3>3. QED
      BY <3>1, <3>2 DEF Count, Latest
  <2>2. QED
    BY <1>2, <1>3, <1>4, <1>7, <2>1, ReadOnward
<1>12. Read(37, "bal0", 0)' /\ Read(43, "bal2", 0)'
  <2>1. /\ pc = 37 => Ins.into = "bal0" /\ Ins.op \in {"count", "nonce"} /\ Latest(height) = 0
        /\ pc = 43 => Ins.into = "bal2" /\ Ins.op \in {"count", "nonce"} /\ Latest(height) = 0
    <3>1. pc = 37 => Ins = Count({"deposit"}, "bal0") /\ Effects({"deposit"}, height) = 0
      BY <1>2, <1>5, <1>6
    <3>2. pc = 43 => Ins = Count({"withdraw"}, "bal2") /\ Effects({"withdraw"}, height) = 0
      BY <1>2, <1>5, <1>6
    <3>3. QED
      BY <3>1, <3>2 DEF Count, Latest
  <2>2. QED
    BY <1>2, <1>3, <1>4, <1>7, <2>1, ReadOnward
<1>13. (Read(41, "bal1", 1) \/ "bridge" \in trouble)' /\ (Read(47, "bal3", 1) \/ "bridge" \in trouble)'
  <2>1. CASE "bridge" \in trouble
    BY <1>8, <2>1
  <2>2. CASE "bridge" \notin trouble
    <3>1. /\ pc = 41 => Ins.into = "bal1" /\ Ins.op \in {"count", "nonce"} /\ Latest(height) = 1
          /\ pc = 47 => Ins.into = "bal3" /\ Ins.op \in {"count", "nonce"} /\ Latest(height) = 1
      <4>1. pc = 41 => Ins = Count({"deposit"}, "bal1") /\ Effects({"deposit"}, height) = 1
        BY <1>2, <1>5, <1>6, <2>2
      <4>2. pc = 47 => Ins = Count({"withdraw"}, "bal3") /\ Effects({"withdraw"}, height) = 1
        BY <1>2, <1>5, <1>6, <2>2
      <4>3. QED
        BY <4>1, <4>2 DEF Count, Latest
    <3>2. QED
      BY <1>2, <1>3, <1>4, <1>7, <2>2, <3>1, ReadOnward
  <2>3. QED
    BY <2>1, <2>2
<1>14. pc' > 12 => regs'["root_before"] <= 0
  <2>1. CASE pc # 12
    BY <1>2, <1>3, <1>4, <1>7, <2>1, Otherwise
  <2>2. CASE pc = 12
    <3>1. Ins.op = "root" /\ Ins.into = "root_before" /\ Ins.at = "head"
      BY <1>2, <1>5, <2>2 DEF Root
    <3>2. regs'["root_before"] = IF regs["head"] = -1 THEN -1 ELSE PasserRoot(regs["head"])
      BY <1>7, <1>9, <3>1 DEF Value
    <3>3. QED
      BY <1>6, <2>2, <3>2
  <2>3. QED
    BY <2>1, <2>2
<1>15. pc' > 18 => regs'["n"] = mined["withdrawal"].block
  <2>1. CASE pc # 18
    BY <1>2, <1>3, <1>4, <1>7, <2>1, Otherwise
  <2>2. CASE pc = 18
    <3>1. Ins.op = "field" /\ Ins.into = "n" /\ Ins.of = "withdrawal" /\ Ins.what = "block"
      BY <1>2, <1>5, <2>2 DEF Field
    <3>2. regs'["n"] = mined["withdrawal"]["block"]
      BY <1>7, <1>9, <3>1 DEF Value
    <3>3. QED
      BY <3>2
  <2>3. QED
    BY <2>1, <2>2
<1>16. pc > 15 => mined["withdrawal"].block \in Nat
  <2>1. pc > 15 => "withdrawal" \in DOMAIN mined
    BY <1>2, PredeployMined
  <2>2. QED
    BY <2>1 DEF IInv, TypeOK, Place
<1>17. pc' > 19 => regs'["root_at"] = 1
  <2>1. CASE pc # 19
    BY <1>2, <1>3, <1>4, <1>7, <2>1, Otherwise
  <2>2. CASE pc = 19
    <3>1. Ins.op = "root" /\ Ins.into = "root_at" /\ Ins.at = "n"
      BY <1>2, <1>5, <2>2 DEF Root
    <3>2. regs'["root_at"] = IF regs["n"] = -1 THEN -1 ELSE PasserRoot(regs["n"])
      BY <1>7, <1>9, <3>1 DEF Value
    <3>3. QED
      BY <1>3, <1>6, <1>16, <2>2, <3>2
  <2>3. QED
    BY <2>1, <2>2
<1>18. /\ pc' <= 23 => regs'["later"] = -1
       /\ pc' > 23 => regs'["later"] > regs'["n"] \/ (regs'["later"] = -1 /\ "idle" \in trouble')
  <2>1. CASE pc # 23
    <3>1. regs'["later"] = regs["later"]
      BY <1>4, <1>7, <2>1, Otherwise
    <3>2. pc > 23 => regs'["n"] = regs["n"]
      BY <1>2, <1>4, <1>7, Otherwise
    <3>3. QED
      BY <1>2, <1>3, <1>8, <2>1, <3>1, <3>2
  <2>2. CASE pc = 23
    <3>1. Ins.op = "later" /\ Ins.into = "later" /\ Ins.past = "n"
      BY <1>2, <1>5, <2>2 DEF LaterBlock
    <3>2. regs'["n"] = regs["n"]
      BY <1>4, <1>7, <2>2, Otherwise
    <3>3. regs'["later"] > regs["n"] \/ ("idle" \in trouble' /\ UNCHANGED regs)
      BY <1>7, <1>9, <3>1 DEF Value
    <3>4. QED
      BY <1>2, <1>3, <2>2, <3>2, <3>3
  <2>3. QED
    BY <2>1, <2>2
<1>19. pc' > 24 => regs'["stable_root"] = 1 \/ "idle" \in trouble'
  <2>1. CASE pc # 24
    BY <1>2, <1>3, <1>4, <1>7, <1>8, <2>1, Otherwise
  <2>2. CASE pc = 24
    <3>1. Ins.op = "root" /\ Ins.into = "stable_root" /\ Ins.at = "later"
      BY <1>2, <1>5, <2>2 DEF Root
    <3>2. regs'["stable_root"] = IF regs["later"] = -1 THEN -1 ELSE PasserRoot(regs["later"])
      BY <1>7, <1>9, <3>1 DEF Value
    <3>3. regs["n"] \in Nat /\ regs["later"] \in Int /\ regs["n"] = mined["withdrawal"].block
      BY <1>3, <1>7, <1>8, <1>16, <2>2
    <3>4. regs["later"] > regs["n"] \/ "idle" \in trouble'
      BY <1>3, <1>8, <2>2
    <3>5. regs["later"] > regs["n"] => regs["later"] # -1 /\ PasserRoot(regs["later"]) = 1
      BY <1>6, <2>2, <3>3
    <3>6. QED
      BY <3>2, <3>4, <3>5
  <2>3. QED
    BY <2>1, <2>2
<1>20. Ins.op = "seq" /\ Ins.into \in Regs => regs'[Ins.into] = 0 \/ "written" \in trouble'
  BY <1>2, <1>8 DEF Passes, Reads, Readers, Value
<1>21. /\ pc' > 2 => regs'["seq0"] = 0 \/ "written" \in trouble'
       /\ pc' > 3 => regs'["seq1"] = 0 \/ "written" \in trouble'
  <2>1. /\ pc = 2 => Ins.op = "seq" /\ Ins.into = "seq0"
        /\ pc = 3 => Ins.op = "seq" /\ Ins.into = "seq1"
    BY <1>2, <1>5 DEF SequenceNumber
  <2>2. pc # 2 => regs'["seq0"] = regs["seq0"]
    BY <1>4, <1>7, Otherwise
  <2>3. pc # 3 => regs'["seq1"] = regs["seq1"]
    BY <1>4, <1>7, Otherwise
  <2>4. QED
    BY <1>2, <1>3, <1>7, <1>8, <1>20, <2>1, <2>2, <2>3
<1>22. QED
  BY <1>8, <1>10, <1>11, <1>12, <1>13, <1>14, <1>15, <1>17, <1>18, <1>19, <1>21 DEF PredeployFacts

LEMMA InitReads ==
  ASSUME Init
  PROVE  PredeployFacts /\ ScenarioFacts
<1>1. pc = 1 /\ regs = Fresh
  BY DEF Init
<1>2. Fresh["later"] = -1
  BY DEF Fresh, Regs
<1>3. QED
  BY <1>1, <1>2 DEF PredeployFacts, ScenarioFacts, Read
-----------------------------------------------------------------------------
(* What the read groups of rpc_matrix.py and state_verify.py have read.       *)

ReadsFacts == ChainFacts /\ BlocksFacts /\ TableFacts

LEMMA ReadsNames ==
  /\ PlanOf["reads"][3].body = a2_chain /\ PlanOf["reads"][4].body = a2_blocks
  /\ PlanOf["reads"][9].body = b1_table_consistency \o b2_header_chain
  /\ PlanOf["reads"][4].name = "a2_blocks" /\ PlanOf["reads"][9].name # "b4_persist"
<1>1. reads[9].name = "state_verify"
  BY DEF reads, Unit
<1>2. QED
  BY <1>1, PlanNames, ReadsUnits

LEMMA NodeReads ==
  ASSUME IInv, ReadsFacts, Node
  PROVE  ReadsFacts'
<1>1. /\ UNCHANGED <<plan, unit, pc, regs>> /\ Running = PlanOf[plan][unit]
      /\ trouble \subseteq trouble'
  BY NodeHere, NodeSteps DEF Takes, Stays, Comes
<1>2. fee' = fee \/ "fee" \in trouble'
  BY NodeSteps DEF Takes, Stays, Comes
<1>3. \/ UNCHANGED height
      \/ /\ height' = height + 1
         /\ Running.name = "a2_blocks" /\ pc > 1 => "sealed" \in trouble'
      \/ Running.name = "b4_persist"
  BY NodeSteps DEF Takes, Stays, Comes
<1>4. ChainFacts'
  BY <1>1, <1>2 DEF ReadsFacts, ChainFacts, InUnit
<1>5. BlocksFacts'
  <2>1. InUnit("reads", 4) => Running.name = "a2_blocks"
    BY <1>1, ReadsNames DEF InUnit
  <2>2. regs \in [Regs -> Int] /\ "num" \in Regs /\ height \in Nat
    BY DEF IInv, TypeOK, Regs
  <2>3. /\ Resolved("safe", SafeWindow) => Resolved("safe", SafeWindow)'
        /\ Resolved("finalized", FinalizedWindow) => Resolved("finalized", FinalizedWindow)'
    BY <1>1 DEF Resolved
  <2>4. QED
    BY <1>1, <1>3, <2>1, <2>2, <2>3 DEF ReadsFacts, BlocksFacts, InUnit
<1>6. TableFacts'
  <2>1. InUnit("reads", 9) => Running.name # "b4_persist"
    BY <1>1, ReadsNames DEF InUnit
  <2>2. regs \in [Regs -> Int] /\ "number" \in Regs /\ height \in Nat
    BY DEF IInv, TypeOK, Regs
  <2>3. InUnit("reads", 9) => height' >= height
    BY <1>3, <2>1, <2>2
  <2>4. InUnit("reads", 9) /\ pc > 1 => regs["number"] <= height'
    <3>1. SUFFICES ASSUME InUnit("reads", 9), pc > 1 PROVE regs["number"] <= height'
      OBVIOUS
    <3>2. regs["number"] <= height /\ height' \in Int
      BY <1>3, <2>1, <2>2, <3>1 DEF ReadsFacts, TableFacts
    <3>3. QED
      BY <2>2, <2>3, <3>1, <3>2
  <2>5. QED
    BY <1>1, <2>4 DEF ReadsFacts, TableFacts, InUnit
<1>7. QED
  BY <1>4, <1>5, <1>6 DEF ReadsFacts

\* What a read puts into its register.
LEMMA Reading ==
  ASSUME IInv, Runs, Passes, Ins.op \in Readers, Ins.into \in Regs
  PROVE  /\ \/ \E v \in Int : regs' = [regs EXCEPT ![Ins.into] = v] /\ regs'[Ins.into] = v /\ Value(v)
            \/ Ins.op = "later" /\ ~(height > regs[Ins.past]) /\ "idle" \in trouble' /\ UNCHANGED regs
         /\ Ins.op # "later" => Value(regs'[Ins.into])
         /\ \A r \in Regs : r # Ins.into => regs'[r] = regs[r]
<1>1. regs \in [Regs -> Int] /\ Reads
  BY DEF IInv, TypeOK, Passes
<1>2. QED
  BY <1>1, RunsTells DEF Reads, Told

LEMMA NotReading == ASSUME IInv, Runs, Ins.op \notin Readers PROVE \A r \in Regs : regs'[r] = regs[r]
BY RunsTells DEF Told

LEMMA RunsChain ==
  ASSUME IInv, ChainFacts, Runs
  PROVE  ChainFacts'
<1> DEFINE s == a2_chain
<1>1. SUFFICES ASSUME InUnit("reads", 3)' PROVE ChainFacts'
  BY DEF ChainFacts
<1>2. Len(s) = 5 /\ s = PlanOf["reads"][3].body
  BY ReadsNames, ChainItems
<1>3. UNCHANGED <<plan, unit, fee, height>> /\ trouble \subseteq trouble'
  BY RunsPool
<1>4. /\ s[1] = Ask /\ s[2] = Fee("gasPrice") /\ s[3] = Fee("baseFee")
      /\ s[4] = Check("gasPrice", "gasPrice", ">=", "baseFee", 0) /\ s[5] = Ask
  BY ChainItems
<1> HIDE DEF s
<1>5. plan = "reads" /\ unit = 3 /\ pc \in 1..5 /\ Ins = s[pc]
  <2>1. plan = "reads" /\ unit = 3
    BY <1>1, <1>3 DEF InUnit
  <2>2. QED
    BY <1>2, <2>1, RunsHere DEF Item
<1>6. Ins.op # "await"
  BY <1>4, <1>5 DEF Ask, Fee, Check
<1>7. Passes /\ pc' = pc + 1 /\ InUnit("reads", 3)
  BY <1>1, <1>6, Onward
<1>8. /\ pc > 2 => regs["gasPrice"] = fee \/ "fee" \in trouble
      /\ pc > 3 => regs["gasPrice"] >= regs["baseFee"] \/ "fee" \in trouble
  BY <1>7 DEF ChainFacts
<1>9. {"gasPrice", "baseFee"} \subseteq Regs /\ fee \in Int /\ regs \in [Regs -> Int]
  BY L2NodeAssumption DEF IInv, TypeOK, Regs
<1>10. CASE pc \in {1, 4, 5}
  <2>1. Ins.op \notin Readers
    BY <1>4, <1>5, <1>10 DEF Ask, Check, Readers
  <2>2. regs'["gasPrice"] = regs["gasPrice"] /\ regs'["baseFee"] = regs["baseFee"]
    BY <1>9, <2>1, NotReading
  <2>3. QED
    BY <1>3, <1>7, <1>8, <1>10, <2>2 DEF ChainFacts
<1>11. CASE pc \in {2, 3}
  <2>1. Ins.op = "fee" /\ Ins.op \in Readers /\ Ins.into \in Regs
        /\ Ins.into = IF pc = 2 THEN "gasPrice" ELSE "baseFee"
    BY <1>4, <1>5, <1>9, <1>11 DEF Fee, Readers
  <2>2. regs'[Ins.into] = fee /\ \A r \in Regs : r # Ins.into => regs'[r] = regs[r]
    BY <1>7, <2>1, Reading DEF Value
  <2>3. CASE pc = 2
    BY <1>3, <1>7, <1>9, <2>1, <2>2, <2>3 DEF ChainFacts
  <2>4. CASE pc = 3
    <3>1. regs'["baseFee"] = fee /\ regs'["gasPrice"] = regs["gasPrice"] /\ pc' = 4
      BY <1>7, <1>9, <2>1, <2>2, <2>4
    <3>2. QED
      BY <1>3, <1>8, <1>9, <2>4, <3>1 DEF ChainFacts
  <2>5. QED
    BY <1>11, <2>3, <2>4
<1>12. QED
  BY <1>5, <1>10, <1>11

LEMMA RunsBlocks ==
  ASSUME IInv, BlocksFacts, Runs
  PROVE  BlocksFacts'
<1> DEFINE s == a2_blocks
<1>1. SUFFICES ASSUME InUnit("reads", 4)' PROVE BlocksFacts'
  BY DEF BlocksFacts
<1>2. Len(s) = 13 /\ s = PlanOf["reads"][4].body
  BY ReadsNames, BlocksItems
<1>3. UNCHANGED <<plan, unit, fee, height>> /\ trouble \subseteq trouble'
  BY RunsPool
<1>4. /\ s[1] = BlockNumber("num") /\ s[3] = Tag("safe", SafeWindow)
      /\ s[7] = Tag("finalized", FinalizedWindow) /\ s[11] = BlockNumber("pending")
      /\ \A q \in 1..13 : s[q].op \in {"ask", "head", "tag", "check"}
      /\ \A q \in 1..13 : q \notin {1, 3, 7, 11} => s[q].op \in {"ask", "check"}
  BY BlocksItems DEF Ask, BlockNumber, Tag, Check
<1> HIDE DEF s
<1>5. plan = "reads" /\ unit = 4 /\ pc \in 1..13 /\ Ins = s[pc]
  <2>1. plan = "reads" /\ unit = 4
    BY <1>1, <1>3 DEF InUnit
  <2>2. QED
    BY <1>2, <2>1, RunsHere DEF Item
<1>6. Ins.op # "await"
  BY <1>4, <1>5
<1>7. Passes /\ pc' = pc + 1 /\ InUnit("reads", 4)
  BY <1>1, <1>6, Onward
<1>8. /\ pc > 1 => regs["num"] <= height /\ (regs["num"] = height \/ "sealed" \in trouble)
      /\ pc > 3 => Resolved("safe", SafeWindow)
      /\ pc > 7 => Resolved("finalized", FinalizedWindow)
      /\ pc > 11 => regs["pending"] = regs["num"] \/ "sealed" \in trouble
  BY <1>7 DEF BlocksFacts
<1>9. /\ {"num", "safe", "finalized", "pending"} \subseteq Regs /\ height \in Nat
      /\ regs \in [Regs -> Int] /\ SafeWindow \in Nat /\ FinalizedWindow \in Nat
  BY WindowAssumption DEF IInv, TypeOK, Regs
<1>10. /\ regs'["num"] = regs["num"] /\ regs'["safe"] = regs["safe"] /\ pc > 3
         => Resolved("safe", SafeWindow)'
       /\ regs'["num"] = regs["num"] /\ regs'["finalized"] = regs["finalized"] /\ pc > 7
         => Resolved("finalized", FinalizedWindow)'
  BY <1>3, <1>8 DEF Resolved
<1>11. CASE pc \notin {1, 3, 7, 11}
  <2>1. Ins.op \notin Readers
    BY <1>4, <1>5, <1>11 DEF Readers
  <2>2. \A q \in {"num", "safe", "finalized", "pending"} : regs'[q] = regs[q]
    BY <1>9, <2>1, NotReading
  <2>3. QED
    BY <1>3, <1>5, <1>7, <1>8, <1>10, <1>11, <2>2 DEF BlocksFacts
<1>12. CASE pc = 1
  <2>1. Ins.op = "head" /\ Ins.op \in Readers /\ Ins.into = "num"
    BY <1>4, <1>5, <1>12 DEF BlockNumber, Readers
  <2>2. regs'["num"] = height
    BY <1>7, <1>9, <2>1, Reading DEF Value
  <2>3. QED
    BY <1>3, <1>7, <1>9, <1>12, <2>2 DEF BlocksFacts
<1>13. ASSUME NEW tag \in {"safe", "finalized"}, NEW window \in Nat, Ins = Tag(tag, window), pc > 1
       PROVE  /\ Resolved(tag, window)'
              /\ \A q \in {"num", "safe", "finalized", "pending"} \ {tag} : regs'[q] = regs[q]
  <2>1. Ins.op = "tag" /\ Ins.op \in Readers /\ Ins.into = tag /\ Ins.window = window
    BY <1>13 DEF Tag, Readers
  <2>2. Value(regs'[tag]) /\ \A q \in {"num", "safe", "finalized", "pending"} \ {tag} : regs'[q] = regs[q]
    BY <1>7, <1>9, <2>1, Reading
  <2>3. /\ regs'[tag] \in -1..height
        /\ regs'[tag] <= 0 => "unsafe" \in trouble'
        /\ regs'[tag] < height - window => "behind" \in trouble'
    BY <2>1, <2>2 DEF Value
  <2>4. regs'["num"] = regs["num"] /\ regs["num"] \in Int /\ regs["num"] <= height
        /\ (regs["num"] = height \/ "sealed" \in trouble')
    BY <1>3, <1>8, <1>9, <1>13, <2>2
  <2>5. QED
    BY <1>9, <2>2, <2>3, <2>4 DEF Resolved
<1>14. CASE pc \in {3, 7}
  <2>1. CASE pc = 3
    <3>1. /\ Resolved("safe", SafeWindow)' /\ regs'["num"] = regs["num"]
      BY <1>4, <1>5, <1>9, <1>13, <2>1
    <3>2. QED
      BY <1>3, <1>7, <1>8, <2>1, <3>1 DEF BlocksFacts
  <2>2. CASE pc = 7
    <3>1. /\ Resolved("finalized", FinalizedWindow)' /\ regs'["num"] = regs["num"]
          /\ regs'["safe"] = regs["safe"]
      BY <1>4, <1>5, <1>9, <1>13, <2>2
    <3>2. QED
      BY <1>3, <1>7, <1>8, <1>10, <2>2, <3>1 DEF BlocksFacts
  <2>3. QED
    BY <1>14, <2>1, <2>2
<1>15. CASE pc = 11
  <2>1. Ins.op = "head" /\ Ins.op \in Readers /\ Ins.into = "pending"
    BY <1>4, <1>5, <1>15 DEF BlockNumber, Readers
  <2>2. /\ regs'["pending"] = height /\ regs'["num"] = regs["num"]
        /\ regs'["safe"] = regs["safe"] /\ regs'["finalized"] = regs["finalized"]
    BY <1>7, <1>9, <2>1, Reading DEF Value
  <2>3. QED
    BY <1>3, <1>7, <1>8, <1>10, <1>15, <2>2 DEF BlocksFacts
<1>16. QED
  BY <1>5, <1>11, <1>12, <1>14, <1>15

LEMMA RunsTable ==
  ASSUME IInv, TableFacts, Runs
  PROVE  TableFacts'
<1> DEFINE s == b1_table_consistency \o b2_header_chain
<1>1. SUFFICES ASSUME InUnit("reads", 9)' PROVE TableFacts'
  BY DEF TableFacts
<1>2. Len(s) = 5 /\ s = PlanOf["reads"][9].body
  BY ReadsNames, TableItems
<1>3. UNCHANGED <<plan, unit, fee, height>> /\ trouble \subseteq trouble'
  BY RunsPool
<1>4. /\ s[1] = BlockNumber("number") /\ s[2] = CurrentNumber("cn")
      /\ s[3] = Check("currentNumber", "cn", ">=", "number", 0) /\ s[4] = BlockNumber("head")
      /\ s[5] = Ask
  BY TableItems
<1> HIDE DEF s
<1>5. plan = "reads" /\ unit = 9 /\ pc \in 1..5 /\ Ins = s[pc]
  <2>1. plan = "reads" /\ unit = 9
    BY <1>1, <1>3 DEF InUnit
  <2>2. QED
    BY <1>2, <2>1, RunsHere DEF Item
<1>6. Ins.op # "await"
  BY <1>4, <1>5 DEF Ask, BlockNumber, CurrentNumber, Check
<1>7. Passes /\ pc' = pc + 1 /\ InUnit("reads", 9)
  BY <1>1, <1>6, Onward
<1>8. /\ pc > 1 => regs["number"] <= height
      /\ pc > 2 => regs["cn"] >= regs["number"]
  BY <1>7 DEF TableFacts
<1>9. {"number", "cn", "head"} \subseteq Regs /\ height \in Nat /\ regs \in [Regs -> Int]
  BY DEF IInv, TypeOK, Regs
<1>10. CASE pc \in {3, 5}
  <2>1. Ins.op \notin Readers
    BY <1>4, <1>5, <1>10 DEF Ask, Check, Readers
  <2>2. regs'["number"] = regs["number"] /\ regs'["cn"] = regs["cn"]
    BY <1>9, <2>1, NotReading
  <2>3. QED
    BY <1>3, <1>7, <1>8, <1>10, <2>2 DEF TableFacts
<1>11. CASE pc \in {1, 2, 4}
  <2>1. Ins.op \in {"head", "table"} /\ Ins.op \in Readers /\ Ins.into \in Regs
        /\ (pc = 1 => Ins.into = "number")
    BY <1>4, <1>5, <1>9, <1>11 DEF BlockNumber, CurrentNumber, Readers
  <2>2. pc = 2 => Ins.into = "cn"
    BY <1>4, <1>5 DEF CurrentNumber
  <2>3. pc = 4 => Ins.into = "head"
    BY <1>4, <1>5 DEF BlockNumber
  <2>4. regs'[Ins.into] = height /\ \A r \in Regs : r # Ins.into => regs'[r] = regs[r]
    BY <1>7, <2>1, Reading DEF Value
  <2>5. CASE pc = 1
    BY <1>3, <1>7, <1>9, <2>1, <2>4, <2>5 DEF TableFacts
  <2>6. CASE pc = 2
    <3>1. regs'["cn"] = height /\ regs'["number"] = regs["number"]
      BY <1>9, <2>2, <2>4, <2>6
    <3>2. QED
      BY <1>3, <1>7, <1>8, <1>9, <2>6, <3>1 DEF TableFacts
  <2>7. CASE pc = 4
    <3>1. regs'["cn"] = regs["cn"] /\ regs'["number"] = regs["number"]
      BY <1>9, <2>3, <2>4, <2>7
    <3>2. QED
      BY <1>3, <1>7, <1>8, <1>9, <2>7, <3>1 DEF TableFacts
  <2>8. QED
    BY <1>11, <2>5, <2>6, <2>7
<1>12. QED
  BY <1>5, <1>10, <1>11

LEMMA NextReads == ASSUME IInv, NextUnit PROVE ReadsFacts' /\ PredeployFacts' /\ ScenarioFacts'
<1>1. pc' = 1 /\ regs' = Fresh /\ unit' # 1
  BY NextHere, PlanHere
<1>2. QED
  BY <1>1 DEF ReadsFacts, ChainFacts, BlocksFacts, TableFacts, PredeployFacts, ScenarioFacts, InUnit
-----------------------------------------------------------------------------
(* The second part of the gate: its processes.                              *)

\* Only a call that finds nothing answering leaves a unit early, if its waits are skipped.
LEMMA LeftEarly ==
  ASSUME IInv, Runs, pc' = End, pc + 1 # End, ~Running.exits, Ins.op \notin {"advance", "retry", "engine"},
         Ins.op = "await" => Ins.timeout # Raise /\ pc + 1 + Ins.timeout # End
  PROVE  holder = 0 /\ Ins.op \in Calls
<1>1. ASSUME NEW ts, NEW fs, Pass(ts, fs) PROVE FALSE
  BY <1>1 DEF Pass, GoTo
<1>2. ASSUME NEW ts, NEW v, Into(v, ts) PROVE FALSE
  BY <1>2 DEF Into, GoTo
<1>3. ASSUME NEW name, NEW ok, Judge(name, ok) PROVE FALSE
  BY <1>1, <1>3 DEF Judge
<1>4. ~ReadTag /\ ~ReadState /\ ~SendTx /\ ~SeeReceipt
  BY <1>1, <1>2 DEF ReadTag, ReadState, SendTx, SeeReceipt
<1>5. ~ReadBlock
  BY <1>1, <1>2, Zenon DEF ReadBlock, Answering, At
<1>6. ~StaysAbsent /\ ~SeeLaterBlock
  BY <1>1, <1>2, <1>3 DEF StaysAbsent, SeeLaterBlock
<1>7. ~CheckNow
  <2>1. SUFFICES ASSUME CheckNow PROVE FALSE
    OBVIOUS
  <2>2. Ins.op \in {"check", "steps", "spent", "order", "one", "price"}
    BY <2>1 DEF CheckNow, At
  <2>3. QED
    BY <1>3, <2>1, <2>2, Zenon DEF CheckNow
<1>8. ~Kill /\ ~WaitGone /\ ~StartB3a /\ ~Launch
  BY <1>1 DEF Kill, WaitGone, StartB3a, Launch
<1>9. ~AdvanceNonce /\ ~ReadHeadAgain /\ ~DriveEngine
  BY DEF AdvanceNonce, ReadHeadAgain, DriveEngine, At, Answering
<1>10. ~RunOut
  BY DEF RunOut, Answering, At, GoTo
<1>11. Raised
  BY <1>4, <1>5, <1>6, <1>7, <1>8, <1>9, <1>10 DEF Runs
<1>12. QED
  BY <1>11 DEF Raised, At

\* Only restart_b3.sh waits for a process, and it does.
LEMMA GoneHere == ASSUME IInv, Runs, Ins.op = "gone" PROVE Waits
<1>1. ASSUME NEW ops, At(ops), "gone" \notin ops PROVE FALSE
  BY <1>1 DEF At
<1>2. ~Raised /\ ~ReadBlock /\ ~ReadTag /\ ~ReadState /\ ~SendTx /\ ~SeeReceipt /\ ~RunOut
  BY <1>1 DEF Raised, ReadBlock, ReadTag, ReadState, SendTx, SeeReceipt, RunOut, Answering, Calls
<1>3. ~StaysAbsent /\ ~AdvanceNonce /\ ~SeeLaterBlock /\ ~ReadHeadAgain /\ ~CheckNow
  BY <1>1 DEF StaysAbsent, AdvanceNonce, SeeLaterBlock, ReadHeadAgain, CheckNow, Answering
<1>4. ~Kill /\ ~Launch /\ ~DriveEngine /\ ~StartB3a
  BY <1>1 DEF Kill, Launch, DriveEngine, StartB3a
<1>5. WaitGone
  BY <1>2, <1>3, <1>4 DEF Runs
<1>6. QED
  BY <1>5, GoneSteps DEF Waits, nodeVars

\* Its three scripts.
LEMMA TransactionsBodies ==
  /\ Len(PlanOf["transactions"]) = 3
  /\ PlanOf["transactions"][1].body = chain_driver /\ PlanOf["transactions"][2].body = b4_persist
  /\ PlanOf["transactions"][3].body = b3_contracts
  /\ Len(PlanOf["transactions"][1].body) = 19 /\ Len(PlanOf["transactions"][2].body) = 8
  /\ Len(PlanOf["transactions"][3].body) = 9
<1>1. PlanOf["transactions"] = transactions
  BY PlanNames
<1>2. /\ Len(chain_driver) = 19 /\ Len(b4_persist) = 8 /\ Len(b3_contracts) = 9
  BY DriverItems, PersistItems, ContractsItems
<1>3. QED
  BY <1>1, <1>2, TransactionsUnits

LEMMA TransactionsHere ==
  ASSUME IInv, plan = "transactions", ~Finished, pc # End
  PROVE  /\ unit \in {1, 2, 3}
         /\ unit = 1 => /\ Running.body = chain_driver /\ Len(Running.body) = 19 /\ pc \in 1..19
                        /\ Ins = chain_driver[pc] /\ End = 20
         /\ unit = 2 => /\ Running.body = b4_persist /\ Len(Running.body) = 8 /\ pc \in 1..8
                        /\ Ins = b4_persist[pc] /\ End = 9
         /\ unit = 3 => /\ Running.body = b3_contracts /\ Len(Running.body) = 9 /\ pc \in 1..9
                        /\ Ins = b3_contracts[pc] /\ End = 10
         /\ ~Running.exits
<1>1. PlanOf["transactions"] = transactions
  BY PlanNames
<1>2. unit \in 1..3 /\ Running = transactions[unit] /\ pc \in 1..End /\ End = Len(Running.body) + 1
  BY <1>1, PlanHere, TransactionsUnits
<1>3. unit = 1 => /\ Running.body = chain_driver /\ Len(Running.body) = 19
  BY <1>1, <1>2, TransactionsBodies
<1>7. unit = 2 => /\ Running.body = b4_persist /\ Len(Running.body) = 8
  BY <1>1, <1>2, TransactionsBodies
<1>8. unit = 3 => /\ Running.body = b3_contracts /\ Len(Running.body) = 9
  BY <1>1, <1>2, TransactionsBodies
<1>4. ~transactions[1].exits /\ ~transactions[2].exits /\ ~transactions[3].exits
  BY DEF transactions, Unit
<1>5. unit \in {1, 2, 3}
  BY <1>2
<1>9. ~Running.exits
  BY <1>2, <1>4, <1>5
<1>13. End = Len(Running.body) + 1
  BY <1>2
<1>10. unit = 1 => pc \in 1..19 /\ Ins = chain_driver[pc] /\ End = 20
  <2>1. ASSUME unit = 1 PROVE End = 20
    <3>1. Len(Running.body) = 19
      BY <1>3, <2>1
    <3>2. QED
      BY <1>13, <3>1
  <2>2. ASSUME unit = 1 PROVE pc \in 1..19
    BY <1>2, <2>1, <2>2
  <2>3. ASSUME unit = 1 PROVE Ins = chain_driver[pc]
    BY <1>3, <2>3 DEF Ins
  <2>4. QED
    BY <2>1, <2>2, <2>3
<1>11. unit = 2 => pc \in 1..8 /\ Ins = b4_persist[pc] /\ End = 9
  <2>1. ASSUME unit = 2 PROVE End = 9
    <3>1. Len(Running.body) = 8
      BY <1>7, <2>1
    <3>2. QED
      BY <1>13, <3>1
  <2>2. ASSUME unit = 2 PROVE pc \in 1..8
    BY <1>2, <2>1, <2>2
  <2>3. ASSUME unit = 2 PROVE Ins = b4_persist[pc]
    BY <1>7, <2>3 DEF Ins
  <2>4. QED
    BY <2>1, <2>2, <2>3
<1>12. unit = 3 => pc \in 1..9 /\ Ins = b3_contracts[pc] /\ End = 10
  <2>1. ASSUME unit = 3 PROVE End = 10
    <3>1. Len(Running.body) = 9
      BY <1>8, <2>1
    <3>2. QED
      BY <1>13, <3>1
  <2>2. ASSUME unit = 3 PROVE pc \in 1..9
    BY <1>2, <2>1, <2>2
  <2>3. ASSUME unit = 3 PROVE Ins = b3_contracts[pc]
    BY <1>8, <2>3 DEF Ins
  <2>4. QED
    BY <2>1, <2>2, <2>3
<1>6. QED
  BY <1>3, <1>5, <1>7, <1>8, <1>9, <1>10, <1>11, <1>12

LEMMA InitProcs == ASSUME Init PROVE Procs
<1>1. /\ live \in {{1}, {}} /\ unit = 1 /\ pidFile = (IF doomed = {} THEN 1 ELSE 2)
      /\ "lingered" \notin trouble => doomed = {}
  BY DEF Init
<1>2. QED
  BY <1>1 DEF Procs, InUnit

LEMMA NextProcs == ASSUME IInv, Procs, NextUnit PROVE Procs'
<1>1. /\ ~Finished /\ UNCHANGED <<plan, live, doomed, pidFile>> /\ unit' = unit + 1 /\ pc' = 1
      /\ unit \in 1..Len(PlanOf[plan]) /\ pc = Len(PlanOf[plan][unit].body) + 1
  BY NextHere DEF nodeVars
<1>2. "lingered" \notin trouble' => "lingered" \notin trouble
  BY DEF NextUnit, Lasting
<1>3. SUFFICES ASSUME plan = "transactions", "lingered" \notin trouble PROVE Procs'
  BY <1>1, <1>2 DEF Procs
<1>4. unit \in 1..3 /\ (unit = 2 => pc = 9)
  <2>1. unit \in 1..3
    BY <1>1, <1>3, TransactionsBodies
  <2>2. unit = 2 => pc = Len(PlanOf["transactions"][2].body) + 1
    BY <1>1, <1>3
  <2>3. QED
    BY <2>1, <2>2, TransactionsBodies
<1>5. QED
  BY <1>1, <1>3, <1>4 DEF Procs, InUnit

LEMMA NodeProcs == ASSUME IInv, Procs, Node PROVE Procs'
<1>1. UNCHANGED <<plan, unit, pc, doomed, pidFile>>
  BY NodeHere
<1>2. /\ trouble \subseteq trouble'
      /\ \/ live' \subseteq live /\ UNCHANGED holder
         \/ live' \subseteq live /\ doomed \cap live # {}
         \/ live' = live /\ holder' \in live
  BY NodeSteps DEF Takes, Stays, Comes
<1>3. live \subseteq 1..pidFile
  BY DEF IInv, TypeOK
<1>4. SUFFICES ASSUME plan = "transactions", "lingered" \notin trouble PROVE Procs'
  BY <1>1, <1>2 DEF Procs
<1>5. /\ \A p, q \in live : p = q
      /\ doomed \cap live # {} => unit = 2 /\ pc = 3
      /\ unit = 1 \/ (unit = 2 /\ pc <= 3) => live \subseteq {pidFile}
      /\ unit = 2 /\ pc = 4 => live = {}
      /\ InUnit("transactions", 3) /\ pc > 1 => holder # 0
  BY <1>4 DEF Procs
<1>6. live' \subseteq live
  BY <1>2
<1>7. InUnit("transactions", 3) /\ pc > 1 => holder' # 0
  BY <1>2, <1>3, <1>5 DEF InUnit
<1>8. QED
  BY <1>1, <1>5, <1>6, <1>7 DEF Procs, InUnit

LEMMA RunsProcs == ASSUME IInv, Procs, Runs PROVE Procs'
<1>1. /\ ~Finished /\ pc # End /\ UNCHANGED <<plan, unit>> /\ trouble \subseteq trouble' /\ pc' > pc
      /\ pc' \in Nat /\ (Raises \/ Skipped \/ Passes)
  BY RunsPool, RunsHere, RunsTells, RunsEffect DEF Steps, Goes, Effect
<1>2. SUFFICES ASSUME plan = "transactions", "lingered" \notin trouble' PROVE Procs'
  BY <1>1 DEF Procs
<1>3. /\ \A p, q \in live : p = q
      /\ doomed \cap live # {} => unit = 2 /\ pc = 3
      /\ unit = 1 \/ (unit = 2 /\ pc <= 3) => live \subseteq {pidFile}
      /\ unit = 2 /\ pc = 4 => live = {}
      /\ InUnit("transactions", 3) /\ pc > 1 => holder # 0
  BY <1>1, <1>2 DEF Procs
<1>4. /\ unit \in {1, 2, 3} /\ pc \in Nat
      /\ unit = 1 => pc \in 1..19
      /\ unit = 2 => pc \in 1..8 /\ Ins = b4_persist[pc] /\ End = 9
      /\ unit = 3 => pc \in 1..9 /\ Ins = b3_contracts[pc]
  BY <1>1, <1>2, TransactionsHere
<1>5. unit = 2 => /\ Ins.op = "launch" <=> pc = 4
                  /\ pc = 3 => Ins.op = "gone"
                  /\ pc = 2 => Ins.op = "kill"
                  /\ Ins.op # "await"
  BY <1>1, <1>2, <1>4, InTransactions, PersistHere, PersistItems
<1>6. Ins.op \in {"kill", "launch"} => unit = 2
  BY <1>1, <1>2, InTransactions
<1>7. unit = 2 => pc' = pc + 1 \/ pc' = 9
  BY <1>1, <1>4, <1>5 DEF Raises, Skipped, Skips, Passes
<1>8. unit = 3 /\ pc = 1 /\ pc' <= 9 => holder # 0
  <2>1. SUFFICES ASSUME unit = 3, pc = 1, pc' <= 9 PROVE holder # 0
    OBVIOUS
  <2>2. Ins.op = "nonce"
    BY <1>4, <2>1, ContractsItems DEF Nonce
  <2>3. End = 10
    BY <1>1, <1>2, <2>1, TransactionsHere
  <2>4. Passes
    BY <1>1, <2>1, <2>2, <2>3 DEF Raises, Skipped, Skips
  <2>5. QED
    BY <2>2, <2>4 DEF Passes, Calls
<1>9. CASE UNCHANGED <<pidFile, live, doomed, holder>>
  <2>1. unit = 2 /\ pc = 3 => live = {}
    <3>1. unit = 2 /\ pc = 3 => pidFile \notin live
      BY <1>2, <1>5, GoneHere DEF Waits
    <3>2. QED
      BY <1>3, <3>1
  <2>2. doomed' \cap live' = {}
    BY <1>3, <1>9, <2>1
  <2>3. unit = 2 /\ pc' = 4 => live' = {}
    BY <1>3, <1>4, <1>7, <1>9, <2>1
  <2>4. unit = 3 /\ pc' > 1 /\ pc' <= 9 => holder' # 0
    <3>1. unit = 3 /\ pc > 1 => InUnit("transactions", 3)
      BY <1>1, <1>2, <1>4, TransactionsBodies DEF InUnit
    <3>2. QED
      BY <1>3, <1>4, <1>8, <1>9, <3>1
  <2>5. InUnit("transactions", 3)' => pc' <= 9 /\ unit = 3
    BY <1>1, TransactionsBodies DEF InUnit
  <2>6. QED
    BY <1>1, <1>3, <1>4, <1>9, <2>2, <2>3, <2>4, <2>5 DEF Procs
<1>10. CASE Ins.op = "kill" /\ doomed' = doomed \cup {pidFile} /\ UNCHANGED <<pidFile, live, holder>>
  <2>1. unit = 2 /\ pc = 2 /\ pc' \in {3, 9} /\ unit' = 2
    BY <1>1, <1>2, <1>7, <1>10, InTransactions
  <2>2. pc' = 3
    <3>1. pc + 1 # End /\ ~Running.exits
      BY <1>1, <1>2, <2>1, TransactionsHere
    <3>2. pc' # 9
      BY <1>4, <1>10, <2>1, <3>1, LeftEarly DEF Calls
    <3>3. QED
      BY <2>1, <3>2
  <2>3. QED
    BY <1>1, <1>3, <1>10, <2>1, <2>2 DEF Procs, InUnit
<1>11. CASE Launches
  <2>1. unit = 2 /\ pc = 4 /\ pc' \in {5, 9} /\ unit' = 2 /\ live = {}
    BY <1>1, <1>2, <1>3, <1>7, <1>11, InTransactions DEF Launches
  <2>2. live' = {pidFile + 1} /\ doomed' \subseteq 1..pidFile /\ pidFile \in Int
    BY <1>11, <2>1 DEF Launches, IInv, TypeOK, Shape
  <2>3. doomed' \cap live' = {}
    BY <2>2
  <2>4. QED
    BY <2>1, <2>2, <2>3 DEF Procs, InUnit
<1>12. QED
  BY <1>9, <1>10, <1>11, RunsMoves
-----------------------------------------------------------------------------
(* chain_driver.py.                                                         *)

\* A step within a unit goes on, or skips what follows a wait.
LEMMA Along ==
  ASSUME IInv, Runs, NEW p, NEW u, InUnit(p, u)'
  PROVE  /\ InUnit(p, u) /\ plan = p /\ unit = u /\ ~Finished /\ pc # End
         /\ Ins = PlanOf[p][u].body[pc] /\ Running = PlanOf[p][u]
         /\ \/ Passes /\ pc' = pc + 1
            \/ Skipped /\ Ins.op = "await" /\ pc' = pc + 1 + Ins.timeout
<1>1. /\ ~Finished /\ UNCHANGED <<plan, unit>> /\ unit \in 1..Len(PlanOf[plan])
      /\ pc \in 1..Len(PlanOf[plan][unit].body) /\ Ins = Item(unit, pc)
      /\ Running = PlanOf[plan][unit] /\ pc # End
      /\ Len(Running.body) \in Nat /\ End = Len(Running.body) + 1
  BY RunsHere, PlanHere, Here, RunsTells DEF Steps, Goes
<1>2. plan = p /\ unit = u /\ pc' \in 1..Len(Running.body)
  BY <1>1 DEF InUnit
<1>3. ~Raises
  BY <1>1, <1>2 DEF Raises
<1>4. Passes \/ Skipped
  BY <1>3, RunsEffect DEF Effect
<1>5. QED
  BY <1>1, <1>2, <1>4 DEF InUnit, Passes, Skipped, Skips, Item

\* Where chain_driver.py is.
LEMMA DriverHere ==
  ASSUME IInv, InUnit("transactions", 1)
  PROVE  /\ plan = "transactions" /\ unit = 1 /\ ~Finished /\ pc # End /\ End = 20 /\ ~Running.exits
         /\ pc \in 1..19 /\ pc \in Nat /\ Ins = chain_driver[pc] /\ Running.body = chain_driver
<1>1. plan = "transactions" /\ unit = 1 /\ pc \in 1..19
  BY TransactionsBodies DEF InUnit
<1>2. ~Finished
  BY <1>1, TransactionsBodies DEF Finished
<1>3. Running.body = chain_driver /\ Len(Running.body) = 19
  BY <1>1, TransactionsBodies DEF Running
<1>4. End = 20
  BY <1>3 DEF End
<1>5. pc # End
  BY <1>1, <1>4
<1>6. QED
  BY <1>1, <1>2, <1>4, <1>5, TransactionsHere

LEMMA DriverWrites ==
  LET s == chain_driver IN
  /\ Writes(s, "bal0", 1) /\ Writes(s, "nonce0", 2) /\ Writes(s, "prev_head", 3)
  /\ Writes(s, "bal1", 14) /\ Writes(s, "nonce1", 15) /\ Writes(s, "head", 18)
<1> DEFINE s == chain_driver
<1>1. Len(s) = 19
  BY DriverItems
<1>2. /\ s[1].into = "bal0" /\ s[2].into = "nonce0" /\ s[3].into = "prev_head"
      /\ s[6].into = "index" /\ s[11].into = "index"
      /\ s[14].into = "bal1" /\ s[15].into = "nonce1" /\ s[18].into = "head"
  BY DriverItems DEF Nonce, BlockNumber, Field
<1>3. /\ s[4].op = "send" /\ s[9].op = "send" /\ s[5].op = "await" /\ s[10].op = "await"
      /\ s[7].op = "check" /\ s[12].op = "check" /\ s[8].op = "ask" /\ s[13].op = "ask"
      /\ s[16].op = "check" /\ s[17].op = "spent" /\ s[19].op = "check"
  BY DriverItems DEF Send, Await, Check, Ask
<1> HIDE DEF s
<1>4. ASSUME NEW i \in 1..Len(s), s[i].op \in Readers
      PROVE  \/ i = 1 /\ s[i].into = "bal0"
             \/ i = 2 /\ s[i].into = "nonce0"
             \/ i = 3 /\ s[i].into = "prev_head"
             \/ s[i].into = "index"
             \/ i = 14 /\ s[i].into = "bal1"
             \/ i = 15 /\ s[i].into = "nonce1"
             \/ i = 18 /\ s[i].into = "head"
  <2>1. /\ s[4].op \notin Readers /\ s[5].op \notin Readers /\ s[7].op \notin Readers
        /\ s[8].op \notin Readers /\ s[9].op \notin Readers /\ s[10].op \notin Readers
        /\ s[12].op \notin Readers /\ s[13].op \notin Readers /\ s[16].op \notin Readers
        /\ s[17].op \notin Readers /\ s[19].op \notin Readers
    BY <1>3 DEF Readers
  <2>2. i \in 1..19
    BY <1>1
  <2>3. i \in {1, 2, 3, 6, 11, 14, 15, 18}
    BY <1>4, <2>1, <2>2
  <2>4. QED
    BY <1>2, <2>3
<1>5. QED
  BY <1>4 DEF Writes, s

\* The chain's nonce while nothing but a transaction of an earlier run can be in it.
LEMMA StrayFront ==
  ASSUME IInv, Strays, Queue({<<"stray", 0>>}, 0)
  PROVE  Front \in {0, 1} /\ ("stray" \in trouble \/ Front = 0)
<1>1. Front \in Nat
  BY FrontLemma
<1>2. \A n \in 0..(Front - 1) : n = 0 /\ "stray" \in DOMAIN mined
  BY DEF Queue, Line
<1>3. Front <= 1
  BY <1>1, <1>2
<1>4. Front > 0 => "stray" \in DOMAIN mined
  BY <1>1, <1>2
<1>5. QED
  BY <1>1, <1>3, <1>4 DEF Strays

LEMMA RunsDriverReads ==
  ASSUME IInv, General, DriverFacts, Runs
  PROVE  DriverReads'
<1> DEFINE s == chain_driver
<1>1. SUFFICES ASSUME InUnit("transactions", 1)' PROVE DriverReads'
  BY DEF DriverReads
<1>2. /\ InUnit("transactions", 1) /\ pc \in 1..19 /\ pc \in Nat /\ Ins = s[pc] /\ Running.body = s
      /\ \/ Passes /\ pc' = pc + 1
         \/ Skipped /\ Ins.op = "await" /\ pc' = pc + 1 + Ins.timeout
      /\ pc' \in Nat
  BY <1>1, Along, DriverHere, RunsHere
<1>3. /\ s[1] = Nonce("bal0") /\ s[2] = Nonce("nonce0") /\ s[3] = BlockNumber("prev_head")
      /\ s[5] = Await("transfer0", 3) /\ s[6] = Field("transfer0", "index", "index")
      /\ s[10] = Await("transfer1", 3) /\ s[11] = Field("transfer1", "index", "index")
      /\ s[14] = Nonce("bal1") /\ s[15] = Nonce("nonce1") /\ s[18] = BlockNumber("head")
  BY DriverItems
<1>4. /\ Writes(Running.body, "bal0", 1) /\ Writes(Running.body, "nonce0", 2)
      /\ Writes(Running.body, "prev_head", 3) /\ Writes(Running.body, "bal1", 14)
      /\ Writes(Running.body, "nonce1", 15) /\ Writes(Running.body, "head", 18)
  BY <1>2, DriverWrites
<1> HIDE DEF s
<1>5. /\ UNCHANGED <<height, ledger, mined>> /\ trouble \subseteq trouble' /\ Front' = Front
  BY RunsPool
<1>6. /\ pc = 2 => regs["bal0"] = 0 \/ "stray" \in trouble
      /\ pc > 2 => 0 <= regs["nonce0"] /\ regs["nonce0"] <= Front /\ regs["nonce0"] <= 1
      /\ pc > 2 => (regs["nonce0"] = 0 /\ regs["bal0"] = 0) \/ "stray" \in trouble
      /\ pc > 3 => regs["prev_head"] <= height
      /\ pc > 14 => regs["bal1"] = regs["nonce0"] + 2 \/ Noted({"lag", "late"})
      /\ pc > 15 => regs["nonce1"] = regs["nonce0"] + 2 \/ Noted({"lag", "late"})
      /\ pc > 18 => regs["prev_head"] <= regs["head"]
  BY <1>2 DEF DriverFacts, DriverReads
<1>7. {"bal0", "nonce0", "prev_head", "index", "bal1", "nonce1", "head"} \subseteq Regs
  BY DEF Regs
<1>8. /\ pc # 1 => regs'["bal0"] = regs["bal0"]
      /\ pc # 2 => regs'["nonce0"] = regs["nonce0"]
      /\ pc # 3 => regs'["prev_head"] = regs["prev_head"]
  BY <1>4, <1>7, Otherwise
<1>9. /\ pc # 14 => regs'["bal1"] = regs["bal1"]
      /\ pc # 15 => regs'["nonce1"] = regs["nonce1"]
      /\ pc # 18 => regs'["head"] = regs["head"]
  BY <1>4, <1>7, Otherwise
<1>10. pc \notin {5, 10} => Passes /\ pc' = pc + 1
  <2>1. pc \notin {5, 10} => Ins.op # "await"
    BY <1>2, DriverItems DEF Nonce, BlockNumber, Send, Field, Check, Ask, s
  <2>2. QED
    BY <1>2, <2>1
<1>11. pc \in {5, 10} => pc' \in {6, 9, 11, 14}
  BY <1>2, <1>3 DEF Await
<1>12. pc <= 4 => Front \in {0, 1} /\ ("stray" \in trouble \/ Front = 0)
  BY <1>2, StrayFront DEF General, DriverFacts, DriverSends
<1>13. pc > 10 => "late" \in trouble \/ Front = regs["nonce0"] + 2
  <2>1. SUFFICES ASSUME pc > 10, Idle(regs["nonce0"] + 2) PROVE Front = regs["nonce0"] + 2
    BY <1>2 DEF DriverFacts, DriverSends
  <2>2. regs["nonce0"] + 2 \in Int
    BY <1>7 DEF IInv, TypeOK
  <2>3. QED
    BY <2>1, <2>2, IdleLemma
<1>14. NonceAt(ledger) \in Nat /\ NonceAt(ledger) <= Front /\ Front \in Nat
  BY NonceLemma DEF Front
<1>15. CASE pc = 1
  <2>1. Ins.op = "nonce" /\ Ins.op \in Readers /\ Ins.into = "bal0" /\ Passes /\ pc' = 2
    BY <1>2, <1>3, <1>10, <1>15 DEF Nonce, Readers
  <2>2. regs'["bal0"] = NonceAt(ledger)
    BY <1>7, <2>1, Reading DEF Value, Latest
  <2>3. regs'["bal0"] = 0 \/ "stray" \in trouble'
    BY <1>5, <1>12, <1>14, <1>15, <2>2
  <2>4. QED
    BY <2>1, <2>3 DEF DriverReads
<1>16. CASE pc = 2
  <2>1. Ins.op = "nonce" /\ Ins.op \in Readers /\ Ins.into = "nonce0" /\ Passes /\ pc' = 3
    BY <1>2, <1>3, <1>10, <1>16 DEF Nonce, Readers
  <2>2. regs'["nonce0"] = NonceAt(ledger) /\ regs'["bal0"] = regs["bal0"]
    BY <1>7, <1>8, <1>16, <2>1, Reading DEF Value, Latest
  <2>3. 0 <= regs'["nonce0"] /\ regs'["nonce0"] <= Front' /\ regs'["nonce0"] <= 1
    BY <1>5, <1>12, <1>14, <1>16, <2>2
  <2>4. (regs'["nonce0"] = 0 /\ regs'["bal0"] = 0) \/ "stray" \in trouble'
    BY <1>5, <1>6, <1>12, <1>14, <1>16, <2>2
  <2>5. QED
    BY <2>1, <2>3, <2>4 DEF DriverReads
<1>17. CASE pc > 2
  <2>1. /\ 0 <= regs'["nonce0"] /\ regs'["nonce0"] <= Front' /\ regs'["nonce0"] <= 1
        /\ (regs'["nonce0"] = 0 /\ regs'["bal0"] = 0) \/ "stray" \in trouble'
    BY <1>2, <1>5, <1>6, <1>8, <1>17
  <2>2. pc' > 3 => regs'["prev_head"] <= height'
    <3>1. CASE pc = 3
      <4>1. Ins.op = "head" /\ Ins.op \in Readers /\ Ins.into = "prev_head" /\ Passes
        BY <1>2, <1>3, <1>10, <3>1 DEF BlockNumber, Readers
      <4>2. regs'["prev_head"] = height
        BY <1>7, <4>1, Reading DEF Value
      <4>3. QED
        BY <1>5, <4>2 DEF IInv, TypeOK
    <3>2. QED
      BY <1>2, <1>5, <1>6, <1>8, <1>17, <3>1
  <2>3. pc' \in {7, 12} => regs'["index"] = 1 \/ "late" \in trouble'
    <3>1. pc' \in {7, 12} => pc \in {6, 11}
      BY <1>2, <1>10, <1>11
    <3>2. ASSUME pc \in {6, 11} PROVE regs'["index"] = 1 \/ "late" \in trouble'
      <4>1. /\ Ins.op = "field" /\ Ins.op \in Readers /\ Ins.into = "index" /\ Ins.what = "index" /\ Passes
            /\ Ins.of \in {"transfer0", "transfer1"} /\ Ins.of \in DOMAIN mined
        <5>1. CASE pc = 6
          BY <1>2, <1>3, <1>10, <5>1 DEF Field, Readers, DriverFacts, DriverLands
        <5>2. CASE pc = 11
          BY <1>2, <1>3, <1>10, <5>2 DEF Field, Readers, DriverFacts, DriverLands
        <5>3. QED
          BY <3>2, <5>1, <5>2
      <4>2. regs'["index"] = mined[Ins.of].index
        BY <1>7, <4>1, Reading DEF Value
      <4>3. mined[Ins.of].index = 1 \/ "late" \in trouble
        BY <1>2, <4>1 DEF DriverFacts, DriverLands
      <4>4. QED
        BY <1>5, <4>2, <4>3
    <3>3. QED
      BY <3>1, <3>2
  <2>4. pc' > 14 => regs'["bal1"] = regs'["nonce0"] + 2 \/ Noted({"lag", "late"})'
    <3>1. CASE pc = 14
      <4>1. Ins.op = "nonce" /\ Ins.op \in Readers /\ Ins.into = "bal1" /\ Passes
        BY <1>2, <1>3, <1>10, <3>1 DEF Nonce, Readers
      <4>2. regs'["bal1"] = Front \/ "lag" \in trouble'
        BY <1>7, <4>1, Reading DEF Value, Latest, Front
      <4>3. QED
        BY <1>5, <1>8, <1>13, <3>1, <4>2 DEF Noted
    <3>2. CASE pc < 14
      <4>1. pc' <= 14
        BY <1>2, <1>10, <1>11, <3>2
      <4>2. QED
        BY <1>2, <4>1
    <3>3. CASE pc > 14
      BY <1>2, <1>5, <1>6, <1>8, <1>9, <3>3 DEF Noted
    <3>4. QED
      BY <1>2, <3>1, <3>2, <3>3
  <2>5. pc' > 15 => regs'["nonce1"] = regs'["nonce0"] + 2 \/ Noted({"lag", "late"})'
    <3>1. CASE pc = 15
      <4>1. Ins.op = "nonce" /\ Ins.op \in Readers /\ Ins.into = "nonce1" /\ Passes
        BY <1>2, <1>3, <1>10, <3>1 DEF Nonce, Readers
      <4>2. regs'["nonce1"] = Front \/ "lag" \in trouble'
        BY <1>7, <4>1, Reading DEF Value, Latest, Front
      <4>3. QED
        BY <1>5, <1>8, <1>13, <3>1, <4>2 DEF Noted
    <3>2. CASE pc < 15
      <4>1. pc' <= 15
        BY <1>2, <1>10, <1>11, <3>2
      <4>2. QED
        BY <1>2, <4>1
    <3>3. CASE pc > 15
      BY <1>2, <1>5, <1>6, <1>8, <1>9, <3>3 DEF Noted
    <3>4. QED
      BY <1>2, <3>1, <3>2, <3>3
  <2>6. pc' > 18 => regs'["prev_head"] <= regs'["head"]
    <3>1. CASE pc = 18
      <4>1. Ins.op = "head" /\ Ins.op \in Readers /\ Ins.into = "head" /\ Passes
        BY <1>2, <1>3, <1>10, <3>1 DEF BlockNumber, Readers
      <4>2. regs'["head"] = height
        BY <1>7, <4>1, Reading DEF Value
      <4>3. QED
        BY <1>6, <1>8, <3>1, <4>2
    <3>2. CASE pc < 18
      <4>1. pc' <= 18
        BY <1>2, <1>10, <1>11, <3>2
      <4>2. QED
        BY <1>2, <4>1
    <3>3. CASE pc > 18
      BY <1>2, <1>6, <1>8, <1>9, <3>3
    <3>4. QED
      BY <1>2, <3>1, <3>2, <3>3
  <2>7. pc' # 2
    BY <1>2, <1>10, <1>11, <1>17
  <2>8. QED
    BY <2>1, <2>2, <2>3, <2>4, <2>5, <2>6, <2>7 DEF DriverReads
<1>18. QED
  BY <1>2, <1>15, <1>16, <1>17

\* What one transaction is named, or two.
LEMMA NamedOne == ASSUME NEW a, NEW m \in Int PROVE Named({<<a, m>>})
BY DEF Named
LEMMA NamedTwo ==
  ASSUME NEW a, NEW m \in Int, NEW b, NEW n \in Int, a # b
  PROVE  Named({<<a, m>>, <<b, n>>})
BY DEF Named
LEMMA NamedNone == Named({})
BY DEF Named

\* A transaction at a price above every base fee waits for the account's nonce.
LEMMA ReadySends ==
  ASSUME IInv, Passes, Ins.op = "send", Ins.price = "gwei", Front' = Front
  PROVE  \E t \in Tx : /\ Admit(t) /\ t.id = Ins.id /\ t.nonce = NonceOf(Ins)
                       /\ Offered(pool', Front', Ample, t.id, t.nonce)
<1>1. PICK t \in Tx : /\ t = [id |-> Ins.id, nonce |-> NonceOf(Ins), cap |-> Priced(Ins.price, regs["bf"]).cap,
                              tip |-> Priced(Ins.price, regs["bf"]).tip]
                      /\ Admit(t)
  BY DEF Passes, Sends
<1>2. t.id = Ins.id /\ t.nonce = NonceOf(Ins) /\ t.cap = Ample
  BY <1>1 DEF Priced
<1>3. Offered(pool', Front, Ample, t.id, t.nonce)
  BY <1>1, <1>2, L2NodeAssumption, SendsOffer
<1>4. QED
  BY <1>1, <1>2, <1>3

\* An idle account's queue is what is sent next.
LEMMA IdleSends ==
  ASSUME NEW n, Idle(n), NEW t, Admit(t), t.id \notin DOMAIN mined, Front' = Front, UNCHANGED mined
  PROVE  Line(pool', DOMAIN mined', Front', {<<t.id, t.nonce>>}, n)
<1>1. Line(pool', DOMAIN mined, Front, {} \cup {<<t.id, t.nonce>>}, n)
  BY QueueSends DEF Idle
<1>2. {} \cup {<<t.id, t.nonce>>} = {<<t.id, t.nonce>>}
  OBVIOUS
<1>3. QED
  BY <1>1, <1>2

LEMMA RunsDriverSends ==
  ASSUME IInv, InOrder, General, DriverFacts, Runs
  PROVE  DriverSends'
<1> DEFINE s == chain_driver
           n == regs["nonce0"]
<1>1. SUFFICES ASSUME InUnit("transactions", 1)' PROVE DriverSends'
  BY DEF DriverSends
<1>2. /\ InUnit("transactions", 1) /\ pc \in 1..19 /\ pc \in Nat /\ Ins = s[pc] /\ Running.body = s
      /\ \/ Passes /\ pc' = pc + 1
         \/ Skipped /\ Ins.op = "await" /\ pc' = pc + 1 + Ins.timeout
      /\ pc' \in Nat
  BY <1>1, Along, DriverHere, RunsHere
<1>3. /\ s[4] = Send("transfer0", "nonce0", 0, "gwei") /\ s[5] = Await("transfer0", 3)
      /\ s[9] = Send("transfer1", "nonce0", 1, "gwei") /\ s[10] = Await("transfer1", 3)
  BY DriverItems
<1>4. Writes(Running.body, "nonce0", 2) /\ "nonce0" \in Regs /\ regs \in [Regs -> Int] /\ n \in Int
  BY <1>2, DriverWrites DEF Regs, IInv, TypeOK
<1>5. /\ pc \notin {4, 9} => Ins.op # "send"
      /\ pc \notin {5, 10} => Ins.op # "await"
  BY <1>2, DriverItems DEF Nonce, BlockNumber, Send, Await, Field, Check, Ask
<1> HIDE DEF s
<1>6. /\ UNCHANGED <<height, ledger, mined>> /\ trouble \subseteq trouble' /\ Front' = Front
      /\ pc \notin {4, 9} => UNCHANGED pool
  BY <1>5, RunsPool
<1>7. /\ pc <= 4 => Queue({<<"stray", 0>>}, 0)
      /\ pc = 5 => Queue({<<"stray", 0>>, <<"transfer0", n>>}, 0) /\ Ready("transfer0", n)
      /\ pc \in 6..9 => "late" \in trouble \/ Idle(n + 1)
      /\ pc = 10 => "late" \in trouble \/ (Queue({<<"transfer1", n + 1>>}, n + 1) /\ Ready("transfer1", n + 1))
      /\ pc > 10 => "late" \in trouble \/ Idle(n + 2)
      /\ pc > 2 => 0 <= n /\ n <= Front
  BY <1>2 DEF DriverFacts, DriverSends, DriverReads
<1>8. /\ pc \notin {5, 10} => Passes /\ pc' = pc + 1
      /\ pc = 5 => pc' \in {6, 9} /\ (Passes \/ Skipped)
      /\ pc = 10 => pc' \in {11, 14} /\ (Passes \/ Skipped)
  BY <1>2, <1>3, <1>5 DEF Await
<1>9. pc # 2 => regs'["nonce0"] = n
  BY <1>4, Otherwise
<1>10. Front \in Nat /\ fee \in Int /\ Ample \in Int /\ Ample >= fee
  BY FrontLemma, L2NodeAssumption DEF IInv, TypeOK
<1> HIDE DEF n
<1>11. CASE pc <= 3
  BY <1>2, <1>6, <1>7, <1>8, <1>11 DEF DriverSends, Queue
<1>12. CASE pc = 4
  <2>1. /\ Ins.op = "send" /\ Ins.price = "gwei" /\ Ins.id = "transfer0" /\ NonceOf(Ins) = n /\ Passes
        /\ pc' = 5 /\ regs'["nonce0"] = n
    BY <1>2, <1>3, <1>4, <1>8, <1>9, <1>12 DEF Send, NonceOf, n
  <2>2. PICK t \in Tx : Admit(t) /\ t.id = "transfer0" /\ t.nonce = n
                        /\ Offered(pool', Front', Ample, "transfer0", n)
    BY <1>6, <2>1, ReadySends
  <2>3. t.id \notin DOMAIN mined
    BY <2>1, <2>2, NotYet DEF General
  <2>4. Line(pool', DOMAIN mined, Front, {<<"stray", 0>>} \cup {<<t.id, t.nonce>>}, 0)
    BY <1>7, <1>12, <2>2, <2>3, QueueSends
  <2>5. {<<"stray", 0>>} \cup {<<t.id, t.nonce>>} = {<<"stray", 0>>, <<"transfer0", n>>}
    BY <2>2
  <2>6. Queue({<<"stray", 0>>, <<"transfer0", n>>}, 0)'
    BY <1>6, <2>1, <2>4, <2>5 DEF Queue, n
  <2>7. QED
    BY <2>1, <2>2, <2>6 DEF DriverSends, n, Ready
<1>13. CASE pc = 5
  <2>1. Ins.of = {"transfer0"} /\ Ins.op = "await" /\ pc' \in {6, 9} /\ regs'["nonce0"] = n
    BY <1>2, <1>3, <1>8, <1>9, <1>13 DEF Await
  <2>2. "late" \in trouble' \/ n < Front
    <3>1. CASE Passes
      <4>1. "transfer0" \in DOMAIN mined
        BY <2>1, <3>1 DEF Passes, Found
      <4>2. QED
        BY <1>7, <1>13, <4>1 DEF Queue, Line
    <3>2. CASE Skipped
      <4>1. SUFFICES ASSUME n = Front, ~Sealable("transfer0") PROVE FALSE
        BY <1>4, <1>7, <1>10, <1>13, <2>1, <3>2 DEF Skipped
      <4>2. PICK t \in pool : t.id = "transfer0" /\ t.nonce = n /\ t.cap >= Ample
        BY <1>7, <1>10, <1>13, <4>1 DEF Ready, Offered
      <4>3. t.cap >= fee
        BY <1>10, <4>2 DEF IInv, TypeOK, Tx
      <4>4. QED
        BY <4>1, <4>2, <4>3, NextIsSealable
    <3>3. QED
      BY <1>8, <1>13, <3>1, <3>2
  <2>3. n < Front => Idle(n + 1)
    <3>1. \A o \in {<<"stray", 0>>, <<"transfer0", n>>} : o[2] \in Int /\ o[2] <= n
      BY <1>4, <1>7, <1>13
    <3>2. QED
      BY <1>4, <1>7, <1>13, <3>1, Drained
  <2>4. Idle(n + 1) => Idle(n + 1)'
    BY <1>6, <1>9, <1>13 DEF Idle, Queue, n
  <2>5. "late" \in trouble' \/ Idle(regs["nonce0"] + 1)'
    BY <2>2, <2>3, <2>4 DEF n
  <2>6. QED
    BY <2>1, <2>5 DEF DriverSends
<1>14. CASE pc \in 6..8
  <2>1. Idle(n + 1) => Idle(n + 1)'
    BY <1>6, <1>9, <1>14 DEF Idle, Queue, n
  <2>2. "late" \in trouble' \/ Idle(regs["nonce0"] + 1)'
    BY <1>6, <1>7, <1>14, <2>1 DEF n
  <2>3. pc' \in 7..9
    BY <1>8, <1>14
  <2>4. QED
    BY <2>2, <2>3 DEF DriverSends
<1>15. CASE pc = 9
  <2>1. /\ Ins.op = "send" /\ Ins.price = "gwei" /\ Ins.id = "transfer1" /\ NonceOf(Ins) = n + 1 /\ Passes
        /\ pc' = 10 /\ regs'["nonce0"] = n
    BY <1>2, <1>3, <1>4, <1>8, <1>9, <1>15 DEF Send, NonceOf, n
  <2>2. PICK t \in Tx : Admit(t) /\ t.id = "transfer1" /\ t.nonce = n + 1
                        /\ Offered(pool', Front', Ample, "transfer1", n + 1)
    BY <1>6, <2>1, ReadySends
  <2>3. t.id \notin DOMAIN mined
    BY <2>1, <2>2, NotYet DEF General
  <2>4. Idle(n + 1) => Line(pool', DOMAIN mined', Front', {<<t.id, t.nonce>>}, n + 1)
    BY <1>6, <2>2, <2>3, IdleSends
  <2>5. Idle(n + 1) => Queue({<<"transfer1", n + 1>>}, n + 1)'
    BY <2>1, <2>2, <2>4 DEF n, Queue
  <2>6. \/ "late" \in trouble'
        \/ Queue({<<"transfer1", regs["nonce0"] + 1>>}, regs["nonce0"] + 1)' /\ Ready("transfer1", regs["nonce0"] + 1)'
    BY <1>6, <1>7, <1>15, <2>1, <2>2, <2>5 DEF n, Queue, Ready
  <2>7. QED
    BY <2>1, <2>6 DEF DriverSends
<1>16. CASE pc = 10
  <2>1. Ins.of = {"transfer1"} /\ Ins.op = "await" /\ pc' \in {11, 14} /\ regs'["nonce0"] = n
    BY <1>2, <1>3, <1>8, <1>9, <1>16 DEF Await
  <2>2. CASE "late" \in trouble
    BY <1>6, <2>1, <2>2 DEF DriverSends
  <2>3. CASE "late" \notin trouble
    <3>1. Queue({<<"transfer1", n + 1>>}, n + 1) /\ Ready("transfer1", n + 1)
      BY <1>7, <1>16, <2>3
    <3>2. n + 1 \in Int /\ n + 2 = (n + 1) + 1 /\ n + 1 <= Front
      <4>1. n + 1 <= Front
        BY <3>1 DEF Queue, Line
      <4>2. QED
        BY <1>4, <4>1 DEF n
    <3>3. "late" \in trouble' \/ n + 1 < Front
      <4>1. CASE Passes
        <5>1. "transfer1" \in DOMAIN mined
          BY <2>1, <4>1 DEF Passes, Found
        <5>2. QED
          BY <3>1, <5>1 DEF Queue, Line
      <4>2. CASE Skipped
        <5>1. "transfer1" \notin DOMAIN mined /\ ("late" \in trouble' \/ ~Sealable("transfer1"))
          BY <2>1, <4>2 DEF Skipped, Found
        <5>2. Offered(pool, Front, Ample, "transfer1", n + 1)
          BY <3>1 DEF Ready
        <5>3. \A o \in {<<"transfer1", n + 1>>} : o[2] = n + 1 => o[1] \notin DOMAIN mined
          BY <5>1
        <5>4. n + 1 <= n + 1
          BY <3>2
        <5>5. Sealable("transfer1")
          BY <1>10, <3>1, <3>2, <5>2, <5>3, <5>4, Awaited
        <5>6. QED
          BY <5>1, <5>5
      <4>3. QED
        BY <1>8, <1>16, <4>1, <4>2
    <3>4. n + 1 < Front => Idle(n + 2)
      <4>1. \A o \in {<<"transfer1", n + 1>>} : o[2] \in Int /\ o[2] <= n + 1
        BY <3>2
      <4>2. n + 1 <= (n + 1) + 1
        BY <3>2
      <4>3. n + 1 < Front => Idle((n + 1) + 1)
        BY <3>1, <3>2, <4>1, <4>2, Drained
      <4>4. QED
        BY <3>2, <4>3
    <3>5. Idle(n + 2) => Idle(n + 2)'
      BY <1>6, <1>9, <1>16 DEF Idle, Queue, n
    <3>6. "late" \in trouble' \/ Idle(regs["nonce0"] + 2)'
      BY <3>3, <3>4, <3>5 DEF n
    <3>7. QED
      BY <2>1, <3>6 DEF DriverSends
  <2>4. QED
    BY <2>2, <2>3
<1>17. CASE pc > 10
  <2>1. Idle(n + 2) => Idle(n + 2)'
    BY <1>2, <1>6, <1>9, <1>17 DEF Idle, Queue, n
  <2>2. "late" \in trouble' \/ Idle(regs["nonce0"] + 2)'
    BY <1>6, <1>7, <1>17, <2>1 DEF n
  <2>3. pc' > 10
    BY <1>2, <1>8, <1>17
  <2>4. QED
    BY <1>2, <2>2, <2>3 DEF DriverSends
<1>18. QED
  BY <1>2, <1>11, <1>12, <1>13, <1>14, <1>15, <1>16, <1>17

LEMMA RunsDriverLands ==
  ASSUME IInv, DriverLands, Runs
  PROVE  DriverLands'
<1> DEFINE s == chain_driver
<1>1. SUFFICES ASSUME InUnit("transactions", 1)' PROVE DriverLands'
  BY DEF DriverLands
<1>2. /\ InUnit("transactions", 1) /\ pc \in 1..19 /\ pc \in Nat /\ Ins = s[pc]
      /\ \/ Passes /\ pc' = pc + 1
         \/ Skipped /\ Ins.op = "await" /\ pc' = pc + 1 + Ins.timeout
      /\ UNCHANGED mined /\ trouble \subseteq trouble'
  BY <1>1, Along, DriverHere, RunsPool
<1>3. /\ s[5] = Await("transfer0", 3) /\ s[10] = Await("transfer1", 3)
  BY DriverItems
<1>4. pc \notin {5, 10} => Ins.op # "await"
  BY <1>2, DriverItems DEF Nonce, BlockNumber, Send, Await, Field, Check, Ask
<1> HIDE DEF s
<1>5. /\ pc \in 6..8 => "transfer0" \in DOMAIN mined
      /\ pc \in 11..13 => "transfer1" \in DOMAIN mined
      /\ \A i \in {"transfer0", "transfer1"} \cap DOMAIN mined :
           mined[i].index = 1 \/ "late" \in trouble
  BY <1>2 DEF DriverLands
<1>6. CASE pc \notin {5, 10}
  BY <1>2, <1>4, <1>5, <1>6 DEF DriverLands
<1>7. CASE pc = 5
  <2>1. Ins.of = {"transfer0"} /\ (pc' = 6 => Passes) /\ pc' \in {6, 9} /\ Ins.op = "await"
    BY <1>2, <1>3, <1>7 DEF Await
  <2>2. pc' = 6 => "transfer0" \in DOMAIN mined
    BY <2>1 DEF Passes, Found
  <2>3. QED
    BY <1>2, <1>5, <2>1, <2>2 DEF DriverLands
<1>8. CASE pc = 10
  <2>1. Ins.of = {"transfer1"} /\ (pc' = 11 => Passes) /\ pc' \in {11, 14} /\ Ins.op = "await"
    BY <1>2, <1>3, <1>8 DEF Await
  <2>2. pc' = 11 => "transfer1" \in DOMAIN mined
    BY <2>1 DEF Passes, Found
  <2>3. QED
    BY <1>2, <1>5, <2>1, <2>2 DEF DriverLands
<1>9. QED
  BY <1>6, <1>7, <1>8

\* A receipt that chain_driver.py waits for in vain was late, or an earlier run's took its nonce.
LEMMA DriverReceipt ==
  ASSUME IInv, General, DriverFacts, InUnit("transactions", 1), trouble \subseteq trouble',
         Ins.op = "await", ~Found, "late" \in trouble' \/ \A i \in Ins.of : ~Sealable(i)
  PROVE  Noted({"late", "stray"})'
<1> DEFINE n == regs["nonce0"]
<1>1. pc \in 1..19 /\ pc \in Nat /\ Ins = chain_driver[pc]
  BY DriverHere
<1>2. pc \in {5, 10}
  BY <1>1, DriverItems DEF Nonce, BlockNumber, Send, Field, Check, Ask
<1>3. /\ pc = 5 => Queue({<<"stray", 0>>, <<"transfer0", n>>}, 0) /\ Ready("transfer0", n)
      /\ pc = 10 => "late" \in trouble \/ (Queue({<<"transfer1", n + 1>>}, n + 1) /\ Ready("transfer1", n + 1))
      /\ pc > 2 => 0 <= n /\ n <= Front
  BY DEF DriverFacts, DriverSends, DriverReads
<1>4. /\ pc = 5 => Ins.of = {"transfer0"}
      /\ pc = 10 => Ins.of = {"transfer1"}
  BY <1>1, DriverItems DEF Await
<1>5. n \in Int /\ Front \in Nat /\ fee \in Int /\ Ample \in Int /\ Ample >= fee
  BY FrontLemma, L2NodeAssumption DEF IInv, TypeOK, Regs
<1> HIDE DEF n
<1>6. SUFFICES ASSUME "late" \notin trouble' PROVE "stray" \in trouble
  BY DEF Noted
<1>7. CASE pc = 5
  <2>1. "transfer0" \notin DOMAIN mined /\ ~Sealable("transfer0")
    BY <1>4, <1>6, <1>7 DEF Found
  <2>2. n # Front
    <3>1. SUFFICES ASSUME n = Front PROVE FALSE
      OBVIOUS
    <3>2. PICK t \in pool : t.id = "transfer0" /\ t.nonce = n /\ t.cap >= Ample
      BY <1>3, <1>5, <1>7, <3>1 DEF Ready, Offered
    <3>3. t.cap >= fee
      BY <1>5, <3>2 DEF IInv, TypeOK, Tx
    <3>4. QED
      BY <2>1, <3>1, <3>2, <3>3, NextIsSealable
  <2>3. n \in 0..(Front - 1)
    BY <1>3, <1>5, <1>7, <2>2
  <2>4. \A m \in 0..(Front - 1) : \E o \in {<<"stray", 0>>, <<"transfer0", n>>} : o[1] \in DOMAIN mined /\ o[2] = m
    BY <1>3, <1>7 DEF Queue, Line
  <2>5. PICK o \in {<<"stray", 0>>, <<"transfer0", n>>} : o[1] \in DOMAIN mined
    BY <2>3, <2>4
  <2>6. "stray" \in DOMAIN mined
    BY <2>1, <2>5
  <2>7. QED
    BY <2>6 DEF General, Strays
<1>8. CASE pc = 10
  <2>1. "transfer1" \notin DOMAIN mined /\ ~Sealable("transfer1") /\ "late" \notin trouble
    BY <1>4, <1>6, <1>8 DEF Found
  <2>2. Queue({<<"transfer1", n + 1>>}, n + 1) /\ Offered(pool, Front, Ample, "transfer1", n + 1)
    BY <1>3, <1>8, <2>1 DEF Ready
  <2>3. n + 1 \in Int /\ n + 1 <= n + 1 /\ n + 1 <= Front
    BY <1>5, <2>2 DEF Queue, Line
  <2>4. \A o \in {<<"transfer1", n + 1>>} : o[2] = n + 1 => o[1] \notin DOMAIN mined
    BY <2>1
  <2>5. Sealable("transfer1")
    BY <1>5, <2>2, <2>3, <2>4, Awaited
  <2>6. QED
    BY <2>1, <2>5
<1>9. QED
  BY <1>2, <1>7, <1>8

LEMMA RunsDriverLeaves ==
  ASSUME IInv, InOrder, General, Procs, DriverFacts, Runs
  PROVE  DriverLeaves'
<1> DEFINE n == regs["nonce0"]
<1>1. /\ UNCHANGED <<mined, plan, unit>> /\ trouble \subseteq trouble' /\ Front' = Front
      /\ (pool' = pool \/ (Ins.op = "send" /\ Sends)) /\ ~Finished /\ pc # End
      /\ Running' = Running
  BY RunsPool, RunsTells DEF Steps, Goes, Running
<1>2. SUFFICES ASSUME plan = "transactions", unit = 1 PROVE DriverLeaves'
  BY <1>1 DEF DriverLeaves
<1>3. /\ InUnit("transactions", 1) /\ pc \in 1..19 /\ pc \in Nat /\ Ins = chain_driver[pc] /\ End = 20
      /\ ~Running.exits
  BY <1>1, <1>2, TransactionsHere, TransactionsBodies DEF InUnit
<1>4. /\ "receipt" \in failed => Noted({"late", "stray"})
      /\ ~Noted({"stray", "late"}) => \A t \in pool : t.nonce >= Front
      /\ ~Noted({"stray", "lingered"}) /\ holder = 0 => pool = {}
  BY <1>2 DEF DriverFacts, DriverLeaves
<1>5. /\ chain_driver[4] = Send("transfer0", "nonce0", 0, "gwei")
      /\ chain_driver[9] = Send("transfer1", "nonce0", 1, "gwei")
      /\ chain_driver[5] = Await("transfer0", 3) /\ chain_driver[10] = Await("transfer1", 3)
  BY DriverItems
<1>6. /\ pc \notin {4, 9} => Ins.op # "send"
      /\ pc \notin {5, 10} => Ins.op # "await"
      /\ Ins.op \notin {"advance", "retry", "engine", "kill", "launch"}
  <2>1. \/ Ins.op \in {"nonce", "head", "field", "check", "ask", "spent"}
        \/ pc \in {4, 9} /\ Ins.op = "send"
        \/ pc \in {5, 10} /\ Ins.op = "await"
    BY <1>3, DriverItems DEF Nonce, BlockNumber, Send, Await, Field, Check, Ask
  <2>2. QED
    BY <2>1
<1>7. UNCHANGED holder
  BY <1>6, RunsMoves DEF Launches
<1>8. regs \in [Regs -> Int] /\ n \in Int /\ Front \in Nat /\ \A t \in pool : t.nonce \in Int
  BY FrontLemma DEF IInv, TypeOK, Tx, Regs
<1>9. ("receipt" \in failed => Noted({"late", "stray"}))'
  <2>1. SUFFICES ASSUME "receipt" \in failed' \ failed PROVE Noted({"late", "stray"})'
    BY <1>1, <1>4 DEF Noted
  <2>2. Cause("receipt")
    BY <2>1, RunsEffect DEF Effect
  <2>3. Ins.op \notin {"check", "steps", "spent"} \/ Ins.name # "receipt"
    BY <1>3, <1>6, DriverItems DEF Nonce, BlockNumber, Field, Check, Ask, Send, Await
  <2>4. Ins.op = "await" /\ ~Found /\ ("late" \in trouble' \/ \A i \in Ins.of : ~Sealable(i))
    BY <2>2, <2>3 DEF Cause
  <2>5. QED
    BY <1>1, <1>3, <2>4, DriverReceipt
<1>10. ~Noted({"stray", "late"})' => \A t \in pool' : t.nonce >= Front'
  <2>1. SUFFICES ASSUME "stray" \notin trouble', "late" \notin trouble', Ins.op = "send", Sends
                 PROVE  \A t \in pool' : t.nonce >= Front
    BY <1>1, <1>4 DEF Noted
  <2>2. PICK t \in Tx : t.nonce = NonceOf(Ins) /\ Admit(t)
    BY <2>1 DEF Sends
  <2>3. NonceOf(Ins) >= Front
    <3>1. CASE pc = 4
      <4>1. NonceOf(Ins) = n
        BY <1>3, <1>5, <1>8, <3>1 DEF NonceOf, Send
      <4>2. Front = 0
        BY <1>1, <1>3, <2>1, <3>1, StrayFront DEF General, DriverFacts, DriverSends
      <4>3. 0 <= n
        BY <1>3, <3>1 DEF DriverFacts, DriverReads
      <4>4. QED
        BY <1>8, <4>1, <4>2, <4>3
    <3>2. CASE pc = 9
      <4>1. NonceOf(Ins) = n + 1
        BY <1>3, <1>5, <1>8, <3>2 DEF NonceOf, Send
      <4>2. Idle(n + 1)
        BY <1>1, <1>3, <2>1, <3>2 DEF DriverFacts, DriverSends
      <4>3. n + 1 \in Int
        BY <1>8
      <4>4. Front = n + 1
        BY <4>2, <4>3, IdleLemma
      <4>5. QED
        BY <1>8, <4>1, <4>4
    <3>3. QED
      BY <1>6, <2>1, <3>1, <3>2
  <2>4. QED
    BY <1>1, <1>4, <2>1, <2>2, <2>3 DEF Admit, Noted
<1>11. (~Noted({"stray", "lingered"}) /\ holder = 0 => pool = {})'
  <2>1. Ins.op = "send" /\ Sends => holder # 0 \/ UNCHANGED pool
    BY RunsEffect DEF Effect, Raises, Skipped, Passes, Calls
  <2>2. QED
    BY <1>1, <1>4, <1>7, <2>1 DEF Noted
<1>12. (~Noted({"stray", "late", "lingered"}) /\ pc = End => pool = {})'
  <2>1. SUFFICES ASSUME "stray" \notin trouble', "late" \notin trouble', "lingered" \notin trouble', pc' = 20
                 PROVE  pool' = {}
    BY <1>1, <1>3 DEF Noted, End
  <2>2. CASE pc = 19
    <3>1. pool' = pool
      BY <1>1, <1>6, <2>2
    <3>2. Idle(n + 2)
      BY <1>1, <1>3, <2>1, <2>2 DEF DriverFacts, DriverSends
    <3>3. n + 2 \in Int
      BY <1>8
    <3>4. Front = n + 2 /\ \A t \in pool : t.nonce < n + 2
      BY <3>2, <3>3, IdleLemma
    <3>5. \A t \in pool : t.nonce >= Front
      BY <1>1, <1>4, <2>1 DEF Noted
    <3>6. QED
      BY <1>8, <3>1, <3>4, <3>5
  <2>3. CASE pc # 19
    <3>1. pc + 1 # End /\ pc' = End
      BY <1>3, <2>1, <2>3
    <3>2. Ins.op = "await" => Ins.timeout # Raise /\ pc + 1 + Ins.timeout # End
      <4>1. Ins.op = "await" => Ins.timeout = 3 /\ pc \in {5, 10}
        BY <1>3, <1>5, <1>6 DEF Await
      <4>2. QED
        BY <1>3, <4>1 DEF Raise
    <3>3. holder = 0 /\ Ins.op \in Calls
      BY <1>3, <1>6, <3>1, <3>2, LeftEarly
    <3>4. pool = {}
      BY <1>1, <1>4, <2>1, <3>3 DEF Noted
    <3>5. Ins.op = "send" /\ Sends => holder # 0 \/ UNCHANGED pool
      BY RunsEffect DEF Effect, Raises, Skipped, Passes, Calls
    <3>6. QED
      BY <1>1, <3>3, <3>4, <3>5
  <2>4. QED
    BY <2>2, <2>3
<1>13. QED
  BY <1>9, <1>10, <1>11, <1>12 DEF DriverLeaves

\* What a block takes of a script that sends every transaction once.
LEMMA OrderedTakes ==
  ASSUME IInv, IInv', InOrder, plan \in {"transactions", "boundaries"}, NEW taken, NEW n, Takes(taken, n)
  PROVE  /\ Front' = n /\ Front <= n /\ Front \in Nat /\ n \in Int
         /\ \A s, t \in taken : s.id = t.id => s = t
         /\ \A t \in taken : t.id \notin DOMAIN mined /\ t.nonce \in Int /\ t.id \in TxIds
<1>1. taken \subseteq pool /\ n = Front + Cardinality(taken) /\ n \in Int
  BY DEF Takes
<1>2. Cardinality(taken) \in Nat /\ Front \in Nat
  BY <1>1, FS_Subset, FS_CardinalityType, FrontLemma DEF IInv, Shape
<1>3. /\ \A s, t \in taken : s.id = t.id => s = t
      /\ \A t \in taken : t.id \notin DOMAIN mined
  BY <1>1 DEF InOrder, Pooled
<1>4. Front' = n
  BY <1>3, FrontMoves
<1>5. \A t \in taken : t.nonce \in Int /\ t.id \in TxIds
  BY <1>1 DEF IInv, TypeOK, Tx
<1>6. QED
  BY <1>1, <1>2, <1>3, <1>4, <1>5

LEMMA NodeDriverSends ==
  ASSUME IInv, IInv', General, DriverFacts, Node, InUnit("transactions", 1)
  PROVE  DriverSends' /\ DriverReads'
<1> DEFINE n == regs["nonce0"]
<1>1. /\ UNCHANGED <<plan, unit, pc, regs>> /\ plan = "transactions" /\ unit = 1 /\ pc \in 1..19 /\ pc \in Nat
      /\ trouble \subseteq trouble'
  BY NodeHere, DriverHere, NodeSteps DEF Takes, Stays, Comes
<1>2. Alone
  BY <1>1 DEF General, Solitary
<1>3. OnePerNonce
  BY DEF General
<1>4. n \in Int /\ n + 1 \in Int /\ n + 2 \in Int /\ 0 \in Int /\ n + 2 = (n + 1) + 1
  BY DEF IInv, TypeOK, Regs
<1>5. /\ pc <= 4 => Queue({<<"stray", 0>>}, 0)
      /\ pc = 5 => Queue({<<"stray", 0>>, <<"transfer0", n>>}, 0) /\ Ready("transfer0", n)
      /\ pc \in 6..9 => "late" \in trouble \/ Idle(n + 1)
      /\ pc = 10 => "late" \in trouble \/ (Queue({<<"transfer1", n + 1>>}, n + 1) /\ Ready("transfer1", n + 1))
      /\ pc > 10 => "late" \in trouble \/ Idle(n + 2)
  BY DEF DriverFacts, DriverSends
<1> HIDE DEF n
<1>6. ASSUME NEW O, NEW lo \in Int, Queue(O, lo), Named(O) PROVE Line(pool', DOMAIN mined', Front', O, lo)
  BY <1>2, <1>3, <1>6, AloneQueue
<1>7. ASSUME NEW id, NEW k \in Int, NEW O, NEW lo \in Int, Queue(O, lo), Named(O), Ready(id, k)
      PROVE  Offered(pool', Front', Ample, id, k)
  BY <1>2, <1>3, <1>7, AloneQueue
<1>8. pc <= 4 => Queue({<<"stray", 0>>}, 0)'
  BY <1>4, <1>5, <1>6, NamedOne DEF Queue
<1>9. pc = 5 => /\ Line(pool', DOMAIN mined', Front', {<<"stray", 0>>, <<"transfer0", n>>}, 0)
                /\ Offered(pool', Front', Ample, "transfer0", n)
  <2>1. Named({<<"stray", 0>>, <<"transfer0", n>>})
    BY <1>4, NamedTwo
  <2>2. QED
    BY <1>4, <1>5, <1>6, <1>7, <2>1
<1>10. pc \in 6..9 => "late" \in trouble \/ Line(pool', DOMAIN mined', Front', {}, n + 1)
  BY <1>4, <1>5, <1>6, NamedNone DEF Idle
<1>11. pc = 10 => \/ "late" \in trouble
                  \/ /\ Line(pool', DOMAIN mined', Front', {<<"transfer1", n + 1>>}, n + 1)
                     /\ Offered(pool', Front', Ample, "transfer1", n + 1)
  <2>1. Named({<<"transfer1", n + 1>>})
    BY <1>4, NamedOne
  <2>2. QED
    BY <1>4, <1>5, <1>6, <1>7, <2>1
<1>12. pc > 10 => "late" \in trouble \/ Line(pool', DOMAIN mined', Front', {}, n + 2)
  BY <1>4, <1>5, <1>6, NamedNone DEF Idle
<1>13. DriverSends'
  BY <1>1, <1>8, <1>9, <1>10, <1>11, <1>12 DEF DriverSends, Queue, Idle, Ready, n
<1>14. height <= height' /\ Front <= Front' /\ Front \in Nat /\ Front' \in Nat
  <2>1. CASE UNCHANGED <<height, fee, pool, mined, trouble, bridge>>
    <3>1. Front' = Front
      BY <2>1 DEF Front, NonceAt, MinedBy
    <3>2. QED
      BY <2>1, <3>1, FrontLemma DEF IInv, TypeOK
  <2>2. CASE \E taken, m : Takes(taken, m)
    <3>1. PICK taken, m : Takes(taken, m)
      BY <2>2
    <3>2. Front' = Cardinality(DOMAIN mined') /\ Front' \in Nat /\ Front = Cardinality(DOMAIN mined)
          /\ IsFiniteSet(DOMAIN mined') /\ Front \in Nat
      BY FrontLemma, FrontNext DEF IInv, Shape
    <3>3. DOMAIN mined \subseteq DOMAIN mined' /\ height' = height + 1
      BY <3>1 DEF Takes
    <3>4. Front <= Front'
      BY <3>2, <3>3, FS_Subset
    <3>5. QED
      BY <3>2, <3>3, <3>4 DEF IInv, TypeOK
  <2>3. QED
    BY <1>2, <2>1, <2>2, AloneNode
<1>15. DriverReads'
  <2>1. /\ pc = 2 => regs["bal0"] = 0 \/ "stray" \in trouble
        /\ pc > 2 => 0 <= n /\ n <= Front /\ n <= 1
        /\ pc > 2 => (n = 0 /\ regs["bal0"] = 0) \/ "stray" \in trouble
        /\ pc > 3 => regs["prev_head"] <= height
        /\ pc \in {7, 12} => regs["index"] = 1 \/ "late" \in trouble
        /\ pc > 14 => regs["bal1"] = n + 2 \/ Noted({"lag", "late"})
        /\ pc > 15 => regs["nonce1"] = n + 2 \/ Noted({"lag", "late"})
        /\ pc > 18 => regs["prev_head"] <= regs["head"]
    BY DEF DriverFacts, DriverReads, n
  <2>2. Noted({"lag", "late"}) => Noted({"lag", "late"})'
    BY <1>1 DEF Noted
  <2>3. pc > 2 => n <= Front'
    BY <1>4, <1>14, <2>1
  <2>4. pc > 3 => regs["prev_head"] <= height'
    <3>1. regs["prev_head"] \in Int /\ height \in Int /\ height' \in Int
      BY DEF IInv, TypeOK, Regs
    <3>2. QED
      BY <1>14, <2>1, <3>1
  <2>5. QED
    BY <1>1, <2>1, <2>2, <2>3, <2>4 DEF DriverReads, n
<1>16. QED
  BY <1>13, <1>15

LEMMA NodeDriverLands ==
  ASSUME IInv, IInv', InOrder, General, DriverFacts, Node, InUnit("transactions", 1)
  PROVE  DriverLands'
<1> DEFINE n == regs["nonce0"]
           T == {"transfer0", "transfer1"}
<1>1. /\ UNCHANGED <<plan, unit, pc, regs>> /\ plan = "transactions" /\ unit = 1 /\ pc \in 1..19 /\ pc \in Nat
      /\ trouble \subseteq trouble'
  BY NodeHere, DriverHere, NodeSteps DEF Takes, Stays, Comes
<1>2. Alone
  BY <1>1 DEF General, Solitary
<1>3. /\ pc \in 6..8 => "transfer0" \in DOMAIN mined
      /\ pc \in 11..13 => "transfer1" \in DOMAIN mined
      /\ \A i \in T \cap DOMAIN mined : mined[i].index = 1 \/ "late" \in trouble
  BY DEF DriverFacts, DriverLands
<1>4. CASE UNCHANGED <<height, fee, pool, mined, trouble, bridge>>
  BY <1>1, <1>3, <1>4 DEF DriverLands
<1>5. ASSUME NEW taken, NEW m, Takes(taken, m) PROVE DriverLands'
  <2>1. /\ \A s, t \in taken : s.id = t.id => s = t
        /\ \A t \in taken : t.id \notin DOMAIN mined /\ t.nonce \in Int
        /\ \A t \in taken : Front <= t.nonce /\ Front \in Nat
    BY <1>1, <1>5, OrderedTakes DEF Takes
  <2>2. DOMAIN mined \subseteq DOMAIN mined'
    BY <1>5 DEF Takes
  <2>3. ASSUME NEW t \in taken, t.id \in T, "late" \notin trouble PROVE t.nonce = Front
    <3>1. n \in Int /\ n + 1 \in Int /\ n + 2 \in Int /\ Front \in Nat /\ 0 \in Int
      BY FrontLemma DEF IInv, TypeOK, Regs
    <3>2. /\ pc <= 4 => Queue({<<"stray", 0>>}, 0)
          /\ pc = 5 => Queue({<<"stray", 0>>, <<"transfer0", n>>}, 0)
          /\ pc \in 6..9 => Idle(n + 1)
          /\ pc = 10 => Queue({<<"transfer1", n + 1>>}, n + 1)
          /\ pc > 10 => Idle(n + 2)
          /\ pc > 2 => n <= Front
      BY <2>3 DEF DriverFacts, DriverSends, DriverReads
    <3> HIDE DEF n
    <3>3. ASSUME NEW k \in Int, Idle(k) PROVE FALSE
      <4>1. Front = k /\ \A s \in pool : s.nonce < k
        BY <3>3, IdleLemma
      <4>2. t \in pool
        BY <1>5 DEF Takes
      <4>3. QED
        BY <2>1, <3>1, <4>1, <4>2
    <3>4. CASE pc <= 4
      <4>1. <<t.id, t.nonce>> \in {<<"stray", 0>>}
        BY <1>5, <3>1, <3>2, <3>4, NamedOne, TakenOfQueue
      <4>2. QED
        BY <2>3, <4>1
    <3>5. CASE pc = 5
      <4>1. Named({<<"stray", 0>>, <<"transfer0", n>>})
        BY <3>1, NamedTwo
      <4>2. <<t.id, t.nonce>> \in {<<"stray", 0>>, <<"transfer0", n>>}
        BY <1>5, <3>1, <3>2, <3>5, <4>1, TakenOfQueue
      <4>3. t.nonce = n
        BY <2>3, <4>2
      <4>4. QED
        BY <2>1, <3>1, <3>2, <3>5, <4>3
    <3>6. CASE pc = 10
      <4>1. Named({<<"transfer1", n + 1>>})
        BY <3>1, NamedOne
      <4>2. <<t.id, t.nonce>> \in {<<"transfer1", n + 1>>}
        BY <1>5, <3>1, <3>2, <3>6, <4>1, TakenOfQueue
      <4>3. n + 1 <= Front
        BY <3>2, <3>6 DEF Queue, Line
      <4>4. QED
        BY <2>1, <3>1, <4>2, <4>3
    <3>7. QED
      BY <1>1, <3>1, <3>2, <3>3, <3>4, <3>5, <3>6
  <2>4. ASSUME NEW i \in T \cap DOMAIN mined' PROVE mined'[i].index = 1 \/ "late" \in trouble'
    <3>1. CASE \E t \in taken : t.id = i
      <4>1. PICK t \in taken : t.id = i
        BY <3>1
      <4>2. mined'[i].index = t.nonce - Front + 1
        <5>1. \A r \in taken : r.id = t.id => r = t
          BY <2>1
        <5>2. mined'[t.id] = [block |-> height + 1, index |-> t.nonce - Front + 1,
                              price |-> EffectivePrice(t, fee')]
          BY <1>5, <5>1 DEF Takes
        <5>3. QED
          BY <4>1, <5>2
      <4>3. "late" \notin trouble => t.nonce = Front
        BY <2>3, <2>4, <4>1
      <4>4. Front \in Nat
        BY <2>1, <4>1
      <4>5. QED
        BY <1>1, <4>2, <4>3, <4>4
    <3>2. CASE ~\E t \in taken : t.id = i
      <4>1. i \in DOMAIN mined /\ mined'[i] = mined[i]
        BY <1>5, <2>4, <3>2 DEF Takes
      <4>2. QED
        BY <1>1, <1>3, <2>4, <4>1
    <3>3. QED
      BY <3>1, <3>2
  <2>5. QED
    BY <1>1, <1>3, <2>2, <2>4 DEF DriverLands
<1>6. QED
  BY <1>2, <1>4, <1>5, AloneNode

LEMMA NodeDriverLeaves ==
  ASSUME IInv, IInv', InOrder, General, Procs, DriverFacts, Node
  PROVE  DriverLeaves'
<1>1. /\ UNCHANGED <<plan, unit, pc, regs, failed>> /\ trouble \subseteq trouble' /\ pc # End
      /\ Running' = Running
  BY NodeHere, NodeSteps DEF Takes, Stays, Comes
<1>2. SUFFICES ASSUME plan = "transactions", unit = 1 PROVE DriverLeaves'
  BY <1>1 DEF DriverLeaves
<1>3. /\ "receipt" \in failed => Noted({"late", "stray"})
      /\ ~Noted({"stray", "late"}) => \A t \in pool : t.nonce >= Front
      /\ ~Noted({"stray", "lingered"}) /\ holder = 0 => pool = {}
  BY <1>2 DEF DriverFacts, DriverLeaves
<1>4. Alone /\ live \subseteq 1..pidFile
  BY <1>2 DEF General, Solitary, IInv, TypeOK
<1>5. ~Noted({"stray", "late"})' => \A t \in pool' : t.nonce >= Front'
  <2>1. CASE UNCHANGED <<height, fee, pool, mined, trouble, bridge>>
    <3>1. Front' = Front
      BY <2>1 DEF Front, NonceAt, MinedBy
    <3>2. QED
      BY <1>3, <2>1, <3>1 DEF Noted
  <2>2. ASSUME NEW taken, NEW n, Takes(taken, n) PROVE \A t \in pool' : t.nonce >= Front'
    <3>1. Front' = n
      BY <1>2, <2>2, OrderedTakes
    <3>2. QED
      BY <2>2, <3>1 DEF Takes
  <2>3. QED
    BY <1>4, <2>1, <2>2, AloneNode
<1>6. (~Noted({"stray", "lingered"}) /\ holder = 0 => pool = {})'
  <2>1. SUFFICES ASSUME "stray" \notin trouble', "lingered" \notin trouble', holder' = 0 PROVE pool' = {}
    BY DEF Noted
  <2>2. doomed \cap live = {}
    BY <1>1, <1>2, <2>1 DEF Procs
  <2>3. ~Comes
    <3>1. ASSUME NEW p \in live \ {holder}, holder' = p PROVE FALSE
      BY <1>4, <2>1, <3>1
    <3>2. QED
      BY <3>1 DEF Comes
  <2>5. \A taken, n : ~Takes(taken, n)
    BY <2>1 DEF Takes
  <2>6. Stays
    BY <2>3, <2>5, NodeSteps
  <2>7. UNCHANGED <<holder, pool>>
    BY <2>2, <2>6 DEF Stays
  <2>8. QED
    BY <1>1, <1>3, <2>1, <2>7 DEF Noted
<1>7. pc' # End'
  BY <1>1 DEF End
<1>8. QED
  BY <1>1, <1>3, <1>5, <1>6, <1>7 DEF DriverLeaves, Noted

LEMMA NodeDriver ==
  ASSUME IInv, IInv', InOrder, General, Procs, DriverFacts, Node
  PROVE  DriverFacts'
<1>1. CASE InUnit("transactions", 1)
  BY <1>1, NodeDriverSends, NodeDriverLands, NodeDriverLeaves DEF DriverFacts
<1>2. CASE ~InUnit("transactions", 1)
  <2>1. ~InUnit("transactions", 1)'
    BY <1>2, NodeHere DEF InUnit
  <2>2. QED
    BY <2>1, NodeDriverLeaves DEF DriverFacts, DriverReads, DriverSends, DriverLands
<1>3. QED
  BY <1>1, <1>2

LEMMA RunsDriver ==
  ASSUME IInv, InOrder, General, Procs, DriverFacts, Runs
  PROVE  DriverFacts'
BY RunsDriverReads, RunsDriverSends, RunsDriverLands, RunsDriverLeaves DEF DriverFacts

LEMMA NextDriver == ASSUME IInv, NextUnit PROVE DriverFacts'
<1>1. unit' # 1
  BY NextHere, PlanHere
<1>2. QED
  BY <1>1 DEF DriverFacts, DriverReads, DriverSends, DriverLands, DriverLeaves, InUnit

LEMMA InitDriver == ASSUME IInv, Init PROVE DriverFacts
<1>1. /\ pool \in {{}, {[id |-> "stray", nonce |-> 0, cap |-> Ample, tip |-> Ample]}}
      /\ mined = [i \in {} |-> 0] /\ unit = 1 /\ pc = 1 /\ failed = {}
  BY DEF Init
<1>2. pool # {} => "stray" \in trouble
  BY <1>1 DEF Init
<1>3. DOMAIN mined = {} /\ Front = 0
  <2>1. DOMAIN mined = {}
    BY <1>1
  <2>2. QED
    BY <2>1, FrontLemma, FS_EmptySet
<1>4. Queue({<<"stray", 0>>}, 0)
  BY <1>1, <1>3 DEF Queue, Line
<1>5. plan = "transactions" => pc # End
  <2>1. SUFFICES ASSUME plan = "transactions" PROVE pc # End
    OBVIOUS
  <2>2. Len(Running.body) = 19
    BY <1>1, <2>1, TransactionsBodies DEF Running
  <2>3. End = 20
    BY <2>2 DEF End
  <2>4. QED
    BY <1>1, <2>3
<1>6. \A t \in pool : t.nonce = 0
  BY <1>1
<1>7. DriverReads /\ DriverSends /\ DriverLands
  BY <1>1, <1>3, <1>4 DEF DriverReads, DriverSends, DriverLands
<1>8. DriverLeaves
  BY <1>1, <1>2, <1>3, <1>5, <1>6 DEF DriverLeaves, Noted
<1>9. QED
  BY <1>7, <1>8 DEF DriverFacts
-----------------------------------------------------------------------------
(* b4_persist.py.                                                           *)

LEMMA RunsPersist == ASSUME IInv, PersistFacts, Runs PROVE PersistFacts'
<1>1. SUFFICES ASSUME InUnit("transactions", 2)' PROVE PersistFacts'
  BY DEF PersistFacts
<1>2. /\ InUnit("transactions", 2) /\ plan = "transactions" /\ unit = 2 /\ ~Finished /\ pc # End
      /\ pc \in 1..8 /\ Ins.op # "await" /\ Passes /\ pc' = pc + 1
  BY <1>1, Along, PersistHere, InTransactions
<1>3. /\ pc = 1 => Ins.op = "head" /\ Ins.into = "h1"
      /\ pc \in {2, 3, 4, 6, 8} => Ins.op \notin Readers
      /\ pc = 5 => Ins.op = "retry" /\ Ins.into = "h2"
      /\ pc = 7 => Ins.op = "later" /\ Ins.into = "h3" /\ Ins.past = "h2"
  BY <1>2, PersistHere DEF RestartOps, Readers
<1>4. UNCHANGED height /\ trouble \subseteq trouble' /\ regs \in [Regs -> Int] /\ height \in Int
  BY RunsPool DEF IInv, TypeOK
<1>5. /\ pc > 1 => regs["h1"] <= height \/ "cut" \in trouble
      /\ pc > 5 => regs["h2"] >= regs["h1"] \/ "cut" \in trouble
      /\ pc > 7 => regs["h3"] > regs["h2"] \/ "idle" \in trouble
  BY <1>2 DEF PersistFacts
<1>6. "h1" \in Regs /\ "h2" \in Regs /\ "h3" \in Regs
  BY DEF Regs
<1>7. CASE pc = 1
  <2>1. Value(regs'["h1"])
    BY <1>2, <1>3, <1>6, <1>7, Reading DEF Readers
  <2>2. regs'["h1"] = height
    BY <1>3, <1>7, <2>1 DEF Value
  <2>3. QED
    BY <1>2, <1>4, <1>7, <2>2 DEF PersistFacts
<1>8. CASE pc \in {2, 3, 4, 6, 8}
  <2>1. regs'["h1"] = regs["h1"] /\ regs'["h2"] = regs["h2"] /\ regs'["h3"] = regs["h3"]
    BY <1>3, <1>6, <1>8, NotReading
  <2>2. pc # 8
    BY <1>1, <1>2, TransactionsBodies DEF InUnit
  <2>3. QED
    BY <1>2, <1>4, <1>5, <1>8, <2>1, <2>2 DEF PersistFacts
<1>9. CASE pc = 5
  <2>1. Value(regs'["h2"]) /\ regs'["h1"] = regs["h1"]
    BY <1>2, <1>3, <1>6, <1>9, Reading DEF Readers
  <2>2. regs'["h2"] = height
    BY <1>3, <1>9, <2>1 DEF Value
  <2>3. QED
    BY <1>2, <1>4, <1>5, <1>9, <2>1, <2>2 DEF PersistFacts
<1>10. CASE pc = 7
  <2>1. regs'["h1"] = regs["h1"] /\ regs'["h2"] = regs["h2"]
    BY <1>2, <1>3, <1>6, <1>10, Reading DEF Readers
  <2>2. (\E v \in Int : regs'["h3"] = v /\ Value(v)) \/ "idle" \in trouble'
    BY <1>2, <1>3, <1>6, <1>10, Reading DEF Readers
  <2>3. regs'["h3"] > regs["h2"] \/ "idle" \in trouble'
    BY <1>3, <1>10, <2>2 DEF Value
  <2>4. QED
    BY <1>2, <1>4, <1>5, <1>10, <2>1, <2>3 DEF PersistFacts
<1>11. QED
  BY <1>2, <1>7, <1>8, <1>9, <1>10

LEMMA NodePersist == ASSUME IInv, IInv', PersistFacts, Node PROVE PersistFacts'
<1>1. UNCHANGED <<plan, unit, pc, regs>> /\ trouble \subseteq trouble'
  BY NodeHere, NodeSteps DEF Takes, Stays, Comes
<1>2. height' >= height \/ "cut" \in trouble'
  <2>1. height' \in {height, height + 1} \/ "cut" \in trouble'
    BY NodeSteps DEF Takes, Stays, Comes
  <2>2. height \in Int
    BY DEF IInv, TypeOK
  <2>3. QED
    BY <2>1, <2>2
<1>3. SUFFICES ASSUME InUnit("transactions", 2) PROVE PersistFacts'
  BY <1>1 DEF PersistFacts, InUnit
<1>4. /\ pc > 1 => regs["h1"] <= height \/ "cut" \in trouble
      /\ pc > 5 => regs["h2"] >= regs["h1"] \/ "cut" \in trouble
      /\ pc > 7 => regs["h3"] > regs["h2"] \/ "idle" \in trouble
  BY <1>3 DEF PersistFacts
<1>5. regs["h1"] \in Int /\ height \in Int /\ height' \in Int
  BY DEF IInv, TypeOK, Regs
<1>6. QED
  BY <1>1, <1>2, <1>4, <1>5 DEF PersistFacts
-----------------------------------------------------------------------------
(* b3_contracts.py.                                                         *)

LEMMA ContractsHere ==
  ASSUME IInv, InUnit("transactions", 3)
  PROVE  /\ plan = "transactions" /\ unit = 3 /\ ~Finished /\ pc # End /\ End = 10 /\ ~Running.exits
         /\ pc \in 1..9 /\ pc \in Nat /\ Ins = b3_contracts[pc] /\ Running.body = b3_contracts
<1>1. plan = "transactions" /\ unit = 3 /\ pc \in 1..9
  BY TransactionsBodies DEF InUnit
<1>2. ~Finished
  BY <1>1, TransactionsBodies DEF Finished
<1>3. Running.body = b3_contracts /\ Len(Running.body) = 9
  BY <1>1, TransactionsBodies DEF Running
<1>4. End = 10
  BY <1>3 DEF End
<1>5. pc # End
  BY <1>1, <1>4
<1>6. QED
  BY <1>1, <1>2, <1>4, <1>5, TransactionsHere

LEMMA ContractsWrites ==
  LET s == b3_contracts IN Writes(s, "nonce", 1)
<1> DEFINE s == b3_contracts
<1>1. Len(s) = 9
  BY ContractsItems
<1>2. /\ s[4].into = "code" /\ s[8].into = "code"
      /\ s[2].op = "send" /\ s[3].op = "await" /\ s[5].op = "check" /\ s[6].op = "send"
      /\ s[7].op = "await" /\ s[9].op = "check"
  BY ContractsItems DEF Count, Send, Await, Check
<1> HIDE DEF s
<1>3. ASSUME NEW i \in 1..Len(s), s[i].op \in Readers, s[i].into = "nonce" PROVE i = 1
  <2>1. i \in {1, 2, 3, 4, 5, 6, 7, 8, 9}
    BY <1>1, <1>3
  <2>2. QED
    BY <1>2, <1>3, <2>1 DEF Readers
<1>4. QED
  BY <1>3 DEF Writes, s

\* A transaction that waits its turn at a price above every base fee, and was found in no block,
\* is sealable; found, it leaves the account idle.
LEMMA OneAwaited ==
  ASSUME IInv, NEW id, NEW n \in Int, Queue({<<id, n>>}, n), Ready(id, n)
  PROVE  /\ id \in DOMAIN mined => Idle(n + 1)
         /\ id \notin DOMAIN mined => Sealable(id)
<1>1. Front \in Nat /\ fee \in Int /\ Ample \in Int /\ Ample >= fee
  BY FrontLemma, L2NodeAssumption DEF IInv, TypeOK
<1>2. /\ n <= Front
      /\ id \in DOMAIN mined => n < Front
  BY DEF Queue, Line
<1>3. ASSUME id \in DOMAIN mined PROVE Idle(n + 1)
  <2>1. \A o \in {<<id, n>>} : o[2] \in Int /\ o[2] <= n
    OBVIOUS
  <2>2. n <= n + 1 /\ n < Front
    BY <1>2, <1>3
  <2>3. QED
    BY <2>1, <2>2, Drained
<1>4. ASSUME id \notin DOMAIN mined PROVE Sealable(id)
  <2>1. \A o \in {<<id, n>>} : o[2] = n => o[1] \notin DOMAIN mined
    BY <1>4
  <2>2. Offered(pool, Front, Ample, id, n) /\ n <= n
    BY DEF Ready
  <2>3. QED
    BY <1>1, <1>2, <2>1, <2>2, Awaited
<1>5. QED
  BY <1>3, <1>4

\* What the script sends next when it is idle.
LEMMA NextSends ==
  ASSUME IInv, NEW n \in Int, Idle(n), Passes, Ins.op = "send", Ins.price = "gwei", NonceOf(Ins) = n,
         Ins.id \notin DOMAIN mined, Front' = Front, UNCHANGED mined
  PROVE  /\ Line(pool', DOMAIN mined', Front', {<<Ins.id, n>>}, n)
         /\ Offered(pool', Front', Ample, Ins.id, n)
<1>1. PICK t \in Tx : /\ Admit(t) /\ t.id = Ins.id /\ t.nonce = n
                      /\ Offered(pool', Front', Ample, Ins.id, n)
  BY ReadySends
<1>2. Line(pool', DOMAIN mined', Front', {<<t.id, t.nonce>>}, n)
  BY <1>1, IdleSends
<1>3. QED
  BY <1>1, <1>2

LEMMA RunsContractsSends ==
  ASSUME IInv, InOrder, General, ContractsSends, Runs
  PROVE  ContractsSends'
<1> DEFINE s == b3_contracts
           n == regs["nonce"]
<1>1. SUFFICES ASSUME InUnit("transactions", 3)' PROVE ContractsSends'
  BY DEF ContractsSends
<1>2. /\ InUnit("transactions", 3) /\ pc \in 1..9 /\ pc \in Nat /\ Ins = s[pc] /\ Running.body = s
      /\ \/ Passes /\ pc' = pc + 1
         \/ Skipped /\ Ins.op = "await" /\ pc' = pc + 1 + Ins.timeout
      /\ pc' \in 1..9
  BY <1>1, Along, ContractsHere, TransactionsBodies DEF InUnit
<1>3. /\ s[1] = Nonce("nonce")
      /\ s[2] = Send("store", "nonce", 0, "gwei") /\ s[3] = Await("store", 2)
      /\ s[6] = Send("revert", "nonce", 1, "gwei") /\ s[7] = Await("revert", 2)
  BY ContractsItems
<1>4. Writes(Running.body, "nonce", 1) /\ "nonce" \in Regs /\ regs \in [Regs -> Int] /\ n \in Int
  BY <1>2, ContractsWrites DEF Regs, IInv, TypeOK
<1>5. /\ pc \notin {2, 6} => Ins.op # "send"
      /\ pc \notin {3, 7} => Ins.op # "await"
  BY <1>2, ContractsItems DEF Nonce, Count, Send, Await, Check
<1> HIDE DEF s
<1>6. /\ UNCHANGED <<height, ledger, mined>> /\ trouble \subseteq trouble' /\ Front' = Front
      /\ pc \notin {2, 6} => UNCHANGED pool
  BY <1>5, RunsPool
<1>7. SUFFICES ASSUME ~Noted({"stray", "late", "lingered", "lag"})' PROVE ContractsSends'
  BY DEF ContractsSends
<1>8. /\ pc = 1 => pool = {}
      /\ pc = 2 => Idle(n)
      /\ pc = 3 => Queue({<<"store", n>>}, n) /\ Ready("store", n)
      /\ pc \in 4..6 => Idle(n + 1)
      /\ pc = 7 => Queue({<<"revert", n + 1>>}, n + 1) /\ Ready("revert", n + 1)
  BY <1>2, <1>6, <1>7 DEF ContractsSends, Noted
<1>9. /\ pc \notin {3, 7} => Passes /\ pc' = pc + 1
      /\ pc = 3 => pc' \in {4, 6} /\ (Passes \/ Skipped) /\ Ins.of = {"store"} /\ Ins.op = "await"
      /\ pc = 7 => pc' = 8
  BY <1>2, <1>3, <1>5 DEF Await
<1>10. pc # 1 => regs'["nonce"] = n
  BY <1>4, Otherwise
<1>11. "late" \notin trouble' /\ "lag" \notin trouble'
  BY <1>7 DEF Noted
<1> HIDE DEF n
<1>12. CASE pc = 1
  <2>1. Ins.op = "nonce" /\ Ins.into = "nonce" /\ Passes
    BY <1>2, <1>3, <1>9, <1>12 DEF Nonce
  <2>2. Value(regs'["nonce"])
    BY <1>4, <2>1, Reading DEF Readers
  <2>3. regs'["nonce"] = Front
    BY <1>11, <2>1, <2>2 DEF Value, Latest, Front
  <2>4. Idle(Front)
    BY <1>8, <1>12, NothingPooled
  <2>5. Line(pool', DOMAIN mined', Front', {}, regs'["nonce"])
    BY <1>6, <1>12, <2>3, <2>4 DEF Idle, Queue
  <2>6. QED
    BY <1>9, <1>12, <2>5 DEF ContractsSends, Idle, Queue
<1>13. CASE pc = 2
  <2>1. /\ Ins.op = "send" /\ Ins.price = "gwei" /\ Ins.id = "store" /\ NonceOf(Ins) = n /\ Passes
        /\ pc' = 3 /\ regs'["nonce"] = n
    BY <1>2, <1>3, <1>4, <1>9, <1>10, <1>13 DEF Send, NonceOf, n
  <2>2. Ins.id \notin DOMAIN mined /\ Idle(n) /\ n \in Int
    BY <1>4, <1>8, <1>13, <2>1, NotYet DEF General, n
  <2>3. Line(pool', DOMAIN mined', Front', {<<"store", n>>}, n) /\ Offered(pool', Front', Ample, "store", n)
    BY <1>6, <2>1, <2>2, NextSends
  <2>4. QED
    BY <2>1, <2>3 DEF ContractsSends, Queue, Ready
<1>14. CASE pc = 3
  <2>1. n \in Int /\ pc' \in {4, 6} /\ regs'["nonce"] = n
    BY <1>4, <1>9, <1>10, <1>14 DEF n
  <2>2. "store" \in DOMAIN mined
    BY <1>4, <1>8, <1>9, <1>11, <1>14, OneAwaited DEF Passes, Skipped, Found, n
  <2>3. Idle(n + 1)
    BY <1>8, <1>14, <2>1, <2>2, OneAwaited
  <2>4. Line(pool', DOMAIN mined', Front', {}, regs'["nonce"] + 1)
    BY <1>6, <1>14, <2>1, <2>3 DEF Idle, Queue
  <2>5. QED
    BY <2>1, <2>4 DEF ContractsSends, Idle, Queue
<1>15. CASE pc \in 4..5
  <2>1. Line(pool', DOMAIN mined', Front', {}, regs'["nonce"] + 1)
    BY <1>6, <1>8, <1>10, <1>15 DEF Idle, Queue
  <2>2. pc' \in 5..6
    BY <1>9, <1>15
  <2>3. QED
    BY <2>1, <2>2 DEF ContractsSends, Idle, Queue
<1>16. CASE pc = 6
  <2>1. /\ Ins.op = "send" /\ Ins.price = "gwei" /\ Ins.id = "revert" /\ NonceOf(Ins) = n + 1 /\ Passes
        /\ pc' = 7 /\ regs'["nonce"] = n
    BY <1>2, <1>3, <1>4, <1>9, <1>10, <1>16 DEF Send, NonceOf, n
  <2>2. Ins.id \notin DOMAIN mined /\ Idle(n + 1) /\ n + 1 \in Int
    BY <1>4, <1>8, <1>16, <2>1, NotYet DEF General, n
  <2>3. /\ Line(pool', DOMAIN mined', Front', {<<"revert", n + 1>>}, n + 1)
        /\ Offered(pool', Front', Ample, "revert", n + 1)
    BY <1>6, <2>1, <2>2, NextSends
  <2>4. QED
    BY <2>1, <2>3 DEF ContractsSends, Queue, Ready
<1>17. CASE pc > 6
  <2>1. pc' > 7
    BY <1>2, <1>9, <1>17
  <2>2. QED
    BY <1>2, <2>1 DEF ContractsSends
<1>18. QED
  BY <1>2, <1>12, <1>13, <1>14, <1>15, <1>16, <1>17

LEMMA RunsContractsLands ==
  ASSUME IInv, ContractsLands, Runs
  PROVE  ContractsLands'
<1> DEFINE s == b3_contracts
<1>1. SUFFICES ASSUME InUnit("transactions", 3)' PROVE ContractsLands'
  BY DEF ContractsLands
<1>2. /\ InUnit("transactions", 3) /\ pc \in 1..9 /\ pc \in Nat /\ Ins = s[pc]
      /\ \/ Passes /\ pc' = pc + 1
         \/ Skipped /\ Ins.op = "await" /\ pc' = pc + 1 + Ins.timeout
      /\ UNCHANGED <<mined, height>> /\ trouble \subseteq trouble' /\ pc' \in 1..9
  BY <1>1, Along, ContractsHere, RunsPool, TransactionsBodies DEF InUnit
<1>3. /\ s[3] = Await("store", 2) /\ s[7] = Await("revert", 2)
      /\ s[4] = Count({"store"}, "code") /\ s[8] = Count({"revert"}, "code")
  BY ContractsItems
<1>4. pc \notin {3, 7} => Ins.op # "await"
  BY <1>2, ContractsItems DEF Nonce, Count, Send, Await, Check
<1> HIDE DEF s
<1>5. /\ pc \in 4..5 => "store" \in DOMAIN mined
      /\ pc \in 8..9 => "revert" \in DOMAIN mined
  BY <1>2 DEF ContractsLands
<1>6. /\ pc \notin {3, 7} => Passes /\ pc' = pc + 1
      /\ pc = 3 => pc' \in {4, 6} /\ (pc' = 4 => Passes) /\ Ins.of = {"store"} /\ Ins.op = "await"
      /\ pc = 7 => pc' = 8 /\ Passes /\ Ins.of = {"revert"} /\ Ins.op = "await"
  BY <1>2, <1>3, <1>4 DEF Await
<1>7. CASE pc \in {1, 2, 5, 6}
  BY <1>2, <1>6, <1>7 DEF ContractsLands
<1>8. CASE pc \in {3, 7}
  BY <1>2, <1>6, <1>8 DEF ContractsLands, Passes, Found
<1>9. ASSUME NEW id \in {"store", "revert"}, id \in DOMAIN mined, Ins = Count({id}, "code"), Passes
      PROVE  regs'["code"] = 1 \/ "lag" \in trouble'
  <2>1. Ins.op = "count" /\ Ins.into = "code" /\ Ins.of = {id} /\ "code" \in Regs
    BY <1>9 DEF Count, Regs
  <2>2. Value(regs'["code"])
    BY <1>9, <2>1, Reading DEF Readers
  <2>3. mined[id].block <= height /\ {id} \cap DOMAIN mined = {id}
    BY <1>9 DEF IInv, Shape
  <2>4. id \notin {"deposit", "withdraw"}
    BY <1>9
  <2>5. Effects({id}, height) = 1
    BY <2>3, <2>4, CountOne
  <2>6. QED
    BY <2>1, <2>2, <2>5 DEF Value, Latest
<1>10. CASE pc \in {4, 8}
  <2>1. regs'["code"] = 1 \/ "lag" \in trouble'
    BY <1>2, <1>3, <1>5, <1>6, <1>9, <1>10
  <2>2. QED
    BY <1>2, <1>5, <1>6, <1>10, <2>1 DEF ContractsLands
<1>11. CASE pc = 9
  BY <1>2, <1>6, <1>11
<1>12. QED
  BY <1>2, <1>7, <1>8, <1>10, <1>11

\* b4_persist.py sends nothing.
LEMMA RunsPersistLeaves == ASSUME IInv, PersistLeaves, Runs PROVE PersistLeaves'
<1>1. /\ UNCHANGED <<plan, unit>> /\ trouble \subseteq trouble' /\ ~Finished /\ pc # End
      /\ pool' = pool \/ Ins.op = "send"
  BY RunsPool, RunsTells DEF Steps, Goes
<1>2. plan = "transactions" /\ unit = 2 => Ins.op # "send"
  <2>1. SUFFICES ASSUME plan = "transactions", unit = 2 PROVE Ins.op # "send"
    OBVIOUS
  <2>2. /\ pc \in {1, 2, 3, 4, 5, 6, 7, 8}
        /\ pc = 1 => Ins.op = "head"
        /\ pc \in {2, 3, 4} => Ins.op \in RestartOps
        /\ pc = 5 => Ins.op = "retry"
        /\ pc = 6 => Ins.op = "check"
        /\ pc = 7 => Ins.op = "later"
        /\ pc = 8 => Ins.op = "check"
    BY <1>1, <2>1, PersistHere
  <2>3. QED
    BY <2>2 DEF RestartOps
<1>3. QED
  BY <1>1, <1>2 DEF PersistLeaves, Noted

LEMMA RunsContracts ==
  ASSUME IInv, InOrder, General, ContractsFacts, Runs
  PROVE  ContractsFacts'
BY RunsContractsSends, RunsContractsLands, RunsPersistLeaves DEF ContractsFacts

LEMMA NodeContractsSends ==
  ASSUME IInv, IInv', General, Procs, ContractsSends, Node
  PROVE  ContractsSends'
<1> DEFINE n == regs["nonce"]
<1>1. /\ UNCHANGED <<plan, unit, pc, regs>> /\ trouble \subseteq trouble' /\ pool' \subseteq pool
  BY NodeHere, NodeKeepsIds, NodeSteps DEF Takes, Stays, Comes
<1>2. SUFFICES ASSUME InUnit("transactions", 3), ~Noted({"stray", "late", "lingered", "lag"})'
               PROVE  ContractsSends'
  BY <1>1 DEF ContractsSends, InUnit
<1>3. plan = "transactions" /\ pc \in 1..9
  BY <1>2, ContractsHere
<1>4. /\ pc = 1 => pool = {}
      /\ pc = 2 => Idle(n)
      /\ pc = 3 => Queue({<<"store", n>>}, n) /\ Ready("store", n)
      /\ pc \in 4..6 => Idle(n + 1)
      /\ pc = 7 => Queue({<<"revert", n + 1>>}, n + 1) /\ Ready("revert", n + 1)
  BY <1>1, <1>2 DEF ContractsSends, Noted
<1>5. n \in Int /\ n + 1 \in Int
  BY DEF IInv, TypeOK, Regs
<1>6. OnePerNonce
  BY DEF General
<1>7. pc > 1 => Alone
  <2>1. "lingered" \notin trouble
    BY <1>1, <1>2 DEF Noted
  <2>2. pc > 1 => holder # 0 /\ \A p, q \in live : p = q
    BY <1>2, <1>3, <2>1 DEF Procs
  <2>3. holder \in live \cup {0}
    BY DEF IInv, TypeOK
  <2>4. QED
    BY <2>2, <2>3 DEF Alone
<1> HIDE DEF n
<1>8. ASSUME pc > 1, NEW O, NEW lo \in Int, Queue(O, lo), Named(O)
      PROVE  /\ Line(pool', DOMAIN mined', Front', O, lo)
             /\ \A id, k : k \in Int /\ Ready(id, k) => Offered(pool', Front', Ample, id, k)
  BY <1>6, <1>7, <1>8, AloneQueue
<1>9. pc = 1 => pool' = {}
  BY <1>1, <1>4
<1>10. ASSUME NEW k \in Int, pc > 1, Idle(k) PROVE Line(pool', DOMAIN mined', Front', {}, k)
  BY <1>8, <1>10, NamedNone DEF Idle
<1>11. ASSUME NEW id, NEW k \in Int, pc > 1, Queue({<<id, k>>}, k), Ready(id, k)
       PROVE  Line(pool', DOMAIN mined', Front', {<<id, k>>}, k) /\ Offered(pool', Front', Ample, id, k)
  <2>1. Named({<<id, k>>})
    BY NamedOne
  <2>2. QED
    BY <1>8, <1>11, <2>1
<1>12. /\ pc = 2 => Line(pool', DOMAIN mined', Front', {}, n)
       /\ pc \in 4..6 => Line(pool', DOMAIN mined', Front', {}, n + 1)
  BY <1>4, <1>5, <1>10
<1>13. /\ pc = 3 => Line(pool', DOMAIN mined', Front', {<<"store", n>>}, n) /\ Offered(pool', Front', Ample, "store", n)
       /\ pc = 7 => /\ Line(pool', DOMAIN mined', Front', {<<"revert", n + 1>>}, n + 1)
                    /\ Offered(pool', Front', Ample, "revert", n + 1)
  BY <1>4, <1>5, <1>11
<1>14. QED
  BY <1>1, <1>9, <1>12, <1>13 DEF ContractsSends, Idle, Queue, Ready, n

\* What was waited for stays in the chain: no chain is cut here.
LEMMA NodeContractsLands == ASSUME IInv, ContractsLands, Node PROVE ContractsLands'
<1>1. UNCHANGED <<plan, unit, pc, regs>> /\ trouble \subseteq trouble' /\ Running = PlanOf[plan][unit]
  BY NodeHere, NodeSteps DEF Takes, Stays, Comes
<1>2. SUFFICES ASSUME InUnit("transactions", 3) PROVE ContractsLands'
  BY <1>1 DEF ContractsLands, InUnit
<1>3. Running.name # "b4_persist"
  <2>1. plan = "transactions" /\ unit = 3
    BY <1>2 DEF InUnit
  <2>2. PlanOf["transactions"] = transactions /\ transactions[3].name = "b3_contracts"
    BY PlanNames, TransactionsUnits
  <2>3. QED
    BY <1>1, <2>1, <2>2
<1>4. DOMAIN mined \subseteq DOMAIN mined'
  BY <1>3, NodeSteps DEF Takes, Stays, Comes
<1>5. QED
  BY <1>1, <1>2, <1>4 DEF ContractsLands

LEMMA NodeContracts ==
  ASSUME IInv, IInv', General, Procs, ContractsFacts, Node
  PROVE  ContractsFacts'
<1>1. PersistLeaves'
  BY NodeHere, NodeKeepsIds, NodeSteps DEF Takes, Stays, Comes, ContractsFacts, PersistLeaves, Noted
<1>2. QED
  BY <1>1, NodeContractsSends, NodeContractsLands DEF ContractsFacts

LEMMA NextContracts ==
  ASSUME IInv, DriverFacts, ContractsFacts, NextUnit
  PROVE  ContractsFacts' /\ PersistFacts'
<1>1. /\ UNCHANGED <<plan, pool>> /\ unit' = unit + 1 /\ pc' = 1 /\ pc = End /\ unit \in Nat
      /\ trouble' = trouble \cap Lasting
  BY NextHere, PlanHere DEF NextUnit, nodeVars, chainVars
<1>2. Noted({"stray", "late", "lingered"}) => Noted({"stray", "late", "lingered"})'
  BY <1>1 DEF Noted, Lasting
<1>3. PersistLeaves'
  <2>1. SUFFICES ASSUME plan = "transactions", unit = 1, ~Noted({"stray", "late", "lingered"}) PROVE pool = {}
    BY <1>1, <1>2 DEF PersistLeaves
  <2>2. QED
    BY <1>1, <2>1 DEF DriverFacts, DriverLeaves
<1>4. ContractsSends'
  <2>1. plan = "transactions" /\ unit = 2 /\ ~Noted({"stray", "late", "lingered"}) => pool = {}
    BY DEF ContractsFacts, PersistLeaves
  <2>2. InUnit("transactions", 3)' => plan = "transactions" /\ unit = 2
    BY <1>1 DEF InUnit
  <2>3. Noted({"stray", "late", "lingered"})' => Noted({"stray", "late", "lingered", "lag"})'
    BY DEF Noted
  <2>4. QED
    BY <1>1, <1>2, <2>1, <2>2, <2>3 DEF ContractsSends
<1>5. ContractsLands' /\ PersistFacts'
  BY <1>1 DEF ContractsLands, PersistFacts
<1>6. QED
  BY <1>3, <1>4, <1>5 DEF ContractsFacts

LEMMA InitContracts == ASSUME Init PROVE ContractsFacts /\ PersistFacts
BY DEF Init, ContractsFacts, PersistLeaves, ContractsSends, ContractsLands, PersistFacts, InUnit
-----------------------------------------------------------------------------
(* nonce_fee_boundaries.sh.                                                 *)

LEMMA BoundariesHere ==
  ASSUME IInv, InUnit("boundaries", 1)
  PROVE  /\ plan = "boundaries" /\ unit = 1 /\ ~Finished /\ pc # End /\ End = 60 /\ Running.exits
         /\ pc \in 1..59 /\ pc \in Nat /\ Ins = nonce_fee_boundaries[pc] /\ Running.body = nonce_fee_boundaries
<1>1. plan = "boundaries" /\ unit = 1 /\ pc \in 1..59
  BY SingleUnits, BoundariesItems DEF InUnit
<1>2. ~Finished
  BY <1>1, SingleUnits DEF Finished
<1>3. Running.body = nonce_fee_boundaries /\ Len(Running.body) = 59 /\ Running.exits
  BY <1>1, SingleUnits, BoundariesItems DEF Running
<1>4. End = 60
  BY <1>3 DEF End
<1>5. QED
  BY <1>1, <1>2, <1>3, <1>4 DEF Ins

\* A step of the node under it.
LEMMA BoundariesNode ==
  ASSUME IInv, IInv', InOrder, General, Node, InUnit("boundaries", 1)
  PROVE  /\ UNCHANGED <<plan, unit, pc, regs, failed>> /\ trouble \subseteq trouble'
         /\ Alone /\ OnePerNonce /\ plan = "boundaries" /\ unit = 1 /\ pc \in 1..59 /\ regs \in [Regs -> Int]
         /\ fee' = fee \/ "fee" \in trouble'
         /\ Front \in Nat /\ Front' \in Nat /\ Front <= Front'
         /\ pool' \subseteq pool /\ DOMAIN mined \subseteq DOMAIN mined'
         /\ \/ UNCHANGED <<height, fee, pool, mined, trouble>>
            \/ \E taken, n : Takes(taken, n)
<1>1. /\ UNCHANGED <<plan, unit, pc, regs, failed>> /\ pool' \subseteq pool
      /\ plan = "boundaries" /\ unit = 1 /\ pc \in 1..59 /\ regs \in [Regs -> Int]
  BY NodeHere, NodeKeepsIds, BoundariesHere DEF IInv, TypeOK
<1>2. Alone /\ OnePerNonce
  BY <1>1 DEF General, Solitary
<1>3. \/ UNCHANGED <<height, fee, pool, mined, trouble, bridge>>
      \/ \E taken, n : Takes(taken, n)
  BY <1>2, AloneNode
<1>4. CASE UNCHANGED <<height, fee, pool, mined, trouble, bridge>>
  <2>1. Front' = Front /\ Front \in Nat
    BY <1>4, FrontLemma DEF Front, NonceAt, MinedBy
  <2>2. QED
    BY <1>1, <1>2, <1>4, <2>1
<1>5. CASE \E taken, n : Takes(taken, n)
  <2>1. PICK taken, n : Takes(taken, n)
    BY <1>5
  <2>2. Front' = n /\ Front <= n /\ Front \in Nat /\ Front' \in Nat
    BY <1>1, <2>1, OrderedTakes, FrontNext
  <2>3. trouble \subseteq trouble' /\ (fee' = fee \/ "fee" \in trouble') /\ DOMAIN mined \subseteq DOMAIN mined'
    BY <2>1 DEF Takes
  <2>4. QED
    BY <1>1, <1>2, <1>5, <2>2, <2>3
<1>6. QED
  BY <1>3, <1>4, <1>5

\* What it leaves of a queue, and of what is offered.
LEMMA BoundariesQueue ==
  ASSUME IInv, IInv', InOrder, General, Node, InUnit("boundaries", 1),
         NEW O, NEW lo \in Int, Queue(O, lo), Named(O)
  PROVE  Line(pool', DOMAIN mined', Front', O, lo)
BY BoundariesNode, AloneQueue

LEMMA BoundariesIdle ==
  ASSUME IInv, IInv', InOrder, General, Node, InUnit("boundaries", 1), NEW lo \in Int, Idle(lo)
  PROVE  Line(pool', DOMAIN mined', Front', {}, lo)
BY BoundariesQueue, NamedNone DEF Idle

LEMMA BoundariesSure ==
  ASSUME IInv, IInv', InOrder, General, Node, InUnit("boundaries", 1), NEW id, NEW k \in Int, Sure(id, k)
  PROVE  "fee" \in trouble' \/ Offered(pool', Front', fee', id, k)
<1>1. /\ trouble \subseteq trouble' /\ plan = "boundaries"
      /\ fee' = fee \/ "fee" \in trouble'
      /\ \/ UNCHANGED <<height, fee, pool, mined, trouble>>
         \/ \E taken, n : Takes(taken, n)
  BY BoundariesNode
<1>2. SUFFICES ASSUME "fee" \notin trouble' PROVE Offered(pool', Front', fee', id, k)
  OBVIOUS
<1>3. fee' = fee /\ Offered(pool, Front, fee, id, k) /\ fee \in Int /\ fee >= fee'
  BY <1>1, <1>2, L2NodeAssumption DEF Sure, IInv, TypeOK
<1>4. CASE UNCHANGED <<height, fee, pool, mined, trouble>>
  <2>1. Front' = Front
    BY <1>4 DEF Front, NonceAt, MinedBy
  <2>2. QED
    BY <1>3, <1>4, <2>1
<1>5. CASE \E taken, n : Takes(taken, n)
  <2>1. PICK taken, n : Takes(taken, n)
    BY <1>5
  <2>2. Front' = n
    BY <1>1, <2>1, OrderedTakes
  <2>3. QED
    BY <1>3, <2>1, <2>2, OfferedTakes
<1>6. QED
  BY <1>1, <1>4, <1>5

\* A queue enters the chain in the order of its nonces.
LEMMA BoundariesBefore ==
  ASSUME IInv, IInv', InOrder, General, Node, InUnit("boundaries", 1),
         NEW O, NEW lo \in Int, Queue(O, lo), Named(O),
         NEW a, NEW m \in Int, NEW b, NEW k \in Int, m < k, <<a, m>> \in O, <<b, k>> \in O,
         {a, b} \subseteq DOMAIN mined => Before(a, b), {a, b} \subseteq DOMAIN mined'
  PROVE  Before(a, b)'
<1>1. /\ \/ UNCHANGED <<height, fee, pool, mined, trouble>>
         \/ \E taken, n : Takes(taken, n)
      /\ plan = "boundaries"
  BY BoundariesNode
<1>2. CASE UNCHANGED <<height, fee, pool, mined, trouble>>
  BY <1>2 DEF Before
<1>3. CASE \E taken, n : Takes(taken, n)
  <2>1. PICK taken, n : Takes(taken, n)
    BY <1>3
  <2>2. /\ \A s, t \in taken : s.id = t.id => s = t
        /\ \A t \in taken : t.id \notin DOMAIN mined /\ t.nonce \in Int
        /\ Front \in Nat
    BY <1>1, <2>1, OrderedTakes
  <2>3. /\ \A t \in taken : /\ mined'[t.id].block = height + 1
                            /\ mined'[t.id].index = t.nonce - Front + 1
                            /\ Front <= t.nonce
        /\ \A i \in DOMAIN mined : mined'[i] = mined[i]
        /\ \A i \in DOMAIN mined' : i \in DOMAIN mined \/ \E t \in taken : t.id = i
    <3>1. /\ DOMAIN mined' = DOMAIN mined \cup {t.id : t \in taken}
          /\ \A i \in DOMAIN mined \ {t.id : t \in taken} : mined'[i] = mined[i]
          /\ \A t \in taken : (\A s \in taken : s.id = t.id => s = t) =>
               mined'[t.id] = [block |-> height + 1, index |-> t.nonce - Front + 1,
                               price |-> EffectivePrice(t, fee')]
          /\ \A t \in taken : Front <= t.nonce
      BY <2>1 DEF Takes
    <3>2. \A t \in taken : mined'[t.id] = [block |-> height + 1, index |-> t.nonce - Front + 1,
                                           price |-> EffectivePrice(t, fee')]
      BY <2>2, <3>1
    <3>3. ASSUME NEW t \in taken
          PROVE  mined'[t.id].block = height + 1 /\ mined'[t.id].index = t.nonce - Front + 1
      <4>1. mined'[t.id] = [block |-> height + 1, index |-> t.nonce - Front + 1, price |-> EffectivePrice(t, fee')]
        BY <3>2
      <4>2. QED
        BY <4>1
    <3>4. \A i \in DOMAIN mined : mined'[i] = mined[i]
      BY <2>2, <3>1
    <3>5. \A i \in DOMAIN mined' : i \in DOMAIN mined \/ \E t \in taken : t.id = i
      BY <3>1
    <3>6. QED
      BY <3>1, <3>3, <3>4, <3>5
  <2>4. \A t \in taken : <<t.id, t.nonce>> \in O
    BY <2>1, TakenOfQueue
  <2>5. \A o \in O : o[1] \in DOMAIN mined => o[2] < Front
    BY DEF Queue, Line
  <2>6. \A t \in taken : (t.id = a => t.nonce = m) /\ (t.id = b => t.nonce = k)
    <3>1. \A o \in O : (o[1] = a => o = <<a, m>>) /\ (o[1] = b => o = <<b, k>>)
      BY DEF Named
    <3>2. QED
      BY <2>4, <3>1
  <2>7. \A i \in DOMAIN mined : mined[i].block <= height /\ mined[i].block \in Nat /\ height \in Nat
    BY DEF IInv, TypeOK, Shape, Place
  <2>8. /\ a \in DOMAIN mined => m < Front
        /\ b \in DOMAIN mined => k < Front
    BY <2>5
  <2>9. CASE a \in DOMAIN mined
    <3>1. CASE b \in DOMAIN mined
      BY <2>3, <2>9, <3>1 DEF Before
    <3>2. CASE b \notin DOMAIN mined
      <4>1. mined'[b].block = height + 1 /\ mined'[a].block <= height /\ mined'[a].block \in Nat
        BY <2>3, <2>7, <2>9, <3>2
      <4>2. QED
        BY <2>7, <2>9, <4>1 DEF Before
    <3>3. QED
      BY <3>1, <3>2
  <2>10. CASE a \notin DOMAIN mined
    <3>1. Front <= m /\ mined'[a].block = height + 1 /\ mined'[a].index = m - Front + 1
      BY <2>3, <2>6, <2>10
    <3>2. b \notin DOMAIN mined
      BY <2>2, <2>8, <3>1
    <3>3. mined'[b].block = height + 1 /\ mined'[b].index = k - Front + 1
      BY <2>3, <2>6, <3>2
    <3>4. mined'[a].index < mined'[b].index
      BY <2>2, <3>1, <3>3
    <3>5. QED
      BY <3>1, <3>3, <3>4 DEF Before
  <2>11. QED
    BY <2>9, <2>10
<1>4. QED
  BY <1>1, <1>2, <1>3

LEMMA NodeFirst ==
  ASSUME IInv, IInv', InOrder, General, Node, InUnit("boundaries", 1), FirstSections
  PROVE  FirstSections'
<1> DEFINE a == regs["n0"]
           n == regs["n1"]
           s == <<"stray", 0>>
           c == <<"c0", a>>
           f == <<"first", n>>
           g == <<"second", n + 1>>
           h == <<"gap", n + 2>>
<1>1. /\ UNCHANGED <<pc, regs>> /\ trouble \subseteq trouble' /\ regs \in [Regs -> Int] /\ pc \in 1..59
      /\ Front \in Nat /\ Front' \in Nat /\ Front <= Front' /\ DOMAIN mined \subseteq DOMAIN mined'
  BY BoundariesNode
<1>2. a \in Int /\ n \in Int /\ n + 1 \in Int /\ n + 2 \in Int /\ n + 3 \in Int /\ 0 \in Int
      /\ a + 1 \in Int /\ n < n + 1 /\ n + 1 < n + 2
  BY <1>1 DEF Regs
<1>3. /\ pc <= 3 => Queue({s}, 0)
      /\ pc \in {3, 4} => 0 <= a /\ a <= Front /\ (a = 0 \/ a = 1)
      /\ pc = 4 => Queue({s, c}, 0) /\ Sure("c0", a)
      /\ pc = 5 => Idle(a + 1)
      /\ pc = 6 => Idle(n)
      /\ pc \in {7, 8} => Queue({h}, n)
      /\ pc \in 7..12 => Sure("gap", n + 2)
      /\ pc = 9 => Queue({f, h}, n)
      /\ pc \in 9..12 => Sure("first", n)
      /\ pc \in 10..12 => Queue({f, g, h}, n) /\ Sure("second", n + 1)
      /\ pc \in 10..13 => /\ {"first", "second"} \subseteq DOMAIN mined => Before("first", "second")
                          /\ {"second", "gap"} \subseteq DOMAIN mined => Before("second", "gap")
      /\ pc > 10 /\ pc < 14 => "first" \in DOMAIN mined
      /\ pc > 11 /\ pc < 14 => "second" \in DOMAIN mined
      /\ pc = 13 => "gap" \in DOMAIN mined
      /\ pc \in 13..14 => Idle(n + 3)
  BY DEF FirstSections
<1>4. /\ Named({s}) /\ Named({s, c}) /\ Named({h}) /\ Named({f, h}) /\ Named({f, g, h})
      /\ f \in {f, g, h} /\ g \in {f, g, h} /\ h \in {f, g, h}
  <2>1. Named({f, g, h})
    BY <1>2 DEF Named
  <2>2. QED
    BY <1>2, <2>1, NamedOne, NamedTwo
<1>5. pc # 13
  <2>1. SUFFICES ASSUME pc = 13 PROVE FALSE
    OBVIOUS
  <2>2. Ins.op = "order"
    BY <2>1, BoundariesHere, BoundariesItems
  <2>3. QED
    BY <2>2, NodeHere DEF Calls
<1> HIDE DEF a, n, s, c, f, g, h
<1>6. /\ pc <= 3 => Line(pool', DOMAIN mined', Front', {s}, 0)
      /\ pc = 4 => Line(pool', DOMAIN mined', Front', {s, c}, 0)
  BY <1>2, <1>3, <1>4, BoundariesQueue
<1>7. /\ pc \in {7, 8} => Line(pool', DOMAIN mined', Front', {h}, n)
      /\ pc = 9 => Line(pool', DOMAIN mined', Front', {f, h}, n)
      /\ pc \in 10..12 => Line(pool', DOMAIN mined', Front', {f, g, h}, n)
  BY <1>2, <1>3, <1>4, BoundariesQueue
<1>8. /\ pc = 5 => Line(pool', DOMAIN mined', Front', {}, a + 1)
      /\ pc = 6 => Line(pool', DOMAIN mined', Front', {}, n)
      /\ pc \in 13..14 => Line(pool', DOMAIN mined', Front', {}, n + 3)
  BY <1>2, <1>3, BoundariesIdle
<1>9. /\ pc = 4 => "fee" \in trouble' \/ Offered(pool', Front', fee', "c0", a)
      /\ pc \in 7..12 => "fee" \in trouble' \/ Offered(pool', Front', fee', "gap", n + 2)
      /\ pc \in 9..12 => "fee" \in trouble' \/ Offered(pool', Front', fee', "first", n)
      /\ pc \in 10..12 => "fee" \in trouble' \/ Offered(pool', Front', fee', "second", n + 1)
  BY <1>2, <1>3, BoundariesSure
<1>10. pc \in 10..12 => ({"first", "second"} \subseteq DOMAIN mined' => Before("first", "second")')
  <2>1. <<"first", n>> \in {f, g, h} /\ <<"second", n + 1>> \in {f, g, h}
    BY <1>4 DEF f, g
  <2>2. QED
    BY <1>2, <1>3, <1>4, <2>1, BoundariesBefore
<1>11. pc \in 10..12 => ({"second", "gap"} \subseteq DOMAIN mined' => Before("second", "gap")')
  <2>1. <<"second", n + 1>> \in {f, g, h} /\ <<"gap", n + 2>> \in {f, g, h}
    BY <1>4 DEF g, h
  <2>2. QED
    BY <1>2, <1>3, <1>4, <2>1, BoundariesBefore
<1>12. /\ pc \in {3, 4} => 0 <= a /\ a <= Front' /\ (a = 0 \/ a = 1)
       /\ pc > 10 /\ pc < 14 => "first" \in DOMAIN mined'
       /\ pc > 11 /\ pc < 14 => "second" \in DOMAIN mined'
  BY <1>1, <1>2, <1>3
<1>13. QED
  BY <1>1, <1>5, <1>6, <1>7, <1>8, <1>9, <1>10, <1>11, <1>12
     DEF FirstSections, Queue, Idle, Sure, a, n, s, c, f, g, h

LEMMA NodeTwin ==
  ASSUME IInv, IInv', InOrder, General, Node, InUnit("boundaries", 1), TwinSections
  PROVE  TwinSections'
<1> DEFINE k == regs["n2"]
           m == regs["n3"]
           lo == regs["n1"] + 3
           t == <<"twin1", k>>
           u == <<"twin2", k>>
<1>1. /\ UNCHANGED <<pc, regs>> /\ trouble \subseteq trouble' /\ regs \in [Regs -> Int] /\ pc \in 1..59
  BY BoundariesNode
<1>2. k \in Int /\ m \in Int /\ lo \in Int /\ k + 1 \in Int
  BY <1>1 DEF Regs
<1>3. /\ pc \in 15..17 => k = lo \/ (k < lo /\ "lag" \in trouble)
      /\ pc = 15 => Idle(lo)
      /\ pc = 16 => Queue({t}, lo)
      /\ pc = 17 => Queue({t, u}, lo) /\ Sure("twin2", k)
      /\ pc \in 18..19 => Idle(k + 1)
      /\ pc \in 20..22 => Idle(m)
      /\ pc = 23 => Queue({<<"c3", m>>}, m) /\ Sure("c3", m)
  BY DEF TwinSections
<1>4. Named({t}) /\ Named({t, u}) /\ Named({<<"c3", m>>})
  BY <1>2, NamedOne, NamedTwo
<1>5. pc # 18
  <2>1. SUFFICES ASSUME pc = 18 PROVE FALSE
    OBVIOUS
  <2>2. Ins.op = "one"
    BY <2>1, BoundariesHere, BoundariesItems
  <2>3. QED
    BY <2>2, NodeHere DEF Calls
<1> HIDE DEF k, m, lo, t, u
<1>6. /\ pc = 16 => Line(pool', DOMAIN mined', Front', {t}, lo)
      /\ pc = 17 => Line(pool', DOMAIN mined', Front', {t, u}, lo)
      /\ pc = 23 => Line(pool', DOMAIN mined', Front', {<<"c3", m>>}, m)
  BY <1>2, <1>3, <1>4, BoundariesQueue
<1>7. /\ pc = 15 => Line(pool', DOMAIN mined', Front', {}, lo)
      /\ pc \in 18..19 => Line(pool', DOMAIN mined', Front', {}, k + 1)
      /\ pc \in 20..22 => Line(pool', DOMAIN mined', Front', {}, m)
  BY <1>2, <1>3, BoundariesIdle
<1>8. /\ pc = 17 => "fee" \in trouble' \/ Offered(pool', Front', fee', "twin2", k)
      /\ pc = 23 => "fee" \in trouble' \/ Offered(pool', Front', fee', "c3", m)
  BY <1>2, <1>3, BoundariesSure
<1>9. QED
  BY <1>1, <1>3, <1>5, <1>6, <1>7, <1>8 DEF TwinSections, Queue, Idle, Sure, k, m, lo, t, u

LEMMA NodeEvicted ==
  ASSUME IInv, IInv', InOrder, General, Node, InUnit("boundaries", 1),
         NEW o \in Nat, NEW past \in Regs, NEW n \in Regs, NEW id, NEW control, id # control,
         EvictedAt(o, past, n, id, control)
  PROVE  EvictedAt(o, past, n, id, control)'
<1> DEFINE m == regs[n]
           p == regs[past]
           q == <<id, m>>
           c == <<control, m>>
<1>1. /\ UNCHANGED <<pc, regs>> /\ trouble \subseteq trouble' /\ regs \in [Regs -> Int] /\ pc \in 1..59
      /\ fee' = fee \/ "fee" \in trouble'
      /\ pool' \subseteq pool
      /\ \/ UNCHANGED <<height, fee, pool, mined, trouble>>
         \/ \E taken, k : Takes(taken, k)
  BY BoundariesNode
<1>2. m \in Int /\ p \in Int /\ p + 1 \in Int
  BY <1>1
<1>3. /\ pc \in {o + 1, o + 2} => Idle(p + 1)
      /\ pc \in {o + 2, o + 3} => Quoted
      /\ pc = o + 3 => Idle(m)
      /\ pc \in {o + 4, o + 5} => Queue({q}, m)
      /\ pc \in o + 4..o + 6 => /\ \A t \in pool : t.id = id => t.cap < fee \/ "fee" \in trouble
                                /\ id \in DOMAIN mined => "fee" \in trouble
      /\ pc = o + 6 => Queue({q, c}, m) /\ Sure(control, m)
  BY DEF EvictedAt
<1>4. Named({q}) /\ Named({q, c})
  BY <1>2, NamedOne, NamedTwo
<1> HIDE DEF m, p, q, c
<1>5. /\ pc \in {o + 4, o + 5} => Line(pool', DOMAIN mined', Front', {q}, m)
      /\ pc = o + 6 => Line(pool', DOMAIN mined', Front', {q, c}, m)
  BY <1>2, <1>3, <1>4, BoundariesQueue
<1>6. /\ pc \in {o + 1, o + 2} => Line(pool', DOMAIN mined', Front', {}, p + 1)
      /\ pc = o + 3 => Line(pool', DOMAIN mined', Front', {}, m)
  BY <1>2, <1>3, BoundariesIdle
<1>7. pc = o + 6 => "fee" \in trouble' \/ Offered(pool', Front', fee', control, m)
  BY <1>2, <1>3, BoundariesSure
<1>8. pc \in {o + 2, o + 3} => regs["bf"] = fee' \/ "fee" \in trouble'
  BY <1>1, <1>3 DEF Quoted
<1>9. pc \in o + 4..o + 6 => \A t \in pool' : t.id = id => t.cap < fee' \/ "fee" \in trouble'
  BY <1>1, <1>3
<1>10. pc \in o + 4..o + 6 => id \notin DOMAIN mined' \/ "fee" \in trouble'
  <2>1. CASE UNCHANGED <<height, fee, pool, mined, trouble>>
    BY <1>3, <2>1
  <2>2. CASE \E taken, k : Takes(taken, k)
    <3>1. PICK taken, k : Takes(taken, k)
      BY <2>2
    <3>2. /\ \A t \in taken : t.cap >= fee' /\ t \in pool
          /\ DOMAIN mined' = DOMAIN mined \cup {t.id : t \in taken}
      BY <3>1 DEF Takes
    <3>3. \A t \in pool : t.cap \in Int /\ fee \in Int
      BY L2NodeAssumption DEF IInv, TypeOK, Tx
    <3>4. SUFFICES ASSUME pc \in o + 4..o + 6, "fee" \notin trouble' PROVE id \notin DOMAIN mined'
      OBVIOUS
    <3>5. id \notin DOMAIN mined /\ fee' = fee
      BY <1>1, <1>3, <3>4
    <3>6. \A t \in taken : t.id # id
      BY <1>1, <1>3, <3>2, <3>3, <3>4, <3>5
    <3>7. QED
      BY <3>2, <3>5, <3>6
  <2>3. QED
    BY <1>1, <2>1, <2>2
<1>11. QED
  BY <1>1, <1>5, <1>6, <1>7, <1>8, <1>9, <1>10 DEF EvictedAt, Queue, Idle, Sure, Quoted, m, p, q, c

LEMMA NodeCharged ==
  ASSUME IInv, IInv', InOrder, General, Node, InUnit("boundaries", 1),
         NEW o \in Nat, NEW past \in Regs, NEW n \in Regs, NEW id, ChargedAt(o, past, n, id),
         pc # o + 6
  PROVE  ChargedAt(o, past, n, id)'
<1> DEFINE m == regs[n]
           p == regs[past]
           q == <<id, m>>
           due == Expected(id, regs["bf"])
<1>1. /\ UNCHANGED <<pc, regs>> /\ trouble \subseteq trouble' /\ regs \in [Regs -> Int] /\ pc \in 1..59
      /\ fee' = fee \/ "fee" \in trouble'
      /\ pool' \subseteq pool /\ DOMAIN mined \subseteq DOMAIN mined' /\ plan = "boundaries"
      /\ \/ UNCHANGED <<height, fee, pool, mined, trouble>>
         \/ \E taken, k : Takes(taken, k)
  BY BoundariesNode
<1>2. m \in Int /\ p \in Int /\ p + 1 \in Int /\ m + 1 \in Int
  BY <1>1
<1>3. /\ pc \in {o + 1, o + 2} => Idle(p + 1)
      /\ pc \in {o + 2, o + 3} => Quoted
      /\ pc = o + 3 => Idle(m)
      /\ pc = o + 4 => /\ Queue({q}, m) /\ Sure(id, m)
                       /\ \A t \in pool : t.id = id => EffectivePrice(t, fee) = due \/ "fee" \in trouble
      /\ pc \in {o + 4, o + 5} /\ id \in DOMAIN mined => mined[id].price = due \/ "fee" \in trouble
      /\ pc \in {o + 5, o + 6} => id \in DOMAIN mined /\ Idle(m + 1)
  BY DEF ChargedAt
<1>4. Named({q})
  BY <1>2, NamedOne
<1>5. Expected(id, regs["bf"])' = due
  BY <1>1 DEF Expected
<1> HIDE DEF m, p, q, due
<1>6. pc = o + 4 => Line(pool', DOMAIN mined', Front', {q}, m)
  BY <1>2, <1>3, <1>4, BoundariesQueue
<1>7. /\ pc \in {o + 1, o + 2} => Line(pool', DOMAIN mined', Front', {}, p + 1)
      /\ pc = o + 3 => Line(pool', DOMAIN mined', Front', {}, m)
      /\ pc = o + 5 => Line(pool', DOMAIN mined', Front', {}, m + 1)
  BY <1>2, <1>3, BoundariesIdle
<1>8. pc = o + 4 => "fee" \in trouble' \/ Offered(pool', Front', fee', id, m)
  BY <1>2, <1>3, BoundariesSure
<1>9. pc \in {o + 2, o + 3} => regs["bf"] = fee' \/ "fee" \in trouble'
  BY <1>1, <1>3 DEF Quoted
<1>10. pc = o + 4 => \A t \in pool' : t.id = id => EffectivePrice(t, fee') = due \/ "fee" \in trouble'
  BY <1>1, <1>3
<1>11. pc \in {o + 4, o + 5} /\ id \in DOMAIN mined' => mined'[id].price = due \/ "fee" \in trouble'
  <2>1. CASE UNCHANGED <<height, fee, pool, mined, trouble>>
    BY <1>3, <2>1
  <2>2. CASE \E taken, k : Takes(taken, k)
    <3>1. PICK taken, k : Takes(taken, k)
      BY <2>2
    <3>2. /\ taken \subseteq pool /\ DOMAIN mined' = DOMAIN mined \cup {t.id : t \in taken}
          /\ \A i \in DOMAIN mined \ {t.id : t \in taken} : mined'[i] = mined[i]
          /\ \A t \in taken : (\A s \in taken : s.id = t.id => s = t) =>
               mined'[t.id] = [block |-> height + 1, index |-> t.nonce - Front + 1,
                               price |-> EffectivePrice(t, fee')]
      BY <3>1 DEF Takes
    <3>3. /\ \A s, t \in taken : s.id = t.id => s = t
          /\ \A t \in taken : t.id \notin DOMAIN mined
      BY <1>1, <3>1, OrderedTakes
    <3>4. SUFFICES ASSUME pc \in {o + 4, o + 5}, id \in DOMAIN mined', "fee" \notin trouble'
                   PROVE  mined'[id].price = due
      OBVIOUS
    <3>5. fee' = fee /\ "fee" \notin trouble
      BY <1>1, <3>4
    <3>6. CASE id \in DOMAIN mined
      <4>1. mined'[id] = mined[id]
        BY <3>2, <3>3, <3>6
      <4>2. QED
        BY <1>3, <3>4, <3>5, <3>6, <4>1
    <3>7. CASE id \notin DOMAIN mined
      <4>1. PICK t \in taken : t.id = id
        BY <3>2, <3>4, <3>7
      <4>2. mined'[id] = [block |-> height + 1, index |-> t.nonce - Front + 1, price |-> EffectivePrice(t, fee')]
        BY <3>2, <3>3, <4>1
      <4>3. mined'[id].price = EffectivePrice(t, fee') /\ t \in pool
        BY <3>2, <4>2
      <4>4. pc = o + 4
        BY <1>3, <3>4, <3>7
      <4>5. EffectivePrice(t, fee) = due
        BY <1>3, <3>5, <4>1, <4>3, <4>4
      <4>6. QED
        BY <3>5, <4>3, <4>5
    <3>8. QED
      BY <3>6, <3>7
  <2>3. QED
    BY <1>1, <2>1, <2>2
<1>12. pc \in {o + 5, o + 6} => id \in DOMAIN mined'
  BY <1>1, <1>3
<1>13. QED
  BY <1>1, <1>5, <1>6, <1>7, <1>8, <1>9, <1>10, <1>11, <1>12
     DEF ChargedAt, Queue, Idle, Sure, Quoted, m, p, q, due

\* The checks of the effective price are no calls.
LEMMA PricedHere ==
  ASSUME IInv, Node, InUnit("boundaries", 1)
  PROVE  pc \notin {41, 47, 53, 59}
<1>1. pc \in {41, 47, 53, 59} => Ins.op = "price"
  BY BoundariesHere, BoundariesItems
<1>2. QED
  BY <1>1, NodeHere DEF Calls

LEMMA NodeBoundaries ==
  ASSUME IInv, IInv', InOrder, General, Node, BoundariesFacts
  PROVE  BoundariesFacts'
<1>1. UNCHANGED <<plan, unit, pc, regs, failed>>
  BY NodeHere
<1>2. SUFFICES ASSUME InUnit("boundaries", 1) PROVE BoundariesFacts'
  BY <1>1 DEF BoundariesFacts, InUnit
<1>3. /\ failed = {}
      /\ pc <= 19 => regs["n3"] = -1
      /\ FirstSections /\ TwinSections
      /\ EvictedAt(23, "n3", "n4", "half", "c4") /\ EvictedAt(29, "n4", "n5", "under", "c5")
      /\ ChargedAt(35, "n5", "n6", "exact") /\ ChargedAt(41, "n6", "n7", "legacy")
      /\ ChargedAt(47, "n7", "n8", "double") /\ ChargedAt(53, "n8", "n9", "tipped")
  BY <1>2 DEF BoundariesFacts
<1>4. {"n3", "n4", "n5", "n6", "n7", "n8", "n9"} \subseteq Regs
  BY DEF Regs
<1>5. EvictedAt(23, "n3", "n4", "half", "c4")' /\ EvictedAt(29, "n4", "n5", "under", "c5")'
  BY <1>2, <1>3, <1>4, NodeEvicted
<1>6. pc # 35 + 6 /\ pc # 41 + 6 /\ pc # 47 + 6 /\ pc # 53 + 6
  BY <1>2, PricedHere
<1>7. ChargedAt(35, "n5", "n6", "exact")' /\ ChargedAt(41, "n6", "n7", "legacy")'
  BY <1>2, <1>3, <1>4, <1>6, NodeCharged
<1>8. ChargedAt(47, "n7", "n8", "double")' /\ ChargedAt(53, "n8", "n9", "tipped")'
  BY <1>2, <1>3, <1>4, <1>6, NodeCharged
<1>9. FirstSections' /\ TwinSections'
  BY <1>2, <1>3, NodeFirst, NodeTwin
<1>10. QED
  BY <1>1, <1>3, <1>5, <1>7, <1>8, <1>9 DEF BoundariesFacts

\* Where it sends, waits and reads.
LEMMA BoundariesKinds ==
  LET s == nonce_fee_boundaries IN
  \A i \in 1..59 :
    /\ s[i].op = "send" => i \in {3, 6, 8, 9, 15, 16, 20, 22, 26, 28, 32, 34, 38, 44, 50, 56}
    /\ s[i].op = "await" => s[i].timeout = Raise
    /\ s[i].op \in Readers => i \in {1, 2, 5, 14, 19, 24, 25, 30, 31, 36, 37, 40, 42, 43, 46, 48, 49, 52, 54, 55, 58}
BY BoundariesItems DEF Readers, Fee, Advance, Send, Await, AwaitOne, Absent, Field

\* A step of it.
LEMMA BoundariesRuns ==
  ASSUME IInv, Runs, InUnit("boundaries", 1)'
  PROVE  /\ InUnit("boundaries", 1) /\ plan = "boundaries" /\ unit = 1 /\ pc \in 1..58 /\ pc' = pc + 1
         /\ Passes /\ Ins = nonce_fee_boundaries[pc] /\ failed' = failed
         /\ UNCHANGED <<plan, unit, height, ledger, fee, mined>> /\ trouble \subseteq trouble' /\ Front' = Front
         /\ Front \in Nat /\ regs \in [Regs -> Int]
         /\ Ins.op # "send" => UNCHANGED pool
         /\ Ins.op \notin Readers => \A r \in Regs : regs'[r] = regs[r]
         /\ Ins.op \in Readers /\ Ins.into \in Regs => \A r \in Regs : r # Ins.into => regs'[r] = regs[r]
<1>1. /\ UNCHANGED <<plan, unit, height, ledger, fee, mined>> /\ trouble \subseteq trouble' /\ Front' = Front
      /\ pool' = pool \/ Ins.op = "send"
  BY RunsPool
<1>2. /\ plan = "boundaries" /\ unit = 1 /\ pc \in 1..59 /\ Ins = nonce_fee_boundaries[pc]
  <2>1. plan = "boundaries" /\ unit = 1
    BY <1>1 DEF InUnit
  <2>2. Ins = nonce_fee_boundaries[pc] /\ pc \in 1..59
    BY <2>1, RunsHere, SingleUnits, BoundariesItems DEF Item
  <2>3. QED
    BY <2>1, <2>2
<1>3. Ins.op = "await" => Ins.timeout = Raise
  BY <1>2, BoundariesKinds
<1>4. InUnit("boundaries", 1) /\ Passes /\ pc' = pc + 1 /\ pc \in Nat
  BY <1>3, Onward
<1>5. pc \in 1..58 /\ pc' # 60
  <2>1. pc + 1 \in 1..59
    BY <1>4, SingleUnits, BoundariesItems DEF InUnit
  <2>2. QED
    BY <1>2, <1>4, <2>1
<1>6. failed' = failed
  <2>1. Running.exits /\ End = 60
    BY <1>4, BoundariesHere
  <2>2. QED
    BY <1>5, <2>1, RunsEffect DEF Effect
<1>7. Front \in Nat /\ regs \in [Regs -> Int]
  BY FrontLemma DEF IInv, TypeOK
<1>8. Ins.op \in Readers /\ Ins.into \in Regs => \A r \in Regs : r # Ins.into => regs'[r] = regs[r]
  BY <1>4, Reading
<1>9. QED
  BY <1>1, <1>2, <1>4, <1>5, <1>6, <1>7, <1>8, NotReading

\* What a send does to a queue.
LEMMA PricedSends ==
  ASSUME IInv, Passes, Ins.op = "send", Ins.id \notin DOMAIN mined, Front' = Front, UNCHANGED mined,
         NEW O, NEW lo, Queue(O, lo)
  PROVE  \E t \in Tx :
           /\ Admit(t) /\ t.id = Ins.id /\ t.nonce = NonceOf(Ins)
           /\ t.cap = Priced(Ins.price, regs["bf"]).cap /\ t.tip = Priced(Ins.price, regs["bf"]).tip
           /\ Line(pool', DOMAIN mined', Front', O \cup {<<Ins.id, NonceOf(Ins)>>}, lo)
<1>1. PICK t \in Tx : /\ t = [id |-> Ins.id, nonce |-> NonceOf(Ins), cap |-> Priced(Ins.price, regs["bf"]).cap,
                              tip |-> Priced(Ins.price, regs["bf"]).tip]
                      /\ Admit(t)
  BY DEF Passes, Sends
<1>2. /\ t.id = Ins.id /\ t.nonce = NonceOf(Ins)
      /\ t.cap = Priced(Ins.price, regs["bf"]).cap /\ t.tip = Priced(Ins.price, regs["bf"]).tip
  BY <1>1
<1>3. Line(pool', DOMAIN mined, Front, O \cup {<<t.id, t.nonce>>}, lo)
  BY <1>1, <1>2, QueueSends
<1>4. QED
  BY <1>1, <1>2, <1>3

\* One at the base fee is offered with it, and takes no other's nonce.
LEMMA QuotedSends ==
  ASSUME IInv, Passes, Ins.op = "send", Ins.price = "quoted", Ins.id \notin DOMAIN mined, Front' = Front,
         UNCHANGED <<mined, fee>>, trouble \subseteq trouble', NEW O, NEW lo, Queue(O, lo), NEW n, NonceOf(Ins) = n
  PROVE  /\ Line(pool', DOMAIN mined', Front', O \cup {<<Ins.id, n>>}, lo)
         /\ Offered(pool', Front', fee', Ins.id, n)
         /\ \A id, k : Sure(id, k) /\ k # n => "fee" \in trouble' \/ Offered(pool', Front', fee', id, k)
<1>1. PICK t \in Tx : /\ Admit(t) /\ t.id = Ins.id /\ t.nonce = n
                      /\ t.cap = Priced(Ins.price, regs["bf"]).cap
                      /\ Line(pool', DOMAIN mined', Front', O \cup {<<Ins.id, n>>}, lo)
  BY PricedSends
<1>2. t.cap = fee /\ fee \in Int
  BY <1>1, L2NodeAssumption DEF Priced, IInv, TypeOK
<1>3. t.cap >= fee
  BY <1>2
<1>4. Offered(pool', Front, fee, t.id, t.nonce)
  BY <1>1, <1>3, SendsOffer
<1>5. ASSUME NEW id, NEW k, Sure(id, k), k # n PROVE "fee" \in trouble' \/ Offered(pool', Front', fee', id, k)
  <2>1. Offered(pool, Front, fee, id, k) => Offered(pool', Front, fee, id, k)
    BY <1>1, <1>5, OfferedSends
  <2>2. QED
    BY <1>5, <2>1 DEF Sure
<1>6. QED
  BY <1>1, <1>4, <1>5

\* What wait_nonce_advance returns.
LEMMA Advances ==
  ASSUME IInv, Runs, Passes, Ins.op = "advance", Ins.into \in Regs
  PROVE  /\ regs'[Ins.into] \in Int /\ regs'[Ins.into] >= 0 /\ regs'[Ins.into] > regs[Ins.past]
         /\ regs'[Ins.into] <= Front /\ (regs'[Ins.into] = Front \/ "lag" \in trouble')
<1>1. Value(regs'[Ins.into])
  BY Reading DEF Readers
<1>2. /\ regs'[Ins.into] = NonceAt(ledger) /\ regs'[Ins.into] > regs[Ins.past]
      /\ regs'[Ins.into] = NonceAt(height) \/ "lag" \in trouble'
  BY <1>1 DEF Value, Latest
<1>3. NonceAt(ledger) \in Nat /\ NonceAt(ledger) <= NonceAt(height)
  BY NonceLemma
<1>4. QED
  BY <1>2, <1>3 DEF Front

\* When the account is idle just past the nonce it is given, that is the next one.
LEMMA AdvancesIdle ==
  ASSUME IInv, Runs, Passes, Ins.op = "advance", Ins.into \in Regs, Idle(regs[Ins.past] + 1),
         regs[Ins.past] \in Int
  PROVE  regs'[Ins.into] \in Int /\ Idle(regs'[Ins.into])
<1>1. Front = regs[Ins.past] + 1
  BY IdleLemma
<1>2. regs'[Ins.into] \in Int /\ regs'[Ins.into] > regs[Ins.past] /\ regs'[Ins.into] <= Front
  BY Advances
<1>3. regs'[Ins.into] = regs[Ins.past] + 1
  BY <1>1, <1>2
<1>4. QED
  BY <1>2, <1>3

\* Section 0: the first transaction.
LEMMA RunsOpening ==
  ASSUME IInv, InOrder, General, FirstSections, Runs, InUnit("boundaries", 1)', pc <= 5
  PROVE  FirstSections'
<1> DEFINE a == regs["n0"]
           n == regs["n1"]
           s == <<"stray", 0>>
           c == <<"c0", a>>
<1>1. /\ plan = "boundaries" /\ unit = 1 /\ pc \in 1..58 /\ pc' = pc + 1 /\ Passes
      /\ Ins = nonce_fee_boundaries[pc]
      /\ UNCHANGED <<height, ledger, fee, mined>> /\ trouble \subseteq trouble' /\ Front' = Front
      /\ Front \in Nat /\ regs \in [Regs -> Int]
      /\ Ins.op # "send" => UNCHANGED pool
      /\ Ins.op \notin Readers => \A r \in Regs : regs'[r] = regs[r]
      /\ Ins.op \in Readers /\ Ins.into \in Regs => \A r \in Regs : r # Ins.into => regs'[r] = regs[r]
  BY BoundariesRuns
<1>2. a \in Int /\ n \in Int /\ {"none", "bf", "n0", "n1"} \subseteq Regs
  BY <1>1 DEF Regs
<1>3. /\ pc <= 3 => Queue({s}, 0)
      /\ pc \in {3, 4} => 0 <= a /\ a <= Front /\ (a = 0 \/ a = 1)
      /\ pc = 4 => Queue({s, c}, 0) /\ Sure("c0", a)
      /\ pc = 5 => Idle(a + 1)
  BY DEF FirstSections
<1> HIDE DEF a, n, s, c
<1>4. CASE pc = 1
  <2>1. Ins.op = "fee"
    BY <1>1, <1>4, BoundariesItems DEF Fee
  <2>2. Line(pool', DOMAIN mined', Front', {s}, 0)
    BY <1>1, <1>3, <1>4, <2>1 DEF Queue
  <2>3. QED
    BY <1>1, <1>4, <2>2 DEF FirstSections, Queue, s
<1>5. CASE pc = 2
  <2>1. Ins.op = "advance" /\ Ins.into = "n0" /\ Ins.past = "none"
    BY <1>1, <1>5, BoundariesItems DEF Advance
  <2>2. Line(pool', DOMAIN mined', Front', {s}, 0)
    BY <1>1, <1>3, <1>5, <2>1 DEF Queue
  <2>3. regs'["n0"] \in Int /\ regs'["n0"] >= 0 /\ regs'["n0"] <= Front
    BY <1>1, <1>2, <2>1, Advances
  <2>4. Front = 0 \/ Front = 1
    BY <1>3, <1>5, StrayFront DEF General, s
  <2>5. 0 <= regs'["n0"] /\ regs'["n0"] <= Front' /\ (regs'["n0"] = 0 \/ regs'["n0"] = 1)
    BY <1>1, <2>3, <2>4
  <2>6. QED
    BY <1>1, <1>5, <2>2, <2>5 DEF FirstSections, Queue, s
<1>6. CASE pc = 3
  <2>1. Ins.op = "send" /\ Ins.id = "c0" /\ Ins.nonce = "n0" /\ Ins.plus = 0 /\ Ins.price = "quoted"
    BY <1>1, <1>6, BoundariesItems DEF Send
  <2>2. Ins.op \notin Readers /\ NonceOf(Ins) = a /\ Ins.id \notin DOMAIN mined
    BY <1>2, <2>1, NotYet DEF Readers, NonceOf, General, a
  <2>3. /\ Line(pool', DOMAIN mined', Front', {s} \cup {<<"c0", a>>}, 0)
        /\ Offered(pool', Front', fee', "c0", a)
    BY <1>1, <1>3, <1>6, <2>1, <2>2, QuotedSends
  <2>4. {s} \cup {<<"c0", a>>} = {s, c} /\ regs'["n0"] = a
    BY <1>1, <1>2, <2>2 DEF c, a
  <2>5. 0 <= regs'["n0"] /\ regs'["n0"] <= Front' /\ (regs'["n0"] = 0 \/ regs'["n0"] = 1)
    BY <1>1, <1>3, <1>6, <2>4
  <2>6. QED
    BY <1>1, <1>6, <2>3, <2>4, <2>5 DEF FirstSections, Queue, Sure, s, c
<1>7. CASE pc = 4
  <2>1. Ins.op = "await" /\ Ins.of = {"c0"} /\ Ins.op \notin Readers
    BY <1>1, <1>7, BoundariesItems DEF Await, Readers
  <2>2. "c0" \in DOMAIN mined /\ regs'["n0"] = a
    BY <1>1, <1>2, <2>1 DEF Passes, Found, a
  <2>3. Queue({s, c}, 0) /\ 0 <= a
    BY <1>3, <1>7
  <2>4. a < Front
    BY <2>2, <2>3 DEF Queue, Line, c
  <2>5. \A o \in {s, c} : o[2] \in Int /\ o[2] <= a
    BY <1>2, <2>3 DEF s, c
  <2>6. Idle(a + 1)
    BY <1>2, <2>3, <2>4, <2>5, Drained
  <2>7. Line(pool', DOMAIN mined', Front', {}, regs'["n0"] + 1)
    BY <1>1, <2>1, <2>2, <2>6 DEF Idle, Queue
  <2>8. QED
    BY <1>1, <1>7, <2>7 DEF FirstSections, Idle, Queue
<1>8. CASE pc = 5
  <2>1. Ins.op = "advance" /\ Ins.into = "n1" /\ Ins.past = "n0"
    BY <1>1, <1>8, BoundariesItems DEF Advance
  <2>2. Idle(regs["n0"] + 1) /\ regs["n0"] \in Int
    BY <1>2, <1>3, <1>8 DEF a
  <2>3. Idle(regs'["n1"])
    BY <1>1, <1>2, <2>1, <2>2, AdvancesIdle
  <2>4. Line(pool', DOMAIN mined', Front', {}, regs'["n1"])
    BY <1>1, <2>1, <2>3 DEF Idle, Queue
  <2>5. QED
    BY <1>1, <1>8, <2>4 DEF FirstSections, Idle, Queue
<1>9. QED
  BY <1>1, <1>4, <1>5, <1>6, <1>7, <1>8

\* Section 1: three in a row, the last of them first.
LEMMA RunsGap ==
  ASSUME IInv, InOrder, General, FirstSections, Runs, InUnit("boundaries", 1)', pc >= 6
  PROVE  FirstSections'
<1> DEFINE n == regs["n1"]
           f == <<"first", n>>
           g == <<"second", n + 1>>
           h == <<"gap", n + 2>>
<1>1. /\ plan = "boundaries" /\ unit = 1 /\ pc \in 1..58 /\ pc' = pc + 1 /\ Passes
      /\ Ins = nonce_fee_boundaries[pc]
      /\ UNCHANGED <<height, ledger, fee, mined>> /\ trouble \subseteq trouble' /\ Front' = Front
      /\ Front \in Nat /\ regs \in [Regs -> Int]
      /\ Ins.op # "send" => UNCHANGED pool
      /\ Ins.op \notin Readers => \A r \in Regs : regs'[r] = regs[r]
  BY BoundariesRuns
<1>2. n \in Int /\ "n1" \in Regs /\ n + 1 \in Int /\ n + 2 \in Int /\ n + 3 \in Int
      /\ n + 2 # n /\ n + 1 # n /\ n + 2 # n + 1
  BY <1>1 DEF Regs
<1>3. SUFFICES ASSUME pc <= 13 PROVE FirstSections'
  BY <1>1 DEF FirstSections
<1>4. /\ pc = 6 => Idle(n)
      /\ pc \in {7, 8} => Queue({h}, n)
      /\ pc \in 7..12 => Sure("gap", n + 2)
      /\ pc = 9 => Queue({f, h}, n)
      /\ pc \in 9..12 => Sure("first", n)
      /\ pc \in 10..12 => Queue({f, g, h}, n) /\ Sure("second", n + 1)
      /\ pc \in 10..13 => /\ {"first", "second"} \subseteq DOMAIN mined => Before("first", "second")
                          /\ {"second", "gap"} \subseteq DOMAIN mined => Before("second", "gap")
      /\ pc > 10 /\ pc < 14 => "first" \in DOMAIN mined
      /\ pc > 11 /\ pc < 14 => "second" \in DOMAIN mined
      /\ pc = 13 => "gap" \in DOMAIN mined
      /\ pc \in 13..14 => Idle(n + 3)
  BY DEF FirstSections
<1>5. Ins.op \notin Readers /\ regs'["n1"] = n
  BY <1>1, <1>2, <1>3, BoundariesKinds DEF n
<1>6. pc \in {6, 8, 9} => /\ Ins.op = "send" /\ Ins.price = "quoted" /\ Ins.nonce = "n1"
                          /\ pc = 6 => Ins.id = "gap" /\ NonceOf(Ins) = n + 2
                          /\ pc = 8 => Ins.id = "first" /\ NonceOf(Ins) = n
                          /\ pc = 9 => Ins.id = "second" /\ NonceOf(Ins) = n + 1
  BY <1>1, <1>2, BoundariesItems DEF Send, NonceOf, n
<1>7. pc \in {6, 8, 9} => Ins.id \notin DOMAIN mined
  BY <1>6, NotYet DEF General
<1> HIDE DEF n
<1>8. (\A i, j : Before(i, j)' <=> Before(i, j)) /\ (\A id, k : Sure(id, k) /\ UNCHANGED pool => Sure(id, k)')
  <2>1. \A i, j : Before(i, j)' <=> Before(i, j)
    BY <1>1 DEF Before
  <2>2. \A id, k : Sure(id, k) /\ UNCHANGED pool => Sure(id, k)'
    BY <1>1 DEF Sure
  <2>3. QED
    BY <2>1, <2>2
<1>9. CASE pc = 6
  <2>1. /\ Line(pool', DOMAIN mined', Front', {} \cup {<<"gap", n + 2>>}, n)
        /\ Offered(pool', Front', fee', "gap", n + 2)
    BY <1>1, <1>4, <1>6, <1>7, <1>9, QuotedSends DEF Idle
  <2>2. {} \cup {<<"gap", n + 2>>} = {h}
    OBVIOUS
  <2> HIDE DEF f, g, h
  <2>3. QED
    BY <1>1, <1>5, <1>9, <2>1, <2>2 DEF FirstSections, Queue, Sure, h
<1>10. CASE pc = 7
  <2>1. Ins.op # "send"
    BY <1>1, <1>10, BoundariesKinds
  <2>2. UNCHANGED pool /\ Line(pool', DOMAIN mined', Front', {h}, n) /\ Sure("gap", n + 2)
    BY <1>1, <1>4, <1>10, <2>1 DEF Queue
  <2>3. "fee" \in trouble' \/ Offered(pool', Front', fee', "gap", n + 2)
    BY <1>1, <2>2 DEF Sure
  <2> HIDE DEF f, g, h
  <2>4. QED
    BY <1>1, <1>5, <1>10, <2>2, <2>3 DEF FirstSections, Queue, Sure, h
<1>11. CASE pc = 8
  <2>1. /\ Line(pool', DOMAIN mined', Front', {h} \cup {<<"first", n>>}, n)
        /\ Offered(pool', Front', fee', "first", n)
        /\ \A id, k : Sure(id, k) /\ k # n => "fee" \in trouble' \/ Offered(pool', Front', fee', id, k)
    BY <1>1, <1>4, <1>6, <1>7, <1>11, QuotedSends
  <2>2. "fee" \in trouble' \/ Offered(pool', Front', fee', "gap", n + 2)
    BY <1>2, <1>4, <1>11, <2>1
  <2>3. {h} \cup {<<"first", n>>} = {f, h}
    OBVIOUS
  <2> HIDE DEF f, g, h
  <2>4. QED
    BY <1>1, <1>5, <1>11, <2>1, <2>2, <2>3 DEF FirstSections, Queue, Sure, f, h
<1>12. CASE pc = 9
  <2>1. /\ Line(pool', DOMAIN mined', Front', {f, h} \cup {<<"second", n + 1>>}, n)
        /\ Offered(pool', Front', fee', "second", n + 1)
        /\ \A id, k : Sure(id, k) /\ k # n + 1 => "fee" \in trouble' \/ Offered(pool', Front', fee', id, k)
    BY <1>1, <1>4, <1>6, <1>7, <1>12, QuotedSends
  <2>2. "fee" \in trouble' \/ Offered(pool', Front', fee', "gap", n + 2)
    BY <1>2, <1>4, <1>12, <2>1
  <2>3. "fee" \in trouble' \/ Offered(pool', Front', fee', "first", n)
    BY <1>2, <1>4, <1>12, <2>1
  <2>4. {f, h} \cup {<<"second", n + 1>>} = {f, g, h}
    OBVIOUS
  <2>5. ~({"first", "second"} \subseteq DOMAIN mined') /\ ~({"second", "gap"} \subseteq DOMAIN mined')
    BY <1>1, <1>6, <1>7, <1>12
  <2> HIDE DEF f, g, h
  <2>6. Line(pool', DOMAIN mined', Front', {f, g, h}, n) /\ pc' = 10
    <3>1. Line(pool', DOMAIN mined', Front', {f, g, h}, n)
      BY <2>1, <2>4
    <3>2. pc' = 10
      BY <1>1, <1>12
    <3>3. QED
      BY <3>1, <3>2
  <2>7. QED
    BY <1>5, <2>1, <2>2, <2>3, <2>5, <2>6 DEF FirstSections, Queue, Sure, f, g, h
<1>13. CASE pc \in 10..12
  <2>1. Ins.op = "await" /\ Ins.op # "send"
        /\ Ins.of = {IF pc = 10 THEN "first" ELSE IF pc = 11 THEN "second" ELSE "gap"}
    BY <1>1, <1>13, BoundariesItems DEF Await
  <2>2. /\ UNCHANGED pool
        /\ pc = 10 => "first" \in DOMAIN mined
        /\ pc = 11 => "second" \in DOMAIN mined
        /\ pc = 12 => "gap" \in DOMAIN mined
    BY <1>1, <2>1 DEF Passes, Found
  <2>3. /\ Queue({f, g, h}, n)
        /\ Line(pool', DOMAIN mined', Front', {f, g, h}, n)
    BY <1>1, <1>4, <1>13, <2>2 DEF Queue
  <2>4. /\ "fee" \in trouble' \/ Offered(pool', Front', fee', "gap", n + 2)
        /\ "fee" \in trouble' \/ Offered(pool', Front', fee', "first", n)
        /\ "fee" \in trouble' \/ Offered(pool', Front', fee', "second", n + 1)
    BY <1>1, <1>4, <1>13, <2>2 DEF Sure
  <2>5. pc = 12 => Line(pool', DOMAIN mined', Front', {}, n + 3)
    <3>1. SUFFICES ASSUME pc = 12 PROVE Idle(n + 3)
      BY <1>1, <2>2 DEF Idle, Queue
    <3>2. n + 2 < Front
      BY <2>2, <2>3, <3>1 DEF Queue, Line
    <3>3. \A o \in {f, g, h} : o[2] \in Int /\ o[2] <= n + 2
      BY <1>2
    <3>4. n <= (n + 2) + 1 /\ (n + 2) + 1 = n + 3
      BY <1>2
    <3>5. Idle((n + 2) + 1)
      BY <1>2, <2>3, <3>2, <3>3, <3>4, Drained
    <3>6. QED
      BY <3>4, <3>5
  <2>6. /\ {"first", "second"} \subseteq DOMAIN mined' => Before("first", "second")'
        /\ {"second", "gap"} \subseteq DOMAIN mined' => Before("second", "gap")'
    BY <1>1, <1>4, <1>8, <1>13
  <2>7. /\ pc' > 10 => "first" \in DOMAIN mined'
        /\ pc' > 11 => "second" \in DOMAIN mined'
        /\ pc' > 12 => "gap" \in DOMAIN mined'
    BY <1>1, <1>4, <1>13, <2>2
  <2> HIDE DEF f, g, h
  <2>8. QED
    BY <1>1, <1>5, <1>13, <2>3, <2>4, <2>5, <2>6, <2>7 DEF FirstSections, Queue, Idle, Sure, f, g, h
<1>14. CASE pc = 13
  <2>1. Ins.op # "send"
    BY <1>1, <1>14, BoundariesKinds
  <2>2. Line(pool', DOMAIN mined', Front', {}, n + 3)
    BY <1>1, <1>4, <1>14, <2>1 DEF Idle, Queue
  <2>3. QED
    BY <1>1, <1>5, <1>14, <2>2 DEF FirstSections, Idle, Queue
<1>15. QED
  BY <1>1, <1>3, <1>9, <1>10, <1>11, <1>12, <1>13, <1>14

\* A queue of one that has been found leaves the account idle.
LEMMA OneLanded ==
  ASSUME IInv, NEW id, NEW n \in Int, Queue({<<id, n>>}, n), id \in DOMAIN mined
  PROVE  Idle(n + 1)
<1>1. n < Front
  BY DEF Queue, Line
<1>2. \A o \in {<<id, n>>} : o[2] \in Int /\ o[2] <= n
  OBVIOUS
<1>3. n <= n + 1
  OBVIOUS
<1>4. QED
  BY <1>1, <1>2, <1>3, Drained

\* Sections 2 and 3: two for one nonce, and one that comes too late.
LEMMA RunsTwin ==
  ASSUME IInv, InOrder, General, FirstSections, TwinSections, Runs, InUnit("boundaries", 1)'
  PROVE  TwinSections' /\ (pc = 23 => Idle(regs["n3"] + 1))
<1> DEFINE k == regs["n2"]
           m == regs["n3"]
           lo == regs["n1"] + 3
           t == <<"twin1", k>>
           u == <<"twin2", k>>
<1>1. /\ plan = "boundaries" /\ unit = 1 /\ pc \in 1..58 /\ pc' = pc + 1 /\ Passes
      /\ Ins = nonce_fee_boundaries[pc]
      /\ UNCHANGED <<height, ledger, fee, mined>> /\ trouble \subseteq trouble' /\ Front' = Front
      /\ Front \in Nat /\ regs \in [Regs -> Int]
      /\ Ins.op # "send" => UNCHANGED pool
      /\ Ins.op \notin Readers => \A r \in Regs : regs'[r] = regs[r]
      /\ Ins.op \in Readers /\ Ins.into \in Regs => \A r \in Regs : r # Ins.into => regs'[r] = regs[r]
  BY BoundariesRuns
<1>2. k \in Int /\ m \in Int /\ lo \in Int /\ regs["n1"] \in Int /\ {"n1", "n2", "n3"} \subseteq Regs
  BY <1>1 DEF Regs
<1>3. /\ pc \in 15..17 => k = lo \/ (k < lo /\ "lag" \in trouble)
      /\ pc = 15 => Idle(lo)
      /\ pc = 16 => Queue({t}, lo)
      /\ pc = 17 => Queue({t, u}, lo) /\ Sure("twin2", k)
      /\ pc \in 18..19 => Idle(k + 1)
      /\ pc \in 20..22 => Idle(m)
      /\ pc = 23 => Queue({<<"c3", m>>}, m) /\ Sure("c3", m)
      /\ pc \in 13..14 => Idle(lo)
  BY DEF TwinSections, FirstSections
<1>4. pc \in {15, 16, 20, 22} =>
        /\ Ins.op = "send" /\ Ins.price = "quoted"
        /\ pc = 15 => Ins.id = "twin1" /\ NonceOf(Ins) = k
        /\ pc = 16 => Ins.id = "twin2" /\ NonceOf(Ins) = k
        /\ pc = 20 => Ins.id = "low" /\ NonceOf(Ins) = m - 1
        /\ pc = 22 => Ins.id = "c3" /\ NonceOf(Ins) = m
  BY <1>1, <1>2, BoundariesItems DEF Send, NonceOf, k, m
<1>5. pc \in {15, 16, 20, 22} => Ins.id \notin DOMAIN mined
  BY <1>4, NotYet DEF General
<1>6. pc \in 14..23 /\ pc \notin {14, 19} => regs'["n1"] + 3 = lo /\ regs'["n2"] = k /\ regs'["n3"] = m
  BY <1>1, <1>2, BoundariesKinds
<1>7. pc \in {17, 18, 21, 23} => UNCHANGED pool
  BY <1>1, BoundariesKinds
<1> HIDE DEF k, m, lo
<1>8. CASE pc = 14
  <2>1. Ins.op = "advance" /\ Ins.into = "n2" /\ Ins.past = "n1"
    BY <1>1, <1>8, BoundariesItems DEF Advance
  <2>2. /\ regs'["n2"] \in Int /\ regs'["n2"] <= Front /\ (regs'["n2"] = Front \/ "lag" \in trouble')
    BY <1>1, <1>2, <2>1, Advances
  <2>3. Front = lo
    BY <1>2, <1>3, <1>8, IdleLemma
  <2>4. regs'["n2"] = lo \/ (regs'["n2"] < lo /\ "lag" \in trouble')
    BY <1>2, <2>2, <2>3
  <2>5. regs'["n1"] + 3 = lo
    BY <1>1, <1>2, <2>1 DEF Readers, lo
  <2>6. Line(pool', DOMAIN mined', Front', {}, lo)
    BY <1>1, <1>3, <1>8, <2>1 DEF Idle, Queue
  <2>7. QED
    BY <1>1, <1>8, <2>4, <2>5, <2>6 DEF TwinSections, Idle, Queue
<1>9. CASE pc = 15
  <2>1. Line(pool', DOMAIN mined', Front', {} \cup {<<"twin1", k>>}, lo)
    BY <1>1, <1>3, <1>4, <1>5, <1>9, QuotedSends DEF Idle
  <2>2. {} \cup {<<"twin1", k>>} = {t}
    OBVIOUS
  <2>3. k = lo \/ (k < lo /\ "lag" \in trouble')
    BY <1>1, <1>3, <1>9
  <2> HIDE DEF t
  <2>4. Line(pool', DOMAIN mined', Front', {t}, lo) /\ pc' = 16
    <3>1. Line(pool', DOMAIN mined', Front', {t}, lo)
      BY <2>1, <2>2
    <3>2. pc' = 16
      BY <1>1, <1>9
    <3>3. QED
      BY <3>1, <3>2
  <2>5. QED
    BY <1>6, <1>9, <2>3, <2>4 DEF TwinSections, Queue, t
<1>10. CASE pc = 16
  <2>1. /\ Line(pool', DOMAIN mined', Front', {t} \cup {<<"twin2", k>>}, lo)
        /\ Offered(pool', Front', fee', "twin2", k)
    BY <1>1, <1>3, <1>4, <1>5, <1>10, QuotedSends
  <2>2. {t} \cup {<<"twin2", k>>} = {t, u}
    OBVIOUS
  <2>3. k = lo \/ (k < lo /\ "lag" \in trouble')
    BY <1>1, <1>3, <1>10
  <2> HIDE DEF t, u
  <2>4. Line(pool', DOMAIN mined', Front', {t, u}, lo) /\ pc' = 17
    <3>1. Line(pool', DOMAIN mined', Front', {t, u}, lo)
      BY <2>1, <2>2
    <3>2. pc' = 17
      BY <1>1, <1>10
    <3>3. QED
      BY <3>1, <3>2
  <2>5. QED
    BY <1>6, <1>10, <2>1, <2>3, <2>4 DEF TwinSections, Queue, Sure, t, u
<1>11. CASE pc = 17
  <2>1. Ins.op = "await" /\ Ins.of = {"twin1", "twin2"}
    BY <1>1, <1>11, BoundariesItems DEF AwaitOne
  <2>2. "twin1" \in DOMAIN mined \/ "twin2" \in DOMAIN mined
    BY <1>1, <2>1 DEF Passes, Found
  <2>3. Queue({t, u}, lo) /\ (k = lo \/ k < lo)
    BY <1>3, <1>11
  <2>4. \A o \in {t, u} : o[2] = k
    OBVIOUS
  <2>5. lo <= k /\ k < Front
    BY <2>2, <2>3, <2>4 DEF Queue, Line
  <2>6. ~("twin1" \in DOMAIN mined /\ "twin2" \in DOMAIN mined)
    BY <2>3 DEF Queue, Line
  <2>7. \E i \in {"twin1", "twin2"} : {"twin1", "twin2"} \cap DOMAIN mined = {i}
    BY <2>2, <2>6
  <2>8. Idle(k + 1)
    <3>1. \A o \in {t, u} : o[2] \in Int /\ o[2] <= k
      BY <1>2, <2>4
    <3>2. lo <= k + 1
      BY <1>2, <2>5
    <3>3. QED
      BY <1>2, <2>3, <2>5, <3>1, <3>2, Drained
  <2>9. Line(pool', DOMAIN mined', Front', {}, k + 1)
    BY <1>1, <1>7, <1>11, <2>8 DEF Idle, Queue
  <2>10. QED
    BY <1>1, <1>6, <1>11, <2>7, <2>9 DEF TwinSections, Idle, Queue
<1>12. CASE pc = 18
  <2>1. Line(pool', DOMAIN mined', Front', {}, k + 1)
    BY <1>1, <1>3, <1>7, <1>12 DEF Idle, Queue
  <2>2. QED
    BY <1>1, <1>6, <1>12, <2>1 DEF TwinSections, Idle, Queue
<1>13. CASE pc = 19
  <2>1. Ins.op = "advance" /\ Ins.into = "n3" /\ Ins.past = "n2"
    BY <1>1, <1>13, BoundariesItems DEF Advance
  <2>2. Idle(regs["n2"] + 1) /\ regs["n2"] \in Int
    BY <1>2, <1>3, <1>13 DEF k
  <2>3. Idle(regs'["n3"])
    BY <1>1, <1>2, <2>1, <2>2, AdvancesIdle
  <2>4. Line(pool', DOMAIN mined', Front', {}, regs'["n3"])
    BY <1>1, <2>1, <2>3 DEF Idle, Queue
  <2>5. QED
    BY <1>1, <1>13, <2>4 DEF TwinSections, Idle, Queue
<1>14. CASE pc = 20
  <2>1. Idle(m) /\ Front = m
    BY <1>2, <1>3, <1>14, IdleLemma
  <2>2. PICK x \in Tx : Admit(x) /\ x.nonce = m - 1
    <3>1. Queue({}, m) /\ Ins.op = "send" /\ Ins.id \notin DOMAIN mined /\ NonceOf(Ins) = m - 1
      BY <1>4, <1>5, <1>14, <2>1 DEF Idle
    <3>2. \E x \in Tx : Admit(x) /\ x.nonce = NonceOf(Ins)
      BY <1>1, <3>1, PricedSends
    <3>3. QED
      BY <3>1, <3>2
  <2>3. x.nonce < Front
    BY <1>2, <2>1, <2>2
  <2>4. Line(pool', DOMAIN mined, Front, {}, m)
    BY <2>1, <2>2, <2>3, LateSends DEF Idle
  <2>5. Line(pool', DOMAIN mined', Front', {}, m)
    BY <1>1, <2>4
  <2>6. QED
    BY <1>1, <1>6, <1>14, <2>5 DEF TwinSections, Idle, Queue
<1>15. CASE pc = 21
  <2>1. Line(pool', DOMAIN mined', Front', {}, m)
    BY <1>1, <1>3, <1>7, <1>15 DEF Idle, Queue
  <2>2. QED
    BY <1>1, <1>6, <1>15, <2>1 DEF TwinSections, Idle, Queue
<1>16. CASE pc = 22
  <2>1. /\ Line(pool', DOMAIN mined', Front', {} \cup {<<"c3", m>>}, m)
        /\ Offered(pool', Front', fee', "c3", m)
    <3>1. Queue({}, m)
      BY <1>3, <1>16 DEF Idle
    <3>2. Ins.op = "send" /\ Ins.price = "quoted" /\ Ins.id = "c3" /\ NonceOf(Ins) = m /\ "c3" \notin DOMAIN mined
      BY <1>4, <1>5, <1>16
    <3>3. QED
      BY <1>1, <3>1, <3>2, QuotedSends
  <2>2. {} \cup {<<"c3", m>>} = {<<"c3", m>>}
    OBVIOUS
  <2>3. Line(pool', DOMAIN mined', Front', {<<"c3", m>>}, m) /\ pc' = 23
    <3>1. Line(pool', DOMAIN mined', Front', {<<"c3", m>>}, m)
      BY <2>1, <2>2
    <3>2. pc' = 23
      BY <1>1, <1>16
    <3>3. QED
      BY <3>1, <3>2
  <2>4. QED
    BY <1>6, <1>16, <2>1, <2>3 DEF TwinSections, Queue, Sure
<1>17. CASE pc = 23
  <2>1. Ins.op = "await" /\ Ins.of = {"c3"}
    BY <1>1, <1>17, BoundariesItems DEF Await
  <2>2. "c3" \in DOMAIN mined
    BY <1>1, <2>1 DEF Passes, Found
  <2>3. Queue({<<"c3", m>>}, m)
    BY <1>3, <1>17
  <2>4. Idle(m + 1)
    BY <1>2, <2>2, <2>3, OneLanded
  <2>5. QED
    BY <1>1, <1>17, <2>4 DEF TwinSections, m
<1>18. CASE pc > 23 \/ pc < 14
  BY <1>1, <1>18 DEF TwinSections
<1>19. QED
  BY <1>1, <1>8, <1>9, <1>10, <1>11, <1>12, <1>13, <1>14, <1>15, <1>16, <1>17, <1>18

\* Sections 4 and 5: a price below the base fee, and a control transaction in its place.
EvictedBy(s, o, past, n, id, kind, control) ==
  /\ s[o].op \notin Readers \cup {"send"} /\ s[o + 1] = Fee("bf") /\ s[o + 2] = Advance(past, n)
  /\ s[o + 3] = Send(id, n, 0, kind) /\ s[o + 4] = Absent(id)
  /\ s[o + 5] = Send(control, n, 0, "quoted") /\ s[o + 6] = Await(control, Raise)
  /\ kind \in {"half", "under"} /\ past # n /\ "bf" \notin {past, n} /\ id # control

LEMMA RunsEvicted ==
  ASSUME IInv, InOrder, General, Runs, InUnit("boundaries", 1)',
         NEW o \in Nat, NEW past \in Regs, NEW n \in Regs, NEW id, NEW kind, NEW control,
         EvictedBy(nonce_fee_boundaries, o, past, n, id, kind, control),
         EvictedAt(o, past, n, id, control), pc = o => Idle(regs[past] + 1)
  PROVE  EvictedAt(o, past, n, id, control)' /\ (pc = o + 6 => Idle(regs[n] + 1))
<1> DEFINE s == nonce_fee_boundaries
           m == regs[n]
           p == regs[past]
           q == <<id, m>>
           c == <<control, m>>
<1>1. /\ plan = "boundaries" /\ unit = 1 /\ pc \in 1..58 /\ pc' = pc + 1 /\ Passes
      /\ Ins = s[pc]
      /\ UNCHANGED <<height, ledger, fee, mined>> /\ trouble \subseteq trouble' /\ Front' = Front
      /\ Front \in Nat /\ regs \in [Regs -> Int]
      /\ Ins.op # "send" => UNCHANGED pool
      /\ Ins.op \notin Readers => \A r \in Regs : regs'[r] = regs[r]
      /\ Ins.op \in Readers /\ Ins.into \in Regs => \A r \in Regs : r # Ins.into => regs'[r] = regs[r]
  BY BoundariesRuns
<1>2. m \in Int /\ p \in Int /\ "bf" \in Regs /\ p + 1 \in Int /\ m + 1 \in Int
  BY <1>1 DEF Regs
<1>3. /\ pc = o => Ins.op \notin Readers \cup {"send"}
      /\ pc = o + 1 => Ins.op = "fee" /\ Ins.into = "bf"
      /\ pc = o + 2 => Ins.op = "advance" /\ Ins.past = past /\ Ins.into = n
      /\ pc = o + 3 => Ins.op = "send" /\ Ins.id = id /\ Ins.price = kind /\ NonceOf(Ins) = m
      /\ pc = o + 4 => Ins.op = "absent"
      /\ pc = o + 5 => Ins.op = "send" /\ Ins.id = control /\ Ins.price = "quoted" /\ NonceOf(Ins) = m
      /\ pc = o + 6 => Ins.op = "await" /\ Ins.of = {control}
      /\ kind \in {"half", "under"} /\ past # n /\ "bf" \notin {past, n} /\ id # control
  BY <1>1, <1>2 DEF EvictedBy, Fee, Advance, Send, Absent, Await, NonceOf, m
<1> HIDE DEF s
<1>4. /\ pc \in {o + 1, o + 2} => Idle(p + 1)
      /\ pc \in {o + 2, o + 3} => Quoted
      /\ pc = o + 3 => Idle(m)
      /\ pc \in {o + 4, o + 5} => Queue({q}, m)
      /\ pc \in o + 4..o + 6 => /\ \A t \in pool : t.id = id => t.cap < fee \/ "fee" \in trouble
                                /\ id \in DOMAIN mined => "fee" \in trouble
      /\ pc = o + 6 => Queue({q, c}, m) /\ Sure(control, m)
  BY DEF EvictedAt
<1>5. pc \in {o + 3, o + 5} => Ins.id \notin Pooled \cup DOMAIN mined
  BY <1>3, NotYet DEF General
<1> HIDE DEF p, m
<1>6. CASE pc \in {o, o + 1}
  <2>1. Idle(p + 1) /\ UNCHANGED pool
    BY <1>1, <1>3, <1>4, <1>6 DEF p
  <2>2. regs'[past] = p
    BY <1>1, <1>2, <1>3, <1>6 DEF p, Readers
  <2>3. Line(pool', DOMAIN mined', Front', {}, regs'[past] + 1)
    BY <1>1, <2>1, <2>2 DEF Idle, Queue
  <2>4. pc = o + 1 => regs'["bf"] = fee'
    BY <1>1, <1>2, <1>3, Reading DEF Readers, Value
  <2>5. QED
    BY <1>1, <1>6, <2>3, <2>4 DEF EvictedAt, Idle, Queue, Quoted
<1>7. CASE pc = o + 2
  <2>1. Idle(regs[past] + 1) /\ regs[past] \in Int /\ Quoted
    BY <1>2, <1>4, <1>7 DEF p
  <2>2. Idle(regs'[n]) /\ UNCHANGED pool /\ regs'["bf"] = regs["bf"]
    BY <1>1, <1>2, <1>3, <1>7, <2>1, AdvancesIdle DEF Readers
  <2>3. Line(pool', DOMAIN mined', Front', {}, regs'[n])
    BY <1>1, <2>2 DEF Idle, Queue
  <2>4. regs'["bf"] = fee' \/ "fee" \in trouble'
    BY <1>1, <2>1, <2>2 DEF Quoted
  <2>5. QED
    BY <1>1, <1>7, <2>3, <2>4 DEF EvictedAt, Idle, Queue, Quoted
<1>8. CASE pc = o + 3
  <2>1. Queue({}, m) /\ Quoted /\ Ins.id \notin DOMAIN mined
    BY <1>4, <1>5, <1>8 DEF Idle
  <2>2. PICK x \in Tx : /\ Admit(x) /\ x.id = id
                        /\ x.cap = Priced(kind, regs["bf"]).cap
                        /\ Line(pool', DOMAIN mined', Front', {} \cup {<<id, m>>}, m)
    <3>1. Ins.op = "send" /\ Ins.id = id /\ Ins.price = kind /\ NonceOf(Ins) = m /\ UNCHANGED mined
      BY <1>1, <1>3, <1>8
    <3>2. Passes /\ Front' = Front
      BY <1>1
    <3>3. QED
      BY <2>1, <3>1, <3>2, PricedSends
  <2>3. {} \cup {<<id, m>>} = {q}
    OBVIOUS
  <2>4. x.cap < fee \/ "fee" \in trouble
    <3>1. SUFFICES ASSUME "fee" \notin trouble PROVE x.cap < fee
      OBVIOUS
    <3>2. regs["bf"] = fee /\ fee \in Nat /\ fee # 0
      BY <2>1, <3>1, L2NodeAssumption DEF Quoted, IInv, TypeOK
    <3>3. x.cap = fee \div 2 \/ x.cap = fee - 1
      BY <1>3, <2>2, <3>2 DEF Priced
    <3>4. QED
      BY <3>2, <3>3
  <2>5. ASSUME NEW t \in pool', t.id = id PROVE t.cap < fee' \/ "fee" \in trouble'
    <3>1. t = x \/ t \in pool
      BY <2>2 DEF Admit
    <3>2. t \in pool => t.id \in Pooled
      BY DEF Pooled
    <3>3. t = x
      BY <1>3, <1>5, <1>8, <2>5, <3>1, <3>2
    <3>4. QED
      BY <1>1, <2>4, <3>3
  <2>6. id \notin DOMAIN mined' /\ regs'[n] = m
    <3>1. id \notin DOMAIN mined
      BY <1>3, <1>5, <1>8
    <3>2. Ins.op \notin Readers
      BY <1>3, <1>8 DEF Readers
    <3>3. QED
      BY <1>1, <3>1, <3>2 DEF m
  <2> HIDE DEF q
  <2>7. Line(pool', DOMAIN mined', Front', {q}, m) /\ pc' = o + 4
    <3>1. Line(pool', DOMAIN mined', Front', {q}, m)
      BY <2>2, <2>3
    <3>2. pc' = o + 4
      BY <1>1, <1>8
    <3>3. QED
      BY <3>1, <3>2
  <2>8. \A t \in pool' : t.id = id => t.cap < fee' \/ "fee" \in trouble'
    BY <2>5
  <2>9. Line(pool', DOMAIN mined', Front', {<<id, regs'[n]>>}, regs'[n])
    BY <2>6, <2>7 DEF q
  <2>10. QED
    BY <1>1, <1>8, <2>6, <2>8, <2>9 DEF EvictedAt, Queue
<1>9. CASE pc = o + 4
  <2>1. UNCHANGED pool /\ regs'[n] = m
    BY <1>1, <1>3, <1>9 DEF Readers, m
  <2>2. Line(pool', DOMAIN mined', Front', {q}, m)
    BY <1>1, <1>4, <1>9, <2>1 DEF Queue
  <2>3. /\ \A t \in pool' : t.id = id => t.cap < fee' \/ "fee" \in trouble'
        /\ id \in DOMAIN mined' => "fee" \in trouble'
    BY <1>1, <1>4, <1>9, <2>1
  <2> HIDE DEF q
  <2>4. QED
    BY <1>1, <1>9, <2>1, <2>2, <2>3 DEF EvictedAt, Queue, q
<1>10. CASE pc = o + 5
  <2>1. Queue({q}, m) /\ Ins.id \notin DOMAIN mined
    BY <1>4, <1>5, <1>10
  <2>2. /\ Line(pool', DOMAIN mined', Front', {q} \cup {<<control, m>>}, m)
        /\ Offered(pool', Front', fee', control, m)
    BY <1>1, <1>3, <1>10, <2>1, QuotedSends
  <2>3. {q} \cup {<<control, m>>} = {q, c}
    OBVIOUS
  <2>4. regs'[n] = m
    BY <1>1, <1>3, <1>10 DEF Readers, m
  <2>5. ASSUME NEW t \in pool', t.id = id PROVE t.cap < fee' \/ "fee" \in trouble'
    <3>1. PICK x \in Tx : Admit(x) /\ x.id = control
      <4>1. \E x \in Tx : Admit(x) /\ x.id = Ins.id
        <5>1. Ins.op = "send" /\ Passes /\ Front' = Front /\ UNCHANGED mined
          BY <1>1, <1>3, <1>10
        <5>2. QED
          BY <2>1, <5>1, PricedSends
      <4>2. QED
        BY <1>3, <1>10, <4>1
    <3>2. t = x \/ t \in pool
      BY <3>1 DEF Admit
    <3>3. t \in pool
      BY <1>3, <2>5, <3>1, <3>2
    <3>4. QED
      BY <1>1, <1>4, <1>10, <2>5, <3>3
  <2>6. id \in DOMAIN mined' => "fee" \in trouble'
    BY <1>1, <1>4, <1>10
  <2> HIDE DEF q, c
  <2>7. Line(pool', DOMAIN mined', Front', {q, c}, m)
    BY <2>2, <2>3
  <2>8. pc' = o + 6 /\ \A t \in pool' : t.id = id => t.cap < fee' \/ "fee" \in trouble'
    BY <1>1, <1>10, <2>5
  <2>9. Line(pool', DOMAIN mined', Front', {<<id, regs'[n]>>, <<control, regs'[n]>>}, regs'[n])
    BY <2>4, <2>7 DEF q, c
  <2>10. Offered(pool', Front', fee', control, regs'[n])
    BY <2>2, <2>4
  <2>11. QED
    BY <1>1, <1>10, <2>6, <2>8, <2>9, <2>10 DEF EvictedAt, Queue, Sure
<1>11. CASE pc = o + 6
  <2>1. control \in DOMAIN mined
    BY <1>1, <1>3, <1>11 DEF Passes, Found
  <2>2. Queue({q, c}, m) /\ c[1] = control /\ c[2] = m
    BY <1>4, <1>11
  <2>3. m < Front /\ \A o1 \in {q, c} : o1[2] \in Int /\ o1[2] <= m
    BY <1>2, <2>1, <2>2 DEF Queue, Line
  <2>4. Idle(m + 1)
    BY <1>2, <2>2, <2>3, Drained
  <2>5. EvictedAt(o, past, n, id, control)'
    BY <1>1, <1>11 DEF EvictedAt
  <2>6. QED
    BY <1>11, <2>4, <2>5 DEF m
<1>12. CASE pc \notin o..o + 6
  BY <1>1, <1>12 DEF EvictedAt
<1>13. QED
  BY <1>1, <1>6, <1>7, <1>8, <1>9, <1>10, <1>11, <1>12

\* Sections 6 to 9: a price at or above the base fee, and the effective price of its receipt.
ChargedBy(s, o, past, n, id) ==
  /\ s[o].op \notin Readers \cup {"send"} /\ s[o + 1] = Fee("bf") /\ s[o + 2] = Advance(past, n)
  /\ s[o + 3] = Send(id, n, 0, id) /\ s[o + 4] = Await(id, Raise)
  /\ s[o + 5] = Field(id, "price", "effective") /\ s[o + 6].op = "price"
  /\ id \in {"exact", "legacy", "double", "tipped"} /\ past # n
  /\ {"bf", "effective"} \cap {past, n} = {}

\* What each of their prices comes to in a block with the base fee it was read for.
LEMMA PriceExpected ==
  ASSUME NEW bf \in Nat, NEW id \in {"exact", "legacy", "double", "tipped"}, NEW t,
         t.cap = Priced(id, bf).cap, t.tip = Priced(id, bf).tip
  PROVE  t.cap >= bf /\ EffectivePrice(t, bf) = Expected(id, bf)
<1>1. t.cap \in Int /\ t.tip \in Int
  BY DEF Priced
<1>2. QED
  BY <1>1 DEF Priced, EffectivePrice, Expected, Lesser

LEMMA RunsCharged ==
  ASSUME IInv, InOrder, General, Runs, InUnit("boundaries", 1)',
         NEW o \in Nat, NEW past \in Regs, NEW n \in Regs, NEW id,
         ChargedBy(nonce_fee_boundaries, o, past, n, id),
         ChargedAt(o, past, n, id), pc = o => Idle(regs[past] + 1)
  PROVE  ChargedAt(o, past, n, id)' /\ (pc = o + 6 => Idle(regs[n] + 1))
<1> DEFINE s == nonce_fee_boundaries
           m == regs[n]
           p == regs[past]
           q == <<id, m>>
           bf == regs["bf"]
<1>1. /\ plan = "boundaries" /\ unit = 1 /\ pc \in 1..58 /\ pc' = pc + 1 /\ Passes
      /\ Ins = s[pc]
      /\ UNCHANGED <<height, ledger, fee, mined>> /\ trouble \subseteq trouble' /\ Front' = Front
      /\ Front \in Nat /\ regs \in [Regs -> Int]
      /\ Ins.op # "send" => UNCHANGED pool
      /\ Ins.op \notin Readers => \A r \in Regs : regs'[r] = regs[r]
      /\ Ins.op \in Readers /\ Ins.into \in Regs => \A r \in Regs : r # Ins.into => regs'[r] = regs[r]
  BY BoundariesRuns
<1>2. m \in Int /\ p \in Int /\ {"bf", "effective"} \subseteq Regs /\ p + 1 \in Int /\ m + 1 \in Int
  BY <1>1 DEF Regs
<1>3. /\ pc = o => Ins.op \notin Readers \cup {"send"}
      /\ pc = o + 1 => Ins.op = "fee" /\ Ins.into = "bf"
      /\ pc = o + 2 => Ins.op = "advance" /\ Ins.past = past /\ Ins.into = n
      /\ pc = o + 3 => Ins.op = "send" /\ Ins.id = id /\ Ins.price = id /\ NonceOf(Ins) = m
      /\ pc = o + 4 => Ins.op = "await" /\ Ins.of = {id}
      /\ pc = o + 5 => Ins.op = "field" /\ Ins.of = id /\ Ins.what = "price" /\ Ins.into = "effective"
      /\ pc = o + 6 => Ins.op = "price"
      /\ id \in {"exact", "legacy", "double", "tipped"}
  BY <1>1, <1>2 DEF ChargedBy, Fee, Advance, Send, Field, Await, NonceOf, m
<1>4. past # n /\ "bf" # past /\ "bf" # n /\ "effective" # n
  BY DEF ChargedBy
<1> HIDE DEF s
<1>5. /\ pc \in {o + 1, o + 2} => Idle(p + 1)
      /\ pc \in {o + 2, o + 3} => Quoted
      /\ pc = o + 3 => Idle(m)
      /\ pc = o + 4 => /\ Queue({q}, m)
                       /\ \A t \in pool : t.id = id =>
                            EffectivePrice(t, fee) = Expected(id, bf) \/ "fee" \in trouble
      /\ pc \in {o + 4, o + 5} =>
           (id \in DOMAIN mined => mined[id].price = Expected(id, bf) \/ "fee" \in trouble)
      /\ pc \in {o + 5, o + 6} => id \in DOMAIN mined /\ Idle(m + 1)
  BY DEF ChargedAt
<1>6. pc = o + 3 => id \notin Pooled \cup DOMAIN mined
  BY <1>3, NotYet DEF General
<1> HIDE DEF p, m, bf
<1>7. CASE pc \in {o, o + 1}
  <2>1. Idle(p + 1) /\ UNCHANGED pool
    BY <1>1, <1>3, <1>5, <1>7 DEF p
  <2>2. regs'[past] = p
    BY <1>1, <1>2, <1>3, <1>4, <1>7 DEF p, Readers
  <2>3. Line(pool', DOMAIN mined', Front', {}, regs'[past] + 1)
    BY <1>1, <2>1, <2>2 DEF Idle, Queue
  <2>4. pc = o + 1 => regs'["bf"] = fee'
    BY <1>1, <1>2, <1>3, Reading DEF Readers, Value
  <2>5. QED
    BY <1>1, <1>7, <2>3, <2>4 DEF ChargedAt, Idle, Queue, Quoted
<1>8. CASE pc = o + 2
  <2>1. Idle(regs[past] + 1) /\ regs[past] \in Int /\ Quoted
    BY <1>2, <1>5, <1>8 DEF p
  <2>2. Idle(regs'[n]) /\ UNCHANGED pool /\ regs'["bf"] = regs["bf"]
    BY <1>1, <1>2, <1>3, <1>4, <1>8, <2>1, AdvancesIdle DEF Readers
  <2>3. Line(pool', DOMAIN mined', Front', {}, regs'[n])
    BY <1>1, <2>2 DEF Idle, Queue
  <2>4. regs'["bf"] = fee' \/ "fee" \in trouble'
    BY <1>1, <2>1, <2>2 DEF Quoted
  <2>5. QED
    BY <1>1, <1>8, <2>3, <2>4 DEF ChargedAt, Idle, Queue, Quoted
<1>9. CASE pc = o + 3
  <2>1. Queue({}, m) /\ Quoted /\ Ins.id \notin DOMAIN mined
    BY <1>3, <1>5, <1>6, <1>9 DEF Idle
  <2>2. PICK x \in Tx : /\ Admit(x) /\ x.id = id /\ x.nonce = m
                        /\ x.cap = Priced(id, regs["bf"]).cap /\ x.tip = Priced(id, regs["bf"]).tip
                        /\ Line(pool', DOMAIN mined', Front', {} \cup {<<id, m>>}, m)
    BY <1>1, <1>3, <1>9, <2>1, PricedSends
  <2>3. {} \cup {<<id, m>>} = {q}
    OBVIOUS
  <2>4. /\ regs'[n] = m /\ regs'["bf"] = bf /\ regs["bf"] = bf
    BY <1>1, <1>2, <1>3, <1>9 DEF Readers, m, bf
  <2>5. "fee" \in trouble \/ (x.cap >= fee /\ EffectivePrice(x, fee) = Expected(id, bf))
    <3>1. SUFFICES ASSUME "fee" \notin trouble PROVE x.cap >= fee /\ EffectivePrice(x, fee) = Expected(id, bf)
      OBVIOUS
    <3>2. regs["bf"] = fee /\ fee \in Nat
      BY <2>1, <3>1, L2NodeAssumption DEF Quoted, IInv, TypeOK
    <3>3. x.cap = Priced(id, fee).cap /\ x.tip = Priced(id, fee).tip /\ bf = fee
      BY <2>2, <2>4, <3>2
    <3>4. QED
      BY <1>3, <3>2, <3>3, PriceExpected
  <2>6. ASSUME NEW t \in pool', t.id = id
        PROVE  EffectivePrice(t, fee') = Expected(id, bf) \/ "fee" \in trouble'
    <3>1. t = x \/ t \in pool
      BY <2>2 DEF Admit
    <3>2. t \in pool => t.id \in Pooled
      BY DEF Pooled
    <3>3. t = x /\ fee' = fee
      BY <1>1, <1>6, <1>9, <2>6, <3>1, <3>2
    <3>4. QED
      BY <1>1, <2>5, <3>3
  <2>7. id \notin DOMAIN mined'
    BY <1>1, <1>6, <1>9
  <2>8. "fee" \in trouble' \/ Offered(pool', Front', fee', id, m)
    <3>1. x.cap >= fee => Offered(pool', Front, fee, x.id, x.nonce)
      BY <2>2, SendsOffer
    <3>2. QED
      BY <1>1, <2>2, <2>5, <3>1
  <2> HIDE DEF q
  <2>9. Line(pool', DOMAIN mined', Front', {q}, m)
    BY <2>2, <2>3
  <2>10. /\ Line(pool', DOMAIN mined', Front', {<<id, regs'[n]>>}, regs'[n])
         /\ "fee" \in trouble' \/ Offered(pool', Front', fee', id, regs'[n])
    BY <2>4, <2>8, <2>9 DEF q
  <2>11. \A t \in pool' : t.id = id =>
           EffectivePrice(t, fee') = Expected(id, regs'["bf"]) \/ "fee" \in trouble'
    BY <2>4, <2>6
  <2>12. QED
    BY <1>1, <1>9, <2>7, <2>10, <2>11 DEF ChargedAt, Queue, Sure
<1>10. CASE pc = o + 4
  <2>1. /\ id \in DOMAIN mined /\ Queue({q}, m) /\ UNCHANGED pool
        /\ mined[id].price = Expected(id, bf) \/ "fee" \in trouble
    BY <1>1, <1>3, <1>5, <1>10 DEF Passes, Found
  <2>2. regs'[n] = m /\ regs'["bf"] = bf
    BY <1>1, <1>2, <1>3, <1>10 DEF Readers, m, bf
  <2>3. Idle(m + 1)
    BY <1>2, <2>1, OneLanded DEF q
  <2>4. Line(pool', DOMAIN mined', Front', {}, regs'[n] + 1)
    BY <1>1, <2>1, <2>2, <2>3 DEF Idle, Queue
  <2>5. mined'[id].price = Expected(id, regs'["bf"]) \/ "fee" \in trouble'
    BY <1>1, <2>1, <2>2
  <2>6. QED
    BY <1>1, <1>10, <2>1, <2>4, <2>5 DEF ChargedAt, Idle, Queue
<1>11. CASE pc = o + 5
  <2>1. /\ id \in DOMAIN mined /\ Idle(m + 1) /\ UNCHANGED pool
        /\ mined[id].price = Expected(id, bf) \/ "fee" \in trouble
    BY <1>1, <1>3, <1>5, <1>11
  <2>2. regs'[n] = m /\ regs'["bf"] = bf
    BY <1>1, <1>2, <1>3, <1>4, <1>11 DEF Readers, m, bf
  <2>3. regs'["effective"] = mined[id].price
    <3>1. Ins.op \in Readers /\ Ins.into \in Regs /\ Ins.op # "later"
      BY <1>2, <1>3, <1>11 DEF Readers
    <3>2. Value(regs'[Ins.into])
      BY <1>1, <3>1, Reading
    <3>3. QED
      BY <1>3, <1>11, <3>2 DEF Value
  <2>4. Line(pool', DOMAIN mined', Front', {}, regs'[n] + 1)
    BY <1>1, <2>1, <2>2 DEF Idle, Queue
  <2>5. regs'["effective"] = Expected(id, regs'["bf"]) \/ "fee" \in trouble'
    BY <1>1, <2>1, <2>2, <2>3
  <2>6. QED
    BY <1>1, <1>11, <2>1, <2>4, <2>5 DEF ChargedAt, Idle, Queue
<1>12. CASE pc = o + 6
  <2>1. ChargedAt(o, past, n, id)'
    BY <1>1, <1>12 DEF ChargedAt
  <2>2. QED
    BY <1>5, <1>12, <2>1 DEF m
<1>13. CASE pc \notin o..o + 6
  BY <1>1, <1>13 DEF ChargedAt
<1>14. QED
  BY <1>1, <1>7, <1>8, <1>9, <1>10, <1>11, <1>12, <1>13

\* Where its last six sections begin.
LEMMA BoundariesSections ==
  LET s == nonce_fee_boundaries IN
  /\ EvictedBy(s, 23, "n3", "n4", "half", "half", "c4")
  /\ EvictedBy(s, 29, "n4", "n5", "under", "under", "c5")
  /\ ChargedBy(s, 35, "n5", "n6", "exact") /\ ChargedBy(s, 41, "n6", "n7", "legacy")
  /\ ChargedBy(s, 47, "n7", "n8", "double") /\ ChargedBy(s, 53, "n8", "n9", "tipped")
<1> DEFINE s == nonce_fee_boundaries
<1>1. EvictedBy(s, 23, "n3", "n4", "half", "half", "c4")
  BY BoundariesItems DEF EvictedBy, Await, Readers
<1>2. EvictedBy(s, 29, "n4", "n5", "under", "under", "c5")
  BY BoundariesItems DEF EvictedBy, Await, Readers
<1>3. ChargedBy(s, 35, "n5", "n6", "exact")
  BY BoundariesItems DEF ChargedBy, Await, Readers
<1>4. ChargedBy(s, 41, "n6", "n7", "legacy")
  BY BoundariesItems DEF ChargedBy, Await, Readers
<1>5. ChargedBy(s, 47, "n7", "n8", "double")
  BY BoundariesItems DEF ChargedBy, Await, Readers
<1>6. ChargedBy(s, 53, "n8", "n9", "tipped")
  BY BoundariesItems DEF ChargedBy, Await, Readers
<1>7. QED
  BY <1>1, <1>2, <1>3, <1>4, <1>5, <1>6

LEMMA RunsBoundaries ==
  ASSUME IInv, InOrder, General, BoundariesFacts, Runs
  PROVE  BoundariesFacts'
<1>1. SUFFICES ASSUME InUnit("boundaries", 1)' PROVE BoundariesFacts'
  BY DEF BoundariesFacts
<1>2. /\ InUnit("boundaries", 1) /\ pc \in 1..58 /\ pc' = pc + 1 /\ failed' = failed
      /\ Ins = nonce_fee_boundaries[pc] /\ regs \in [Regs -> Int]
      /\ Ins.op \notin Readers => \A r \in Regs : regs'[r] = regs[r]
      /\ Ins.op \in Readers /\ Ins.into \in Regs => \A r \in Regs : r # Ins.into => regs'[r] = regs[r]
  BY <1>1, BoundariesRuns
<1>3. /\ failed = {} /\ (pc <= 19 => regs["n3"] = -1)
      /\ FirstSections /\ TwinSections
      /\ EvictedAt(23, "n3", "n4", "half", "c4") /\ EvictedAt(29, "n4", "n5", "under", "c5")
      /\ ChargedAt(35, "n5", "n6", "exact") /\ ChargedAt(41, "n6", "n7", "legacy")
      /\ ChargedAt(47, "n7", "n8", "double") /\ ChargedAt(53, "n8", "n9", "tipped")
  BY <1>2 DEF BoundariesFacts
<1>4. {"n3", "n4", "n5", "n6", "n7", "n8", "n9"} \subseteq Regs
  BY DEF Regs
<1>5. FirstSections'
  BY <1>1, <1>2, <1>3, RunsOpening, RunsGap
<1>6. TwinSections' /\ (pc = 23 => Idle(regs["n3"] + 1))
  BY <1>1, <1>3, RunsTwin
<1>7. EvictedAt(23, "n3", "n4", "half", "c4")' /\ (pc = 29 => Idle(regs["n4"] + 1))
  <2>1. EvictedAt(23, "n3", "n4", "half", "c4")' /\ (pc = 23 + 6 => Idle(regs["n4"] + 1))
    BY <1>1, <1>3, <1>4, <1>6, BoundariesSections, RunsEvicted
  <2>2. QED
    BY <2>1
<1>8. EvictedAt(29, "n4", "n5", "under", "c5")' /\ (pc = 35 => Idle(regs["n5"] + 1))
  <2>1. EvictedAt(29, "n4", "n5", "under", "c5")' /\ (pc = 29 + 6 => Idle(regs["n5"] + 1))
    BY <1>1, <1>3, <1>4, <1>7, BoundariesSections, RunsEvicted
  <2>2. QED
    BY <2>1
<1>9. ChargedAt(35, "n5", "n6", "exact")' /\ (pc = 41 => Idle(regs["n6"] + 1))
  <2>1. ChargedAt(35, "n5", "n6", "exact")' /\ (pc = 35 + 6 => Idle(regs["n6"] + 1))
    BY <1>1, <1>3, <1>4, <1>8, BoundariesSections, RunsCharged
  <2>2. QED
    BY <2>1
<1>10. ChargedAt(41, "n6", "n7", "legacy")' /\ (pc = 47 => Idle(regs["n7"] + 1))
  <2>1. ChargedAt(41, "n6", "n7", "legacy")' /\ (pc = 41 + 6 => Idle(regs["n7"] + 1))
    BY <1>1, <1>3, <1>4, <1>9, BoundariesSections, RunsCharged
  <2>2. QED
    BY <2>1
<1>11. ChargedAt(47, "n7", "n8", "double")' /\ (pc = 53 => Idle(regs["n8"] + 1))
  <2>1. ChargedAt(47, "n7", "n8", "double")' /\ (pc = 47 + 6 => Idle(regs["n8"] + 1))
    BY <1>1, <1>3, <1>4, <1>10, BoundariesSections, RunsCharged
  <2>2. QED
    BY <2>1
<1>12. ChargedAt(53, "n8", "n9", "tipped")'
  BY <1>1, <1>3, <1>4, <1>11, BoundariesSections, RunsCharged
<1>13. pc' <= 19 => regs'["n3"] = -1
  <2>1. SUFFICES ASSUME pc <= 18 PROVE regs'["n3"] = regs["n3"]
    BY <1>2, <1>3
  <2>2. Ins.op \in Readers => pc \in {1, 2, 5, 14}
    BY <1>2, <2>1, BoundariesKinds
  <2>3. Ins.op \in Readers => Ins.into \in {"bf", "n0", "n1", "n2"}
    BY <1>2, <2>2, BoundariesItems DEF Fee, Advance
  <2>4. {"bf", "n0", "n1", "n2"} \subseteq Regs
    BY DEF Regs
  <2>5. QED
    BY <1>2, <1>4, <2>3, <2>4
<1>14. failed' = {}
  BY <1>2, <1>3
<1>15. QED
  BY <1>5, <1>6, <1>7, <1>8, <1>9, <1>10, <1>11, <1>12, <1>13, <1>14 DEF BoundariesFacts

LEMMA InitBoundaries == ASSUME IInv, Init PROVE BoundariesFacts
<1>1. /\ pool \in {{}, {[id |-> "stray", nonce |-> 0, cap |-> Ample, tip |-> Ample]}}
      /\ mined = [i \in {} |-> 0] /\ pc = 1 /\ failed = {} /\ regs = Fresh
  BY DEF Init
<1>2. DOMAIN mined = {} /\ Front = 0
  <2>1. DOMAIN mined = {}
    BY <1>1
  <2>2. QED
    BY <2>1, FrontLemma, FS_EmptySet
<1>3. Queue({<<"stray", 0>>}, 0)
  BY <1>1, <1>2 DEF Queue, Line
<1>4. regs["n3"] = -1
  BY <1>1 DEF Fresh, Regs
<1>5. QED
  BY <1>1, <1>3, <1>4 DEF BoundariesFacts, FirstSections, TwinSections, EvictedAt, ChargedAt

LEMMA NextBoundaries == ASSUME IInv, NextUnit PROVE BoundariesFacts'
<1>1. unit' = unit + 1 /\ unit \in Nat /\ unit >= 1
  BY PlanHere DEF NextUnit
<1>2. QED
  BY <1>1 DEF BoundariesFacts, InUnit
-----------------------------------------------------------------------------
(* A check that turns red has its excuse.                                    *)

Explained(c) == Excuse(c) \cap trouble # {}

LEMMA ExcuseValues ==
  /\ Excuses["raised"] = {"down", "b3a"} /\ Excuses["backUp"] = {"down"}
  /\ Excuses["receipt"] = {"lag", "late", "stray", "fee", "lingered"}
  /\ Excuses["gasPrice"] = {"fee"} /\ Excuses["pastGenesis"] = {"unsafe"} /\ Excuses["ahead"] = {"sealed"}
  /\ Excuses["behind"] = {"behind"} /\ Excuses["sequence"] = {"written"}
  /\ Excuses["pending"] = {"sealed"} /\ Excuses["index"] = {"late"} /\ Excuses["nonce"] = {"lag", "late"}
  /\ Excuses["balance"] = {"lag", "late", "stray"} /\ Excuses["headKept"] = {"cut"}
  /\ Excuses["resumes"] = {"idle"} /\ Excuses["code"] = {"lag"} /\ Excuses["sentMessages"] = {"lag"}
  /\ Excuses["slot"] = {"lag"} /\ Excuses["rootStable"] = {"idle"} /\ Excuses["messageNonce"] = {"lag"}
  /\ Excuses["mint"] = {"lag", "bridge"} /\ Excuses["burn"] = {"lag", "bridge"}
  /\ Excuses["stall"] = {"lag"} /\ Excuses["counter"] = {"lag"} /\ Excuses["absent"] = {"fee"}
  /\ Excuses["price"] = {"fee"}
BY DEF Excuses
LEMMA Explains ==
  ASSUME NEW c, c # "receipt", NEW t \in Excuses[c], t \in trouble'
  PROVE  Explained(c)'
BY DEF Explained, Excuse
LEMMA ExplainsReceipt ==
  ASSUME NEW t, t \in trouble',
         t \in {"late", "fee"} \/ (t \in {"lag", "stray", "lingered"} /\ regs'["n3"] = -1)
  PROVE  Explained("receipt")'
<1>1. Excuses["receipt"] = {"lag", "late", "stray", "fee", "lingered"}
  BY ExcuseValues
<1>2. QED
  BY <1>1 DEF Explained, Excuse

\* What a unit does with its own check: a cause, and more troubles.
LEMMA RedCause ==
  ASSUME IInv, Runs, NEW c \in failed' \ failed
  PROVE  /\ Cause(c) /\ trouble \subseteq trouble' /\ ~Finished /\ pc # End
         /\ UNCHANGED <<plan, unit, mined>>
         /\ Ins.op \notin Readers => \A r \in Regs : regs'[r] = regs[r]
<1>1. Cause(c)
  BY RunsEffect DEF Effect
<1>2. trouble \subseteq trouble' /\ ~Finished /\ pc # End /\ UNCHANGED <<plan, unit, mined>>
  BY RunsPool, RunsTells DEF Steps, Goes
<1>3. QED
  BY <1>1, <1>2, NotReading

\* A wait in vain on the next of a queue.
LEMMA InVain ==
  ASSUME IInv, trouble \subseteq trouble', NEW O, NEW lo \in Int, Queue(O, lo), NEW n \in Int, lo <= n,
         n <= Front, NEW id, Sure(id, n), \A o \in O : o[2] = n => o[1] \notin DOMAIN mined,
         "late" \in trouble' \/ ~Sealable(id)
  PROVE  {"late", "fee"} \cap trouble' # {}
<1>1. SUFFICES ASSUME "late" \notin trouble', "fee" \notin trouble PROVE FALSE
  OBVIOUS
<1>2. Offered(pool, Front, fee, id, n) /\ fee \in Int /\ fee >= fee
  BY <1>1, L2NodeAssumption DEF Sure, IInv, TypeOK
<1>3. Sealable(id)
  BY <1>2, Awaited
<1>4. QED
  BY <1>1, <1>3
\* One alone.
LEMMA OneInVain ==
  ASSUME IInv, trouble \subseteq trouble', NEW n \in Int, NEW id, Queue({<<id, n>>}, n), Sure(id, n),
         id \notin DOMAIN mined, "late" \in trouble' \/ ~Sealable(id)
  PROVE  {"late", "fee"} \cap trouble' # {}
<1>1. n <= n /\ n <= Front
  BY DEF Queue, Line
<1>2. \A o \in {<<id, n>>} : o[2] = n => o[1] \notin DOMAIN mined
  OBVIOUS
<1>3. QED
  BY <1>1, <1>2, InVain

\* nonce_fee_boundaries.sh waits in vain: in section 0, where an earlier run's transaction may be in
\* its place,
LEMMA OpeningReceipt ==
  ASSUME IInv, General, BoundariesFacts, InUnit("boundaries", 1), trouble \subseteq trouble', pc = 4,
         "c0" \notin DOMAIN mined, "late" \in trouble' \/ ~Sealable("c0")
  PROVE  {"late", "fee", "stray"} \cap trouble' # {}
<1> DEFINE n == regs["n0"]
<1>1. n \in Int
  BY DEF IInv, TypeOK, Regs
<1>2. Queue({<<"stray", 0>>, <<"c0", n>>}, 0) /\ Sure("c0", n) /\ 0 <= n /\ n <= Front
  BY DEF BoundariesFacts, FirstSections
<1> HIDE DEF n
<1>3. SUFFICES ASSUME "stray" \notin trouble PROVE {"late", "fee"} \cap trouble' # {}
  OBVIOUS
<1>4. \A o \in {<<"stray", 0>>, <<"c0", n>>} : o[2] = n => o[1] \notin DOMAIN mined
  BY <1>3 DEF General, Strays
<1>5. QED
  BY <1>1, <1>2, <1>4, InVain
\* in section 1, on three that are sealed in the order of their nonces,
LEMMA GapReceipt ==
  ASSUME IInv, BoundariesFacts, InUnit("boundaries", 1), trouble \subseteq trouble', pc \in 10..12,
         NEW id, Ins.op = "await", Ins.of = {id}, id \notin DOMAIN mined, "late" \in trouble' \/ ~Sealable(id)
  PROVE  {"late", "fee"} \cap trouble' # {}
<1> DEFINE n == regs["n1"]
           f == <<"first", n>>
           g == <<"second", n + 1>>
           h == <<"gap", n + 2>>
<1>1. n \in Int
  BY DEF IInv, TypeOK, Regs
<1>2. /\ Queue({f, g, h}, n) /\ Sure("first", n) /\ Sure("second", n + 1) /\ Sure("gap", n + 2)
      /\ pc > 10 => "first" \in DOMAIN mined
      /\ pc > 11 => "second" \in DOMAIN mined
  BY DEF BoundariesFacts, FirstSections
<1>3. \/ pc = 10 /\ id = "first"
      \/ pc = 11 /\ id = "second"
      \/ pc = 12 /\ id = "gap"
  <2>1. Ins = nonce_fee_boundaries[pc]
    BY BoundariesHere
  <2>2. /\ pc = 10 => Ins.of = {"first"}
        /\ pc = 11 => Ins.of = {"second"}
        /\ pc = 12 => Ins.of = {"gap"}
    BY <2>1, BoundariesItems DEF Await
  <2>3. QED
    BY <2>2
<1> HIDE DEF n
<1>4. n <= Front /\ Front \in Nat /\ \A o \in {f, g, h} : o[1] \in DOMAIN mined => o[2] < Front
  BY <1>2, FrontLemma DEF Queue, Line
<1>5. CASE id = "first"
  <2>1. \A o \in {f, g, h} : o[2] = n => o[1] \notin DOMAIN mined
    BY <1>1, <1>5
  <2>2. QED
    BY <1>1, <1>2, <1>4, <1>5, <2>1, InVain
<1>6. CASE id = "second"
  <2>1. \A o \in {f, g, h} : o[2] = n + 1 => o[1] \notin DOMAIN mined
    BY <1>1, <1>6
  <2>2. n < Front
    BY <1>2, <1>3, <1>4, <1>6
  <2>3. n + 1 \in Int /\ n <= n + 1 /\ n + 1 <= Front
    BY <1>1, <1>4, <2>2
  <2>4. QED
    BY <1>1, <1>2, <1>6, <2>1, <2>3, InVain
<1>7. CASE id = "gap"
  <2>1. \A o \in {f, g, h} : o[2] = n + 2 => o[1] \notin DOMAIN mined
    BY <1>1, <1>7
  <2>2. n + 1 < Front
    BY <1>2, <1>3, <1>4, <1>7
  <2>3. n + 2 \in Int /\ n <= n + 2 /\ n + 2 <= Front
    BY <1>1, <1>4, <2>2
  <2>4. QED
    BY <1>1, <1>2, <1>7, <2>1, <2>3, InVain
<1>8. QED
  BY <1>3, <1>5, <1>6, <1>7
\* in section 2, on one of two with the same nonce,
LEMMA TwinReceipt ==
  ASSUME IInv, BoundariesFacts, InUnit("boundaries", 1), trouble \subseteq trouble', pc = 17,
         {"twin1", "twin2"} \cap DOMAIN mined = {}, "late" \in trouble' \/ ~Sealable("twin2")
  PROVE  {"late", "fee", "lag"} \cap trouble' # {}
<1> DEFINE k == regs["n2"]
           lo == regs["n1"] + 3
           t == <<"twin1", k>>
           u == <<"twin2", k>>
<1>1. k \in Int /\ lo \in Int
  BY DEF IInv, TypeOK, Regs
<1>2. Queue({t, u}, lo) /\ Sure("twin2", k) /\ (k = lo \/ "lag" \in trouble)
  BY DEF BoundariesFacts, TwinSections
<1> HIDE DEF k, lo
<1>3. SUFFICES ASSUME k = lo PROVE {"late", "fee"} \cap trouble' # {}
  BY <1>2
<1>4. lo <= Front /\ \A o \in {t, u} : o[2] = k => o[1] \notin DOMAIN mined
  BY <1>2 DEF Queue, Line
<1>5. QED
  BY <1>1, <1>2, <1>3, <1>4, InVain
\* on a control transaction, which a price below the base fee kept its nonce for,
LEMMA ControlReceipt ==
  ASSUME IInv, trouble \subseteq trouble', NEW o \in Nat, NEW past \in Regs, NEW n \in Regs, NEW id,
         NEW control, EvictedAt(o, past, n, id, control), pc = o + 6,
         control \notin DOMAIN mined, "late" \in trouble' \/ ~Sealable(control)
  PROVE  {"late", "fee"} \cap trouble' # {}
<1> DEFINE m == regs[n]
           q == <<id, m>>
           c == <<control, m>>
<1>1. m \in Int
  BY DEF IInv, TypeOK
<1>2. Queue({q, c}, m) /\ Sure(control, m) /\ (id \in DOMAIN mined => "fee" \in trouble)
  BY DEF EvictedAt
<1> HIDE DEF m
<1>3. SUFFICES ASSUME "fee" \notin trouble PROVE {"late", "fee"} \cap trouble' # {}
  OBVIOUS
<1>4. m <= Front /\ m <= m
  BY <1>1, <1>2 DEF Queue, Line
<1>5. \A x \in {q, c} : x[2] = m => x[1] \notin DOMAIN mined
  BY <1>2, <1>3
<1>6. QED
  BY <1>1, <1>2, <1>4, <1>5, InVain
\* and on one that pays.
LEMMA ChargedReceipt ==
  ASSUME IInv, trouble \subseteq trouble', NEW o \in Nat, NEW past \in Regs, NEW n \in Regs, NEW id,
         ChargedAt(o, past, n, id), pc = o + 4, id \notin DOMAIN mined, "late" \in trouble' \/ ~Sealable(id)
  PROVE  {"late", "fee"} \cap trouble' # {}
<1>1. regs[n] \in Int /\ Queue({<<id, regs[n]>>}, regs[n]) /\ Sure(id, regs[n])
  BY DEF IInv, TypeOK, ChargedAt
<1>2. QED
  BY <1>1, OneInVain

\* Where nonce_fee_boundaries.sh waits, looks and checks.
LEMMA BoundariesWaits ==
  LET s == nonce_fee_boundaries IN
  \A i \in 1..59 :
    /\ s[i].op = "await" => i \in {4, 10, 11, 12, 17, 23, 29, 35, 39, 45, 51, 57}
    /\ s[i].op = "advance" => i \in {2, 5, 14, 19, 25, 31, 37, 43, 49, 55}
    /\ s[i].op = "absent" => i \in {7, 21, 27, 33}
    /\ s[i].op = "order" => i = 13
    /\ s[i].op = "one" => i = 18
    /\ s[i].op = "price" => i \in {41, 47, 53, 59}
    /\ s[i].op \notin {"check", "steps", "spent"}
BY BoundariesItems DEF Fee, Advance, Send, Await, AwaitOne, Absent, Field
\* A wait in vain there has its excuse.
LEMMA BoundariesReceipt ==
  ASSUME IInv, General, BoundariesFacts, InUnit("boundaries", 1), trouble \subseteq trouble',
         regs'["n3"] = regs["n3"], Ins.op = "await", ~Found,
         "late" \in trouble' \/ \A i \in Ins.of : ~Sealable(i)
  PROVE  Explained("receipt")'
<1>1. pc \in 1..59 /\ Ins = nonce_fee_boundaries[pc]
  BY BoundariesHere
<1>2. Ins.of \cap DOMAIN mined = {}
  BY DEF Found
<1>3. pc <= 19 => regs["n3"] = -1
  BY DEF BoundariesFacts
<1>4. pc \in {4, 10, 11, 12, 17, 23, 29, 35, 39, 45, 51, 57}
  BY <1>1, BoundariesWaits
<1>5. /\ pc = 4 => Ins.of = {"c0"}
      /\ pc = 17 => Ins.of = {"twin1", "twin2"}
      /\ pc = 23 => Ins.of = {"c3"}
      /\ pc = 29 => Ins.of = {"c4"}
      /\ pc = 35 => Ins.of = {"c5"}
      /\ pc = 39 => Ins.of = {"exact"}
      /\ pc = 45 => Ins.of = {"legacy"}
      /\ pc = 51 => Ins.of = {"double"}
      /\ pc = 57 => Ins.of = {"tipped"}
  BY <1>1, BoundariesItems DEF Await, AwaitOne
<1>6. /\ EvictedAt(23, "n3", "n4", "half", "c4") /\ EvictedAt(29, "n4", "n5", "under", "c5")
      /\ ChargedAt(35, "n5", "n6", "exact") /\ ChargedAt(41, "n6", "n7", "legacy")
      /\ ChargedAt(47, "n7", "n8", "double") /\ ChargedAt(53, "n8", "n9", "tipped")
      /\ pc = 23 => Queue({<<"c3", regs["n3"]>>}, regs["n3"]) /\ Sure("c3", regs["n3"])
  BY DEF BoundariesFacts, TwinSections
<1>7. {"n3", "n4", "n5", "n6", "n7", "n8", "n9"} \subseteq Regs /\ regs["n3"] \in Int
  BY DEF IInv, TypeOK, Regs
<1>8. pc = 4 => {"late", "fee", "stray"} \cap trouble' # {}
  BY <1>2, <1>5, OpeningReceipt
<1>9. pc \in 10..12 => {"late", "fee"} \cap trouble' # {}
  <2>1. /\ pc = 10 => Ins.of = {"first"}
        /\ pc = 11 => Ins.of = {"second"}
        /\ pc = 12 => Ins.of = {"gap"}
    BY <1>1, BoundariesItems DEF Await
  <2>2. pc = 10 => {"late", "fee"} \cap trouble' # {}
    BY <1>2, <2>1, GapReceipt
  <2>3. pc = 11 => {"late", "fee"} \cap trouble' # {}
    BY <1>2, <2>1, GapReceipt
  <2>4. pc = 12 => {"late", "fee"} \cap trouble' # {}
    BY <1>2, <2>1, GapReceipt
  <2>5. QED
    BY <2>2, <2>3, <2>4
<1>10. pc = 17 => {"late", "fee", "lag"} \cap trouble' # {}
  BY <1>2, <1>5, TwinReceipt
<1>11. pc = 23 => {"late", "fee"} \cap trouble' # {}
  BY <1>2, <1>5, <1>6, <1>7, OneInVain
<1>12. pc = 29 => {"late", "fee"} \cap trouble' # {}
  <2>1. pc = 29 => pc = 23 + 6 /\ "c4" \notin DOMAIN mined /\ ("late" \in trouble' \/ ~Sealable("c4"))
    BY <1>2, <1>5
  <2>2. QED
    BY <1>6, <1>7, <2>1, ControlReceipt
<1>13. pc = 35 => {"late", "fee"} \cap trouble' # {}
  <2>1. pc = 35 => pc = 29 + 6 /\ "c5" \notin DOMAIN mined /\ ("late" \in trouble' \/ ~Sealable("c5"))
    BY <1>2, <1>5
  <2>2. QED
    BY <1>6, <1>7, <2>1, ControlReceipt
<1>14. pc = 39 => {"late", "fee"} \cap trouble' # {}
  <2>1. pc = 39 => pc = 35 + 4 /\ "exact" \notin DOMAIN mined /\ ("late" \in trouble' \/ ~Sealable("exact"))
    BY <1>2, <1>5
  <2>2. QED
    BY <1>6, <1>7, <2>1, ChargedReceipt
<1>15. pc = 45 => {"late", "fee"} \cap trouble' # {}
  <2>1. pc = 45 => pc = 41 + 4 /\ "legacy" \notin DOMAIN mined /\ ("late" \in trouble' \/ ~Sealable("legacy"))
    BY <1>2, <1>5
  <2>2. QED
    BY <1>6, <1>7, <2>1, ChargedReceipt
<1>16. pc = 51 => {"late", "fee"} \cap trouble' # {}
  <2>1. pc = 51 => pc = 47 + 4 /\ "double" \notin DOMAIN mined /\ ("late" \in trouble' \/ ~Sealable("double"))
    BY <1>2, <1>5
  <2>2. QED
    BY <1>6, <1>7, <2>1, ChargedReceipt
<1>17. pc = 57 => {"late", "fee"} \cap trouble' # {}
  <2>1. pc = 57 => pc = 53 + 4 /\ "tipped" \notin DOMAIN mined /\ ("late" \in trouble' \/ ~Sealable("tipped"))
    BY <1>2, <1>5
  <2>2. QED
    BY <1>6, <1>7, <2>1, ChargedReceipt
<1>18. {"late", "fee"} \cap trouble' # {} \/ ({"lag", "stray"} \cap trouble' # {} /\ pc <= 19)
  BY <1>4, <1>8, <1>9, <1>10, <1>11, <1>12, <1>13, <1>14, <1>15, <1>16, <1>17
<1>19. QED
  BY <1>3, <1>18, ExplainsReceipt

\* wait_nonce_advance is called when the nonce has moved.
LEMMA BoundariesStall ==
  ASSUME IInv, General, BoundariesFacts, InUnit("boundaries", 1), Ins.op = "advance",
         ~(NonceAt(ledger) > regs[Ins.past])
  PROVE  NonceAt(ledger) # Front
<1>1. pc \in 1..59 /\ Ins = nonce_fee_boundaries[pc]
  BY BoundariesHere
<1>2. Front \in Nat /\ regs \in [Regs -> Int]
  BY FrontLemma DEF IInv, TypeOK
<1>3. pc \in {2, 5, 14, 19, 25, 31, 37, 43, 49, 55}
  BY <1>1, BoundariesWaits
<1>4. /\ pc = 2 => Ins.past = "none"
      /\ pc = 5 => Ins.past = "n0"
      /\ pc = 14 => Ins.past = "n1"
      /\ pc = 19 => Ins.past = "n2"
      /\ pc = 25 => Ins.past = "n3"
      /\ pc = 31 => Ins.past = "n4"
      /\ pc = 37 => Ins.past = "n5"
      /\ pc = 43 => Ins.past = "n6"
      /\ pc = 49 => Ins.past = "n7"
      /\ pc = 55 => Ins.past = "n8"
  BY <1>1, BoundariesItems DEF Advance
<1>5. /\ pc = 5 => Idle(regs["n0"] + 1)
      /\ pc = 14 => Idle(regs["n1"] + 3)
      /\ pc = 19 => Idle(regs["n2"] + 1)
      /\ pc = 25 => Idle(regs["n3"] + 1)
      /\ pc = 31 => Idle(regs["n4"] + 1)
      /\ pc = 37 => Idle(regs["n5"] + 1)
      /\ pc = 43 => Idle(regs["n6"] + 1)
      /\ pc = 49 => Idle(regs["n7"] + 1)
      /\ pc = 55 => Idle(regs["n8"] + 1)
  BY DEF BoundariesFacts, FirstSections, TwinSections, EvictedAt, ChargedAt
<1>6. {"none", "n0", "n1", "n2", "n3", "n4", "n5", "n6", "n7", "n8"} \subseteq Regs
  BY DEF Regs
<1>7. CASE pc = 2
  <2>1. regs[Ins.past] = -1
    BY <1>4, <1>7 DEF General, Constants
  <2>2. QED
    BY <1>2, <2>1
<1>8. CASE pc = 14
  <2>1. regs[Ins.past] \in Int /\ Idle(regs[Ins.past] + 3)
    BY <1>2, <1>4, <1>5, <1>6, <1>8
  <2>2. Front = regs[Ins.past] + 3
    BY <2>1, IdleLemma
  <2>3. QED
    BY <2>1, <2>2
<1>9. CASE pc \notin {2, 14}
  <2>1. regs[Ins.past] \in Int /\ Idle(regs[Ins.past] + 1)
    BY <1>2, <1>3, <1>4, <1>5, <1>6, <1>9
  <2>2. Front = regs[Ins.past] + 1
    BY <2>1, IdleLemma
  <2>3. QED
    BY <2>1, <2>2
<1>10. QED
  BY <1>7, <1>8, <1>9
\* What it looks for in vain is there only if the base fee has moved.
LEMMA BoundariesAbsent ==
  ASSUME IInv, LowRefused, BoundariesFacts, InUnit("boundaries", 1), Ins.op = "absent", Ins.of \in DOMAIN mined
  PROVE  "fee" \in trouble
<1>1. pc \in 1..59 /\ Ins = nonce_fee_boundaries[pc] /\ plan = "boundaries"
  BY BoundariesHere
<1>2. pc \in {7, 21, 27, 33}
  BY <1>1, BoundariesWaits
<1>3. /\ pc = 7 => Ins.of = "gap"
      /\ pc = 21 => Ins.of = "low"
      /\ pc = 27 => Ins.of = "half"
      /\ pc = 33 => Ins.of = "under"
  BY <1>1, BoundariesItems DEF Absent
<1>4. /\ pc = 27 /\ "half" \in DOMAIN mined => "fee" \in trouble
      /\ pc = 33 /\ "under" \in DOMAIN mined => "fee" \in trouble
  BY DEF BoundariesFacts, EvictedAt
<1>5. pc # 7
  <2> DEFINE n == regs["n1"]
             h == <<"gap", n + 2>>
  <2>1. SUFFICES ASSUME pc = 7 PROVE FALSE
    OBVIOUS
  <2>2. n \in Int /\ Front \in Nat
    BY FrontLemma DEF IInv, TypeOK, Regs
  <2>3. Queue({h}, n) /\ "gap" \in DOMAIN mined
    BY <1>3, <2>1 DEF BoundariesFacts, FirstSections
  <2> HIDE DEF n
  <2>4. n + 2 < Front /\ \A k \in n..(Front - 1) : \E o \in {h} : o[1] \in DOMAIN mined /\ o[2] = k
    BY <2>3 DEF Queue, Line
  <2>5. n \in n..(Front - 1)
    BY <2>2, <2>4
  <2>6. QED
    BY <2>2, <2>4, <2>5
<1>6. pc # 21
  BY <1>1, <1>3 DEF LowRefused
<1>7. QED
  BY <1>2, <1>3, <1>4, <1>5, <1>6

\* What it compares differs only if the base fee has moved.
LEMMA BoundariesChecked ==
  ASSUME IInv, BoundariesFacts, InUnit("boundaries", 1)
  PROVE  /\ Ins.op = "order" => Before(Ins.of[1], Ins.of[2]) /\ Before(Ins.of[2], Ins.of[3])
         /\ Ins.op = "one" => \E i \in Ins.of : Ins.of \cap DOMAIN mined = {i}
         /\ Ins.op = "price" => regs["effective"] = Expected(Ins.of, regs["bf"]) \/ "fee" \in trouble
<1>1. pc \in 1..59 /\ Ins = nonce_fee_boundaries[pc]
  BY BoundariesHere
<1>2. /\ Ins.op = "order" => pc = 13
      /\ Ins.op = "one" => pc = 18
      /\ Ins.op = "price" => pc \in {41, 47, 53, 59}
  BY <1>1, BoundariesWaits
<1>3. /\ pc = 13 => Ins.of = <<"first", "second", "gap">>
      /\ pc = 18 => Ins.of = {"twin1", "twin2"}
      /\ pc = 41 => Ins.of = "exact"
      /\ pc = 47 => Ins.of = "legacy"
      /\ pc = 53 => Ins.of = "double"
      /\ pc = 59 => Ins.of = "tipped"
  BY <1>1, BoundariesItems
<1>4. pc = 13 => Before("first", "second") /\ Before("second", "gap")
  BY DEF BoundariesFacts, FirstSections
<1>5. pc = 18 => \E i \in {"twin1", "twin2"} : {"twin1", "twin2"} \cap DOMAIN mined = {i}
  BY DEF BoundariesFacts, TwinSections
<1>6. /\ pc = 41 => regs["effective"] = Expected("exact", regs["bf"]) \/ "fee" \in trouble
      /\ pc = 47 => regs["effective"] = Expected("legacy", regs["bf"]) \/ "fee" \in trouble
      /\ pc = 53 => regs["effective"] = Expected("double", regs["bf"]) \/ "fee" \in trouble
      /\ pc = 59 => regs["effective"] = Expected("tipped", regs["bf"]) \/ "fee" \in trouble
  BY DEF BoundariesFacts, ChargedAt
<1>7. Ins.op = "order" => Before(Ins.of[1], Ins.of[2]) /\ Before(Ins.of[2], Ins.of[3])
  BY <1>2, <1>3, <1>4
<1>8. Ins.op = "one" => \E i \in Ins.of : Ins.of \cap DOMAIN mined = {i}
  BY <1>2, <1>3, <1>5
<1>9. Ins.op = "price" => regs["effective"] = Expected(Ins.of, regs["bf"]) \/ "fee" \in trouble
  BY <1>2, <1>3, <1>6
<1>10. QED
  BY <1>7, <1>8, <1>9

\* While it goes on it is in its unit.
LEMMA BoundariesGoes ==
  ASSUME IInv, plan = "boundaries", ~Finished, pc # End
  PROVE  InUnit("boundaries", 1)
<1>1. unit \in 1..Len(PlanOf[plan]) /\ Running = PlanOf[plan][unit] /\ Len(PlanOf[plan]) = 1
  BY PlanHere, SingleUnits
<1>2. unit = 1
  BY <1>1
<1>3. pc \in 1..(Len(Running.body) + 1) /\ pc # Len(Running.body) + 1 /\ Len(Running.body) \in Nat
  BY Here DEF End
<1>4. pc \in 1..Len(Running.body)
  BY <1>3
<1>5. QED
  BY <1>1, <1>2, <1>4 DEF InUnit

LEMMA BoundariesRed ==
  ASSUME IInv, General, LowRefused, BoundariesFacts, Runs, plan = "boundaries", NEW c \in failed' \ failed
  PROVE  Explained(c)'
<1>1. /\ Cause(c) /\ trouble \subseteq trouble' /\ ~Finished /\ pc # End
      /\ Ins.op \notin Readers => \A r \in Regs : regs'[r] = regs[r]
  BY RedCause
<1>2. InUnit("boundaries", 1)
  BY <1>1, BoundariesGoes
<1>3. Ins.op \notin {"check", "steps", "spent"}
  BY <1>2, BoundariesHere, BoundariesWaits
<1>4. CASE c = "raised" /\ {"down", "b3a"} \cap trouble' # {}
  BY <1>4, Explains, ExcuseValues
<1>5. CASE c = "backUp" /\ "down" \in trouble'
  BY <1>5, Explains, ExcuseValues
<1>6. CASE /\ c = "receipt" /\ Ins.op = "await" /\ ~Found
           /\ "late" \in trouble' \/ \A i \in Ins.of : ~Sealable(i)
  <2>1. regs'["n3"] = regs["n3"]
    BY <1>1, <1>6 DEF Readers, Regs
  <2>2. QED
    BY <1>1, <1>2, <1>6, <2>1, BoundariesReceipt
<1>7. CASE /\ c = "stall" /\ Ins.op = "advance" /\ ~(NonceAt(ledger) > regs[Ins.past])
           /\ NonceAt(ledger) = Front \/ "lag" \in trouble'
  <2>1. "lag" \in trouble'
    BY <1>2, <1>7, BoundariesStall
  <2>2. QED
    BY <1>7, <2>1, Explains, ExcuseValues
<1>8. CASE c = "absent" /\ Ins.op = "absent" /\ Ins.of \in DOMAIN mined
  <2>1. "fee" \in trouble'
    BY <1>1, <1>2, <1>8, BoundariesAbsent
  <2>2. QED
    BY <1>8, <2>1, Explains, ExcuseValues
<1>9. CASE Ins.op = "price" /\ c = "price" /\ regs["effective"] # Expected(Ins.of, regs["bf"])
  <2>1. "fee" \in trouble'
    BY <1>1, <1>2, <1>9, BoundariesChecked
  <2>2. QED
    BY <1>9, <2>1, Explains, ExcuseValues
<1>10. QED
  BY <1>1, <1>2, <1>3, <1>4, <1>5, <1>6, <1>7, <1>8, <1>9, BoundariesChecked DEF Cause

\* A comparison, or a call that finds nothing that answers.
LEMMA PlainRed ==
  ASSUME IInv, Runs, NEW c \in failed' \ failed,
         Ins.op \notin {"await", "advance", "absent", "steps", "order", "one", "price", "spent"},
         Ins.op = "check" => /\ Ins.name # "receipt"
                             /\ Holds(Ins) \/ \E t \in Excuses[Ins.name] : t \in trouble
  PROVE  Explained(c)'
<1>1. Cause(c) /\ trouble \subseteq trouble'
  BY RedCause
<1>2. CASE c = "raised" /\ {"down", "b3a"} \cap trouble' # {}
  BY <1>2, Explains, ExcuseValues
<1>3. CASE c = "backUp" /\ "down" \in trouble'
  BY <1>3, Explains, ExcuseValues
<1>4. CASE Ins.op = "check" /\ c = Ins.name /\ ~Holds(Ins)
  <2>1. c # "receipt" /\ \E t \in Excuses[c] : t \in trouble'
    BY <1>1, <1>4
  <2>2. QED
    BY <2>1, Explains
<1>5. QED
  BY <1>1, <1>2, <1>3, <1>4 DEF Cause
\* What a comparison comes to.
LEMMA Compared ==
  ASSUME regs \in [Regs -> Int], NEW name, NEW l \in Regs, NEW rel, NEW r \in Regs, NEW k \in Int,
         Ins = Check(name, l, rel, r, k)
  PROVE  /\ Ins.op = "check" /\ Ins.name = name
         /\ rel = "=" => (Holds(Ins) <=> regs[l] = regs[r] + k)
         /\ rel = ">" => (Holds(Ins) <=> regs[l] > regs[r] + k)
         /\ rel = ">=" => (Holds(Ins) <=> regs[l] >= regs[r] + k)
         /\ rel = "<=" => (Holds(Ins) <=> regs[l] <= regs[r] + k)
<1>1. /\ Ins.op = "check" /\ Ins.name = name /\ Ins.left = l /\ Ins.right = r /\ Ins.rel = rel /\ Ins.plus = k
  BY DEF Check
<1>2. QED
  BY <1>1 DEF Holds
\* A wait, where there is no n3.
LEMMA AwaitRed ==
  ASSUME IInv, General, Runs, plan # "boundaries", NEW c \in failed' \ failed, Ins.op = "await",
         trouble \subseteq trouble' /\ ~Found /\ ("late" \in trouble' \/ \A i \in Ins.of : ~Sealable(i)) =>
           {"late", "fee", "lag", "stray", "lingered"} \cap trouble' # {}
  PROVE  Explained(c)'
<1>1. /\ Cause(c) /\ trouble \subseteq trouble'
      /\ Ins.op \notin Readers => \A r \in Regs : regs'[r] = regs[r]
  BY RedCause
<1>2. regs'["n3"] = -1
  BY <1>1 DEF Readers, Regs, General, Constants
<1>3. CASE c = "raised" /\ {"down", "b3a"} \cap trouble' # {}
  BY <1>3, Explains, ExcuseValues
<1>4. CASE c = "backUp" /\ "down" \in trouble'
  BY <1>4, Explains, ExcuseValues
<1>5. CASE /\ c = "receipt" /\ Ins.op = "await" /\ ~Found
           /\ "late" \in trouble' \/ \A i \in Ins.of : ~Sealable(i)
  <2>1. PICK t \in trouble' : t \in {"late", "fee", "lag", "stray", "lingered"}
    BY <1>1, <1>5
  <2>2. QED
    BY <1>2, <1>5, <2>1, ExplainsReceipt
<1>6. QED
  BY <1>1, <1>3, <1>4, <1>5 DEF Cause

\* The read groups of rpc_matrix.py, and state_verify.py.
LEMMA ReadsRed ==
  ASSUME IInv, General, ReadsFacts, Runs, plan = "reads", NEW c \in failed' \ failed
  PROVE  Explained(c)'
<1>1. ~Finished /\ pc # End
  BY RedCause
<1>2. unit \in 1..9 /\ Running = reads[unit] /\ pc \in 1..Len(Running.body)
      /\ Running.body = PlanOf["reads"][unit].body
  <2>1. unit \in 1..Len(PlanOf[plan]) /\ Running = PlanOf[plan][unit] /\ pc \in 1..End
        /\ Len(Running.body) \in Nat /\ End = Len(Running.body) + 1
    BY <1>1, PlanHere, Here
  <2>2. QED
    BY <1>1, <2>1, PlanNames, ReadsUnits
<1>3. InUnit("reads", unit)
  BY <1>2 DEF InUnit
<1>4. {"gasPrice", "baseFee", "safe", "finalized", "num", "pending", "zero", "cn", "number"} \subseteq Regs
      /\ regs \in [Regs -> Int] /\ regs["zero"] = 0
  BY DEF IInv, TypeOK, Regs, General, Constants
<1> SUFFICES /\ Ins.op \notin {"await", "advance", "absent", "steps", "order", "one", "price", "spent"}
             /\ Ins.op = "check" => /\ Ins.name # "receipt"
                                    /\ Holds(Ins) \/ \E t \in Excuses[Ins.name] : t \in trouble
  BY PlainRed
<1>5. CASE unit \notin {3, 4, 9}
  BY <1>2, <1>5, ReadsUnits DEF DullBody, Dull, Ins
<1>6. CASE unit = 3
  <2>1. pc \in 1..5 /\ Ins = a2_chain[pc]
    BY <1>2, <1>6, ReadsUnits, ChainItems DEF Ins
  <2>2. pc = 4 => regs["gasPrice"] >= regs["baseFee"] \/ "fee" \in trouble
    BY <1>3, <1>6 DEF ReadsFacts, ChainFacts
  <2>3. pc = 4 => Ins = Check("gasPrice", "gasPrice", ">=", "baseFee", 0)
    BY <2>1, ChainItems
  <2>4. pc # 4 => Ins.op \in {"ask", "fee"}
    BY <2>1, ChainItems DEF Ask, Fee
  <2>5. pc = 4 => Ins.op = "check" /\ Ins.name = "gasPrice" /\ (Holds(Ins) \/ "fee" \in trouble)
    BY <1>4, <2>2, <2>3, Compared
  <2>6. QED
    BY <2>4, <2>5, ExcuseValues
<1>7. CASE unit = 4
  <2>1. pc \in 1..13 /\ Ins = a2_blocks[pc]
    BY <1>2, <1>7, ReadsUnits, BlocksItems DEF Ins
  <2>2. /\ pc > 3 => Resolved("safe", SafeWindow)
        /\ pc > 7 => Resolved("finalized", FinalizedWindow)
        /\ pc = 12 => regs["pending"] = regs["num"] \/ "sealed" \in trouble
    BY <1>3, <1>7 DEF ReadsFacts, BlocksFacts
  <2>3. ASSUME NEW tag \in {"safe", "finalized"}, NEW window \in Nat, Resolved(tag, window),
               Ins \in {Check("pastGenesis", tag, ">", "zero", 0), Check("behind", tag, ">=", "num", -window),
                        Check("ahead", tag, "<=", "num", 0)}
        PROVE  /\ Ins.op = "check" /\ Ins.name # "receipt"
               /\ Holds(Ins) \/ \E t \in Excuses[Ins.name] : t \in trouble
    <3>1. /\ tag \in Regs /\ -window \in Int
          /\ regs[tag] <= regs["num"] \/ "sealed" \in trouble
          /\ regs[tag] > 0 \/ "unsafe" \in trouble
          /\ regs[tag] >= regs["num"] - window \/ "behind" \in trouble
      BY <1>4, <2>3 DEF Resolved
    <3>2. CASE Ins = Check("pastGenesis", tag, ">", "zero", 0)
      <4>1. Ins.op = "check" /\ Ins.name = "pastGenesis" /\ (Holds(Ins) \/ "unsafe" \in trouble)
        BY <1>4, <3>1, <3>2, Compared
      <4>2. QED
        BY <4>1, ExcuseValues
    <3>3. CASE Ins = Check("behind", tag, ">=", "num", -window)
      <4>1. Ins.op = "check" /\ Ins.name = "behind" /\ (Holds(Ins) <=> regs[tag] >= regs["num"] + -window)
        BY <1>4, <3>1, <3>3, Compared
      <4>2. regs[tag] \in Int /\ regs["num"] \in Int
        BY <1>4, <3>1
      <4>3. Holds(Ins) \/ "behind" \in trouble
        BY <3>1, <4>1, <4>2
      <4>4. QED
        BY <4>1, <4>3, ExcuseValues
    <3>4. CASE Ins = Check("ahead", tag, "<=", "num", 0)
      <4>1. Ins.op = "check" /\ Ins.name = "ahead" /\ (Holds(Ins) \/ "sealed" \in trouble)
        BY <1>4, <3>1, <3>4, Compared
      <4>2. QED
        BY <4>1, ExcuseValues
    <3>5. QED
      BY <2>3, <3>2, <3>3, <3>4
  <2>4. CASE pc \in {4, 5, 6}
    <3>1. Ins \in {Check("pastGenesis", "safe", ">", "zero", 0),
                  Check("behind", "safe", ">=", "num", -SafeWindow), Check("ahead", "safe", "<=", "num", 0)}
      BY <2>1, <2>4, BlocksItems
    <3>2. QED
      BY <2>2, <2>3, <2>4, <3>1, WindowAssumption
  <2>5. CASE pc \in {8, 9, 10}
    <3>1. Ins \in {Check("pastGenesis", "finalized", ">", "zero", 0),
                  Check("behind", "finalized", ">=", "num", -FinalizedWindow),
                  Check("ahead", "finalized", "<=", "num", 0)}
      BY <2>1, <2>5, BlocksItems
    <3>2. QED
      BY <2>2, <2>3, <2>5, <3>1, WindowAssumption
  <2>6. CASE pc = 12
    <3>1. Ins = Check("pending", "pending", "=", "num", 0)
      BY <2>1, <2>6, BlocksItems
    <3>2. Ins.op = "check" /\ Ins.name = "pending" /\ (Holds(Ins) \/ "sealed" \in trouble)
      BY <1>4, <2>2, <2>6, <3>1, Compared
    <3>3. QED
      BY <3>2, ExcuseValues
  <2>7. CASE pc \notin {4, 5, 6, 8, 9, 10, 12}
    <3>1. Ins.op \in {"ask", "head", "tag"}
      BY <2>1, <2>7, BlocksItems DEF Ask, BlockNumber, Tag
    <3>2. QED
      BY <3>1
  <2>8. QED
    BY <2>4, <2>5, <2>6, <2>7
<1>8. CASE unit = 9
  <2> DEFINE s == b1_table_consistency \o b2_header_chain
  <2>1. Running.body = s
    BY <1>2, <1>8, ReadsUnits
  <2>2. Len(s) = 5 /\ s[3] = Check("currentNumber", "cn", ">=", "number", 0)
    BY TableItems
  <2>3. \A i \in 1..5 : i # 3 => s[i].op \in {"ask", "head", "table"}
    BY TableItems DEF Ask, BlockNumber, CurrentNumber
  <2> HIDE DEF s
  <2>4. pc \in 1..5 /\ Ins = s[pc]
    BY <1>2, <2>1, <2>2 DEF Ins
  <2>5. pc = 3 => regs["cn"] >= regs["number"]
    BY <1>3, <1>8 DEF ReadsFacts, TableFacts
  <2>6. pc = 3 => Ins.op = "check" /\ Ins.name # "receipt" /\ Holds(Ins)
    BY <1>4, <2>2, <2>4, <2>5, Compared
  <2>7. QED
    BY <2>3, <2>4, <2>6
<1>9. QED
  BY <1>2, <1>5, <1>6, <1>7, <1>8

\* The scripts that send one transaction at a time wait in vain.
LEMMA SoloReceipt ==
  ASSUME IInv, SoloFacts, NEW p \in {"predeploys", "scenarios"}, InUnit(p, 1), SoloScript(PlanOf[p][1].body),
         Ins = PlanOf[p][1].body[pc], Ins.op = "await", trouble \subseteq trouble', ~Found,
         "late" \in trouble' \/ \A i \in Ins.of : ~Sealable(i)
  PROVE  {"late", "fee", "lag", "stray", "lingered"} \cap trouble' # {}
<1>1. SUFFICES ASSUME ~Excused PROVE {"late", "fee"} \cap trouble' # {}
  BY DEF Excused, Noted
<1>2. \A id \in Ins.of : Queue({<<id, regs["nonce"]>>}, regs["nonce"]) /\ Sure(id, regs["nonce"])
  BY <1>1 DEF SoloFacts, OneAtATime, InUnit
<1>3. PICK id : Ins.of = {id}
  BY DEF SoloScript, InUnit
<1>4. id \in Ins.of /\ id \notin DOMAIN mined /\ ("late" \in trouble' \/ ~Sealable(id))
  BY <1>3 DEF Found
<1>5. regs["nonce"] \in Int
  BY DEF IInv, TypeOK, Regs
<1>6. QED
  BY <1>2, <1>4, <1>5, OneInVain

LEMMA ScenariosRed ==
  ASSUME IInv, General, SoloFacts, ScenarioFacts, Runs, plan = "scenarios", NEW c \in failed' \ failed
  PROVE  Explained(c)'
<1> DEFINE s == l2_tx_scenarios
<1>1. ~Finished /\ pc # End
  BY RedCause
<1>2. /\ unit = 1 /\ InUnit("scenarios", 1) /\ SoloScript(Running.body) /\ Running.body = s
      /\ PlanOf["scenarios"][1].body = s /\ pc \in 1..20 /\ Ins = s[pc]
  BY <1>1, InSolo, SingleUnits, ScenarioItems DEF Ins
<1>3. /\ s[5] = Check("code", "code", "=", "one", 0)
      /\ s[14] = Check("counter", "counter1", "=", "one", 0)
      /\ s[15] = Check("counter", "counter2", "=", "one", 1)
      /\ s[20] = Check("counter", "counter3", "=", "one", 1)
  BY ScenarioItems
<1>4. \A i \in 1..20 : i \notin {5, 14, 15, 20} => s[i].op \in {"nonce", "send", "await", "count"}
  BY ScenarioItems DEF Nonce, Send, Await, Count
<1>5. /\ {"code", "one", "counter1", "counter2", "counter3"} \subseteq Regs
      /\ regs \in [Regs -> Int] /\ regs["one"] = 1
  BY DEF IInv, TypeOK, Regs, General, Constants
<1> HIDE DEF s
<1>6. CASE Ins.op = "await"
  <2>1. SoloScript(PlanOf["scenarios"][1].body) /\ Ins = PlanOf["scenarios"][1].body[pc]
    BY <1>2
  <2>2. trouble \subseteq trouble' /\ ~Found /\ ("late" \in trouble' \/ \A i \in Ins.of : ~Sealable(i)) =>
          {"late", "fee", "lag", "stray", "lingered"} \cap trouble' # {}
    BY <1>2, <1>6, <2>1, SoloReceipt
  <2>3. QED
    BY <1>6, <2>2, AwaitRed
<1>7. CASE pc \notin {5, 14, 15, 20} /\ Ins.op # "await"
  BY <1>2, <1>4, <1>7, PlainRed
<1>8. CASE pc \in {5, 14, 15, 20}
  <2>1. /\ regs["code"] = 1 \/ "lag" \in trouble \/ pc # 5
        /\ regs["counter1"] = 1 \/ "lag" \in trouble \/ pc # 14
        /\ regs["counter2"] = 2 \/ "lag" \in trouble \/ pc # 15
        /\ regs["counter3"] = 2 \/ "lag" \in trouble \/ pc # 20
    BY <1>2 DEF ScenarioFacts, Read
  <2>2. pc = 5 => Ins.op = "check" /\ Ins.name = "code" /\ (Holds(Ins) \/ "lag" \in trouble)
    BY <1>2, <1>3, <1>5, <2>1, Compared
  <2>3. pc = 14 => Ins.op = "check" /\ Ins.name = "counter" /\ (Holds(Ins) \/ "lag" \in trouble)
    BY <1>2, <1>3, <1>5, <2>1, Compared
  <2>4. pc = 15 => Ins.op = "check" /\ Ins.name = "counter" /\ (Holds(Ins) \/ "lag" \in trouble)
    BY <1>2, <1>3, <1>5, <2>1, Compared
  <2>5. pc = 20 => Ins.op = "check" /\ Ins.name = "counter" /\ (Holds(Ins) \/ "lag" \in trouble)
    BY <1>2, <1>3, <1>5, <2>1, Compared
  <2>6. QED
    BY <1>8, <2>2, <2>3, <2>4, <2>5, ExcuseValues, PlainRed
<1>9. QED
  BY <1>6, <1>7, <1>8

LEMMA PredeploysRed ==
  ASSUME IInv, General, SoloFacts, PredeployFacts, Runs, plan = "predeploys", NEW c \in failed' \ failed
  PROVE  Explained(c)'
<1> DEFINE s == predeploy_matrix
<1>1. ~Finished /\ pc # End
  BY RedCause
<1>2. CASE unit = 2 /\ Ins.op \in Dull
  BY <1>2, PlainRed DEF Dull
<1>3. SUFFICES ASSUME unit = 1, InUnit("predeploys", 1), SoloScript(Running.body),
                      Running.body = PlanOf["predeploys"][1].body
               PROVE  Explained(c)'
  BY <1>1, <1>2, InSolo
<1>4. Running.body = s /\ PlanOf["predeploys"][1].body = s /\ pc \in 1..52 /\ Ins = s[pc]
  BY <1>3, PredeploysUnits, PlanNames, PredeployItems DEF Ins, InUnit
<1>5. /\ s[17] = Check("sentMessages", "sm", "=", "one", 0)
      /\ s[20] = Check("rootChanges", "root_at", ">", "root_before", 0)
      /\ s[22] = Check("slot", "sv", "=", "one", 0)
      /\ s[25] = Check("rootStable", "stable_root", "=", "root_at", 0)
      /\ s[33] = Check("messageNonce", "nonce1", "=", "nonce0", 1)
      /\ s[42] = Check("mint", "bal1", "=", "bal0", 1)
      /\ s[48] = Check("burn", "bal3", "=", "bal2", 1)
  BY PredeployItems
<1>6. \A i \in 1..52 : i \notin {4, 17, 20, 22, 25, 33, 42, 48} =>
        s[i].op \in {"ask", "head", "seq", "root", "nonce", "send", "await", "count", "field", "later"}
  BY PredeployItems
     DEF Ask, SequenceNumber, BlockNumber, Root, Nonce, Send, Await, Count, Field, LaterBlock
<1>7. /\ {"sm", "one", "root_at", "root_before", "sv", "stable_root", "nonce1", "nonce0", "bal0", "bal1",
          "bal2", "bal3"} \subseteq Regs
      /\ regs \in [Regs -> Int] /\ regs["one"] = 1
  BY DEF IInv, TypeOK, Regs, General, Constants
<1> HIDE DEF s
<1>8. CASE Ins.op = "await"
  <2>1. SoloScript(PlanOf["predeploys"][1].body) /\ Ins = PlanOf["predeploys"][1].body[pc]
    BY <1>3, <1>4
  <2>2. trouble \subseteq trouble' /\ ~Found /\ ("late" \in trouble' \/ \A i \in Ins.of : ~Sealable(i)) =>
          {"late", "fee", "lag", "stray", "lingered"} \cap trouble' # {}
    BY <1>3, <1>8, <2>1, SoloReceipt
  <2>3. QED
    BY <1>8, <2>2, AwaitRed
<1>9. CASE pc \notin {4, 17, 20, 22, 25, 33, 42, 48} /\ Ins.op # "await"
  BY <1>4, <1>6, <1>9, PlainRed
<1>10. CASE pc \in {17, 20, 22, 25, 33, 42, 48}
  <2>1. /\ pc > 16 => regs["sm"] = 1 \/ "lag" \in trouble
        /\ pc > 12 => regs["root_before"] <= 0
        /\ pc > 19 => regs["root_at"] = 1
        /\ pc > 21 => regs["sv"] = 1 \/ "lag" \in trouble
        /\ pc > 24 => regs["stable_root"] = 1 \/ "idle" \in trouble
        /\ pc > 28 => regs["nonce0"] = 0 \/ "lag" \in trouble
        /\ pc > 32 => regs["nonce1"] = 1 \/ "lag" \in trouble
        /\ pc > 37 => regs["bal0"] = 0 \/ "lag" \in trouble
        /\ pc > 41 => regs["bal1"] = 1 \/ {"lag", "bridge"} \cap trouble # {}
        /\ pc > 43 => regs["bal2"] = 0 \/ "lag" \in trouble
        /\ pc > 47 => regs["bal3"] = 1 \/ {"lag", "bridge"} \cap trouble # {}
    BY <1>3 DEF PredeployFacts, Read
  <2>2. pc = 17 => Ins.op = "check" /\ Ins.name = "sentMessages" /\ (Holds(Ins) \/ "lag" \in trouble)
    BY <1>4, <1>5, <1>7, <2>1, Compared
  <2>3. pc = 20 => Ins.op = "check" /\ Ins.name = "rootChanges" /\ Holds(Ins)
    BY <1>4, <1>5, <1>7, <2>1, Compared
  <2>4. pc = 22 => Ins.op = "check" /\ Ins.name = "slot" /\ (Holds(Ins) \/ "lag" \in trouble)
    BY <1>4, <1>5, <1>7, <2>1, Compared
  <2>5. pc = 25 => Ins.op = "check" /\ Ins.name = "rootStable" /\ (Holds(Ins) \/ "idle" \in trouble)
    BY <1>4, <1>5, <1>7, <2>1, Compared
  <2>6. pc = 33 => Ins.op = "check" /\ Ins.name = "messageNonce" /\ (Holds(Ins) \/ "lag" \in trouble)
    BY <1>4, <1>5, <1>7, <2>1, Compared
  <2>7. pc = 42 => Ins.op = "check" /\ Ins.name = "mint" /\ (Holds(Ins) \/ {"lag", "bridge"} \cap trouble # {})
    BY <1>4, <1>5, <1>7, <2>1, Compared
  <2>8. pc = 48 => Ins.op = "check" /\ Ins.name = "burn" /\ (Holds(Ins) \/ {"lag", "bridge"} \cap trouble # {})
    BY <1>4, <1>5, <1>7, <2>1, Compared
  <2>9. Ins.op = "check" /\ Ins.name # "receipt"
    BY <1>10, <2>2, <2>3, <2>4, <2>5, <2>6, <2>7, <2>8
  <2>10. Holds(Ins) \/ \E t \in Excuses[Ins.name] : t \in trouble
    BY <1>10, <2>2, <2>3, <2>4, <2>5, <2>6, <2>7, <2>8, ExcuseValues
  <2>11. QED
    BY <2>9, <2>10, PlainRed
<1>11. CASE pc = 4
  <2>1. s[4] = [Check("sequence", "seq1", "=", "seq0", 1) EXCEPT !.op = "steps"]
    BY PredeployItems DEF s
  <2>2. /\ Ins.op = "steps" /\ Ins.name = "sequence" /\ Ins.left = "seq1" /\ Ins.right = "seq0"
    BY <1>4, <1>11, <2>1 DEF Check
  <2>3. (regs["seq0"] = 0 /\ regs["seq1"] = 0) \/ "written" \in trouble
    BY <1>3, <1>11 DEF PredeployFacts
  <2>4. Cause(c) /\ trouble \subseteq trouble'
    BY RedCause
  <2>5. CASE c = "raised" /\ {"down", "b3a"} \cap trouble' # {}
    BY <2>5, Explains, ExcuseValues
  <2>6. CASE c = "backUp" /\ "down" \in trouble'
    BY <2>6, Explains, ExcuseValues
  <2>7. CASE c = "sequence" /\ ~(regs["seq1"] = 0 /\ regs["seq0"] = 0)
    <3>1. "written" \in trouble'
      BY <2>3, <2>4, <2>7
    <3>2. QED
      BY <2>7, <3>1, Explains, ExcuseValues
  <2>8. QED
    BY <2>2, <2>4, <2>5, <2>6, <2>7 DEF Cause
<1>12. QED
  BY <1>8, <1>9, <1>10, <1>11

\* chain_driver.py.
LEMMA DriverRed ==
  ASSUME IInv, General, DriverFacts, Runs, InUnit("transactions", 1), NEW c \in failed' \ failed
  PROVE  Explained(c)'
<1> DEFINE s == chain_driver
<1>1. /\ plan = "transactions" /\ pc \in 1..19 /\ Ins = s[pc] /\ Cause(c) /\ trouble \subseteq trouble'
      /\ Ins.op \notin Readers => \A r \in Regs : regs'[r] = regs[r]
  BY DriverHere, RedCause
<1>2. /\ s[7] = Check("index", "index", "=", "one", 0) /\ s[12] = Check("index", "index", "=", "one", 0)
      /\ s[16] = Check("nonce", "nonce1", "=", "nonce0", 2)
      /\ s[17] = [Check("balance", "bal1", "=", "bal0", 2) EXCEPT !.op = "spent"]
      /\ s[19] = Check("head", "head", ">=", "prev_head", 0)
  BY DriverItems
<1>3. \A i \in 1..19 : i \notin {7, 12, 16, 17, 19} => s[i].op \in {"ask", "nonce", "send", "await", "field", "head"}
  BY DriverItems DEF Ask, Nonce, Send, Await, Field, BlockNumber
<1>4. /\ {"index", "one", "nonce1", "nonce0", "bal1", "bal0", "head", "prev_head"} \subseteq Regs
      /\ regs \in [Regs -> Int] /\ regs["one"] = 1
  BY DEF IInv, TypeOK, Regs, General, Constants
<1>5. /\ pc \in {7, 12} => regs["index"] = 1 \/ "late" \in trouble
      /\ pc > 2 => (regs["nonce0"] = 0 /\ regs["bal0"] = 0) \/ "stray" \in trouble
      /\ pc > 14 => regs["bal1"] = regs["nonce0"] + 2 \/ {"lag", "late"} \cap trouble # {}
      /\ pc > 15 => regs["nonce1"] = regs["nonce0"] + 2 \/ {"lag", "late"} \cap trouble # {}
      /\ pc > 18 => regs["prev_head"] <= regs["head"]
  BY DEF DriverFacts, DriverReads, Noted
<1> HIDE DEF s
<1>6. CASE Ins.op = "await"
  <2>1. trouble \subseteq trouble' /\ ~Found /\ ("late" \in trouble' \/ \A i \in Ins.of : ~Sealable(i)) =>
          Noted({"late", "stray"})'
    BY <1>6, DriverReceipt
  <2>2. trouble \subseteq trouble' /\ ~Found /\ ("late" \in trouble' \/ \A i \in Ins.of : ~Sealable(i)) =>
          {"late", "fee", "lag", "stray", "lingered"} \cap trouble' # {}
    BY <2>1 DEF Noted
  <2>3. QED
    BY <1>1, <1>6, <2>2, AwaitRed
<1>7. CASE pc \notin {7, 12, 16, 17, 19} /\ Ins.op # "await"
  BY <1>1, <1>3, <1>7, PlainRed
<1>8. CASE pc \in {7, 12, 16, 19}
  <2>1. pc \in {7, 12} => Ins.op = "check" /\ Ins.name = "index" /\ (Holds(Ins) \/ "late" \in trouble)
    BY <1>1, <1>2, <1>4, <1>5, Compared
  <2>2. pc = 16 => Ins.op = "check" /\ Ins.name = "nonce" /\ (Holds(Ins) \/ {"lag", "late"} \cap trouble # {})
    BY <1>1, <1>2, <1>4, <1>5, Compared
  <2>3. pc = 19 => Ins.op = "check" /\ Ins.name = "head" /\ Holds(Ins)
    BY <1>1, <1>2, <1>4, <1>5, Compared
  <2>4. QED
    BY <1>8, <2>1, <2>2, <2>3, ExcuseValues, PlainRed
<1>9. CASE pc = 17
  <2>1. /\ Ins.op = "spent" /\ Ins.name = "balance" /\ Ins.left = "bal1" /\ Ins.right = "bal0"
        /\ Ins.rel = "=" /\ Ins.plus = 2
    BY <1>1, <1>2, <1>9 DEF Check
  <2>2. Holds(Ins) <=> regs["bal1"] = regs["bal0"] + 2
    BY <2>1 DEF Holds
  <2>3. Holds(Ins) \/ {"lag", "late", "stray"} \cap trouble # {}
    BY <1>4, <1>5, <1>9, <2>2
  <2>4. "receipt" \in failed => {"lag", "late", "stray"} \cap trouble # {}
    BY <1>1 DEF DriverFacts, DriverLeaves, Noted, InUnit
  <2>5. CASE c = "raised" /\ {"down", "b3a"} \cap trouble' # {}
    BY <2>5, Explains, ExcuseValues
  <2>6. CASE c = "backUp" /\ "down" \in trouble'
    BY <2>6, Explains, ExcuseValues
  <2>7. CASE c = Ins.name /\ ~(Holds(Ins) /\ "receipt" \notin failed)
    <3>1. {"lag", "late", "stray"} \cap trouble' # {} /\ c = "balance"
      BY <1>1, <2>1, <2>3, <2>4, <2>7
    <3>2. QED
      BY <3>1, Explains, ExcuseValues
  <2>8. QED
    BY <1>1, <2>1, <2>5, <2>6, <2>7 DEF Cause
<1>10. QED
  BY <1>6, <1>7, <1>8, <1>9

\* b4_persist.py.
LEMMA PersistRed ==
  ASSUME IInv, PersistFacts, Runs, InUnit("transactions", 2), pc \in 1..8, Ins = b4_persist[pc],
         NEW c \in failed' \ failed
  PROVE  Explained(c)'
<1> DEFINE s == b4_persist
<1>1. /\ s[6] = Check("headKept", "h2", ">=", "h1", 0) /\ s[8] = Check("resumes", "h3", ">", "h2", 0)
      /\ \A i \in 1..8 : i \notin {6, 8} => s[i].op \in {"head", "kill", "gone", "launch", "retry", "later"}
  BY DEF b4_persist, restart_b3, BlockNumber, AnyHead, LaterBlock
<1>2. {"h1", "h2", "h3"} \subseteq Regs /\ regs \in [Regs -> Int]
  BY DEF IInv, TypeOK, Regs
<1>3. /\ pc = 6 => regs["h2"] >= regs["h1"] \/ "cut" \in trouble
      /\ pc = 8 => regs["h3"] > regs["h2"] \/ "idle" \in trouble
  BY DEF PersistFacts
<1>4. Ins = s[pc]
  OBVIOUS
<1> HIDE DEF s
<1>5. pc = 6 => Ins.op = "check" /\ Ins.name = "headKept" /\ (Holds(Ins) \/ "cut" \in trouble)
  BY <1>1, <1>2, <1>3, <1>4, Compared
<1>6. pc = 8 => Ins.op = "check" /\ Ins.name = "resumes" /\ (Holds(Ins) \/ "idle" \in trouble)
  BY <1>1, <1>2, <1>3, <1>4, Compared
<1>7. pc \notin {6, 8} => Ins.op \in {"head", "kill", "gone", "launch", "retry", "later"}
  BY <1>1, <1>4
<1>8. QED
  BY <1>5, <1>6, <1>7, ExcuseValues, PlainRed

\* b3_contracts.py.
LEMMA ContractsRed ==
  ASSUME IInv, General, ContractsFacts, Runs, InUnit("transactions", 3), NEW c \in failed' \ failed
  PROVE  Explained(c)'
<1> DEFINE s == b3_contracts
           n == regs["nonce"]
<1>1. plan = "transactions" /\ pc \in 1..9 /\ Ins = s[pc]
  BY ContractsHere
<1>2. /\ s[3] = Await("store", 2) /\ s[7] = Await("revert", 2)
      /\ s[5] = Check("code", "code", "=", "one", 0) /\ s[9] = Check("code", "code", "=", "one", 0)
      /\ \A i \in 1..9 : i \notin {3, 5, 7, 9} => s[i].op \in {"nonce", "send", "count"}
  BY ContractsItems DEF Nonce, Send, Count
<1>3. {"code", "one", "nonce"} \subseteq Regs /\ regs \in [Regs -> Int] /\ regs["one"] = 1
  BY DEF IInv, TypeOK, Regs, General, Constants
<1>4. pc \in {5, 9} => regs["code"] = 1 \/ "lag" \in trouble
  BY DEF ContractsFacts, ContractsLands
<1>5. \/ Noted({"stray", "late", "lingered", "lag"})
      \/ /\ pc = 3 => Queue({<<"store", n>>}, n) /\ Ready("store", n)
         /\ pc = 7 => Queue({<<"revert", n + 1>>}, n + 1) /\ Ready("revert", n + 1)
  BY DEF ContractsFacts, ContractsSends
<1>6. n \in Int /\ n + 1 \in Int
  BY <1>3
<1> HIDE DEF s, n
<1>7. CASE pc \in {3, 7}
  <2>1. /\ Ins.op = "await"
        /\ pc = 3 => Ins.of = {"store"}
        /\ pc = 7 => Ins.of = {"revert"}
    BY <1>1, <1>2, <1>7 DEF Await
  <2>2. ASSUME trouble \subseteq trouble', ~Found, "late" \in trouble' \/ \A i \in Ins.of : ~Sealable(i)
        PROVE  {"late", "fee", "lag", "stray", "lingered"} \cap trouble' # {}
    <3>1. SUFFICES ASSUME ~Noted({"stray", "late", "lingered", "lag"}), "late" \notin trouble' PROVE FALSE
      BY <2>2 DEF Noted
    <3>2. pc = 3 => Sealable("store")
      BY <1>5, <1>6, <2>1, <2>2, <3>1, OneAwaited DEF Found
    <3>3. pc = 7 => Sealable("revert")
      BY <1>5, <1>6, <2>1, <2>2, <3>1, OneAwaited DEF Found
    <3>4. QED
      BY <1>7, <2>1, <2>2, <3>1, <3>2, <3>3
  <2>3. trouble \subseteq trouble' /\ ~Found /\ ("late" \in trouble' \/ \A i \in Ins.of : ~Sealable(i)) =>
          {"late", "fee", "lag", "stray", "lingered"} \cap trouble' # {}
    BY <2>2
  <2>4. QED
    BY <1>1, <2>1, <2>3, AwaitRed
<1>8. CASE pc \in {5, 9}
  <2>1. Ins.op = "check" /\ Ins.name = "code" /\ (Holds(Ins) \/ "lag" \in trouble)
    BY <1>1, <1>2, <1>3, <1>4, <1>8, Compared
  <2>2. QED
    BY <2>1, ExcuseValues, PlainRed
<1>9. CASE pc \notin {3, 5, 7, 9}
  BY <1>1, <1>2, <1>9, PlainRed
<1>10. QED
  BY <1>7, <1>8, <1>9

LEMMA TransactionsRed ==
  ASSUME IInv, General, DriverFacts, PersistFacts, ContractsFacts, Runs, plan = "transactions",
         NEW c \in failed' \ failed
  PROVE  Explained(c)'
<1>1. ~Finished /\ pc # End
  BY RedCause
<1>2. /\ unit \in {1, 2, 3}
      /\ unit = 1 => pc \in 1..19
      /\ unit = 2 => pc \in 1..8 /\ Ins = b4_persist[pc]
      /\ unit = 3 => pc \in 1..9
  BY <1>1, TransactionsHere
<1>3. InUnit("transactions", unit)
  BY <1>2, TransactionsBodies DEF InUnit
<1>4. QED
  BY <1>2, <1>3, DriverRed, PersistRed, ContractsRed

\* The inductive invariant of why a check is red.
RInv ==
  /\ General /\ ReadsFacts /\ Procs /\ DriverFacts /\ PersistFacts /\ ContractsFacts
  /\ SoloFacts /\ PredeployFacts /\ ScenarioFacts /\ BoundariesFacts
  /\ RedMeansTrouble

LEMMA InitRed == ASSUME IInv, Init PROVE RInv
<1>1. pc = 1 /\ unit = 1 /\ failed = {}
  BY DEF Init
<1>2. ReadsFacts /\ RedMeansTrouble
  BY <1>1 DEF ReadsFacts, ChainFacts, BlocksFacts, TableFacts, InUnit, RedMeansTrouble
<1>3. QED
  BY <1>2, InitGeneral, InitProcs, InitDriver, InitContracts, InitSolo, InitReads, InitBoundaries DEF RInv

LEMMA NextRed == ASSUME IInv, RInv, NextUnit PROVE RInv'
<1>1. failed' = {}
  BY DEF NextUnit
<1>2. RedMeansTrouble'
  BY <1>1 DEF RedMeansTrouble
<1>3. General' /\ ReadsFacts' /\ Procs' /\ PredeployFacts' /\ ScenarioFacts' /\ SoloFacts'
  BY NextGeneral, NextReads, NextProcs, NextSolo DEF RInv
<1>4. DriverFacts' /\ ContractsFacts' /\ PersistFacts' /\ BoundariesFacts'
  BY NextDriver, NextContracts, NextBoundaries DEF RInv
<1>5. QED
  BY <1>2, <1>3, <1>4 DEF RInv

\* What is red stays excused: the troubles of a unit only grow, and nonce_fee_boundaries.sh has
\* nothing red while it runs.
LEMMA StaysExcused ==
  ASSUME regs'["n3"] = regs["n3"], trouble \subseteq trouble', NEW c, Explained(c)
  PROVE  Explained(c)'
BY DEF Explained, Excuse

LEMMA NodeRed == ASSUME IInv, IInv', InOrder, RInv, Node PROVE RInv'
<1>1. General' /\ ReadsFacts' /\ Procs' /\ SoloFacts' /\ PredeployFacts' /\ ScenarioFacts'
  BY NodeGeneral, NodeReads, NodeProcs, NodeSolo, NodePredeploys, NodeScenarios DEF RInv
<1>2. DriverFacts' /\ PersistFacts' /\ ContractsFacts' /\ BoundariesFacts'
  BY NodeDriver, NodePersist, NodeContracts, NodeBoundaries DEF RInv
<1>3. RedMeansTrouble'
  <2>1. UNCHANGED <<regs, failed>>
    BY NodeHere
  <2>2. trouble \subseteq trouble'
    BY NodeSteps DEF Takes, Stays, Comes
  <2>3. QED
    BY <2>1, <2>2, StaysExcused DEF RInv, RedMeansTrouble, Explained
<1>4. QED
  BY <1>1, <1>2, <1>3 DEF RInv

LEMMA RunsRed == ASSUME IInv, InOrder, LowRefused, RInv, Runs PROVE RInv'
<1>1. /\ General /\ ReadsFacts /\ Procs /\ DriverFacts /\ PersistFacts /\ ContractsFacts
      /\ SoloFacts /\ PredeployFacts /\ ScenarioFacts /\ BoundariesFacts
      /\ \A c \in failed : Explained(c)
  BY DEF RInv, RedMeansTrouble, Explained
<1>2. General' /\ Procs' /\ SoloFacts' /\ PredeployFacts' /\ ScenarioFacts'
  BY <1>1, RunsGeneral, RunsProcs, RunsSolo, RunsPredeploys, RunsScenarios
<1>3. ReadsFacts'
  BY <1>1, RunsChain, RunsBlocks, RunsTable DEF ReadsFacts
<1>4. DriverFacts' /\ PersistFacts' /\ ContractsFacts' /\ BoundariesFacts'
  BY <1>1, RunsDriver, RunsPersist, RunsContracts, RunsBoundaries
<1>5. ASSUME NEW c \in failed' \ failed PROVE Explained(c)'
  <2>1. plan \in {"reads", "transactions", "predeploys", "boundaries", "scenarios"}
    BY PlanHere, PlanNames
  <2>2. QED
    BY <1>1, <1>5, <2>1, ReadsRed, TransactionsRed, PredeploysRed, BoundariesRed, ScenariosRed
<1>6. ASSUME NEW c \in failed PROVE Explained(c)'
  <2>1. trouble \subseteq trouble' /\ ~Finished /\ pc # End /\ plan' = plan
    BY RunsPool, RunsTells DEF Steps, Goes
  <2>2. plan # "boundaries"
    <3>1. plan = "boundaries" => InUnit("boundaries", 1)
      BY <2>1, BoundariesGoes
    <3>2. QED
      BY <1>1, <1>6, <3>1 DEF BoundariesFacts
  <2>3. regs["n3"] = -1 /\ regs'["n3"] = -1
    BY <1>1, <1>2, <2>1, <2>2 DEF General, Constants
  <2>4. QED
    BY <1>1, <1>6, <2>1, <2>3, StaysExcused
<1>7. RedMeansTrouble'
  BY <1>5, <1>6 DEF RedMeansTrouble, Explained
<1>8. QED
  BY <1>2, <1>3, <1>4, <1>7 DEF RInv

\* A step that changes nothing changes none of it.
LEMMA SameRed == ASSUME RInv, UNCHANGED vars PROVE RInv'
<1>1. UNCHANGED <<height, ledger, fee, moves, pool, mined, live, doomed, holder, cut,
                  plan, unit, pc, regs, failed, fail, pidFile, bridge, trouble>>
  BY DEF vars, nodeVars, chainVars, laneVars
<1>2. Front' = Front /\ Pooled' = Pooled /\ Ins' = Ins /\ Running' = Running /\ (DOMAIN mined)' = DOMAIN mined
  BY <1>1 DEF Front, NonceAt, MinedBy, Pooled, Ins, Running
<1>3. General' /\ Procs'
  BY <1>1, <1>2 DEF RInv, General, OnePerNonce, FromScript, Past, Item, Strays, Constants, Solitary, Alone,
                   Procs, InUnit
<1>4. ReadsFacts' /\ PersistFacts' /\ ScenarioFacts'
  <2>1. \A tag, window : Resolved(tag, window)' <=> Resolved(tag, window)
    BY <1>1 DEF Resolved
  <2>2. BlocksFacts'
    BY <1>1, <2>1 DEF RInv, ReadsFacts, BlocksFacts, InUnit
  <2>3. QED
    BY <1>1, <2>2 DEF RInv, ReadsFacts, ChainFacts, TableFacts, PersistFacts, ScenarioFacts, InUnit, Read
<1>5. PredeployFacts'
  BY <1>1 DEF RInv, PredeployFacts, InUnit, Read
<1>6. SoloFacts'
  BY <1>1, <1>2 DEF RInv, SoloFacts, InUnit, Excused, Noted, OneAtATime, Waited, Item, Queue, Idle, Sure
<1>7. DriverReads' /\ DriverLeaves' /\ DriverLands'
  BY <1>1, <1>2 DEF RInv, DriverFacts, DriverReads, DriverLeaves, DriverLands, InUnit, Noted, End
<1>8. DriverSends' /\ ContractsFacts'
  BY <1>1, <1>2 DEF RInv, DriverFacts, DriverSends, ContractsFacts, PersistLeaves, ContractsSends,
                   ContractsLands, InUnit, Noted, Queue, Idle, Ready
<1>9. BoundariesFacts'
  BY <1>1, <1>2 DEF RInv, BoundariesFacts, FirstSections, TwinSections, EvictedAt, ChargedAt, InUnit,
                   Queue, Idle, Sure, Quoted, Before
<1>10. RedMeansTrouble'
  BY <1>1 DEF RInv, RedMeansTrouble, Excuse
<1>11. QED
  BY <1>3, <1>4, <1>5, <1>6, <1>7, <1>8, <1>9, <1>10 DEF RInv, DriverFacts

\* A red check is explained by something the scripts do not control (ScriptLane's RedMeansTrouble,
\* of run_all.sh's reads, transactions and predeploys, nonce_fee_boundaries.sh and
\* l2_tx_scenarios.sh): each turns red only through the interleavings its Excuse lists; whatever
\* the base fees, the windows of safe and finalized and the blocks to an L1 origin, whichever blocks
\* the node seals and when, and whatever stands in the pool when they begin.  The order of the
\* scripts' own reads, sends and waits is the reason of one alone: `sequence`, while L1Block is
\* written.
THEOREM RedIsExplained == Spec => []RedMeansTrouble
<1>1. IInv /\ Init => RInv
  BY InitRed
<1>2. IInv /\ IInv' /\ LInv /\ RInv /\ [Next]_vars => RInv'
  <2>1. SUFFICES ASSUME IInv, IInv', LInv, RInv, [Next]_vars PROVE RInv'
    OBVIOUS
  <2>2. Next => Runs \/ NextUnit \/ Node \/ Stop
    BY DEF Next, Script, Runs
  <2>3. (Stop => UNCHANGED vars) /\ InOrder /\ LowRefused
    BY <2>1 DEF Stop, LInv
  <2>4. QED
    BY <2>1, <2>2, <2>3, RunsRed, NextRed, NodeRed, SameRed
<1>3. RInv => RedMeansTrouble
  BY DEF RInv
<1>4. QED
  BY <1>1, <1>2, <1>3, Inductive, LandedInductive, PTL DEF Spec
===============================================================================
