----------------------------- MODULE ScriptLane -----------------------------
(***************************************************************************)
(* The scripts of GateScripts running one after the other against L2Node,   *)
(* which seals blocks, catches up and loses processes at any moment.        *)
(* One action per kind of instruction.  trouble records what the            *)
(* environment did that the scripts do not control, so that the properties  *)
(* can say what a red or a green verdict is worth.                          *)
(***************************************************************************)
EXTENDS L2Node, GateScripts

CONSTANTS
  Plans,    \* which of PlanOf to run
  MaxEmpty, \* for each, bound on the empty blocks
  FeeMoves, \* and on the blocks that change the base fee
  Retries,  \* bound on the waits that run out on a transaction that would be sealed
  MayCut,   \* whether b4's restart may lose blocks
  OriginBlocks \* blocks to an L1 origin, from which L1Block counts; 1 where it stays 0

ASSUME GateAssumption ==
  /\ Plans \subseteq DOMAIN PlanOf /\ MayCut \in BOOLEAN /\ OriginBlocks \in Nat \ {0}
  /\ \A p \in Plans :
       /\ FeeMoves[p] \in Nat
       /\ \A i \in DOMAIN PlanOf[p] : \A j \in DOMAIN PlanOf[p][i].body :
            PlanOf[p][i].body[j].op = "send" => PlanOf[p][i].body[j].id \in TxIds

Regs ==
  {"none", "zero", "one", "gasPrice", "baseFee", "num", "safe", "finalized", "pending",
   "number", "cn", "head", "bal0", "nonce0", "prev_head", "index", "bal1", "nonce1", "h1", "h2",
   "h3", "nonce", "code", "seq0", "seq1", "root_before", "root_at", "sm", "n", "sv", "later",
   "stable_root", "bal2", "bal3", "bf", "effective", "counter1", "counter2", "counter3"}
  \cup {"n0", "n1", "n2", "n3", "n4", "n5", "n6", "n7", "n8", "n9"}

Troubles ==
  {"stray",     \* a transaction of an earlier run was still in the pool
   "b3a",       \* B3a did not run before run_all.sh started it, or its start script failed
   "bridge",    \* the predeployed bridge is not initialised: its calls revert
   "lag",       \* a read of the latest state missed a sealed transaction
   "late",      \* a wait ran out on a transaction that would have been sealed
   "idle",      \* a wait for a later block ran out
   "sealed",    \* a block was sealed while a2_blocks compared block numbers
   "fee",       \* the base fee changed
   "unsafe",    \* safe or finalized was still the genesis block, or none
   "behind",    \* or further behind the latest block than its window
   "written",   \* L1Block's sequenceNumber was not 0 when it was read
   "lingered",  \* a process was told to stop and still ran ten seconds later
   "down",      \* a call found nothing that answers
   "cut"}       \* a restart lost blocks

VARIABLES
  plan, unit, pc,
  regs,     \* the variables of the script in progress
  failed,   \* its checks that failed
  fail,     \* whether a unit before it exited non-zero
  pidFile,  \* node.pid
  bridge,   \* whether the predeployed bridge is initialised
  trouble

laneVars == <<plan, unit, pc, regs, failed, fail, pidFile, bridge, trouble>>
vars == <<nodeVars, laneVars>>
settings == <<plan, pidFile, bridge>>

Fresh == [r \in Regs |-> CASE r = "zero" -> 0 [] r = "one" -> 1 [] OTHER -> -1]

\* What an earlier step or an earlier gate may leave: a transaction in the pool; a process
\* that was told to stop and outlived its successor; no process at all.
Init ==
  /\ plan \in Plans
  /\ height = 1 /\ ledger = 1 /\ moves = 0
  /\ fee \in Fees /\ (FeeMoves[plan] = 0 => \A f \in Fees : f <= fee)
  /\ pool \in {{}, {[id |-> "stray", nonce |-> 0, cap |-> Ample, tip |-> Ample]}}
  /\ mined = [i \in {} |-> 0]
  /\ live \in {{1}, {}} /\ doomed \in SUBSET live /\ cut = "none"
  /\ plan \in {"boundaries", "scenarios"} => live = {1} /\ doomed = {}
  /\ holder = IF live = {} THEN 0 ELSE 1
  /\ pidFile = IF doomed = {} THEN 1 ELSE 2
  /\ unit = 1 /\ pc = 1 /\ regs = Fresh /\ failed = {} /\ fail = FALSE
  /\ bridge \in BOOLEAN /\ (plan # "predeploys" => bridge)
  /\ trouble = {t \in {"stray", "bridge", "lingered"} : CASE t = "stray" -> pool # {}
                                                          [] t = "bridge" -> ~bridge
                                                          [] t = "lingered" -> doomed # {}}

----------------------------------------------------------------------------
(* How a unit goes on.                                                       *)

Finished == unit > Len(PlanOf[plan])
Running == PlanOf[plan][unit]
End == Len(Running.body) + 1
Ins == Running.body[pc]
At(ops) == ~Finished /\ pc # End /\ Ins.op \in ops

\* A step of a script notes troubles and failed checks; nonce_fee_boundaries.sh
\* and l2_tx_scenarios.sh leave on one that fails.
GoTo(p, ts, fs) ==
  /\ pc' = IF fs # {} /\ Running.exits THEN End ELSE p
  /\ trouble' = trouble \cup ts
  /\ failed' = failed \cup fs
  /\ UNCHANGED <<settings, unit, fail>>

Into(v, ts) == regs' = [regs EXCEPT ![Ins.into] = v] /\ GoTo(pc + 1, ts, {})
Pass(ts, fs) == UNCHANGED regs /\ GoTo(pc + 1, ts, fs)
Leave(ts, fs) == UNCHANGED regs /\ GoTo(End, ts, fs)
Judge(name, ok) == Pass({}, IF ok THEN {} ELSE {name})

\* The troubles that outlast the unit they occur in.
Lasting == {"stray", "bridge", "late", "lingered", "cut"}

\* The next unit starts with variables of its own; run_all.sh keeps the exit status.
NextUnit ==
  /\ ~Finished /\ pc = End
  /\ unit' = unit + 1 /\ pc' = 1 /\ regs' = Fresh /\ failed' = {}
  /\ fail' = (fail \/ failed # {})
  /\ trouble' = trouble \cap Lasting
  /\ UNCHANGED <<settings, nodeVars>>

----------------------------------------------------------------------------
(* Calls.  One that finds nothing answering raises, which ends the unit.     *)

Calls == {"ask", "head", "fee", "tag", "count", "nonce", "seq", "root", "field", "send", "await",
          "absent", "advance", "later"}

Raised == At(Calls) /\ holder = 0 /\ Leave({"down"}, {"raised"}) /\ UNCHANGED nodeVars

Answering(ops) == At(ops) /\ holder # 0

Effects(S, b) ==
  Cardinality(MinedBy(IF bridge THEN S ELSE S \ {"deposit", "withdraw"}, b))

\* The L2ToL1MessagePasser's storage changes with every message sent.
PasserRoot(b) == Effects({"withdrawal", "message", "deposit", "withdraw"}, b)

ReadBlock ==
  /\ Answering({"ask", "head", "fee", "root", "field"}) \/ At({"table"})
  /\ CASE Ins.op = "ask" -> Pass({}, {})
       [] Ins.op \in {"head", "table"} -> Into(height, {})
       [] Ins.op = "fee" -> Into(fee, {})
       [] Ins.op = "root" ->
            Into(IF regs[Ins.at] = -1 THEN -1 ELSE PasserRoot(regs[Ins.at]), {})
       [] Ins.op = "field" -> Into(mined[Ins.of][Ins.what], {})
  /\ UNCHANGED nodeVars

\* op-node moves safe and finalized; without a batcher they stay at genesis.  -1: a tag
\* the node answers with null.
ReadTag ==
  /\ Answering({"tag"})
  /\ \E b \in -1..height :
       Into(b, {t \in {"unsafe", "behind"} : IF t = "unsafe" THEN b <= 0
                                             ELSE b < height - Ins.window})
  /\ UNCHANGED nodeVars

\* Every block's first transaction writes its place in the L1 origin's blocks.
InOrigin(b) == b % OriginBlocks

Latest(b) == CASE Ins.op = "count" -> Effects(Ins.of, b) [] Ins.op = "seq" -> InOrigin(b)
               [] OTHER -> NonceAt(b)
Lag == IF Latest(ledger) # Latest(height) THEN {"lag"} ELSE {}
Written == IF Ins.op = "seq" /\ InOrigin(ledger) # 0 THEN {"written"} ELSE {}

ReadState ==
  /\ Answering({"count", "nonce", "seq"})
  /\ Into(Latest(ledger), Lag \cup Written)
  /\ UNCHANGED nodeVars

Priced(kind, bf) ==
  [gwei |-> [cap |-> Ample, tip |-> Ample], quoted |-> [cap |-> fee, tip |-> fee],
   half |-> [cap |-> bf \div 2, tip |-> bf \div 2], under |-> [cap |-> bf - 1, tip |-> 0],
   exact |-> [cap |-> bf, tip |-> 0], legacy |-> [cap |-> bf, tip |-> bf],
   double |-> [cap |-> 2 * bf, tip |-> 2 * bf], tipped |-> [cap |-> 2 * bf, tip |-> bf \div 2]]
  [kind]

NonceOf(ins) == regs[ins.nonce] + ins.plus

SendTx ==
  /\ Answering({"send"})
  /\ LET p == Priced(Ins.price, regs["bf"])
     IN  Admit([id |-> Ins.id, nonce |-> NonceOf(Ins), cap |-> p.cap, tip |-> p.tip])
  /\ Pass({}, {})
  /\ UNCHANGED <<height, ledger, fee, moves, mined, live, doomed, holder, cut>>

----------------------------------------------------------------------------
(* Waits.                                                                    *)

Found == Ins.of \cap DOMAIN mined # {}

SeeReceipt == Answering({"await"}) /\ Found /\ Pass({}, {}) /\ UNCHANGED nodeVars

\* RunOutUnnoticed: a receipt that never comes is not a failed check.
RunOutUnnoticed ==
  /\ Answering({"await"}) /\ ~Found
  /\ UNCHANGED regs
  /\ GoTo(IF Ins.timeout = Raise THEN End ELSE pc + 1 + Ins.timeout, {}, {})
  /\ UNCHANGED nodeVars

\* It can run out on a transaction that will never be sealed, or too early.
RunOut ==
  /\ Answering({"await"}) /\ ~Found
  /\ LET late == \E i \in Ins.of : Sealable(i)
     IN  /\ late => Cardinality(trouble \cap {"late"}) < Retries
         /\ UNCHANGED regs
         /\ GoTo(IF Ins.timeout = Raise THEN End ELSE pc + 1 + Ins.timeout,
                 IF late THEN {"late"} ELSE {}, {"receipt"})
  /\ UNCHANGED nodeVars

StaysAbsent ==
  Answering({"absent"}) /\ Judge("absent", Ins.of \notin DOMAIN mined) /\ UNCHANGED nodeVars

\* wait_nonce_advance: past the given nonce, and no less four seconds later.  The answer is
\* that of the second read, so that the model looks once, when the wait is over.
AdvanceNonce ==
  /\ Answering({"advance"})
  /\ IF NonceAt(ledger) > regs[Ins.past]
     THEN Into(NonceAt(ledger), Lag)
     ELSE Leave(Lag, {"stall"})
  /\ UNCHANGED nodeVars

SeeLaterBlock ==
  /\ Answering({"later"})
  /\ IF height > regs[Ins.past] THEN Into(height, {}) ELSE Pass({"idle"}, {})
  /\ UNCHANGED nodeVars

\* b4_persist.py's first read after the restart swallows every error for forty seconds.
ReadHeadAgain ==
  /\ At({"retry"})
  /\ IF holder # 0 THEN Into(height, {}) ELSE Leave({"down"}, {"backUp"})
  /\ cut' = IF cut = "fresh" THEN "seen" ELSE cut
  /\ UNCHANGED <<chainVars, live, doomed, holder>>

----------------------------------------------------------------------------
(* Checks.                                                                   *)

Holds(c) ==
  LET l == regs[c.left]
      r == regs[c.right] + c.plus
  IN  CASE c.rel = "=" -> l = r [] c.rel = ">" -> l > r
        [] c.rel = ">=" -> l >= r [] c.rel = "<=" -> l <= r

Before(i, j) == \/ mined[i].block < mined[j].block
                \/ mined[i].block = mined[j].block /\ mined[i].index < mined[j].index

Expected(kind, bf) ==
  [exact |-> bf, legacy |-> bf, double |-> 2 * bf, tipped |-> bf + bf \div 2][kind]

\* The balance is expected to have paid the gas of the receipts seen, and every value sent.
CheckNow ==
  /\ At({"check", "steps", "spent", "order", "one", "price"})
  /\ CASE Ins.op = "check" -> Judge(Ins.name, Holds(Ins))
       [] Ins.op = "steps" ->
            Judge(Ins.name, Holds(Ins) \/ (regs[Ins.left] = 0 /\ regs[Ins.right] = 0))
       [] Ins.op = "spent" -> Judge(Ins.name, Holds(Ins) /\ "receipt" \notin failed)
       [] Ins.op = "order" -> Judge("order", /\ Before(Ins.of[1], Ins.of[2])
                                             /\ Before(Ins.of[2], Ins.of[3]))
       [] Ins.op = "one" -> Judge("one", \E i \in Ins.of : Ins.of \cap DOMAIN mined = {i})
       [] Ins.op = "price" -> Judge("price", regs["effective"] = Expected(Ins.of, regs["bf"]))
  /\ UNCHANGED nodeVars

----------------------------------------------------------------------------
(* restart_b3.sh, and B3a, which run_all.sh starts before its last step.     *)

Kill ==
  /\ At({"kill"}) /\ Pass({}, {})
  /\ doomed' = doomed \cup {pidFile}
  /\ UNCHANGED <<chainVars, live, holder, cut>>

\* WaitGoneNot: the wait is left out.
WaitGoneNot == At({"gone"}) /\ Pass({}, {}) /\ UNCHANGED nodeVars

\* Twenty looks half a second apart; then the node is started all the same.
WaitGone ==
  /\ At({"gone"}) /\ Pass(IF pidFile \in live THEN {"lingered"} ELSE {}, {})
  /\ UNCHANGED nodeVars

\* LaunchKeepingPid: node.pid is not written.
LaunchKeepingPid ==
  /\ At({"launch"})
  /\ live' = live \cup {pidFile + 1} /\ UNCHANGED pidFile
  /\ pc' = pc + 1
  /\ UNCHANGED <<chainVars, doomed, holder, cut, plan, unit, regs, failed, fail, bridge, trouble>>

Launch ==
  /\ At({"launch"})
  /\ live' = live \cup {pidFile + 1} /\ pidFile' = pidFile + 1
  /\ pc' = pc + 1
  /\ UNCHANGED <<chainVars, doomed, holder, cut, plan, unit, regs, failed, fail, bridge, trouble>>

\* Before that step B3a runs only if an earlier gate has left it running; when the start
\* script fails, a1_active.py runs all the same.
DriveEngine ==
  /\ At({"engine"}) /\ UNCHANGED nodeVars
  /\ \/ Pass({}, {})
     \/ /\ Running.name = "a1_engine_surface" \/ "raised" \in failed
        /\ Leave({"b3a"}, {"raised"})

StartB3a ==
  /\ At({"b3a_start"}) /\ UNCHANGED nodeVars
  /\ Pass({}, {}) \/ Pass({"b3a"}, {"raised"})

----------------------------------------------------------------------------
(* The node, between any two calls of a script: a check takes no time.       *)

Between == At(Calls \cup {"gone", "retry", "table"})
scriptSame == UNCHANGED <<settings, unit, pc, regs, failed, fail>>

NodeSeals ==
  /\ Between /\ Seal(MaxEmpty[plan], FeeMoves[plan]) /\ scriptSame
  /\ trouble' = trouble \cup (IF Running.name = "a2_blocks" /\ pc > 1 THEN {"sealed"} ELSE {})
                        \cup (IF fee' # fee THEN {"fee"} ELSE {})
NodeCatchesUp == Between /\ CatchUp /\ UNCHANGED laneVars
ProcessExits == Between /\ Exit /\ UNCHANGED laneVars
ProcessOpens ==
  /\ Between /\ Open(MayCut /\ Running.name = "b4_persist") /\ scriptSame
  /\ trouble' = trouble \cup (IF height' < height THEN {"cut"} ELSE {})

Script ==
  \/ Raised \/ ReadBlock \/ ReadTag \/ ReadState \/ SendTx \/ SeeReceipt \/ RunOut
  \/ StaysAbsent \/ AdvanceNonce \/ SeeLaterBlock \/ ReadHeadAgain \/ CheckNow
  \/ Kill \/ WaitGone \/ Launch \/ DriveEngine \/ StartB3a \/ NextUnit
Node == NodeSeals \/ NodeCatchesUp \/ ProcessExits \/ ProcessOpens
Stop == Finished /\ UNCHANGED vars

Next == Script \/ Node \/ Stop

Spec == Init /\ [][Next]_vars

----------------------------------------------------------------------------
TypeOK ==
  /\ height \in Nat /\ ledger \in 0..height /\ fee \in Fees /\ moves \in 0..FeeMoves[plan]
  /\ pool \subseteq Tx
  /\ mined \in [DOMAIN mined -> Place] /\ DOMAIN mined \subseteq TxIds
  /\ live \subseteq 1..pidFile /\ doomed \subseteq 1..pidFile /\ holder \in live \cup {0}
  /\ cut \in {"none", "fresh", "regrown", "seen"}
  /\ regs \in [Regs -> Int] /\ trouble \subseteq Troubles
  /\ fail \in BOOLEAN /\ bridge \in BOOLEAN
  /\ ~Finished => pc \in 1..End

\* What can turn each check red on a node that does nothing wrong.
Excuses ==
  [raised |-> {"down", "b3a"}, backUp |-> {"down"}, receipt |-> {"lag", "late", "stray", "fee", "lingered"},
   gasPrice |-> {"fee"}, pastGenesis |-> {"unsafe"}, behind |-> {"behind"}, ahead |-> {"sealed"},
   pending |-> {"sealed"}, sequence |-> {"written"},
   currentNumber |-> {}, index |-> {"late"}, nonce |-> {"lag", "late"},
   balance |-> {"lag", "late", "stray"}, head |-> {}, headKept |-> {"cut"},
   resumes |-> {"idle"}, code |-> {"lag"}, sentMessages |-> {"lag"}, slot |-> {"lag"},
   rootChanges |-> {}, rootStable |-> {"idle"}, messageNonce |-> {"lag"},
   mint |-> {"lag", "bridge"}, burn |-> {"lag", "bridge"}, stall |-> {"lag"},
   counter |-> {"lag"}, absent |-> {"fee"}, order |-> {}, one |-> {}, price |-> {"fee"}]

\* From its third section on, nonce_fee_boundaries.sh has waited for its own nonces.
Excuse(check) ==
  IF check = "receipt" /\ regs["n3"] # -1 THEN {"late", "fee"} ELSE Excuses[check]

\* A red check is explained by something the scripts do not control: each check turns red
\* only through the interleavings listed for it.  With one exception that is never the order
\* of the scripts' own reads and sends: once L1Block is written, predeploy_matrix.py's two
\* reads of one latest block are to differ by one, and its `sequence` check is red.
RedMeansTrouble == \A c \in failed : Excuse(c) \cap trouble # {}

Green == Finished /\ ~fail

Intended ==
  [reads |-> {}, transactions |-> {"transfer0", "transfer1", "store", "revert"},
   predeploys |-> {"reject_caller", "reject_length", "withdrawal", "message", "token",
                   "deposit", "withdraw", "setValue"},
   boundaries |-> {"c0", "first", "second", "gap", "c3", "c4", "c5", "exact", "legacy",
                   "double", "tipped"},
   scenarios |-> {"create", "inc1", "inc2", "boom"}]
Never == {"low", "half", "under"}

\* Green scripts have put every transaction they meant to land into the chain, and none
\* they meant to be refused; unless b4's restart lost blocks that had grown back in number
\* by the time it looked, for it compares heights only.
GreenMeansLanded ==
  Green => /\ Intended[plan] \subseteq DOMAIN mined \/ cut = "regrown"
           /\ Never \cap DOMAIN mined = {}

\* Green means that the node answering is the one restart_b3.sh started last, unless the
\* old one outlived the ten seconds it is given: restart_b3.sh starts its successor all the
\* same, and reports success.
GreenMeansRestarted ==
  Green /\ plan \in {"reads", "transactions"} => holder = pidFile \/ "lingered" \in trouble

\* Each section of nonce_fee_boundaries.sh starts past every nonce it has used: the second
\* past the three of the first.
SectionsAdvance == regs["n2"] # -1 => regs["n2"] > regs["n1"] + 2
=============================================================================
