---------------------------- MODULE GateScripts -----------------------------
(***************************************************************************)
(* The scripts of tools/op-e2e that run against a live node, as data: a unit *)
(* is what fails as a whole (a script, or a group of rpc_matrix.py), its    *)
(* body the reads, sends, waits and checks in the order of the source.      *)
(* ScriptLane says what an instruction does.  Left out are the checks whose *)
(* outcome depends neither on when they run nor on what was sent; an Ask    *)
(* stands for a stretch of them, which still needs an answering node.       *)
(***************************************************************************)
EXTENDS Integers, Sequences

CONSTANTS
  SafeWindow,      \* how far behind the latest block rpc_matrix.py lets safe be: 600
  FinalizedWindow  \* and finalized: 4000

ASSUME WindowAssumption == SafeWindow \in Nat /\ FinalizedWindow \in Nat

----------------------------------------------------------------------------
(* The instructions.  into, left, right, at, past name registers.            *)

Ask == [op |-> "ask"]
BlockNumber(r) == [op |-> "head", into |-> r]                     \* number of the latest block
Fee(r) == [op |-> "fee", into |-> r]                       \* its base fee
Tag(r, window) == [op |-> "tag", into |-> r, window |-> window]   \* safe or finalized
CurrentNumber(r) == [op |-> "table", into |-> r]           \* of the database, not of a call
Count(S, r) == [op |-> "count", of |-> S, into |-> r]      \* the effects of S, at latest
Nonce(r) == [op |-> "nonce", into |-> r]                   \* of the sender, at latest
Balance(r) == Nonce(r)                                     \* every transaction changes it
SequenceNumber(r) == [op |-> "seq", into |-> r]            \* of L1Block, at latest
Root(at, r) == [op |-> "root", at |-> at, into |-> r]      \* withdrawalsRoot of a block
Field(id, what, r) == [op |-> "field", of |-> id, what |-> what, into |-> r]
Send(id, r, plus, price) ==
  [op |-> "send", id |-> id, nonce |-> r, plus |-> plus, price |-> price]

\* A wait for a receipt that runs out is a failed check; then that many instructions are
\* skipped, or (Raise) the unit ends.
Raise == -1
Await(id, timeout) == [op |-> "await", of |-> {id}, timeout |-> timeout]
AwaitOne(S) == [op |-> "await", of |-> S, timeout |-> Raise]
Absent(id) == [op |-> "absent", of |-> id]
Advance(past, r) == [op |-> "advance", past |-> past, into |-> r]
LaterBlock(past, r) == [op |-> "later", past |-> past, into |-> r]
AnyHead(r) == [op |-> "retry", into |-> r]                 \* 40 tries, errors swallowed

Check(name, left, rel, right, plus) ==
  [op |-> "check", name |-> name, left |-> left, rel |-> rel, right |-> right, plus |-> plus]
Unverified(name, left, right, plus) == Check(name, left, "=", right, plus)

\* restart_b3.sh
restart_b3 == <<[op |-> "kill"], [op |-> "gone"], [op |-> "launch"]>>

Unit(name, body) == [name |-> name, body |-> body, exits |-> FALSE]

----------------------------------------------------------------------------
(* rpc_matrix.py: each group is caught on its own.                           *)

a1_engine_surface == <<[op |-> "engine"]>>
a2_chain ==
  <<Ask, Fee("gasPrice"), Fee("baseFee"),
    Check("gasPrice", "gasPrice", ">=", "baseFee", 0), Ask>>
\* A tag is past genesis and in a window that ends at the block read first.
Resolves(tag, window) ==
  <<Tag(tag, window), Check("pastGenesis", tag, ">", "zero", 0),
    Check("behind", tag, ">=", "num", -window), Check("ahead", tag, "<=", "num", 0)>>
a2_blocks ==
  <<BlockNumber("num"), Ask>> \o Resolves("safe", SafeWindow)
  \o Resolves("finalized", FinalizedWindow)
  \o <<BlockNumber("pending"), Check("pending", "pending", "=", "num", 0), Ask>>
a2_accounts == <<Ask>>
a2_exec == <<Ask>>
a3_web3_net == <<Ask>>
a4_scope == <<Ask>>

(* state_verify.py: current_number is read after the RPC head; what b2_header_chain    *)
(* compares is sealed for good.                                                        *)
b1_table_consistency ==
  <<BlockNumber("number"), CurrentNumber("cn"), Check("currentNumber", "cn", ">=", "number", 0)>>
b2_header_chain == <<BlockNumber("head"), Ask>>

\* chain_driver.py: two transfers, the nonce counted up from one read.
Driven(id, i) ==
  <<Send(id, "nonce0", i, "gwei"), Await(id, 3), Field(id, "index", "index"),
    Check("index", "index", "=", "one", 0), Ask>>
chain_driver ==
  <<Balance("bal0"), Nonce("nonce0"), BlockNumber("prev_head")>>
  \o Driven("transfer0", 0) \o Driven("transfer1", 1)
  \o <<Balance("bal1"), Nonce("nonce1"), Check("nonce", "nonce1", "=", "nonce0", 2),
       [Check("balance", "bal1", "=", "bal0", 2) EXCEPT !.op = "spent"],
       BlockNumber("head"), Check("head", "head", ">=", "prev_head", 0)>>

\* b4_persist.py
b4_persist ==
  <<BlockNumber("h1")>> \o restart_b3
  \o <<AnyHead("h2"), Check("headKept", "h2", ">=", "h1", 0), LaterBlock("h2", "h3"),
       Check("resumes", "h3", ">", "h2", 0)>>

\* b3_contracts.py: the second deployment is sent whatever became of the first.
Deployed(id, i) ==
  <<Send(id, "nonce", i, "gwei"), Await(id, 2), Count({id}, "code"),
    Check("code", "code", "=", "one", 0)>>

\* DeployedTwice: the second deployment is sent with the nonce of the first.
DeployedTwice == <<Nonce("nonce")>> \o Deployed("store", 0) \o Deployed("revert", 0)

b3_contracts == <<Nonce("nonce")>> \o Deployed("store", 0) \o Deployed("revert", 1)

----------------------------------------------------------------------------
(* predeploy_matrix.py: the nonce is read afresh for every transaction, and a missing  *)
(* receipt raises.                                                                    *)

Sent(id) == <<Nonce("nonce"), Send(id, "nonce", 0, "gwei"), Await(id, Raise)>>

\* sequenceNumber is to step by one between two reads of the latest state, or to stay 0.
L1BlockGroup ==
  <<Ask, SequenceNumber("seq0"), SequenceNumber("seq1"),
    [Check("sequence", "seq1", "=", "seq0", 1) EXCEPT !.op = "steps"]>>
  \o Sent("reject_caller") \o Sent("reject_length")

MessagePasserGroup ==
  <<BlockNumber("head"), Root("head", "root_before")>> \o Sent("withdrawal")
  \o <<Count({"withdrawal"}, "sm"), Check("sentMessages", "sm", "=", "one", 0),
       Field("withdrawal", "block", "n"), Root("n", "root_at"),
       Check("rootChanges", "root_at", ">", "root_before", 0),
       Count({"withdrawal"}, "sv"), Check("slot", "sv", "=", "one", 0),
       LaterBlock("n", "later"), Root("later", "stable_root"),
       Check("rootStable", "stable_root", "=", "root_at", 0), Ask>>

MessengerGroup ==
  <<Nonce("nonce"), Count({"message"}, "nonce0"), Send("message", "nonce", 0, "gwei"),
    Await("message", Raise), Nonce("nonce"), Count({"message"}, "nonce1"),
    Check("messageNonce", "nonce1", "=", "nonce0", 1)>>

\* The token balance before and after; a difference that is not seen is UNVERIFIED.
Bridged(id, before, after, name) ==
  <<Count({id}, before)>> \o Sent(id)
  \o <<Count({id}, after), Unverified(name, after, before, 1)>>
BridgeGroup ==
  Sent("token") \o Bridged("deposit", "bal0", "bal1", "mint")
                \o Bridged("withdraw", "bal2", "bal3", "burn")

SystemConfigGroup == <<Ask>> \o Sent("setValue")

predeploy_matrix ==
  L1BlockGroup \o MessagePasserGroup \o MessengerGroup \o BridgeGroup \o SystemConfigGroup

----------------------------------------------------------------------------
(* nonce_fee_boundaries.sh: one account, ten sections, the first failure exits.        *)

Section0 ==
  <<Fee("bf"), Advance("none", "n0"), Send("c0", "n0", 0, "quoted"), Await("c0", Raise)>>
Section1 ==
  <<Advance("n0", "n1"), Send("gap", "n1", 2, "quoted"), Absent("gap"),
    Send("first", "n1", 0, "quoted"), Send("second", "n1", 1, "quoted"),
    Await("first", Raise), Await("second", Raise), Await("gap", Raise),
    [op |-> "order", of |-> <<"first", "second", "gap">>]>>
Section2 ==
  <<Advance("n1", "n2"), Send("twin1", "n2", 0, "quoted"), Send("twin2", "n2", 0, "quoted"),
    AwaitOne({"twin1", "twin2"}), [op |-> "one", of |-> {"twin1", "twin2"}]>>
Section3 ==
  <<Advance("n2", "n3"), Send("low", "n3", -1, "quoted"), Absent("low"),
    Send("c3", "n3", 0, "quoted"), Await("c3", Raise)>>
\* 4 and 5: a price below the base fee, then a control transaction with the same nonce.
Evicted(past, n, id, price, control) ==
  <<Fee("bf"), Advance(past, n), Send(id, n, 0, price), Absent(id),
    Send(control, n, 0, "quoted"), Await(control, Raise)>>
\* 6 to 9: a price at or above it, and the effective price of the receipt.
Charged(past, n, id, price) ==
  <<Fee("bf"), Advance(past, n), Send(id, n, 0, price), Await(id, Raise),
    Field(id, "price", "effective"), [op |-> "price", of |-> price, name |-> id]>>
nonce_fee_boundaries ==
  Section0 \o Section1 \o Section2 \o Section3
  \o Evicted("n3", "n4", "half", "half", "c4")
  \o Evicted("n4", "n5", "under", "under", "c5")
  \o Charged("n5", "n6", "exact", "exact") \o Charged("n6", "n7", "legacy", "legacy")
  \o Charged("n7", "n8", "double", "double") \o Charged("n8", "n9", "tipped", "tipped")

----------------------------------------------------------------------------
(* l2_tx_scenarios.sh: cast takes the nonce, sends and waits; two of the calls count.   *)

Cast(id) == <<Nonce("nonce"), Send(id, "nonce", 0, "quoted"), Await(id, Raise)>>
Counter(r) == Count({"inc1", "inc2"}, r)
l2_tx_scenarios ==
  Cast("create") \o <<Count({"create"}, "code"), Check("code", "code", "=", "one", 0)>>
  \o Cast("inc1") \o <<Counter("counter1")>> \o Cast("inc2") \o <<Counter("counter2")>>
  \o <<Check("counter", "counter1", "=", "one", 0), Check("counter", "counter2", "=", "one", 1)>>
  \o Cast("boom") \o <<Counter("counter3"), Check("counter", "counter3", "=", "one", 1)>>

----------------------------------------------------------------------------
\* run_all.sh: every step runs, whatever the ones before it came to.
reads ==
  <<Unit("restart_b3", restart_b3), Unit("a1_engine_surface", a1_engine_surface),
    Unit("a2_chain", a2_chain), Unit("a2_blocks", a2_blocks), Unit("a2_accounts", a2_accounts),
    Unit("a2_exec", a2_exec), Unit("a3_web3_net", a3_web3_net), Unit("a4_scope", a4_scope),
    Unit("state_verify", b1_table_consistency \o b2_header_chain)>>
transactions ==
  <<Unit("chain_driver", chain_driver), Unit("b4_persist", b4_persist),
    Unit("b3_contracts", b3_contracts)>>
predeploys ==
  <<Unit("predeploy_matrix", predeploy_matrix),
    Unit("a1_active", <<[op |-> "b3a_start"], [op |-> "engine"]>>)>>
run_all == reads \o transactions \o predeploys

\* The three parts of the gate, one after the other in run_all, and the scripts beside it.
PlanOf ==
  [reads |-> reads, transactions |-> transactions, predeploys |-> predeploys,
   boundaries |-> <<[Unit("boundaries", nonce_fee_boundaries) EXCEPT !.exits = TRUE]>>,
   scenarios |-> <<[Unit("scenarios", l2_tx_scenarios) EXCEPT !.exits = TRUE]>>]
=============================================================================
