------------------------------- MODULE L2Node -------------------------------
(***************************************************************************)
(* The node that the scripts of tools/op-e2e talk to, as they use it: one   *)
(* chain, one funded sender, a pool with one transaction per nonce, reads   *)
(* of the latest state that may be a few blocks behind the receipts, and    *)
(* the operating-system processes behind it, which share one RocksDB.       *)
(* The node itself is not part of the repository's scripts: this module is  *)
(* the environment of ScriptLane.                                           *)
(***************************************************************************)
EXTENDS Integers, FiniteSets

CONSTANTS
  TxIds,      \* the transactions of the scripts, and "stray", a left-over of an earlier run
  MaxLag,     \* how many blocks a latest-state read may be behind: "up to ~2 blocks"
  Fees,       \* the base fees the chain may have, an interval; they never fall to 0
  Ample       \* a fee cap above them: the scripts' 1 gwei

ASSUME L2NodeAssumption ==
  /\ "stray" \in TxIds /\ MaxLag \in Nat
  /\ Ample \in Nat /\ Fees \subseteq Nat \ {0} /\ \A f \in Fees : f < Ample

VARIABLES
  height,   \* the last sealed block
  ledger,   \* the block whose state a "latest" read sees
  fee,      \* the base fee of the last block
  moves,    \* the blocks that changed it
  pool,     \* transactions admitted, not sealed: [id, nonce, cap, tip]
  mined,    \* the sealed ones: id -> [block, index, price]
  live,     \* processes that run, named by the order of their start
  doomed,   \* those that were told to stop
  holder,   \* the one that has the database open and answers, or 0
  cut       \* what became of a chain that a restart truncated

chainVars == <<height, ledger, fee, moves, pool, mined>>
nodeVars == <<chainVars, live, doomed, holder, cut>>

Tx == [id : TxIds, nonce : Int, cap : Nat, tip : Nat]
Place == [block : Nat, index : Nat, price : Nat]

\* An account's nonce at a block: how many of its transactions are in the chain by then.
MinedBy(S, b) == {i \in DOMAIN mined \cap S : mined[i].block <= b}
NonceAt(b) == Cardinality(MinedBy(TxIds, b))

EmptyBlocks == {b \in 2..height : \A i \in DOMAIN mined : mined[i].block # b}

\* The run of consecutive nonces from the account's on that can pay the base fee f;
\* transaction 1 of a block is the first after the L1-attributes deposit.
Payable(f) == {t \in pool : t.cap >= f}
GaplessRun(f) ==
  {t \in Payable(f) : /\ t.nonce >= NonceAt(height)
                      /\ \A n \in NonceAt(height)..t.nonce : \E u \in Payable(f) : u.nonce = n}
Sealable(id) == \E t \in GaplessRun(fee) : t.id = id

Lesser(a, b) == IF a < b THEN a ELSE b
EffectivePrice(t, f) == Lesser(t.cap, f + t.tip)

\* A block takes a prefix of the run; the build sweeps what can never be sealed any
\* more and evicts what cannot pay.  maxEmpty bounds the blocks without a transaction of
\* the sender, maxMoves those that change the base fee.
Seal(maxEmpty, maxMoves) ==
  /\ holder # 0 /\ height + 1 - ledger <= MaxLag
  /\ \E f \in {fee} \cup (IF moves < maxMoves THEN {fee - 1, fee + 1} \cap Fees ELSE {}),
        n \in NonceAt(height)..(NonceAt(height) + Cardinality(pool)) :
       LET taken == {t \in GaplessRun(f) : t.nonce < n}
           placed == {t.id : t \in taken}
           place == [i \in placed |->
                       LET t == CHOOSE t \in taken : t.id = i
                       IN  [block |-> height + 1, index |-> t.nonce - NonceAt(height) + 1,
                            price |-> EffectivePrice(t, f)]]
       IN  /\ n = NonceAt(height) + Cardinality(taken)
           /\ fee' = f
           /\ moves' = IF f = fee THEN moves ELSE moves + 1
           /\ mined' = [i \in DOMAIN mined \cup placed |->
                          IF i \in placed THEN place[i] ELSE mined[i]]
           /\ pool' = {t \in Payable(f) : t.nonce >= n}
           /\ taken = {} => Cardinality(EmptyBlocks) < maxEmpty
  /\ height' = height + 1
  /\ cut' = IF cut = "fresh" THEN "regrown" ELSE cut
  /\ UNCHANGED <<ledger, live, doomed, holder>>

CatchUp ==
  /\ ledger < height /\ ledger' = ledger + 1
  /\ UNCHANGED <<height, fee, moves, pool, mined, live, doomed, holder, cut>>

\* The pool takes any nonce; the later of two transactions with one nonce stays.
Admit(t) == pool' = {u \in pool : u.nonce # t.nonce} \cup {t}

Exit ==
  \E p \in doomed \cap live :
    /\ live' = live \ {p}
    /\ holder' = IF holder = p THEN 0 ELSE holder
    /\ UNCHANGED <<chainVars, doomed, cut>>

\* A process that finds the database locked gives up; one that opens it may have lost
\* the pool, and (mayCut) the blocks after some block.
Open(mayCut) ==
  \E p \in live \ {holder} :
    IF holder # 0
    THEN /\ live' = live \ {p}
         /\ UNCHANGED <<chainVars, doomed, holder, cut>>
    ELSE /\ holder' = p
         /\ pool' \in {pool, {}}
         /\ \E h \in (IF mayCut THEN 0..height ELSE {height}) :
              /\ height' = h
              /\ ledger' = Lesser(ledger, h)
              /\ mined' = [i \in MinedBy(TxIds, h) |-> mined[i]]
              /\ cut' = IF h < height THEN "fresh" ELSE cut
         /\ UNCHANGED <<fee, moves, live, doomed>>
=============================================================================
