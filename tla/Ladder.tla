------------------------------- MODULE Ladder -------------------------------
(***************************************************************************)
(* --mode=ladder of the t8n generator (ladder.go, ladder_chain.go,          *)
(* ladder_contracts.go): one chain that crosses the fork boundaries of an    *)
(* activation table.  The table is parsed and made cumulative, all blocks    *)
(* are generated, the chain is replayed by op-geth (selfCheck), and every    *)
(* block is checked against its predecessor's post-state as it is emitted.   *)
(*                                                                         *)
(* Blocks are numbered from 1 and indexed from 0: index i has number i + 1   *)
(* and time 1000 + 10 * (i + 1), so a block's number stands for its time.    *)
(* Storage is the set of non-zero slots: fee parameters are constant along a *)
(* chain, so that a slot mirrors its calldata word iff it is set (the        *)
(* operator fee parameters are zero and mirror an unset slot 8).  A slot is  *)
(* <<contract, key>>; a churn group of eight slots counts as one.            *)
(***************************************************************************)
EXTENDS Integers, Sequences, FiniteSets, FiniteSetsExt

CONSTANTS
  Tables,       \* the activation tables asked for with --ladder
  Totals,       \* the chain lengths asked for with --blocks
  CreateEvery,  \* every how many blocks a contract is created: 100
  ProbeEvery    \* every how many blocks the contract probes run: 25

ladderForks == <<"regolith", "canyon", "ecotone", "fjord",
                 "granite", "holocene", "isthmus", "jovian">>

Ranks == 1..8
Forks == {ladderForks[r] : r \in Ranks}
Rank(fork) == CHOOSE r \in Ranks : ladderForks[r] = fork

ASSUME LadderAssumption ==
  /\ \A t \in Tables : t \in Seq([block : Nat, fork : STRING])
  /\ Totals \subseteq Nat \ {0} /\ \E n \in Totals : \A m \in Totals : m <= n
  /\ CreateEvery \in Nat \ {0} /\ ProbeEvery \in Nat \ {0}

\* The activation block of a fork that the configuration leaves out.
Never == Max(Totals) + 1

VARIABLES
  table, total, full,  \* the request: activations, blocks, --poststate=full
  pc,
  act,               \* the effective activation block of every fork, by rank
  chain,             \* the generated blocks
  withdrawalCount,   \* the generator's count of withdrawals
  contractProbeSeq,  \* and of blocks that carried the contract probes
  emitted,           \* how many blocks have passed the emission checks
  sampled            \* indices of the blocks written with their post-state

request == <<table, total, full>>
counters == <<withdrawalCount, contractProbeSeq>>
vars == <<request, pc, act, chain, counters, emitted, sampled>>

Layouts == {"bedrock", "ecotone", "isthmus", "jovian"}
Slots == {"l1", "passer", "created", "churn"} \X Nat
Kinds == {"attributes", "deposit", "transfer", "withdrawal", "create", "precompile",
          "log", "churn", "revert", "invalid", "deploy", "call"}
Blocks == [fork : Forks, layout : Layouts, txs : Seq(Kinds),
           declared : SUBSET Slots, post : SUBSET Slots]

TypeOK ==
  /\ table \in Tables /\ total \in Totals /\ full \in BOOLEAN
  /\ pc \in {"parse", "generate", "check", "emit", "done", "rejected", "failed"}
  /\ act \in [Ranks -> 0..Never]
  /\ chain \in Seq(Blocks)
  /\ Len(chain) <= total /\ emitted \in 0..Len(chain)
  /\ withdrawalCount \in 0..Len(chain) /\ contractProbeSeq \in 0..Len(chain)
  /\ sampled \subseteq 0..(total - 1)

Init ==
  /\ table \in Tables /\ total \in Totals /\ full \in BOOLEAN
  /\ pc = "parse"
  /\ act = [r \in Ranks |-> Never]
  /\ chain = <<>>
  /\ withdrawalCount = 0 /\ contractProbeSeq = 0
  /\ emitted = 0
  /\ sampled = {}

-----------------------------------------------------------------------------
(* The table.                                                                *)

Accepted(t, n) ==
  /\ n >= 2 /\ Len(t) >= 2
  /\ \A k \in DOMAIN t : t[k].fork \in Forks /\ t[k].block < n
  /\ \A k \in 2..Len(t) : /\ t[k - 1].block < t[k].block
                          /\ Rank(t[k - 1].fork) < Rank(t[k].fork)
  /\ t[1] = [block |-> 0, fork |-> "regolith"]

\* Mutant: a skipped fork activates with the one listed before it.
CoupledDown(t) ==
  [r \in Ranks |-> LET lower == {k \in DOMAIN t : Rank(t[k].fork) <= r}
                   IN  IF r > Rank(t[Len(t)].fork) THEN Never ELSE t[Max(lower)].block]

\* A fork that is skipped activates with the next one listed; above the last
\* one nothing activates.
Coupled(t) ==
  [r \in Ranks |-> LET upper == {k \in DOMAIN t : Rank(t[k].fork) >= r}
                   IN  IF upper = {} THEN Never ELSE t[Min(upper)].block]

blockFork(b) == ladderForks[Max({r \in Ranks : act[r] <= b})]

\* Mutant: block numbers taken for indices.
ActivationNumbers == {table[k].block : k \in 2..Len(table)}

\* 0-based indices of the activation blocks that the table lists.
activationIdxs == {table[k].block - 1 : k \in 2..Len(table)}

\* The blocks whose time is an effective activation time.
activationTimes == {act[r] : r \in 2..8}

Parse ==
  /\ pc = "parse" /\ Accepted(table, total)
  /\ act' = Coupled(table)
  /\ pc' = "generate"
  /\ UNCHANGED <<request, chain, counters, emitted, sampled>>

Reject ==
  /\ pc = "parse" /\ ~Accepted(table, total)
  /\ pc' = "rejected"
  /\ UNCHANGED <<request, act, chain, counters, emitted, sampled>>

-----------------------------------------------------------------------------
(* The L1Block predeploy: layouts of the attributes calldata and its slots.  *)

forkLayout(fork) ==
  CASE fork \in {"regolith", "canyon"} -> "bedrock"
    [] fork \in {"ecotone", "fjord", "granite", "holocene"} -> "ecotone"
    [] OTHER -> fork

\* The calldata of a block has its parent's layout: the contract is upgraded
\* in the activation block, after the attributes deposit.
calldataLayout(b) == forkLayout(blockFork(b - 1))

l1BlockWrittenSlots(layout) ==
  CASE layout = "bedrock" -> {1, 5, 6}
    [] layout = "ecotone" -> {1, 3, 7}
    [] OTHER -> {1, 3, 7, 8}

\* What a layout leaves non-zero: only Jovian's data availability scalar in
\* slot 8 has a value.
l1BlockStorage(layout) ==
  IF layout = "isthmus" THEN {1, 3, 7} ELSE l1BlockWrittenSlots(layout)

L1(slots) == {"l1"} \X slots

\* Mutant: the genesis carries the slots of every listed fork.
UnionSeeds == L1(UNION {l1BlockStorage(forkLayout(table[k].fork)) : k \in DOMAIN table})

\* l1BlockGenesisSeeds: the layout of the fork active at genesis.
genesisStorage == L1(l1BlockStorage(forkLayout(table[1].fork)))

Post(b) == IF b = 0 THEN genesisStorage ELSE chain[b].post
L1Slots(b) == {n \in 1..8 : <<"l1", n>> \in Post(b)}

-----------------------------------------------------------------------------
(* What a block carries.                                                     *)

When(cond, txs) == IF cond THEN txs ELSE <<>>

JovianActivation(b) == act[8] = b

\* recipeFor with the transfer that generateLadderChain adds to it.
recipe(i) ==
  LET b == i + 1
      fork == blockFork(b)
      free == ~JovianActivation(b)
  IN  <<"deposit">>
      \o When(free, <<"transfer">>)
      \o When(free /\ fork # "regolith", <<"withdrawal">>)
      \o When(free /\ i > 0 /\ i % CreateEvery = 0, <<"create">>)
      \o When(free /\ Rank(fork) >= Rank("granite"), <<"precompile">>)

ladderContractProbesEnabled(i) ==
  /\ i > 0 /\ i % ProbeEvery = 0
  /\ i % CreateEvery # 0
  /\ i + 1 \notin activationTimes

\* One index per segment between listed activations: the legal one nearest to
\* the midpoint, the lower one of two.
createCallBlocks ==
  LET End(s) == Min({e \in activationIdxs \cup {total} : e > s})
      Legal(s) == {i \in s..(End(s) - 1) : /\ i > 0 /\ i % CreateEvery # 0
                                           /\ i \notin activationIdxs}
      Mid(s) == s + (End(s) - 1 - s) \div 2
      Off(s, i) == IF i < Mid(s) THEN Mid(s) - i ELSE i - Mid(s)
      Picked(s) == CHOOSE i \in Legal(s) : \A j \in Legal(s) :
                     Off(s, i) < Off(s, j) \/ (Off(s, i) = Off(s, j) /\ i <= j)
  IN  {Picked(s) : s \in {s \in {0} \cup activationIdxs : Legal(s) # {}}}

Txs(i) ==
  <<"attributes">>
  \o recipe(i)
  \o When(ladderContractProbesEnabled(i),
          <<"log", "log", "log", "log", "churn", "revert", "invalid">>)
  \o When(i \in createCallBlocks, <<"deploy", "call">>)

Carries(txs, kind) == \E k \in DOMAIN txs : txs[k] = kind

\* The slots a contract touches on behalf of one kind of transaction.
withdrawalSlots(k) == {<<"passer", 0>>, <<"passer", k>>}
churnSlots(seq) == {<<"churn", seq>>}
Touch(txs, kind, slots) == IF Carries(txs, kind) THEN slots ELSE {}

\* Mutant: every call clears its own group.
ClearOwn(seq) == seq

\* What ladderChurnCalldata asks the contract to clear.
churnPrev(seq) == IF seq > 0 THEN seq - 1 ELSE seq

\* What the generator declares for the block, from its own counters.
Declared(i, txs) ==
  L1(l1BlockWrittenSlots(calldataLayout(i + 1)))
  \cup Touch(txs, "withdrawal", withdrawalSlots(withdrawalCount + 1))
  \cup Touch(txs, "create", {<<"created", i>>})
  \cup Touch(txs, "churn", churnSlots(contractProbeSeq))

\* What execution leaves: the message passer counts for itself.
Executed(i, txs) ==
  LET sent == Cardinality({k \in 1..i : <<"passer", k>> \in Post(i)})
      cleared == Touch(txs, "churn", churnSlots(churnPrev(contractProbeSeq)))
  IN  (Post(i) \ cleared)
      \cup L1(l1BlockStorage(calldataLayout(i + 1)))
      \cup Touch(txs, "withdrawal", withdrawalSlots(sent + 1))
      \cup Touch(txs, "create", {<<"created", i>>})
      \cup Touch(txs, "churn", churnSlots(contractProbeSeq))

Block(i) ==
  LET txs == Txs(i)
  IN  [fork |-> blockFork(i + 1), layout |-> calldataLayout(i + 1), txs |-> txs,
       declared |-> Declared(i, txs), post |-> Executed(i, txs)]

\* The callback of GenerateChainWithGenesis.
Generate ==
  /\ pc = "generate" /\ Len(chain) < total
  /\ LET block == Block(Len(chain))
         Count(kind) == IF Carries(block.txs, kind) THEN 1 ELSE 0
     IN  /\ chain' = Append(chain, block)
         /\ withdrawalCount' = withdrawalCount + Count("withdrawal")
         /\ contractProbeSeq' = contractProbeSeq + Count("churn")
  /\ pc' = IF Len(chain') = total THEN "check" ELSE pc
  /\ UNCHANGED <<request, act, emitted, sampled>>

-----------------------------------------------------------------------------
(* The replay by op-geth.                                                    *)

\* Whether the genesis carries the code that op-geth's Process writes in the
\* Canyon activation block.
canyonActivated == act[Rank("canyon")] # Never

SelfCheck ==
  /\ pc = "check"
  /\ pc' = IF act[Rank("canyon")] \in 1..total /\ ~canyonActivated
           THEN "failed" ELSE "emit"
  /\ UNCHANGED <<request, act, chain, counters, emitted, sampled>>

-----------------------------------------------------------------------------
(* Emission: every block is checked against its predecessor's post-state.    *)

Active(fork, b) == act[Rank(fork)] <= b

EcotoneUnset(b) == L1Slots(b) \cap {3, 7} = {}
BedrockMirrored(b) == {1, 5, 6} \subseteq L1Slots(b - 1)
EcotoneMirrored(b) == {1, 3, 7} \subseteq L1Slots(b - 1)

DepositsOnly(txs) == \A k \in DOMAIN txs : txs[k] \in {"attributes", "deposit"}

\* The genesis of a ladder is older than every other fork, which decides the
\* tests of genesisTime against EcotoneTime and JovianTime.
assertL1BlockConsistencyAt(b) ==
  LET block == chain[b]
      sent == block.layout
      own == forkLayout(block.fork)
  IN  IF Active("ecotone", b) /\ sent = "bedrock"
      THEN BedrockMirrored(b) /\ EcotoneUnset(b - 1)
      ELSE \/ own = "bedrock" /\ sent = "bedrock" /\ BedrockMirrored(b)
           \/ /\ own = "jovian" /\ sent = "isthmus"
              /\ DepositsOnly(block.txs) /\ 8 \notin L1Slots(b - 1)
              /\ EcotoneMirrored(b)
           \/ own = "jovian" /\ sent = "jovian" /\ EcotoneMirrored(b)
           \/ /\ own = "isthmus" /\ sent = "ecotone" /\ act[Rank("isthmus")] = b
              /\ EcotoneMirrored(b)
           \/ /\ own = "ecotone" /\ sent = "ecotone"
              /\ EcotoneUnset(b - 1) \/ EcotoneMirrored(b)
           \/ own = "isthmus" /\ sent = "isthmus" /\ EcotoneMirrored(b)

assertDepositsFirst(txs) ==
  \A k \in DOMAIN txs : DepositsOnly(<<txs[k]>>) =>
    \A j \in 1..(k - 1) : DepositsOnly(<<txs[j]>>)

\* emitPostState: no slot outside the previous post-state and the declared ones.
Complete(b) == Post(b) \subseteq Post(b - 1) \cup chain[b].declared

\* The cost function op-geth charges by, chosen by fork and L1Block slots, and
\* the one it derives receipts by, chosen by calldata.
charged(b) ==
  IF ~Active("ecotone", b) \/ EcotoneUnset(b) THEN "bedrock"
  ELSE IF Active("fjord", b) THEN "fjord" ELSE "ecotone"

derived(b) ==
  CASE chain[b].layout = "bedrock" -> "bedrock"
    [] chain[b].layout = "ecotone" /\ ~Active("fjord", b) -> "ecotone"
    [] OTHER -> "fjord"

crossCheckVaults(b) == DepositsOnly(chain[b].txs) \/ charged(b) = derived(b)

Consistent(b) ==
  /\ assertL1BlockConsistencyAt(b)
  /\ assertDepositsFirst(chain[b].txs)
  /\ Complete(b)
  /\ crossCheckVaults(b)

Emit ==
  /\ pc = "emit" /\ emitted < total
  /\ Consistent(emitted + 1)
  /\ emitted' = emitted + 1
  /\ UNCHANGED <<request, pc, act, chain, counters, sampled>>

Refuse ==
  /\ pc = "emit" /\ emitted < total
  /\ ~Consistent(emitted + 1)
  /\ pc' = "failed"
  /\ UNCHANGED <<request, act, chain, counters, emitted, sampled>>

\* Mutant: the block after an activation is left out.
SampleUpTo(i) ==
  \/ i = 0 \/ i = total - 1
  \/ \E a \in activationIdxs : i \in (a - 1)..a
  \/ i % CreateEvery = 0

shouldEmitPostState(i) ==
  \/ i = 0 \/ i = total - 1
  \/ \E a \in activationIdxs : i \in (a - 1)..(a + 1)
  \/ i % CreateEvery = 0

\* Mutant: indices written from 1.
WriteFromOne ==
  /\ pc = "emit" /\ emitted = total
  /\ sampled' = {i \in 1..total : full \/ shouldEmitPostState(i)}
  /\ pc' = "done"
  /\ UNCHANGED <<request, act, chain, counters, emitted>>

\* The vector is written; a full one carries every post-state.
Write ==
  /\ pc = "emit" /\ emitted = total
  /\ sampled' = {i \in 0..(total - 1) : full \/ shouldEmitPostState(i)}
  /\ pc' = "done"
  /\ UNCHANGED <<request, act, chain, counters, emitted>>

Next == Parse \/ Reject \/ Generate \/ SelfCheck \/ Emit \/ Refuse \/ Write

Spec == Init /\ [][Next]_vars

-----------------------------------------------------------------------------
(* Properties.                                                               *)

\* A table for which no chain exists: Isthmus less than two blocks after Ecotone
\* leaves no block in between to introduce the Ecotone slots that the first
\* Isthmus calldata is checked against, and Jovian together with Isthmus leaves
\* no block to introduce the Isthmus calldata.
Skips(a) ==
  \/ a[7] # Never /\ a[7] < a[3] + 2
  \/ a[8] # Never /\ a[8] = a[7]

\* The checks of the emission loop, with the exemptions that each transition
\* block needs (first Ecotone, first Isthmus, first Jovian, and the block after
\* each), refuse no chain but those: for every other table, however dense and
\* whatever it leaves out, the replay, the slot mirror, the declared slots and
\* the two cost functions agree on every block.
GeneratesUnlessSkipping ==
  /\ pc = "failed" => Skips(act)
  /\ pc = "done" => ~Skips(act)

\* Making the table cumulative is invisible in the vector: every block is
\* labelled with the last fork that the table lists at or before it
\* (ladder_chain.go, "so _info.hardfork is unchanged").
CouplingInvisible ==
  \A b \in DOMAIN chain :
    chain[b].fork = table[Max({k \in DOMAIN table : table[k].block <= b})].fork

\* Every call of the churn contract clears the group that the previous one left,
\* across creation and activation blocks that skip a call: one group at most is
\* set, that of the last call (ladder_contracts.go, ladderChurnCalldata).
ChurnCleared ==
  chain # <<>> =>
    {seq \in 0..total : <<"churn", seq>> \in Post(Len(chain))}
      = IF contractProbeSeq = 0 THEN {} ELSE {contractProbeSeq - 1}

\* A vector with sampled post-states keeps both sides of every transition: where
\* the fork or the calldata layout of a block differs from its predecessor's, a
\* fork made active by coupling included, both blocks carry their post-state.
TransitionsSampled ==
  pc = "done" =>
    \A i \in 1..(total - 1) :
      (chain[i].fork # chain[i + 1].fork \/ chain[i].layout # chain[i + 1].layout)
        => {i - 1, i} \subseteq sampled

\* Every fork the table lists has one create-and-call probe among its blocks, if
\* one of them is neither the first block nor an activation nor a creation, and
\* none otherwise (ladder_contracts.go, "exactly one per fork segment").
SegmentsProbed ==
  Len(chain) = total =>
    \A k \in DOMAIN table :
      LET segment == {i \in 0..(total - 1) : chain[i + 1].fork = table[k].fork}
          legal == {i \in segment : /\ i > 0 /\ i % CreateEvery # 0
                                    /\ chain[i].fork = chain[i + 1].fork}
          probed == {i \in segment : Carries(chain[i + 1].txs, "deploy")}
      IN  /\ probed \subseteq legal
          /\ Cardinality(probed) = IF legal = {} THEN 0 ELSE 1
=============================================================================
