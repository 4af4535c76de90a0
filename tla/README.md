# A verification project for op-stack-e2e-tests

The repository holds the tools that bring up, exercise and certify FISCO-BCOS as the
execution layer of an OP Stack L2: end-to-end scripts against a live devnet
(`tools/op-e2e/`), the genesis toolchain (`tools/opstack-genesis/`), and the t8n vector
generator with the ritual that keeps its products reproducible
(`opstack-executor/tests/t8n/generator/`). The programs under verification here are
therefore mostly *judges*: scripts that drive processes they do not control and end in a
verdict. What has to be right about them is that

- a green verdict means what it says, whatever the environment did between two reads;
- a red verdict is not the script's own fault (a race, a budget, a stale file), or the reason
  that makes it one is known and named;
- an interrupted run does not poison the next one.

The modules below model the scripts at the grain of one remote read, one transaction or one
command per action, and leave the environment (chains, processes, the network, a developer,
an operator) free to act between any two of them.

## 1. Inventory

| Component | Source | State it keeps | Modelled |
|---|---|---|---|
| Withdrawal claim and dispute games | `op-e2e/withdraw_claim.py`, `withdraw_e2e.sh`, `withdraw_e2e_ephemeral.sh` | what one process has read so far; on L1: games, proofs, finalized withdrawals, bonds, the portal's ETH, the anchor | `WithdrawClaim`, `L1Bridge`, `BridgePromise` |
| Resilience test | `op-e2e/resilience_test.sh`, `c2lib.py` | PID files, baselines, poll budgets, FAIL; the processes and the heads | `Resilience` |
| C2 devnet setup | `op-e2e/setup_c2.sh` | everything in `$C2`: state.json, rollup.json, l2genesis, allocs, header, config.genesis, FISCO's data, PIDs | `SetupC2` |
| Vector regeneration ritual | `generator/ensure-vectors.sh`, `regen.sh` | two git checkouts and what is dropped in them, cases, vectors, goldens, four append-only contract files | `VectorRitual` |
| Fork ladder and chain generation | `generator/ladder.go`, `ladder_chain.go`, `ladder_contracts.go` | the activation table, the chain, the generator's own counters | `Ladder` |
| t8n case and vector generation | `generator/main.go`, `cases.go` | none between runs; one vector at a time | planned |
| Precompile cases | `generator/cases_precompile_*.go`, `precompile_inputs.go` | tables of byte strings | no: no state, no control |
| Capability and window dumpers | `generator/cmd/caps`, `cmd/opnodewin` | none: they print constants of op-geth and op-node | only their litter, in `VectorRitual` |
| Generator tests | `generator/*_test.go` | none | read for what they say of the generator |
| Goldens and vectors | `t8n/vectors`, `t8n/golden` | generated data | no |
| Deposit and cross-domain lanes | `op-e2e/deposit_e2e.sh`, `xdm_e2e.sh` | a baseline, scan windows over L2 blocks | the first: `DepositLane` |
| Nonce, fee and transaction scenarios | `op-e2e/nonce_fee_boundaries.sh`, `l2_tx_scenarios.sh`, `l2_gas.sh` | nonces read, receipts awaited | the first two: `GateScripts`, `ScriptLane` |
| Engine API drivers | `op-e2e/a1_active.py`, `chain_driver.py`, `state_verify.py`, `check_late_fork.py` | head, payload ids, base fee | `chain_driver`, `state_verify`: `GateScripts`, `ScriptLane` |
| RPC and predeploy matrices | `op-e2e/rpc_matrix.py`, `predeploy_matrix.py`, `probe_l1block.py`, `gen_l1block.py`, `b3_contracts.py` | what one check has read when the next reads again | the matrices and `b3_contracts`: `GateScripts`, `ScriptLane` |
| B3 node lifecycle | `op-e2e/restart_b3.sh`, `b4_persist.py`, `setup_op_node.sh`, `start_c2_op_node.sh`, `run_all.sh` | one PID, a database lock, the gate's exit status | the first two and the gate: `GateScripts`, `ScriptLane`, `L2Node` |
| Genesis toolchain | `opstack-genesis/*.py` | the accounts merged so far, then the files one tool leaves for the next | `BuildAllocs`, `StateTrie`, `AllocsIni`, `GenesisPipeline` |
| State readers | `op-e2e/op_state_list.cpp`, `op_state_read.cpp`, `sign_secp.c` | none: I/O, a vendored signature | no |

How they interact: `setup_c2.sh` makes the deployment, the genesis (through the genesis
toolchain) and the devnet that every other lane under `op-e2e` talks to by RPC; the
withdrawal lane and the resilience test act on that devnet at the same time as op-node, the
batcher and anvil do; the generator runs inside an op-geth checkout that
`ensure-vectors.sh` maintains, and `regen.sh` drives it in all its modes and books what it
produced in contract files that CI compares with the commit. `run_all.sh` runs the readers
and drivers one after the other against one B3 node, which it restarts on the way;
`nonce_fee_boundaries.sh` is run beside it. The genesis tools hand each other files: the
overlay build writes the INI and the JSON, the header tool roots the INI, the rollup tool pins
the header's hash, and the last one compares block 0 of the two chains that result.

What is hard about each, and what makes it correct:

- **Withdrawal claim.** A phase is a long row of RPC reads and transactions, on two
  chains, against five clocks; three phases share an L1, and nothing stops another script
  from claiming on the same one. Correct if the portal is never led to accept a withdrawal
  that is not final, a script never moves in a game that is not its own, a green lane has
  really been paid, it fails only for reasons outside itself, and it always ends.
- **Resilience test.** Its reads and kills interleave with processes that may linger, crash,
  be hung up, or come back empty. Correct if an all-green run has replaced the three
  processes and no finalized block was lost.
- **C2 setup.** Seven steps over files that may stem from several earlier, interrupted runs,
  entered at any step. Correct if "ready" means that one deployment is behind all of it, and
  if a complete run gets there from any leftovers.
- **Regeneration ritual.** It may fail or be killed at each command; its caches live on. Correct
  if a green run certifies what is on disk and committed, its books reach a fixed point after
  one commit, its caches heal, and a repository of the user's is used or refused, never replaced.
- **Ladder.** Off-by-one between block numbers, indices and times; three notions of "the fork of
  a block" (schedule, calldata layout, L1 fee) one block apart at every boundary. Correct if the
  generator's own checks refuse exactly the tables for which no chain exists, and labels, probes
  and samples line up with the effective forks.
- **Deposit lane.** Deposits derive minutes later, in any grouping, beside those of other users
  and of earlier runs, and are looked for through windows over a growing chain. Correct if a green
  run has seen its own deposits, and one that is there in time is found.
- **B3 gate.** The scripts read, send and wait against a node that seals between any two
  calls, answers from a state that lags the receipts, and is restarted under them. Correct if every
  red check has a cause outside the scripts' own order of reads and sends (one has not: the
  sequence number below), and if green means that what was sent has landed, on the node that was
  started last.
- **Genesis toolchain.** Several representations of one state (YAML and artifacts, the merged
  accounts, INI, JSON, roots, a hash), several tools, two tries. Correct if the base survives the
  overlay, who may upgrade and who may write a predeploy stay apart, every representation has one
  meaning, and two different geneses are told apart.

The hazards, one by one and at their lines, are in `PROJECT.json`, each with the properties
that would catch it.

## 2. Modules and how they correspond to the code

    BridgePromise                       what a withdrawal bridge promises
         ^ refinement (KeepsPromise)
    L1Bridge  <-- WithdrawClaim  <-- MCWithdrawClaim
                       ^------------ WithdrawClaimProofs
    Resilience   <-- MCResilience, DevnetProofs
    SetupC2      <-- MCSetupC2, DevnetProofs
    VectorRitual <-- MCVectorRitual, VectorRitualProofs
    Ladder       <-- MCLadder, LadderProofs
    L2Node, GateScripts <-- ScriptLane <-- MCGate, ScriptLaneProofs <-- ScriptLaneRedProofs
    DepositLane  <-- MCDepositLane, DepositLaneProofs
    BuildAllocs, StateTrie <-- AllocsIni <-- GenesisPipeline <-- MCGenesis, GenesisProofs

`PROJECT.json` maps every definition to the lines it stands for.

### L1Bridge, WithdrawClaim, BridgePromise

`L1Bridge` states what the contracts do: the factory, a permissioned dispute game with its
chess clock, out-of-order and bond rules, the portal's prove/finalize ledger with its silent
inner call, `claimCredit`'s close/unlock/pay. **None of that Solidity is in the repository**;
each operator is external and says what the script's guards, comments and expected revert
selectors say.

`WithdrawClaim` is `withdraw_claim.py` itself. A script runs a program, a sequence of phases
(`claim`, `abandoned`, `dishonest`); `pc` is the line it is at, `mem` what the phase's process
holds in memory (the output block `out`, the block of the header it read `hdr`, the game index
`gi`, the claims it has resolved `k`, and of the wrapper `withdraw_e2e.sh` DEV1's balances on L2
and L1, `bal` and `before`). Amounts are thousandths of an ETH. Correspondence of the actions:

| Action | Code |
|---|---|
| `Fund` | the top-up of the portal in `withdraw_e2e.sh`, which DEV0 pays |
| `ReadL2Balance`, `DepositHeadroom`, `Derive` | DEV1's balance on L2, the deposit of 0.1 ETH if it has too little, and its derivation; `Poll` and `TimedOut` at `credit` are the wait of 300 s |
| `ReadL1Balance`, `Initiate`, `NoFunds` | `L1_BEFORE`; `initiateWithdrawal`, or DEV1 cannot pay it; the contest leg only initiates |
| `ReadOutput`, `NotFinalized` | `output_at_finalized` and its deadline |
| `ReadHeader`, `ReadProof` | `rpc_inclusion_proof`: two calls at `latest`, two anchors |
| `CreateGame`, `ReadIndex` | `create_game`: the transaction, then `gameCount()-1` |
| `Poll`, `TimedOut` | `wait_until` over a simulated call: a revert is a wait state |
| `Reverted` | `cast` exits on any failed transaction |
| `Prove`, `Recorded` | `proveWithdrawalTransaction`, the lifecycle assertion |
| `Oracle`, `Attack`, `Rebut` | the contest phases |
| `ResolveClaim`, `Resolve`, `Check` | bottom-up resolution, the status and ledger assertions |
| `FinalizeWithdrawal`, `Unlock`, `RecoverBond` | finalization and the two `claimCredit` calls |
| `CheckDelta`, `Sendoff` | `withdraw_e2e.sh` again: the assertion on DEV1's L1 balance, the last transaction on L2 |
| `SealBlock`, `FinalizeL2`, `Tick` | the two chains |

A transaction is one atomic step; everything read before it may be stale when it lands.
`BridgePromise` knows of four sets only, *sent*, *final*, *claimed*, *received*; the refinement
mapping reads them off the concrete state.

### Resilience

Processes are indices into `procs`, that is, PIDs; PID files hold what bash's `$!` gives: for
`nohup prog &` the program's PID, for `cd dir && nohup prog &` the PID of the subshell that
waits for it (`StartPlain`, `StartUnderShell`). The script's actions are the steps of the three
scenarios S1 (batcher), S2 (FISCO), S3 (op-node): `Baseline`, `KillVictim`, `WaitGone`/`CheckGone`,
`Restart`, `WaitUp`/`CheckUp`, `CheckSurvival` (the second look after 70 s), `WaitAdvance`,
`Recheck`. The devnet's are `Seal`, `Derive`, `Finalize`, `Stop`, `Hangup`; `Faults` selects
what may go wrong.

### SetupC2

One variable per file in `$C2`, holding *which deployment* the content is of, and the run that
took its L1 timestamp. An action is one command. `Run(s, e)` is the operator's START/END, with
every predecessor of START completed; `Abort` is a kill or a tool that fails, at any point.
`set -u` inside a command substitution is modelled as it behaves: the substitution dies with
nothing printed, the script goes on (`JovianTime`). The specification is `SetupSpec`, because
`DevnetProofs` extends this module next to `Resilience`: one is about the devnet's setup, the other
about its restarts.

### VectorRitual

The bytes of a case, a vector or a golden are a function of the definition they come from, so
a file is the *version* of that definition, 0 if absent. Checkouts carry a kind (absent, plain
directory, worktree, clone), a HEAD and the litter that `regen.sh` drops in them; a path the user
names may hold any of them. A clone is made in three steps, a directory, an empty repository, a
HEAD. `Fail` is a command that fails (the EXIT trap sweeps), `Kill` a SIGKILL (nothing does).
Between runs a developer edits, drops, refreshes sums, stages, commits, or starts from a fresh
checkout as CI does. The ritual's last step compares the contract files with the *index*
(`git diff --exit-code`), so that what a red run asks for is a `git add`; the commit matters to
whoever checks it out.

### Ladder

`Parse` is `parseLadderFlag` with its coupling of skipped forks; `Generate` the per-block callback,
with calldata layout, recipe, contract probes, churn, create-and-call probes and the storage
declared for the block; `SelfCheck` the replay; `Emit`/`Refuse` the emission checks
(`assertL1BlockConsistencyAt`, deposits first, declared slots, vault cross-check); `Write`
the sampling. A block's number stands for its time; storage is the set of non-zero slots (fee
parameters are constant along a chain, so a slot mirrors its word iff it is set); op-geth's cost
functions are external. `CreateEvery` and `ProbeEvery` stand for 100 and 25. The parser's rule
that an activation must lie below `--blocks` is modelled as written; it also refuses an
activation in the very last block, which exists.

### L2Node, GateScripts, ScriptLane

`L2Node` is the node as the scripts use it, **external** throughout: a chain of numbered
blocks, one sender (every script signs with one funded key), a pool with one transaction per
nonce, a base fee, a `ledger` that trails the head, and the processes, of which the one that
holds RocksDB answers. `Seal` takes a prefix of the run of consecutive payable nonces; `Open` is
a process that gets the database, with the pool kept or gone and, if allowed, with blocks lost.

`GateScripts` is the scripts as data: each script, or each group that `rpc_matrix.py` catches on
its own, is a sequence of instructions (read, send, wait, check) in the order of the source.
The checks left out are those of an answer's form, whose outcome does not depend on when they
run; a check of several conjuncts is one instruction per conjunct (`Resolves`: past genesis, not
further behind than the window, not ahead). `ScriptLane` executes them, one instruction per action, and the node acts between any two:

| Action | Code |
|---|---|
| `ReadBlock`, `ReadTag`, `ReadState` | `eth_blockNumber`, block and receipt fields, the database's own number; safe and finalized; nonce, balance, storage and L1Block's sequence number at `latest` |
| `SendTx` | `eth_sendRawTransaction`, `cast send --async` |
| `SeeReceipt`, `RunOut` | `wait_receipt` and its like: found, or the budget spent |
| `StaysAbsent`, `AdvanceNonce`, `SeeLaterBlock`, `ReadHeadAgain` | `wait_absent`, `wait_nonce_advance`, the polls for a later block, b4's 40 tries |
| `CheckNow` | the assertions between registers |
| `Kill`, `WaitGone`, `Launch` | `restart_b3.sh` |
| `DriveEngine`, `StartB3a` | the Engine API surface; B3a's start, which may fail |
| `Raised`, `NextUnit` | an exception that ends a unit; `run_all.sh`'s `\|\| fail=1` |

`trouble` collects what happened that is not the scripts' doing; it is what the properties
compare verdicts with, and no action reads it except for one bound.

### DepositLane

`deposit_e2e.sh`, run several times on one devnet. L1 is the sequence of deposits sent, in which a
deposit carries the run that sent it (0 for other users) and its form; a block takes any number of
those that are next, and a deposit's index in its block follows. The script never sees whose
deposit it looks at: `Scanned` compares forms, blocks and indices only. `ReadBefore` and `ReadTip0`
are the two baselines, `LookAtBalance`, `Scan` and `WaitSafe` the polling of phase 1, which swallows
a failing call and starts over, `SendVariant` and `FindDeposit` phase 2. A budget may end at any
look; `trouble` notes whether the deposit was on L2 by then.

### BuildAllocs, StateTrie, AllocsIni, GenesisPipeline

Pure algorithms as operators, and the pipeline of tools as a state machine over their files.
`BuildAllocs` is the overlay: its guards (`TwoAuthorities`, `Builds`, `Overlays`), the storage of
SystemConfig and of the validator set, and the merge. A hashed slot is the tuple of what is
hashed, so that hashes collide only if preimages are equal. `StateTrie` has both Merkle Patricia
tries, the sorted-list one of `mpt_state_root.py` with its failure at full depth and the
mapping one of `gen_trieroot_golden.py`; a node is the structure that is encoded, with the
length that decides between embedding and hashing. `AllocsIni` writes and reads the file between them, line by
line; the parser is a function of the number of lines read, and the storage of a validator set is
given slot by slot, the last writer of a slot winning as in a Python dictionary, so that both can
be proved about. `GenesisPipeline`'s actions are the stages of `build-allocs.py`'s main
(`VerifyProvenance`, `LoadBase`, `CheckExpected`, `OverlayPredeploy` once per predeploy, `Emit`),
`MakeHeader`, `WriteRollup` and `Diff`; `WriteLine` makes files by hand, which the readers take
as well.

## 3. Runs

Every passing property has a mutant of the code (`PROJECT.json`, "mutants") that TLC finds
violating it under the same configuration. States are distinct states.

| Run | Question | Checks | States |
|---|---|---|---|
| `claim_lane` | the ephemeral lane: claim, abandoned, dishonest, in this order | `TypeOK`, `OnlyRaceFailures`, `GreenMeansPaid`, `LaneEnds` | 420,360 |
| `claim_pair` | a claim beside another script's claim, re-proof or contest, either one arbitrarily slow | `OwnGame`, `ProvenIsFinal`, `KeepsPromise` | 1,853,544 |
| `restart_faults` | two runs of the resilience script, all six faults | `TypeOK`, `GreenMeansRestarted`, `NoSilentLoss` | 635,508 |
| `restart_twice` | *violated*: `StoppedMeansStopped`, with no fault at all | | |
| `setup_rerun` | three runs of the setup, each from any step, killed anywhere | `SetupTypeOK`, `ReadyMeansAligned`, `WipeMeansMismatch`, `RerunCompletes` | 77,166 |
| `setup_jovian` | *violated*: `ThreeSites` | | |
| `vectors_ritual` | any sequence of regenerations, failures, kills, edits, stagings, commits, fresh checkouts | `TypeOK`, `RitualSettles`, `CheckoutsHeal`, `GreenCovers`, `OwnedClonesKept` | 3,033,497 |
| `ladder_tables` | every table that an eight-block chain accepts, and short malformed ones | `TypeOK`, `GeneratesUnlessSkipping`, `CouplingInvisible`, `ChurnCleared`, `TransitionsSampled`, `SegmentsProbed` | 179,844 |
| `b3_gate` | the three parts of the gate, and the nonce, fee and transaction scenarios, against a node that does anything L2Node allows | `TypeOK`, `RedMeansTrouble`, `GreenMeansLanded`, `GreenMeansRestarted` | 1,687,185 |
| `nonce_sections` | *violated*: `SectionsAdvance` | | |
| `genesis_chain` | configurations varied in two places at a time, on several bases; every hand-written file of up to five lines | `TypeOK`, `BaseKept`, `ApartUnlessOverwritten`, `ValidatorSetSound`, `RootsAgree`, `RootedIsUnambiguous`, `OnlyReopenedLose`, `DiffTellsApart` | 160,789 |
| `deposit_lane` | two runs of the deposit script, with any derivation, other users and failing calls | `TypeOK`, `GreenMeansDerived`, `RedMeansTrouble` | 4,918,044 |

What they show:

- **`claim_lane`**: on the devnet's compressed clocks (scaled: `ProofMaturity` 2, `MaxClock` 4,
  `FinalityDelay` and `UnlockDelay` 1; the budgets are about twice the clocks they wait for, where
  the script's 120 to 600 s are ten times the lane's 6 to 30 s and more) no wait outlasts its budget, no
  transaction reverts after its simulation passed, no game collides with an earlier one or the
  anchor, each bond ledger adds up, and so does DEV1's balance on L1 at the end. The only early
  exits are four that depend on L2: a block sealed between two `latest` reads, a withdrawal that
  does not become final, a headroom deposit that is not derived in time, and a DEV1 that had less
  than the 1 ETH itself (of exactly 1 ETH the headroom pays for both transactions).
- **`claim_pair`**: `gameCount()-1` may well name a foreign game; the uniqueness of (root,
  block) and the portal's root check still keep an honest script in its own.
- **`restart_faults`**: the survival check, the two advance checks and the two regression checks
  together suffice on a fresh devnet. `GreenMeansRestarted` is for the first run only, because
  of what `restart_twice` shows; `NoSilentLoss` is for an S2 whose baseline was answered (an
  unanswered one is -1, and -1 is below every head).
- **`setup_rerun`**: kills and resumptions never mix two deployments in a "ready" devnet, and
  stale data is always noticed by a complete run. With a Jovian offset this is for runs through
  step 2, because of `setup_jovian`.
- **`vectors_ritual`**: see the comments at the properties. `OwnedClonesKept` is about repositories
  with a `.git` directory, and its worlds hold other paths of the user's too: those are removed. `RitualSettles` leaves out runs that met
  case files of dropped cases (`emitCases` removes nothing); `CheckoutsHeal` leaves out the
  fallback fetch, after which FETCH_HEAD is the default branch, and kills during the matrix
  phase, whose litter (`cmd/opt8n-caps`, `opt8n-ref-caps`, `opt8n-ref-opnodewin`) no later run
  removes.
- **`ladder_tables`**: the exemptions of the slot mirror are exactly those each transition needs:
  a chain is refused iff Isthmus comes less than two blocks after Ecotone, or Jovian with
  Isthmus (`Skips`).
- **`b3_gate`**: each check turns red only for the reasons that `Excuses` lists for it, a block
  sealed between two reads, a lagging read or head, a wait that ran out, a moving fee, a left-over
  of an earlier run. One of these reasons is the scripts' own order, and only one: `sequence`
  compares two back-to-back reads of L1Block's sequence number, which are to be 0 or one apart, and
  is red whenever L1Block is written (`written`) and no block of the same L1 origin becomes visible
  in between; the comment there (predeploy_matrix.py:309-310) expects zeros. Several checks have no excuse at all (`order`, `one`,
  `rootChanges`, `currentNumber`, `head`) and are therefore never red. Green means that every
  transaction meant to land has landed and none of the refused ones has, except when b4's
  restart lost blocks that had grown back in number by the time it looked.
- **`genesis_chain`**: whatever the build accepts keeps the base, keeps the two authorities apart
  (unless a raw storage entry overwrites one), gives a validator set the contract can work on, and
  roots alike in both representations. The comparison of two block 0 answers is exact if the first
  endpoint answers the hash, which it does not insist on (`DiffTellsApart`). A hand-written file
  that gets a root has one meaning, with two exceptions: a storage section that is opened twice
  drops what it first listed, and a passer written without 0x is rooted and not found for `withdrawalsRoot`.

- **`deposit_lane`**: a green run's three deposits are on L2, and the ETH deposit's block is safe,
  unless an earlier run's deposit of the same form is in sight: the scan starts at TIP0 itself, not
  at the block after it, and `find_deposit` takes any variant of its last 80 blocks. A run
  is red only because a deposit was late or not safe, because more blocks than a window holds came
  between two looks or more deposits into a block than are looked at, because an
  earlier run's credit or DEV1's own spending moved the balance, or because a call failed.

The three violations are disagreements between the code and what it says of itself, each quoted
with its line in `PROJECT.json` "findings":

1. `restart_twice`: FISCO's PID file names a subshell after a restart; the next stop kills
   that, reports FISCO stopped, and the old FISCO answers all further checks.
2. `setup_jovian`: resuming at step 3 or later with `L2_JOVIAN_OFFSET` set writes a blank
   `jovian_time`.
3. `nonce_sections`: the section after the out-of-order one waits for the account's nonce to
   pass the first of the three nonces used, not the last.

Others are exceptions that passing properties make, each with its comment: a block sealed between
the two `latest` reads of the claim gives a red lane, and so does an L2 that derives the headroom
deposit late (`OnlyRaceFailures`); a FISCO that needs more
than five seconds to answer has its data removed whatever its genesis (`WipeMeansMismatch`); a
checkout of the user's whose `.git` is a file, a linked worktree or a submodule, is removed, and so
is any other directory at that path, although three comments of `ensure-vectors.sh` (44, 50, 63)
say that what the user passes is never deleted (`OwnedClonesKept`);
tables that skip certain forks are accepted, coupled and then refused (`GeneratesUnlessSkipping`);
`run_all.sh` starts B3a after the step that first drives its engine port, an uninitialised
bridge makes the predeploy matrix exit 1 with nothing failed, and two reads of one block are to
differ by one (`RedMeansTrouble` of the gate); a
predeploy's raw `storage` is written over the owner slots that the build has just checked to be
different, although the genesis README promises that they never are the same entity
(`ApartUnlessOverwritten`).

### Bounds, and why they are enough

- `WithdrawClaim`: `MaxTime` 50 (8 for the pair) lets the lane's three phases and every budget
  run out; `MaxL2` 4 (2) lets a block fall into each pair of L2 reads and finality move twice.
  Two scripts, because each property is about a script and one that interferes; two withdrawals,
  the same or another. `PortalFunds` 0, 1900, 2000 and 3500 are a portal without the lane's 2 ETH,
  just short of it, with just that, and with more; `L2Funds` 850, 1000 and 2100 a DEV1 for whom the
  headroom is not enough, is, and is not needed; `L2Gas` 1 and 40 at most the headroom for the two
  transactions together.
- `Resilience`: `Delta` 1 instead of 3 and `Patience` 2 polls: what matters is below and at the
  threshold, and giving up or not; two runs, because PID files carry over once; `MaxHead` 4 leaves
  room for each scenario to advance and the lost chain to grow back.
- `SetupC2`: three runs, the shortest history in which a run resumes on files of two others; END
  in the middle (3) or at the end (7).
- `VectorRitual`: two cases (interchangeable: symmetry), two mode products of which one is
  excluded, two versions; found checkouts, the user's or not, in every kind and at any commit, with two kills, or pinned
  ones with three edits and a kill: checkouts and corpus interact only through failing and
  passing. `ladder_tables`: eight blocks hold every fork one
  block apart, and any gap of up to six between two.
- `b3_gate`: the gate is checked in three parts rather than as the one sequence `run_all`, whose
  states multiply. Each part starts from what an earlier one can leave behind: a transaction in
  the pool, no process, or a process that was told to stop and outlived its successor. `MaxLag`
  1 separates a lagging read from a current one; one block of nobody's suffices to fall between any
  two reads (two where a chain that was cut has to regrow); fees 9 and 10 have different halves
  and one step between them; `Ample` is a cap above any fee; one wait may run out early.
  `SafeWindow` 0 and `FinalizedWindow` 1 for 600 and 4000, so that with three blocks a tag may be at
  the edge of either, behind it, and ahead of the block it is compared with; `OriginBlocks` 2 blocks of one L1 origin, so that two reads of the sequence
  number are 0, equal, one apart and falling. An L1Block that is never written is `OriginBlocks` 1,
  of which `RedIsExplained` speaks as well.
- `genesis_chain`: one base and configuration that build, varied in the base and in one place of
  the configuration, or in one place of each of the two predeploys, so that every guard is met and
  the guards on one predeploy meet what is accepted and refused of the other. `Width` 4 over three
  nibbles gives keys that share none to two nibbles, hence leaves, extensions and branches,
  embedded and hashed. Five lines are a section, its address, a storage section and two slots, or
  a storage section opened twice around one.
- `deposit_lane`: `EthWindow` 2 for 40, `VarWindow` 1 for 80 and `Indices` 2 for 8 (the attributes
  deposit and one more), so that six blocks hold a deposit at TIP0, before and behind it, at a
  window's edge and beyond it, and a full block; two runs, because a run can only be misled by an
  earlier one; one deposit of another user, to fill a block; one spend by DEV1. The safe head
  moves only when it is looked at, by any number of blocks.

### Fairness

`claim_lane` assumes weak fairness of each script's next step (a running process) and of `Tick`
(anvil mines on a timer), and none of L2: the lane must end even if finality stalls for good.
`setup_rerun` assumes it of the script's `Step` and of `Produce` (FISCO and op-node are running
processes), not of `ComeUp`: a slow FISCO need not answer in time. The other runs check safety and
assume nothing. `b3_gate` checks deadlock:
no unit may get stuck, and the end of the last is an explicit `Stop`. The other runs disable
the deadlock check: scripts end.

## 4. Proofs

tlapm checks everything below from nothing, for **every** value of the constants that meets the
named assumptions; TLC evaluates those assumptions in the passing runs.

| Module | Theorem | Statement |
|---|---|---|
| `WithdrawClaimProofs` | `TypeCorrect` | `Spec => []TypeOK` |
|  | `RecordsAreFinal` | `Spec => []ProvenIsFinal` |
|  | `PromiseKept` | `Spec => KeepsPromise`: the refinement of `BridgePromise` |
|  | `InOwnGame` | `Spec => []OwnGame` |
|  | `GreenIsPaid` | `Spec => []GreenMeansPaid`, if one lane runs and every abandoned phase follows a claim |
|  | `OnlyRacesStopIt` | `Spec => []OnlyRaceFailures`, if one lane runs, of the shape of the ephemeral lane, without dawdling, with budgets that outlast the delays and a headroom that covers the gas |
| `DevnetProofs` | `TypeCorrect` | `Spec => []TypeOK` |
|  | `GreenIsRestarted` | `Spec => []GreenMeansRestarted` |
|  | `NothingLost` | `Spec => []NoSilentLoss` |
|  | `SetupTypeCorrect` | `SetupSpec => []SetupTypeOK` |
|  | `ReadyIsAligned` | `SetupSpec => []ReadyMeansAligned` |
|  | `WipeIsMismatch` | `SetupSpec => []WipeMeansMismatch` |
| `VectorRitualProofs` | `TypeCorrect` | `Spec => []TypeOK` |
|  | `Settles` | `Spec => []RitualSettles` |
|  | `CachesHeal` | `Spec => []CheckoutsHeal` |
|  | `GreenIsCovered` | `Spec => GreenCovers` |
|  | `OwnedIsKept` | `Spec => OwnedClonesKept` |
| `LadderProofs` | `TypeCorrect` | `Spec => []TypeOK` |
|  | `LabelsAsListed` | `Spec => []CouplingInvisible` |
|  | `OneChurnGroup` | `Spec => []ChurnCleared` |
|  | `TransitionsKept` | `Spec => []TransitionsSampled` |
|  | `RefusesOnlySkips` | `Spec => []GeneratesUnlessSkipping` |
|  | `OneProbeEach` | `Spec => []SegmentsProbed` |
| `ScriptLaneProofs` | `TypeCorrect` | `Spec => []TypeOK` |
|  | `GreenIsRestarted` | `Spec => []GreenMeansRestarted` |
|  | `GreenIsLanded` | `Spec => []GreenMeansLanded` |
| `ScriptLaneRedProofs` | `RedIsExplained` | `Spec => []RedMeansTrouble` |
| `DepositLaneProofs` | `TypeCorrect` | `Spec => []TypeOK` |
|  | `RedIsExcused` | `Spec => []RedMeansTrouble` |
|  | `GreenIsDerived` | `Spec => []GreenMeansDerived` |
| `GenesisProofs` | `TypeCorrect` | `Spec => []TypeOK` |
|  | `BaseIsKept` | `Spec => []BaseKept` |
|  | `AuthoritiesApart` | `Spec => []ApartUnlessOverwritten` |
|  | `ValidatorsAreSet` | `Spec => []ValidatorSetSound` |
|  | `OnlyReopenedAreLost` | `Spec => []OnlyReopenedLose` |
|  | `DiffIsExact` | `Spec => []DiffTellsApart` |

Hardly a property is inductive as it stands; each module has an inductive invariant of its own.

**WithdrawClaim** (`DelayAssumption`, `BondAssumption`, `ProgramAssumption`, `BudgetAssumption`: any
scripts and withdrawals, programs, delays, bonds and budgets). What the portal records is what the
script read several steps before it proved. `IInv == BridgeInv /\ ChainsOK /\ ScriptInv` adds that a
script's memory claims a block that was final when it read it (`MemoryOK`), that the game index
is in range at every label inside a game (`ControlOK`), and that finality never passes the head
nor a withdrawal's block (`ChainsOK`). It is preserved because the chains and the factory only
grow (`Grows`) and a move keeps a game's root and birthday (`SameGame`); there is one lemma per
group of actions: those that touch the script only (`QuietSteps`), those that change one game
(`GameSteps`), the portal's ledger (`LedgerSteps`) and the chains (`ChainSteps`). `PromiseKept`
maps every step to a step of `BridgePromise` or a stutter; the one that needs the invariant is
`FinalizeWithdrawal`, whose record must be of a final withdrawal. `InOwnGame` has an invariant of its
own, `OwnInv`: roots are unique in the factory (`RootsUnique`), and from its creation on the script's
own game is there with the root the script remembers (`OwnAt`); the game it has proved in has that
root, hence is its own. `GreenIsPaid` counts the portal's purse (`PaidInv`): at each label the portal
holds what the rest of the phase takes and, during a claim, one ETH for the contest behind it
(`Purse`). Its two hypotheses are the lane of `withdraw_e2e_ephemeral.sh`, which has its own L1 and
runs claim, abandoned, dishonest in this order: a contest funds nothing itself, and a second script
could empty the portal between the top-up and the payment. No clock or budget is assumed.
`OnlyRacesStopIt` is about that lane's clocks and ledgers. Its hypotheses: one script, which is not
slow; a claim or a contest of an abandoned game has a withdrawal of its own and a dishonest game
reuses that of the phase before it (`LaneShape`, any number of phases); each budget exceeds the delay
it waits for, and the game's clock and the prove budget the one L1 block that a proof has to wait for
(`RoomyBudgets`: the scripts allow 120 to 600 seconds for the devnet's clocks of seconds, and
`claim_lane` meets it; with a budget at or below the delay the property is false), and what two
transactions cost on L2 is within the headroom. The wait for the headroom needs no budget: running
out is one of the reasons named. Every reason to stop
but the four named has to be shown unreachable, and each rests on something an earlier step, or an
earlier phase, has left: `Untouched` and `Newest` that the phase's withdrawal is younger than every
root, lie and anchor, so that its game is new and is accepted as an anchor; `GameOK` what the claim
tree looks like at every label, who made each claim, which are resolved, and who has earned what
(`Chain`, `Settling`, `Ledger`), so that the resolution and the bonds are the expected ones; `Timely`
that a delay began no later than the wait for it, so that the wait ends first; `Simulated` that what
was simulated still holds when the transaction is sent, because nobody else acts in between and
time only helps. They are one invariant, `LaneInv`, which needs `OwnInv` and `IInv`; there is a lemma
per group of labels.

**Resilience** (`ResilienceAssumption`: any runs, faults, patience, threshold and chain length). What a
run's verdict rests on is which process each number and PID file means at each label, so
`FirstRun` says exactly that: the cast of processes started so far (`Cast`), what the PID files name
(`Named`, the shell for a restarted FISCO), who is gone (`Gone`) and who is alive (`Alive`), each from
the label on at which the script has made sure of it, unless a check has failed. `Kept` relates
the finalized head to S2's baseline, for every run: a green run that has got to S3 has seen the head
at or above it, and only the restart of FISCO can lower it.

**SetupC2** (`SetupAssumption`: any number of runs, any ENDs, offsets and slow machines). "Ready" is
printed long after the files were written, possibly by other runs. `Progress` ties the program
counter to `done`, the steps completed in order; `Completeness` says what the completion of each
step leaves true of the files it and its predecessors wrote; `Partial` what the commands of a
step under way have done so far; `Remembered` what the shell variable of the Jovian time is. A
later run that starts at k lowers `done` to k - 1, which is what makes the overwriting of a file
in step k harmless to the claims about steps beyond it. `WipeIsMismatch` adds `Mismatched`: where
the node is fast, one that does not answer has met another chain in its directory, and the
directory is still the one it met when it is removed.

**VectorRitual** (`RitualAssumption`, `WorldAssumption`: any cases, mode products, exclusions,
versions and checkouts found, of every kind). `TreesOK` follows a checkout through its clone, fetch and
checkout and bounds the litter at every label; `DiskOK` says which cases have been written
and generated at each label; `BooksOK` that the contract files agree with what is on
disk from the step on that maintains them; `Settled` that while `calm` the books are those a
regeneration would write again. `GreenCovers` then follows in the single step that may turn
`last` to green, the comparison with the index. `OwnedIsKept` needs the labels only: a repository
is removed where no HEAD was printed for it or where it is the cache's, and a HEAD is printed for
every repository with a .git directory; the fetch and the checkout that follow touch what the
script itself has cloned.

**Ladder** (`LadderAssumption`: any set of tables, any bounded set of chain lengths, any intervals).
The parser compares neighbours only; `SortedLemma` extends the order to any two entries, by the
least counterexample (well-foundedness of the naturals stands in for induction, which is out of
reach). `CoupledLemma` and `LastActiveLemma` are the content: the last fork whose coupled
activation is at or below b is the one that the table lists last at or before b. `ChangeLemma`:
the fork of a block differs from its predecessor's only at a listed activation; with it, the
sampling window of one block on either side covers both a change of fork and the change of
layout, which comes a block later. `ChurnLemma` follows the churn groups through one block. `LInv`
is `TypeOK` with `Staged` (what each stage knows), `Labelled`, `Churned` and `Written`.
`RefusesOnlySkips` is about the checks that run after the chain exists: `Emission` says, of every
block, that its transactions are the recipe's (`Reproduced`), that the L1Block slots set are those
that the activations say (`Mirrored`), that the message passer has counted as the generator has
(`Counted`), and that no slot is set which the block did not declare (`Covered`). With these every block
passes unless the table is one of the two in `Skips`, and for those the block that fails is named.
`OneProbeEach`: the generator probes at the first legal block of a segment and then not again,
because the blocks of one fork are an interval.

**ScriptLane** (`GateAssumption`, `WindowAssumption`, `L2NodeAssumption`: any of the gates, blocks,
fees, fee moves, lag, windows, waits that run out, with or without lost blocks, with an L1Block that
is written or not). The scripts are data, so the proof
first establishes what a body of instructions has to be (`Body`): instructions well-formed, a
receipt's field only behind a wait for that receipt which no timeout jumps across (`FieldsSeen`), a
price only behind a read of the base fee (`PricesRead`), jumps inside the body (`JumpsInside`). Every
script is shown to be one, most of them as fragments of plain instructions put together, and every
plan well made, with its restart at a known place (`PlansAreWellMade`). The rest does not look at a
script any more: `Steps` is what any instruction does to a script, and keeps `Seen` and `FeeRead`.
`GreenIsRestarted` rests on `Replaced(u, k, v, w)`, for a restart at instruction k of unit u and a
later instruction v, w that needs an answer: which processes there are before the kill, after it,
after the wait and after the launch, and that whoever passed v, w was answered by the new one.
`GreenIsLanded` needs a second invariant, `LInv`, on top of `IInv` (TLC finds it true in all states of
`b3_gate`). Its ground is `InOrder`: every fragment names its transactions in a fixed order (`Rank`,
`Tidy`), so that what is in the pool or in the chain was named before all that is still to be sent, and
nothing is sent twice. That what was waited for is in the chain (`Landed`) can be undone only by b4's
restart. `OneOpen` says that its successor opens the database once and that the chain is cut there or
nowhere, `Early` that all receipts so far were at or below the head b4 read first; a cut below that
head leaves b4 with a chain that is shorter than it remembers (`Short`), which its two comparisons of
heads turn red (`Heads`) unless the chain has grown back by then, the exception that the property
makes. That nothing lands which is meant to be refused has three reasons: the scripts do not send it
(`NeverSent`); its nonce is below the account's, which does not fall outside b4 (`LowRefused`); or it
shares its nonce with a transaction that landed (`Superseded`): the later one drives it out of the
pool or arrives behind it in the chain, because a block moves the account's nonce past exactly the
transactions it takes (`NoncePasses`).

`RedIsExplained` is the converse. What it says of the scripts' own order it says of every check but
`sequence`, whose excuse is that L1Block is written at all. It goes check by check, on a third invariant, `RInv`, over the
first two: `RedMeansTrouble` itself is not inductive, since what a check compares was read many
instructions before. `Effect` says what a step of a script does and that a check it turns red has
a `Cause`, the comparison that just failed; `Node` says it of a step of the node. Each script has
facts of its own (`ReadsFacts`, `DriverFacts`, `PersistFacts`, `ContractsFacts`, `PredeployFacts`,
`ScenarioFacts`, `BoundariesFacts`): instruction by instruction, what its registers still say of the
chain, or which trouble has come between. What the scripts share is the order of nonces.
`Line(from, chain, front, O, lo)` says that the sent pairs O of a transaction and a nonce are what a
pool holds and what a chain has taken from nonce lo up to the account's, each nonce once; it is
kept by every block and every send, and so says of a wait that runs out that the block which would
have ended it did not come, came with a higher base fee, or was missed by a lagging state: `Sure`
keeps the transaction affordable from its sending on. For nonce_fee_boundaries.sh it gives that
the third of three landed behind the first two although it was sent before them, that of two
with one nonce exactly one is in the chain (`one`, `order`: checks with no excuse at all), and what
each section may leave in the pool for the next. predeploy_matrix.py and l2_tx_scenarios.sh need less,
for they wait after each send (`SoloScript`, `OneAtATime`). Between two scripts the momentary
troubles (a lag, a moved base fee) are forgotten together with the checks they excuse, so that
what the next script starts from may rest on the lasting ones only (`NextUnit`).

**DepositLane** (`DepositAssumption`: any runs, windows, chain length, other users and spends). The
script never knows whose deposit it looks at. `One` says that by each label a run has sent one
deposit of each kind or none, `After` that its ETH deposit is derived behind both baselines,
`Baseline` what the count read first contains, `Looked` that a deposit which was there at the last look
was missed for a reason on record, and `Found` what the indices found can be. `RedMeansTrouble` is
part of the invariant. What carries the proof is the look at a window: what is new since the
last look lies inside it unless more blocks than it holds came between.

**Genesis** (`RequestsAssumption`, `HandAssumption`, `BuildAssumption`, `TrieAssumption`: any
configurations, base files and hand-written files, any hash and header renderings). `Merging` follows
the overlay: the base is unchanged inside what is merged, and each predeploy so far was accepted by
the guards, is there as it was built, and has added two accounts. `ValidatorsAreSet` rests on a lemma
about `validator_storage` alone (`ValidatorStorage`): the last writer of a slot wins, and two
validators never write one slot because the guards refuse an address that is listed twice.
`OnlyReopenedAreLost` goes through the lines of the file: `ReadSoFar(ps, k)` says, of the parser's
state after k lines, that each storage entry among them is listed in an alloc, or that its alloc's
storage was opened again by then.

Model-checked only, and why:

- `LaneEnds` and `RerunCompletes`: liveness under fairness is outside the prover's reach.
- `RootsAgree` and `RootedIsUnambiguous`: that two tries compute one root is an induction over the
  depth of recursive definitions on data.

No module declares a RECURSIVE operator, so that each of them can be proved about.

## 5. What is assumed or left out

- The L1 contracts, op-node, op-geth, FISCO, git and bash are modelled from how this code uses them.
- `WithdrawClaim`: the gas of L1 transactions, for which the balance assertion allows 0.01 ETH: the
  model's balance is exact; the offline proof mode (`read_rocksdb`), the provisioning and teardown of the
  ephemeral lane, and the kona replay are left out.
- `SetupC2`: building op-batcher, account funding, the node.config fields other than genesis and fork
  times are left out; FISCO is assumed to exit within the one second it is given (what follows
  otherwise is what `restart_twice` shows).
- `VectorRitual`: one run at a time; the developer acts between runs. That goldens agree with
  SHA256SUMS is left to the replayer that reads them (`regen.sh` only warns).
- `Resilience`: S2's and S3's advance may be credited to blocks the old process sealed after the
  baseline; noted as a hazard, and contradicting nothing the script says.
- `ScriptLane`: the checks of an answer's form, and the signing and encoding of transactions; the
  whole of `a1_active.py` and of the Engine API surface is one instruction, that needs B3a. Several senders,
  and other scripts on the same node at the same time, are left out: every script of the gate signs
  with one key and runs alone. `calc_op_base_fee` is arithmetic with a table of
  golden values in the repository; `check_late_fork.py` and `probe_l1block.py` read only.
- `DepositLane`: L2 does not reorganise; the fields of a deposit (`sourceHash`, mint, receipt status)
  are taken to be right. `xdm_e2e.sh` is left out: it initiates a withdrawal to the
  messenger and runs the claim phase of `withdraw_claim.py` on it.
- Genesis: balances, bytecode linking and the YAML's syntax are left out; that keccak256 has no
  collisions is assumed. The rollup configuration's check is part of the pipeline without a property
  of its own. The replay of the golden vectors is the comparison of the two tries, `RootsAgree`.
- `L2NodeAssumption` has a base fee that never falls to 0 and a cap above all fees, as `calc_op_base_fee`
  and the scripts' 1 gwei have it; `GateAssumption` that the plans run are the gate's. `RequestsAssumption`
  and `HandAssumption` say what YAML and the INI reader's line kinds can yield: finite lists and mappings,
  addresses and nonces that are natural numbers. Two inputs that the code lets through are left out by
  them: a negative nonce in the base (`parse_amount` does not look at the sign) and a forge artifact
  whose `deployedBytecode` is empty (`checked_bytecode` looks at the immutables only); neither is met
  by a guard, and no property is about a nonce's sign or an implementation's code.
- `Ladder`: bytecode, calldata bytes, fees and receipts are slots, layouts and the choice of a cost
  function.

## 6. Plan

1. *Done*: withdrawal claim with its promise and proofs; resilience; setup; ritual; ladder; the
   genesis toolchain with both tries; the B3 gate with its matrices, restart, fee and transaction
   scenarios; the deposit lane.
2. *Extend*: the cross-domain lane on top of the claim; the payload rules of `a1_active.py`; the
   invalid, static and chain modes of `main.go`.
3. *Prove*: done, the theorems of section 4; what is left to TLC there is out of the prover's reach.
