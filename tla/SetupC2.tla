------------------------------ MODULE SetupC2 ------------------------------
(***************************************************************************)
(* tools/op-e2e/setup_c2.sh: seven steps that deploy the L1 contracts, turn *)
(* their allocs into a FISCO genesis, start the node, align rollup.json     *)
(* with it and start op-node and the batcher.  Every step works on files an *)
(* earlier one, or an earlier run, left in $C2.  A run may be killed between*)
(* any two commands, and the next one starts at a step of the operator's    *)
(* choice (START), of those whose predecessors were completed.              *)
(*                                                                         *)
(* A deployment is named by the run that made it, a genesis by its          *)
(* deployment and the run that took its L1 timestamp; 0 is "none yet".      *)
(***************************************************************************)
EXTENDS Integers

CONSTANTS
  MaxRuns,     \* bound on the number of runs
  Ends,        \* the values of END that are tried
  Offsets,     \* is L2_JOVIAN_OFFSET set?  a subset of BOOLEAN
  SlowStarts   \* may FISCO and op-node need longer than the 5 s and 10 s they are
               \* given?  likewise

ASSUME SetupAssumption ==
  /\ MaxRuns \in Nat \ {0}
  /\ Ends \subseteq 1..7 /\ Ends # {}
  /\ Offsets \subseteq BOOLEAN /\ Offsets # {}
  /\ SlowStarts \subseteq BOOLEAN /\ SlowStarts # {}

VARIABLES
  l1,       \* anvil is up
  state,    \* state.json: the deployment in it
  eip,      \* deployments whose SystemConfig has the 8/2 EIP-1559 parameters
  rollup,   \* rollup.json: deployment, parameters, jovian_time, L2 genesis
  l2gen,    \* l2genesis.json: its deployment
  allocs,   \* allocs-new.ini: its deployment
  header,   \* eth_genesis_header.ini: the genesis it stands for
  cfg,      \* config.genesis: genesis and jovian_time
  data,     \* the genesis of the chain in fisco/data
  node,     \* the FISCO process: its genesis and jovian_time, and whether it answers
  opnode,   \* the rollup.json op-node was started with
  blocks,   \* the chain in fisco/data has blocks after its genesis
  off,      \* L2_JOVIAN_OFFSET is set
  slow,     \* FISCO may be slow to answer, op-node to seal its first block
  start, end,  \* START and END of this run
  abs,      \* the shell variable L2_JOVIAN_ABS of this run
  at,       \* the command the script is at
  done,     \* every step up to this one has been completed, in order
  runs,     \* runs begun
  wiped     \* the data directory removed last: its genesis, whether it had blocks,
            \* and the genesis it made room for

files == <<state, rollup, l2gen, allocs, header, cfg, data>>
devnet == <<l1, eip, node, opnode, blocks>>
setupVars == <<files, devnet, off, slow, start, end, abs, at, done, runs, wiped>>

NoGen == [dep |-> 0, ts |-> 0]
Gens == [dep : 0..MaxRuns, ts : 0..MaxRuns]
Times == {"none", "zero", "abs", "blank"}
NoRollup == [dep |-> 0, eip |-> FALSE, jov |-> "none", l2 |-> NoGen]
Rollups == [dep : 0..MaxRuns, eip : BOOLEAN, jov : Times, l2 : Gens]
NoNode == [gen |-> NoGen, jov |-> "none", up |-> FALSE]

Entry == <<"anvil", "init", "allocs", "config", "align", "opnode", "batcher">>
Labels == {"idle", "died", "anvil", "init", "apply", "rollup", "eip", "genesis", "allocs",
           "header", "config", "kill", "start", "probe", "wipe", "restart", "reprobe",
           "align", "opnode", "blocks", "batcher", "manifest", "ready"}

SetupTypeOK ==
  /\ l1 \in BOOLEAN /\ eip \subseteq 1..MaxRuns
  /\ state \in 0..MaxRuns /\ l2gen \in 0..MaxRuns /\ allocs \in 0..MaxRuns
  /\ rollup \in Rollups /\ opnode \in Rollups
  /\ header \in Gens /\ data \in Gens
  /\ cfg \in [gen : Gens, jov : Times]
  /\ node \in [gen : Gens, jov : Times, up : BOOLEAN]
  /\ blocks \in BOOLEAN /\ off \in BOOLEAN /\ slow \in BOOLEAN
  /\ abs \in {"unset", "empty", "abs"}
  /\ start \in 1..7 /\ end \in 1..7 /\ done \in 0..7 /\ runs \in 0..MaxRuns
  /\ at \in Labels
  /\ wiped \in [data : Gens, for : Gens, blocks : BOOLEAN]

SetupInit ==
  /\ l1 = FALSE /\ eip = {}
  /\ state = 0 /\ rollup = NoRollup /\ l2gen = 0 /\ allocs = 0
  /\ header = NoGen /\ cfg = [gen |-> NoGen, jov |-> "none"] /\ data = NoGen
  /\ node = NoNode /\ opnode = NoRollup
  /\ blocks = FALSE
  /\ off \in Offsets /\ slow \in SlowStarts
  /\ start = 1 /\ end = 7 /\ abs = "unset"
  /\ at = "idle" /\ done = 0 /\ runs = 0
  /\ wiped = [data |-> NoGen, for |-> NoGen, blocks |-> FALSE]

-----------------------------------------------------------------------------
(* Control *)

Over == {"idle", "died", "ready"}

\* The operator runs the script again, from a step all of whose predecessors were
\* completed.
Run(s, e) ==
  /\ at \in Over /\ runs < MaxRuns
  /\ s <= done + 1 /\ s <= e
  /\ start' = s /\ end' = e
  /\ at' = Entry[s]
  /\ abs' = "unset"
  /\ runs' = runs + 1
  /\ UNCHANGED <<files, devnet, off, slow, done, wiped>>

\* A kill from outside, or a tool that fails: nothing is cleaned up.
Abort ==
  /\ at \notin Over
  /\ at' = "idle"
  /\ UNCHANGED <<files, devnet, off, slow, start, end, abs, done, runs, wiped>>

Begin(label, k) == at = label /\ done' = IF done < k THEN done ELSE k - 1
Within(label) == at = label /\ UNCHANGED done
Then(label) == at' = label
Completed(k) == IF done >= k - 1 THEN k ELSE done
Finish(k) == at' = IF k < end THEN Entry[k + 1] ELSE "manifest"

\* What every command leaves alone.
Same == UNCHANGED <<off, slow, start, end, runs>>

-----------------------------------------------------------------------------
(* Steps 1 and 2: anvil, and the live deployment on it. *)

Anvil ==
  /\ at = "anvil"
  /\ l1' = TRUE
  /\ done' = IF done < 1 THEN 1 ELSE done
  /\ Finish(1)
  /\ Same /\ UNCHANGED <<files, eip, node, opnode, blocks, abs, wiped>>

InitDeploy ==
  /\ Begin("init", 2)
  /\ state' = 0
  /\ Then("apply")
  /\ Same /\ UNCHANGED <<rollup, l2gen, allocs, header, cfg, data, devnet, abs, wiped>>

\* The intent carries the Jovian offset if the environment sets one.
Apply ==
  /\ Within("apply")
  /\ l1
  /\ state' = runs
  /\ Then("rollup")
  /\ Same /\ UNCHANGED <<rollup, l2gen, allocs, header, cfg, data, devnet, abs, wiped>>

\* jq -r '.jovian_time // empty'
ReadBackNull == IF off THEN "abs" ELSE "null"
ReadBack == IF off THEN "abs" ELSE "empty"

InspectRollup ==
  /\ Within("rollup")
  /\ rollup' = [dep |-> state, eip |-> FALSE, jov |-> IF off THEN "abs" ELSE "zero",
                l2 |-> NoGen]
  /\ abs' = ReadBack
  /\ Then("eip")
  /\ Same /\ UNCHANGED <<state, l2gen, allocs, header, cfg, data, devnet, wiped>>

\* setEIP1559Params on L1, and the same values forced into rollup.json.
Unset == {}
Parameterised == {rollup.dep}

SetParams ==
  /\ Within("eip")
  /\ eip' = eip \cup Parameterised
  /\ rollup' = [rollup EXCEPT !.eip = TRUE]
  /\ Then("genesis")
  /\ Same /\ UNCHANGED <<state, l2gen, allocs, header, cfg, data, l1, node, opnode,
                         blocks, abs, wiped>>

InspectGenesis ==
  /\ at = "genesis"
  /\ l2gen' = state
  /\ done' = Completed(2)
  /\ Finish(2)
  /\ Same /\ UNCHANGED <<state, rollup, allocs, header, cfg, data, devnet, abs, wiped>>

-----------------------------------------------------------------------------
(* Steps 3 and 4: the genesis, and the node on it. *)

BuildAllocs ==
  /\ Begin("allocs", 3)
  /\ allocs' = l2gen
  /\ Then("header")
  /\ Same /\ UNCHANGED <<state, rollup, l2gen, header, cfg, data, devnet, abs, wiped>>

\* The timestamp of the latest L1 block.
BuildHeader ==
  /\ at = "header"
  /\ l1
  /\ header' = [dep |-> allocs, ts |-> runs]
  /\ done' = Completed(3)
  /\ Finish(3)
  /\ Same /\ UNCHANGED <<state, rollup, l2gen, allocs, cfg, data, devnet, abs, wiped>>

\* $(if [ -n "$L2_JOVIAN_OFFSET" ] && [ -n "$L2_JOVIAN_ABS" ] ...): under set -u an
\* unset variable ends the substitution, not the script, with nothing printed.
JovianTime ==
  CASE off /\ abs = "abs" -> "abs"
    [] off /\ abs = "unset" -> "blank"
    [] OTHER -> "zero"

WriteConfig ==
  /\ Begin("config", 4)
  /\ cfg' = [gen |-> header, jov |-> JovianTime]
  /\ Then("kill")
  /\ Same /\ UNCHANGED <<state, rollup, l2gen, allocs, header, data, devnet, abs, wiped>>

\* kill $(cat node.pid), and a second to go.
StalePid == node
AfterKill == NoNode

KillNode ==
  /\ Within("kill")
  /\ node' = AfterKill
  /\ Then("start")
  /\ Same /\ UNCHANGED <<files, l1, eip, opnode, blocks, abs, wiped>>

WipeData ==
  /\ Within("wipe")
  /\ node' = AfterKill
  /\ wiped' = [data |-> data, for |-> cfg.gen, blocks |-> blocks]
  /\ data' = NoGen /\ blocks' = FALSE
  /\ Then("restart")
  /\ Same /\ UNCHANGED <<state, rollup, l2gen, allocs, header, cfg, l1, eip, opnode, abs>>

\* FISCO initialises an empty directory, takes up its own chain, and exits on any
\* other or when its ports are taken.
Launched == {[gen |-> cfg.gen, jov |-> cfg.jov, up |-> up] :
               up \in {TRUE} \cup (IF slow THEN {FALSE} ELSE {})}

\* Mutant: FISCO is started to initialise its directory, which fails on one that exists.
StartNodeFresh ==
  /\ at \in {"start", "restart"}
  /\ UNCHANGED done
  /\ IF node = NoNode /\ data = NoGen
     THEN data' = cfg.gen /\ node' \in Launched
     ELSE UNCHANGED <<data, node>>
  /\ Then(IF at = "start" THEN "probe" ELSE "reprobe")
  /\ Same /\ UNCHANGED <<state, rollup, l2gen, allocs, header, cfg, l1, eip, opnode,
                         blocks, abs, wiped>>

StartNode ==
  /\ at \in {"start", "restart"}
  /\ UNCHANGED done
  /\ IF node = NoNode /\ data \in {NoGen, cfg.gen}
     THEN data' = cfg.gen /\ node' \in Launched
     ELSE UNCHANGED <<data, node>>
  /\ Then(IF at = "start" THEN "probe" ELSE "reprobe")
  /\ Same /\ UNCHANGED <<state, rollup, l2gen, allocs, header, cfg, l1, eip, opnode,
                         blocks, abs, wiped>>

\* A node that was slow answers in the end.
ComeUp ==
  /\ node # NoNode /\ ~node.up
  /\ node' = [node EXCEPT !.up = TRUE]
  /\ UNCHANGED <<files, l1, eip, opnode, blocks, off, slow, start, end, abs, at, done,
                 runs, wiped>>

\* op-node drives a node whose genesis its rollup.json names, and whose EIP-1559
\* parameters are not the zeroes of a fresh SystemConfig.
CanProduce ==
  node.up /\ opnode.l2 = node.gen /\ opnode.eip /\ opnode.dep \in eip

Produce ==
  /\ CanProduce
  /\ blocks' = TRUE
  /\ UNCHANGED <<files, l1, eip, node, opnode, off, slow, start, end, abs, at, done,
                 runs, wiped>>

\* eth_chainId decides: running, or wipe the data and try once more.
Probe ==
  /\ at \in {"probe", "reprobe"}
  /\ IF node.up THEN done' = Completed(4) /\ Finish(4)
     ELSE /\ Then(IF at = "probe" THEN "wipe" ELSE "died")
          /\ UNCHANGED done
  /\ Same /\ UNCHANGED <<files, devnet, abs, wiped>>

-----------------------------------------------------------------------------
(* Steps 5 to 7: rollup.json, op-node, the batcher; and the manifest. *)

\* The L2 genesis hash is read off the node, not computed.
Align ==
  /\ at = "align"
  /\ l1 /\ node.up
  /\ rollup' = [rollup EXCEPT !.l2 = node.gen]
  /\ done' = Completed(5)
  /\ Finish(5)
  /\ Same /\ UNCHANGED <<state, l2gen, allocs, header, cfg, data, devnet, abs, wiped>>

StartOpNode ==
  /\ Begin("opnode", 6)
  /\ opnode' = rollup
  /\ Then("blocks")
  /\ Same /\ UNCHANGED <<files, l1, eip, node, blocks, abs, wiped>>

\* eth_blockNumber is read once, 10 s later: it may be one of an earlier op-node's.
CheckBlocks ==
  /\ at = "blocks"
  /\ node.up
  /\ CanProduce /\ ~slow => blocks
  /\ IF blocks THEN done' = Completed(6) /\ Finish(6)
               ELSE Then("died") /\ UNCHANGED done
  /\ Same /\ UNCHANGED <<files, devnet, abs, wiped>>

\* A batcher that may not have started is logged and no more.
StartBatcher ==
  /\ at = "batcher"
  /\ done' = Completed(7)
  /\ Finish(7)
  /\ Same /\ UNCHANGED <<files, devnet, abs, wiped>>

\* A mismatch is an Abort.
CheckManifest ==
  /\ Within("manifest")
  /\ Then("ready")
  /\ Same /\ UNCHANGED <<files, devnet, abs, wiped>>

Step ==
  \/ Anvil \/ InitDeploy \/ Apply \/ InspectRollup \/ SetParams \/ InspectGenesis
  \/ BuildAllocs \/ BuildHeader \/ WriteConfig \/ KillNode \/ WipeData \/ StartNode \/ Probe
  \/ Align \/ StartOpNode \/ CheckBlocks \/ StartBatcher \/ CheckManifest

SetupNext ==
  \/ \E s \in 1..7, e \in Ends : Run(s, e)
  \/ Step
  \/ Abort
  \/ ComeUp
  \/ Produce

SetupSpec == SetupInit /\ [][SetupNext]_setupVars

\* The script is a running process, and so are FISCO and op-node.
SetupFairSpec == SetupSpec /\ WF_setupVars(Step) /\ WF_setupVars(Produce)

-----------------------------------------------------------------------------
(* Properties *)

\* A run of steps k to 7 that ends in "C2 devnet ready" has one deployment behind
\* all of it, whatever earlier runs were cut short wherever: the node, its data and
\* config.genesis are on the genesis of the deployment rollup.json describes,
\* op-node was started with that very file, and L1 has the parameters it says.
\* (With a Jovian offset, for runs that pass through step 2: see ThreeSites.)
ReadyMeansAligned ==
  at = "ready" /\ end = 7 /\ (off => start <= 2) =>
    /\ node.up /\ node.gen = cfg.gen /\ data = cfg.gen /\ header = cfg.gen
    /\ rollup.dep = cfg.gen.dep /\ rollup.l2 = cfg.gen
    /\ rollup.jov = node.jov
    /\ rollup.dep \in eip /\ opnode = rollup
    /\ blocks

\* A complete run on a machine that is fast enough ends in "ready" unless it is
\* killed, whatever an earlier run left behind: a stale data directory is noticed
\* and replaced, and no step trips over a file of another deployment.
RerunCompletes ==
  at = "anvil" /\ end = 7 /\ ~slow ~> at \in {"ready", "idle"}

\* "three-site consistency: intent offset -> rollup.json -> config.genesis"
ThreeSites == at = "ready" /\ end = 7 => rollup.jov = cfg.jov

\* "genesis hash and data disagree" (404): on a machine that is fast enough, a chain that
\* has grown is only ever removed for another genesis, whatever runs came before.  A node
\* that needs more than the five seconds it is given loses its data all the same.
WipeMeansMismatch == wiped.blocks /\ ~slow => wiped.data # wiped.for
=============================================================================
