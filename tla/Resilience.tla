----------------------------- MODULE Resilience -----------------------------
(***************************************************************************)
(* tools/op-e2e/resilience_test.sh with the polling helpers of c2lib.py: on *)
(* a live devnet, kill the batcher, the FISCO node and op-node in turn,     *)
(* restart each, and judge from op-node's syncStatus whether the chain has  *)
(* healed.  The script is the system; the devnet (processes, L2 heads) is   *)
(* its environment, faults included, so that the properties say what a      *)
(* verdict of the script is worth.                                          *)
(*                                                                         *)
(* A process is an index into procs, a PID.  What a restart writes into a   *)
(* PID file is modelled as bash does it: for `nohup prog &` the PID of prog,*)
(* for `cd dir && nohup prog &` the PID of the subshell that waits for prog.*)
(***************************************************************************)
EXTENDS Integers, Sequences

CONSTANTS
  Runs,      \* how many times the script is run on the same devnet
  Delta,     \* how far a head has to advance: 3
  Patience,  \* polls before a wait gives up: 20 for an exit, 24 for the RPC,
             \* 48 or 60 for an advance
  Faults,    \* what may go wrong: see FaultKinds
  MaxHead    \* bound on the L2 chain

FaultKinds ==
  {"slow",     \* a process told to stop goes on for a while
   "crash",    \* a restarted process dies at once
   "hangup",   \* SIGHUP kills the restarted batcher about a minute later
   "loss",     \* the restarted FISCO comes up without its chain
   "stuck",    \* the restarted sequencer seals nothing any more
   "deaf"}     \* a syncStatus request fails

ASSUME ResilienceAssumption ==
  /\ Runs \in Nat \ {0} /\ Delta \in Nat \ {0}
  /\ Patience \in Nat /\ MaxHead \in Nat \ {0}
  /\ Faults \subseteq FaultKinds

Comps == {"batcher", "fisco", "opnode"}

VARIABLES
  procs,    \* every process ever started: what it is, the child a shell waits for,
            \* whether it lives and whether it was told to stop
  pidFile,  \* the PID files under $C2
  unsafe, safe, fin,  \* the L2 heads, as op-node would report them
  broken,   \* "loss": finalized is pinned at 0; "stuck": nothing is sealed
  run,      \* the run in progress
  mark,     \* how many processes had been started before it
  sc,       \* the scenario: S1 batcher, S2 FISCO, S3 op-node
  pc,
  left,     \* polls left in the wait in progress
  base,     \* the heads read before the kill
  fails,    \* FAIL, as a flag
  seenFin   \* the finalized head S2 read before it restarted FISCO

devVars == <<procs, pidFile, unsafe, safe, fin, broken>>
runVars == <<run, mark, sc, base, seenFin>>
vars == <<devVars, runVars, pc, left, fails>>

Heads == [u : -1..MaxHead, s : -1..MaxHead, f : -1..MaxHead]

Procs == [comp : Comps \cup {"shell"}, child : Nat, live : BOOLEAN, term : BOOLEAN]

TypeOK ==
  /\ procs \in Seq(Procs)
  /\ pidFile \in [Comps -> 1..Len(procs)]
  /\ unsafe \in 0..MaxHead /\ safe \in 0..unsafe /\ fin \in 0..safe
  /\ broken \subseteq {"loss", "stuck"}
  /\ run \in 1..Runs /\ mark \in 0..Len(procs) /\ sc \in 1..3
  /\ pc \in {"base", "kill", "gone", "start", "up", "survive", "advance", "recheck",
             "done", "exit"}
  /\ left \in 0..Patience
  /\ base \in Heads
  /\ fails \in BOOLEAN
  /\ seenFin \in -1..MaxHead

Proc(c) == [comp |-> c, child |-> 0, live |-> TRUE, term |-> FALSE]

\* The devnet as setup_c2.sh leaves it: every PID file names the process itself.
Init ==
  /\ procs = <<Proc("batcher"), Proc("fisco"), Proc("opnode")>>
  /\ pidFile = [batcher |-> 1, fisco |-> 2, opnode |-> 3]
  /\ unsafe = 1 /\ safe = 1 /\ fin = 1
  /\ broken = {}
  /\ run = 1 /\ mark = 3 /\ sc = 1
  /\ pc = "base"
  /\ left = 0
  /\ base = [u |-> 0, s |-> 0, f |-> 0]
  /\ fails = FALSE
  /\ seenFin = 0

-----------------------------------------------------------------------------
(* Processes. *)

\* A shell that runs a child in the foreground lives as long as the child.
Live(p) ==
  /\ procs[p].live
  /\ procs[p].comp = "shell" => procs[procs[p].child].live

Running(c) == \E p \in 1..Len(procs) : procs[p].comp = c /\ Live(p)

Victim == <<"batcher", "fisco", "opnode">>[sc]

\* Two processes of a component compete for its ports and its database: the second
\* does not come up.
Fresh(c) == {[Proc(c) EXCEPT !.live = up /\ ~Running(c)] :
               up \in {TRUE} \cup (IF "crash" \in Faults THEN {FALSE} ELSE {})}

\* start_batcher and start_op_node: nohup prog & echo $! > pid.
StartPlain(c) ==
  \E p \in Fresh(c) :
    /\ procs' = Append(procs, p)
    /\ pidFile' = [pidFile EXCEPT ![c] = Len(procs) + 1]

StartBesideShell(c) ==
  \E p \in Fresh(c) :
    /\ procs' = procs \o <<[Proc("shell") EXCEPT !.child = Len(procs) + 2], p>>
    /\ pidFile' = [pidFile EXCEPT ![c] = Len(procs) + 3]

\* start_fisco: ( cd dir && nohup prog & echo $! > pid ).
StartUnderShell(c) ==
  \E p \in Fresh(c) :
    /\ procs' = procs \o <<[Proc("shell") EXCEPT !.child = Len(procs) + 2], p>>
    /\ pidFile' = [pidFile EXCEPT ![c] = Len(procs) + 1]

Restarted(c) == IF c = "fisco" THEN StartUnderShell(c) ELSE StartPlain(c)

-----------------------------------------------------------------------------
(* The devnet. *)

Sequencing == Running("fisco") /\ Running("opnode") /\ "stuck" \notin broken

Seal ==
  /\ Sequencing
  /\ unsafe < MaxHead
  /\ unsafe' = unsafe + 1
  /\ UNCHANGED <<procs, pidFile, safe, fin, broken, runVars, pc, left, fails>>

Derive ==
  /\ Sequencing /\ Running("batcher")
  /\ safe < unsafe
  /\ safe' = safe + 1
  /\ UNCHANGED <<procs, pidFile, unsafe, fin, broken, runVars, pc, left, fails>>

Finalize ==
  /\ Running("fisco") /\ Running("opnode") /\ "loss" \notin broken
  /\ fin < safe
  /\ fin' = safe
  /\ UNCHANGED <<procs, pidFile, unsafe, safe, broken, runVars, pc, left, fails>>

\* A process told to stop stops in its own time.
Stop ==
  /\ \E p \in 1..Len(procs) :
       /\ Live(p) /\ procs[p].term
       /\ procs' = [procs EXCEPT ![p].live = FALSE]
  /\ UNCHANGED <<pidFile, unsafe, safe, fin, broken, runVars, pc, left, fails>>

Hangup ==
  /\ "hangup" \in Faults
  /\ sc = 1 /\ pc = "survive"
  /\ \E p \in 1..Len(procs) :
       /\ procs[p].comp = "batcher" /\ Live(p)
       /\ procs' = [procs EXCEPT ![p].live = FALSE]
  /\ UNCHANGED <<pidFile, unsafe, safe, fin, broken, runVars, pc, left, fails>>

-----------------------------------------------------------------------------
(* The script. *)

\* c2lib.heads: -1s on any failure.
Answers ==
  (IF Running("opnode") THEN {[u |-> unsafe, s |-> safe, f |-> fin]} ELSE {})
  \cup (IF "deaf" \in Faults \/ ~Running("opnode")
        THEN {[u |-> -1, s |-> -1, f |-> -1]} ELSE {})

Baseline ==
  /\ pc = "base"
  /\ \E h \in Answers :
       /\ base' = h
       /\ seenFin' = IF sc = 2 THEN h.f ELSE seenFin
  /\ pc' = "kill"
  /\ UNCHANGED <<devVars, run, mark, sc, left, fails>>

\* kill -9 takes the batcher at once; the others get a SIGTERM.
KillVictim ==
  /\ pc = "kill"
  /\ LET p == pidFile[Victim] IN
     procs' = IF sc = 1 \/ procs[p].comp = "shell" \/ "slow" \notin Faults
              THEN [procs EXCEPT ![p].live = FALSE]
              ELSE [procs EXCEPT ![p].term = TRUE]
  /\ pc' = "gone"
  /\ left' = IF sc = 1 THEN 0 ELSE Patience
  /\ UNCHANGED <<pidFile, unsafe, safe, fin, broken, runVars, fails>>

\* S1 and S3 look for the program (pgrep), S2 asks after the PID (kill -0).
SeenAlive == IF Victim = "fisco" THEN Live(pidFile["fisco"]) ELSE Running(Victim)

WaitGone ==
  /\ pc = "gone"
  /\ SeenAlive /\ left > 0
  /\ left' = left - 1
  /\ UNCHANGED <<devVars, runVars, pc, fails>>

Judge(ok) == fails' = (fails \/ ~ok)

CheckGone ==
  /\ pc = "gone"
  /\ ~SeenAlive \/ left = 0
  /\ Judge(~SeenAlive)
  /\ pc' = "start"
  /\ UNCHANGED <<devVars, runVars, left>>

\* What a restart does to the heads is up to FISCO's data and op-node's labels.
Comeback ==
  \/ UNCHANGED <<unsafe, safe, fin, broken>>
  \/ /\ Victim = "fisco" /\ "loss" \in Faults
     /\ unsafe' = 0 /\ safe' = 0 /\ fin' = 0
     /\ broken' = broken \cup {"loss"}
  \/ /\ Victim # "batcher" /\ "stuck" \in Faults
     /\ broken' = broken \cup {"stuck"}
     /\ UNCHANGED <<unsafe, safe, fin>>
  \/ /\ Victim = "opnode"
     /\ safe' \in fin..safe
     /\ UNCHANGED <<unsafe, fin, broken>>

Restart ==
  /\ pc = "start"
  /\ Restarted(Victim)
  /\ IF procs'[Len(procs')].live THEN Comeback ELSE UNCHANGED <<unsafe, safe, fin, broken>>
  /\ pc' = "up"
  /\ left' = IF sc = 3 THEN Patience ELSE 0
  /\ UNCHANGED <<run, mark, sc, base, fails, seenFin>>

\* Is it up?  S1 gives up on a batcher that is not; S3 waits for the RPC.
WaitUp ==
  /\ pc = "up"
  /\ ~Running(Victim) /\ left > 0
  /\ left' = left - 1
  /\ UNCHANGED <<devVars, runVars, pc, fails>>

CheckUp ==
  /\ pc = "up"
  /\ Running(Victim) \/ left = 0
  /\ Judge(Running(Victim))
  /\ IF sc = 1
     THEN pc' = (IF Running(Victim) THEN "survive" ELSE "exit") /\ UNCHANGED left
     ELSE pc' = "advance" /\ left' = Patience
  /\ UNCHANGED <<devVars, runVars>>

\* sleep 70, and pgrep again.
SurvivedOnce == TRUE

Survives == Running("batcher")

CheckSurvival ==
  /\ pc = "survive"
  /\ Judge(Survives)
  /\ pc' = "advance" /\ left' = Patience
  /\ UNCHANGED <<devVars, runVars>>

\* c2lib.wait_advance: the watched head at or past the baseline plus Delta.
Watched(h) == IF sc = 1 THEN h.s ELSE h.u

WaitAdvance ==
  /\ pc = "advance"
  /\ \E h \in Answers :
       /\ IF left > 0 /\ Watched(h) < Watched(base) + Delta
          THEN left' = left - 1 /\ UNCHANGED <<pc, fails>>
          ELSE /\ Judge(left > 0)
               /\ pc' = "recheck"
               /\ left' = 0
  /\ UNCHANGED <<devVars, runVars>>

SafeNotRegressed(h) == sc = 3 => h.s >= base.s

NotRegressed(h) ==
  /\ sc \in {2, 3} => h.f >= base.f
  /\ sc = 3 => h.s >= base.s

Recheck ==
  /\ pc = "recheck"
  /\ \E h \in Answers : Judge(NotRegressed(h))
  /\ IF sc < 3 THEN sc' = sc + 1 /\ pc' = "base" ELSE pc' = "done" /\ UNCHANGED sc
  /\ UNCHANGED <<devVars, run, mark, left, base, seenFin>>

RunAgain ==
  /\ pc = "done" /\ run < Runs
  /\ run' = run + 1
  /\ mark' = Len(procs)
  /\ sc' = 1 /\ pc' = "base" /\ fails' = FALSE
  /\ UNCHANGED <<devVars, left, base, seenFin>>

Script ==
  \/ Baseline \/ KillVictim \/ WaitGone \/ CheckGone \/ Restart \/ WaitUp \/ CheckUp
  \/ CheckSurvival \/ WaitAdvance \/ Recheck \/ RunAgain

Next == Script \/ Seal \/ Derive \/ Finalize \/ Stop \/ Hangup

Spec == Init /\ [][Next]_vars

-----------------------------------------------------------------------------
(* Properties *)

Green == pc = "done" /\ ~fails

\* An all-green run on a fresh devnet has really replaced all three processes,
\* whatever crashed, lingered or was hung up meanwhile: one started by this run is
\* alive, and none from before it.  (For a later run see StoppedMeansStopped.)
GreenMeansRestarted ==
  Green /\ run = 1 => \A c \in Comps :
    /\ \E p \in mark + 1..Len(procs) : procs[p].comp = c /\ Live(p)
    /\ \A p \in 1..mark : procs[p].comp = c => ~Live(p)

\* A FISCO that comes back without its chain never gets past the two regression
\* checks, wherever their samples fall between derivation and finalization: after
\* an all-green run the chain is still final where S2 found it, if S2's baseline
\* was answered.
NoSilentLoss == Green => fin >= seenFin

\* "batcher killed", "FISCO stopped", "op-node stopped": then none is running when
\* the script restarts it.
StoppedMeansStopped == pc = "start" /\ ~fails => ~Running(Victim)
=============================================================================
