----------------------------- MODULE DevnetProofs -----------------------------
(***************************************************************************)
(* Proofs about the C2 devnet: the test that kills and restarts it           *)
(* (Resilience), for any number of runs, any faults, any patience; and the   *)
(* script that sets it up (SetupC2), for any number of runs and any          *)
(* environment.                                                              *)
(***************************************************************************)
EXTENDS Resilience, SetupC2, TLAPS

-----------------------------------------------------------------------------
(* Resilience: the inductive invariant. *)

\* The run has come to scenario s, or in it to one of the labels L.
Reached(s, L) == sc > s \/ (sc = s /\ pc \in L)

Judged == {"recheck", "done", "exit"}
Up == {"advance"} \cup Judged
New == {"up", "survive"} \cup Up

\* The first run knows every process by its number: 1 to 3 are those of the setup,
\* 4 the new batcher, 6 the new FISCO under its shell 5, 7 the new op-node.
Cast ==
  /\ Len(procs) = IF Reached(3, New) THEN 7
                  ELSE IF Reached(2, New) THEN 6
                  ELSE IF Reached(1, New) THEN 4 ELSE 3
  /\ procs[1].comp = "batcher" /\ procs[2].comp = "fisco" /\ procs[3].comp = "opnode"
  /\ Reached(1, New) => procs[4].comp = "batcher"
  /\ Reached(2, New) => procs[5].comp = "shell" /\ procs[6].comp = "fisco"
  /\ Reached(3, New) => procs[7].comp = "opnode"

\* What the PID files name: of FISCO, the shell.
Named ==
  /\ pidFile["batcher"] = IF Reached(1, New) THEN 4 ELSE 1
  /\ pidFile["fisco"] = IF Reached(2, New) THEN 5 ELSE 2
  /\ pidFile["opnode"] = IF Reached(3, New) THEN 7 ELSE 3

\* The old processes that are gone: the batcher at once, the others when the wait
\* for their exit has been judged.
Gone ==
  /\ Reached(1, {"gone", "start"} \cup New) => ~procs[1].live
  /\ ~fails /\ Reached(2, {"start"} \cup New) => ~procs[2].live
  /\ ~fails /\ Reached(3, {"start"} \cup New) => ~procs[3].live

\* The new ones that are there, and that nobody has told to stop.
Alive ==
  /\ \A p \in 4..Len(procs) : ~procs[p].term
  /\ ~fails /\ Reached(1, Up) => procs[4].live
  /\ ~fails /\ Reached(2, Up) => procs[6].live
  /\ ~fails /\ Reached(3, Up) => procs[7].live

FirstRun == run = 1 => mark = 3 /\ Cast /\ Named /\ Gone /\ Alive

\* S2 keeps its baseline until it has compared the head with it; from then on the
\* finalized head never falls, or the run is red.
Kept ==
  /\ sc = 2 /\ pc # "base" => base.f = seenFin
  /\ sc = 3 /\ ~fails => fin >= seenFin

Control == (pc = "survive" => sc = 1) /\ (pc = "done" => sc = 3)

IInv == TypeOK /\ Control /\ FirstRun /\ Kept

-----------------------------------------------------------------------------
(* Types. *)

\* A process that a restart appends is well-formed.
LEMMA FreshType ==
  ASSUME NEW c \in Comps, NEW p \in Fresh(c)
  PROVE  p \in Procs /\ p.comp = c /\ ~p.term
<1>1. PICK up : p = [Proc(c) EXCEPT !.live = up /\ ~Running(c)]
  BY DEF Fresh
<1> DEFINE live == up /\ ~Running(c)
<1>2. live \in BOOLEAN /\ p = [Proc(c) EXCEPT !.live = live]
  BY <1>1
<1> HIDE DEF live
<1>3. QED
  BY <1>2 DEF Proc, Procs, Comps

\* A restart appends one process, or for FISCO a shell and a process.
LEMMA RestartType ==
  ASSUME TypeOK, NEW c \in Comps, Restarted(c)
  PROVE  /\ procs' \in Seq(Procs)
         /\ Len(procs') = Len(procs) + (IF c = "fisco" THEN 2 ELSE 1)
         /\ \A p \in 1..Len(procs) : procs'[p] = procs[p]
         /\ pidFile' = [pidFile EXCEPT ![c] = Len(procs) + 1]
         /\ procs'[Len(procs')].comp = c
         /\ c = "fisco" => procs'[Len(procs) + 1].comp = "shell"
         /\ \A p \in Len(procs) + 1..Len(procs') : ~procs'[p].term
<1>1. CASE c = "fisco"
  <2>1. PICK p \in Fresh(c) :
          /\ procs' = procs \o <<[Proc("shell") EXCEPT !.child = Len(procs) + 2], p>>
          /\ pidFile' = [pidFile EXCEPT ![c] = Len(procs) + 1]
    BY <1>1 DEF Restarted, StartUnderShell
  <2> DEFINE sh == [Proc("shell") EXCEPT !.child = Len(procs) + 2]
  <2>2. p \in Procs /\ p.comp = c /\ ~p.term
    BY FreshType
  <2>3. sh \in Procs /\ sh.comp = "shell" /\ ~sh.term
    <3>1. Len(procs) + 2 \in Nat
      BY DEF TypeOK
    <3>2. QED
      BY <3>1 DEF Proc, Procs
  <2>4. procs \in Seq(Procs) /\ procs' = procs \o <<sh, p>>
    BY <2>1 DEF TypeOK
  <2> HIDE DEF sh
  <2>5. /\ procs' \in Seq(Procs) /\ Len(procs') = Len(procs) + 2
        /\ \A i \in 1..Len(procs) : procs'[i] = procs[i]
        /\ procs'[Len(procs) + 1] = sh /\ procs'[Len(procs) + 2] = p
    BY <2>2, <2>3, <2>4
  <2>6. Len(procs) \in Nat
    BY DEF TypeOK
  <2>7. \A i \in Len(procs) + 1..Len(procs') : i = Len(procs) + 1 \/ i = Len(procs) + 2
    BY <2>5, <2>6
  <2>8. QED
    BY <1>1, <2>1, <2>2, <2>3, <2>5, <2>6, <2>7
<1>2. CASE c # "fisco"
  <2>1. PICK p \in Fresh(c) :
          /\ procs' = Append(procs, p)
          /\ pidFile' = [pidFile EXCEPT ![c] = Len(procs) + 1]
    BY <1>2 DEF Restarted, StartPlain
  <2>2. p \in Procs /\ p.comp = c /\ ~p.term
    BY FreshType
  <2>3. /\ procs' \in Seq(Procs) /\ Len(procs') = Len(procs) + 1
        /\ \A i \in 1..Len(procs) : procs'[i] = procs[i]
        /\ procs'[Len(procs) + 1] = p
    BY <2>1, <2>2 DEF TypeOK
  <2>4. QED
    BY <1>2, <2>1, <2>2, <2>3
<1>3. QED
  BY <1>1, <1>2

\* The victim of each scenario.
LEMMA VictimOf ==
  ASSUME TypeOK
  PROVE  /\ Victim \in Comps
         /\ sc = 1 <=> Victim = "batcher"
         /\ sc = 2 <=> Victim = "fisco"
         /\ sc = 3 <=> Victim = "opnode"
BY DEF Victim, Comps, TypeOK

\* An action that changes one field of one process.
LEMMA OneProcess ==
  ASSUME TypeOK, NEW p \in 1..Len(procs),
         \/ procs' = [procs EXCEPT ![p].live = FALSE]
         \/ procs' = [procs EXCEPT ![p].term = TRUE]
  PROVE  /\ procs' \in Seq(Procs) /\ Len(procs') = Len(procs)
         /\ \A q \in 1..Len(procs) : /\ procs'[q].comp = procs[q].comp
                                     /\ procs'[q].live => procs[q].live
                                     /\ q # p => procs'[q] = procs[q]
<1>1. procs \in Seq(Procs) /\ procs[p] \in Procs
  BY DEF TypeOK
<1>2. ASSUME NEW r \in Procs, r.comp = procs[p].comp, r.live => procs[p].live,
             procs' = [procs EXCEPT ![p] = r]
      PROVE  /\ procs' \in Seq(Procs) /\ Len(procs') = Len(procs)
             /\ \A q \in 1..Len(procs) : /\ procs'[q].comp = procs[q].comp
                                         /\ procs'[q].live => procs[q].live
                                         /\ q # p => procs'[q] = procs[q]
  BY <1>1, <1>2
<1>3. CASE procs' = [procs EXCEPT ![p].live = FALSE]
  <2> DEFINE r == [procs[p] EXCEPT !.live = FALSE]
  <2>1. r \in Procs /\ r.comp = procs[p].comp /\ ~r.live
    BY <1>1 DEF Procs
  <2>2. procs' = [procs EXCEPT ![p] = r]
    BY <1>3
  <2> HIDE DEF r
  <2>3. QED
    BY <1>2, <2>1, <2>2
<1>4. CASE procs' = [procs EXCEPT ![p].term = TRUE]
  <2> DEFINE r == [procs[p] EXCEPT !.term = TRUE]
  <2>1. r \in Procs /\ r.comp = procs[p].comp /\ r.live = procs[p].live
    BY <1>1 DEF Procs
  <2>2. procs' = [procs EXCEPT ![p] = r]
    BY <1>4
  <2> HIDE DEF r
  <2>3. QED
    BY <1>2, <2>1, <2>2
<1>5. QED
  BY <1>3, <1>4

\* What op-node answers is well-formed.
LEMMA AnswerType ==
  ASSUME TypeOK, NEW h \in Answers
  PROVE  h \in Heads /\ (h.f = fin \/ h.f = -1)
BY ResilienceAssumption DEF TypeOK, Answers, Heads

LEMMA TypeInit == Init => TypeOK
<1> SUFFICES ASSUME Init PROVE TypeOK
  OBVIOUS
<1>1. /\ Proc("batcher") \in Procs /\ Proc("fisco") \in Procs
      /\ Proc("opnode") \in Procs
  BY DEF Proc, Procs, Comps
<1>2. procs \in Seq(Procs) /\ Len(procs) = 3
  BY <1>1 DEF Init
<1>3. pidFile \in [Comps -> 1..Len(procs)]
  BY <1>2 DEF Init, Comps
<1>4. base \in Heads
  BY ResilienceAssumption DEF Init, Heads
<1>5. /\ unsafe \in 0..MaxHead /\ safe \in 0..unsafe /\ fin \in 0..safe
      /\ run \in 1..Runs /\ left \in 0..Patience /\ seenFin \in -1..MaxHead
  BY ResilienceAssumption DEF Init
<1>6. broken \subseteq {"loss", "stuck"} /\ mark \in 0..Len(procs) /\ sc \in 1..3
  BY <1>2 DEF Init
<1>7. QED
  BY <1>2, <1>3, <1>4, <1>5, <1>6 DEF Init, TypeOK

-----------------------------------------------------------------------------
(* Every step keeps the invariant.  The devnet's steps that touch the heads   *)
(* only, and those that end a process.                                        *)

LEMMA HeadSteps ==
  ASSUME IInv, Seal \/ Derive \/ Finalize
  PROVE  IInv'
<1>0. TypeOK /\ Control /\ FirstRun /\ Kept
  BY DEF IInv
<1>1. TypeOK'
  <2>1. UNCHANGED <<procs, pidFile, broken, run, mark, sc, pc, left, base, fails, seenFin>>
    BY DEF Seal, Derive, Finalize, runVars
  <2>2. unsafe' \in 0..MaxHead /\ safe' \in 0..unsafe' /\ fin' \in 0..safe'
    <3>1. CASE Seal
      BY <1>0, <3>1, ResilienceAssumption DEF Seal, TypeOK
    <3>2. CASE Derive
      BY <1>0, <3>2, ResilienceAssumption DEF Derive, TypeOK
    <3>3. CASE Finalize
      BY <1>0, <3>3, ResilienceAssumption DEF Finalize, TypeOK
    <3>4. QED
      BY <3>1, <3>2, <3>3
  <2>3. QED
    BY <1>0, <2>1, <2>2 DEF TypeOK
<1>2. FirstRun'
  BY <1>0 DEF Seal, Derive, Finalize, FirstRun, Cast, Named, Gone, Alive, Reached, runVars
<1>3. Control' /\ Kept'
  BY <1>0 DEF Seal, Derive, Finalize, Control, Kept, TypeOK, runVars
<1>4. QED
  BY <1>1, <1>2, <1>3 DEF IInv

LEMMA StopSteps ==
  ASSUME IInv, Stop \/ Hangup
  PROVE  IInv'
<1>0. TypeOK /\ Control /\ FirstRun /\ Kept
  BY DEF IInv
<1>1. UNCHANGED <<pidFile, unsafe, safe, fin, broken, run, mark, sc, pc, left, base, fails, seenFin>>
  BY DEF Stop, Hangup, runVars
<1>2. PICK p \in 1..Len(procs) :
        /\ procs' = [procs EXCEPT ![p].live = FALSE]
        /\ procs[p].term \/ (sc = 1 /\ pc = "survive")
  BY DEF Stop, Hangup
<1>3. /\ procs' \in Seq(Procs) /\ Len(procs') = Len(procs)
      /\ \A q \in 1..Len(procs) : /\ procs'[q].comp = procs[q].comp
                                  /\ procs'[q].live => procs[q].live
                                  /\ q # p => procs'[q] = procs[q]
  BY <1>0, <1>2, OneProcess
<1>4. procs'[p].term = procs[p].term
  BY <1>0, <1>2 DEF TypeOK, Procs
<1>5. TypeOK'
  BY <1>0, <1>1, <1>3 DEF TypeOK
<1>6. FirstRun'
  <2> SUFFICES ASSUME run = 1 PROVE (mark = 3 /\ Cast /\ Named /\ Gone /\ Alive)'
    BY <1>1 DEF FirstRun
  <2>1. mark = 3 /\ Cast /\ Named /\ Gone /\ Alive
    BY <1>0 DEF FirstRun
  <2>2. Cast'
    BY <1>1, <1>3, <2>1 DEF Cast, Reached
  <2>3. Named'
    BY <1>1, <2>1 DEF Named, Reached
  <2>4. Gone'
    BY <1>1, <1>3, <2>1 DEF Gone, Reached, Cast
  <2>5. Alive'
    <3>1. \A q \in 4..Len(procs) : procs'[q].term = procs[q].term
      BY <1>0, <1>3, <1>4 DEF TypeOK
    <3>2. \A q \in {4, 6, 7} : q <= Len(procs) /\ (q = 4 => Reached(1, Up))
                              => procs'[q].live = procs[q].live
      <4>1. \A q \in 4..Len(procs) : ~procs[q].term
        BY <2>1 DEF Alive
      <4>2. Reached(1, Up) => ~(sc = 1 /\ pc = "survive")
        BY DEF Reached, Up, Judged
      <4>3. sc = 1 => Len(procs) <= 4
        BY <1>0, <2>1 DEF Cast, Reached, TypeOK
      <4>4. Len(procs) \in Nat
        BY <1>0 DEF TypeOK
      <4>5. p \in 4..Len(procs) => sc = 1 /\ pc = "survive"
        BY <1>2, <4>1
      <4>6. ASSUME NEW q \in {4, 6, 7}, q <= Len(procs), q = 4 => Reached(1, Up)
            PROVE  q \in 1..Len(procs) /\ q # p
        BY <4>2, <4>3, <4>4, <4>5, <4>6
      <4>7. QED
        BY <1>3, <4>6
    <3>3. /\ Reached(1, Up) => Len(procs) >= 4
          /\ Reached(2, Up) => Len(procs) >= 6
          /\ Reached(3, Up) => Len(procs) >= 7
      BY <1>0, <2>1 DEF Cast, Reached, Up, New, Judged, TypeOK
    <3>4. \A n \in 1..3 : Reached(n, Up)' <=> Reached(n, Up)
      BY <1>1 DEF Reached
    <3>5. QED
      BY <1>1, <1>3, <2>1, <3>1, <3>2, <3>3, <3>4 DEF Alive
  <2>6. QED
    BY <1>1, <2>1, <2>2, <2>3, <2>4, <2>5
<1>7. Control' /\ Kept'
  BY <1>0, <1>1 DEF Control, Kept
<1>8. QED
  BY <1>5, <1>6, <1>7 DEF IInv

-----------------------------------------------------------------------------
(* The script's steps that look at processes without touching them.           *)

\* In the first run, a program that is running after its restart is the new one.
LEMMA NewOneRuns ==
  ASSUME TypeOK, FirstRun, run = 1
  PROVE  /\ Reached(1, New) /\ Running("batcher") => procs[4].live
         /\ Reached(2, New) /\ ~fails /\ Running("fisco") => procs[6].live
         /\ Reached(3, New) /\ ~fails /\ Running("opnode") => procs[7].live
<1>1. Cast /\ Gone /\ Len(procs) \in {3, 4, 6, 7}
  BY DEF FirstRun, Cast
<1>2. \A p \in 1..Len(procs) : p \in {1, 2, 3, 4, 5, 6, 7}
  <2>1. Len(procs) \in 1..7
    BY <1>1
  <2>2. \A p \in 1..7 : p \in {1, 2, 3, 4, 5, 6, 7}
    OBVIOUS
  <2>3. \A n \in 1..7 : 1..n \subseteq 1..7
    OBVIOUS
  <2>4. 1..Len(procs) \subseteq 1..7
    BY <2>1, <2>3
  <2>5. QED
    BY <2>2, <2>4
<1>3. /\ Reached(2, New) => Reached(1, New) /\ Len(procs) >= 6
      /\ Reached(3, New) => Reached(2, New) /\ Len(procs) = 7
      /\ Len(procs) > 3 => Reached(1, New)
      /\ Len(procs) > 4 => Reached(2, New)
      /\ Len(procs) > 6 => Reached(3, New)
  BY <1>1 DEF Cast, Reached, New, Up, Judged, TypeOK
<1>4. /\ Reached(1, New) => ~procs[1].live
      /\ ~fails /\ Reached(2, New) => ~procs[2].live
      /\ ~fails /\ Reached(3, New) => ~procs[3].live
  BY <1>1 DEF Gone, Reached, New, Up, Judged
<1>5. ASSUME NEW p \in 1..Len(procs)
      PROVE  /\ procs[p].comp = "batcher" => p = 1 \/ p = 4
             /\ procs[p].comp = "fisco" => p = 2 \/ p = 6
             /\ procs[p].comp = "opnode" => p = 3 \/ p = 7
  BY <1>1, <1>2, <1>3 DEF Cast
<1>6. QED
  BY <1>4, <1>5 DEF Running, Live

\* While the processes and the PID files stay, the cast and the names stay when no
\* scenario comes to a restart.
LEMMA SameCast ==
  ASSUME Cast, Named, UNCHANGED <<procs, pidFile>>,
         Reached(1, New)' <=> Reached(1, New),
         Reached(2, New)' <=> Reached(2, New),
         Reached(3, New)' <=> Reached(3, New)
  PROVE  Cast' /\ Named'
BY DEF Cast, Named

\* These labels tell nothing of what FirstRun says apart.
LEMMA SameStage ==
  ASSUME TypeOK,
         \/ UNCHANGED <<sc, pc>>
         \/ UNCHANGED sc /\ pc = "base" /\ pc' = "kill"
         \/ UNCHANGED sc /\ pc = "advance" /\ pc' = "recheck"
         \/ sc < 3 /\ sc' = sc + 1 /\ pc = "recheck" /\ pc' = "base"
         \/ UNCHANGED sc /\ pc = "recheck" /\ pc' = "done"
  PROVE  /\ Reached(1, New)' <=> Reached(1, New)
         /\ Reached(2, New)' <=> Reached(2, New)
         /\ Reached(3, New)' <=> Reached(3, New)
         /\ Reached(1, Up)' <=> Reached(1, Up)
         /\ Reached(2, Up)' <=> Reached(2, Up)
         /\ Reached(3, Up)' <=> Reached(3, Up)
         /\ Reached(2, {"start"} \cup New)' <=> Reached(2, {"start"} \cup New)
         /\ Reached(3, {"start"} \cup New)' <=> Reached(3, {"start"} \cup New)
         /\ Reached(1, {"gone", "start"} \cup New)' <=> Reached(1, {"gone", "start"} \cup New)
<1>1. sc \in {1, 2, 3}
  BY DEF TypeOK
<1>2. CASE UNCHANGED <<sc, pc>>
  BY <1>2 DEF Reached
<1>3. CASE UNCHANGED sc /\ pc = "base" /\ pc' = "kill"
  BY <1>3 DEF Reached, New, Up, Judged
<1>4. CASE UNCHANGED sc /\ pc = "advance" /\ pc' = "recheck"
  BY <1>4 DEF Reached, New, Up, Judged
<1>5. CASE sc < 3 /\ sc' = sc + 1 /\ pc = "recheck" /\ pc' = "base"
  BY <1>1, <1>5 DEF Reached, New, Up, Judged
<1>6. CASE UNCHANGED sc /\ pc = "recheck" /\ pc' = "done"
  BY <1>6 DEF Reached, New, Up, Judged
<1>7. QED
  BY <1>2, <1>3, <1>4, <1>5, <1>6

LEMMA LookSteps ==
  ASSUME IInv, Baseline \/ WaitGone \/ WaitUp \/ WaitAdvance \/ Recheck
  PROVE  IInv'
<1>0. TypeOK /\ Control /\ FirstRun /\ Kept
  BY DEF IInv
<1>1. /\ UNCHANGED <<procs, pidFile, unsafe, safe, fin, broken, run, mark>>
      /\ fails => fails'
  BY DEF Baseline, WaitGone, WaitUp, WaitAdvance, Recheck, Judge, devVars, runVars
<1>2. TypeOK'
  <2>1. CASE Baseline
    BY <1>0, <2>1, AnswerType, ResilienceAssumption DEF Baseline, TypeOK, devVars, Heads
  <2>2. CASE WaitGone \/ WaitUp
    <3>1. left' \in 0..Patience
      BY <1>0, <2>2, ResilienceAssumption DEF WaitGone, WaitUp, TypeOK
    <3>2. UNCHANGED <<sc, pc, base, fails, seenFin>>
      BY <2>2 DEF WaitGone, WaitUp, runVars
    <3>3. QED
      BY <1>0, <1>1, <3>1, <3>2 DEF TypeOK
  <2>4. CASE WaitAdvance
    <3>1. left' \in 0..Patience
      BY <1>0, <2>4, ResilienceAssumption DEF WaitAdvance, TypeOK
    <3>2. /\ UNCHANGED <<sc, base, seenFin>> /\ fails' \in BOOLEAN
          /\ pc' \in {"advance", "recheck"}
      BY <1>0, <2>4 DEF WaitAdvance, Judge, TypeOK, runVars
    <3>3. QED
      BY <1>0, <1>1, <3>1, <3>2 DEF TypeOK
  <2>5. CASE Recheck
    BY <1>0, <2>5 DEF Recheck, Judge, TypeOK, devVars
  <2>6. QED
    BY <2>1, <2>2, <2>4, <2>5
<1>3. \/ UNCHANGED <<sc, pc>>
      \/ UNCHANGED sc /\ pc = "base" /\ pc' = "kill"
      \/ UNCHANGED sc /\ pc = "advance" /\ pc' = "recheck"
      \/ sc < 3 /\ sc' = sc + 1 /\ pc = "recheck" /\ pc' = "base"
      \/ UNCHANGED sc /\ pc = "recheck" /\ pc' = "done"
  BY DEF Baseline, WaitGone, WaitUp, WaitAdvance, Recheck, runVars
<1>4. FirstRun'
  <2> SUFFICES ASSUME run = 1 PROVE (mark = 3 /\ Cast /\ Named /\ Gone /\ Alive)'
    BY <1>1 DEF FirstRun
  <2>1. mark = 3 /\ Cast /\ Named /\ Gone /\ Alive
    BY <1>0 DEF FirstRun
  <2>2. Cast' /\ Named'
    BY <1>0, <1>1, <1>3, <2>1, SameStage, SameCast
  <2>3. Gone'
    BY <1>0, <1>1, <1>3, <2>1, SameStage DEF Gone
  <2>4. Alive'
    BY <1>0, <1>1, <1>3, <2>1, SameStage DEF Alive
  <2>5. QED
    BY <1>1, <2>1, <2>2, <2>3, <2>4
<1>5. Control' /\ Kept'
  <2>1. CASE Baseline
    BY <1>0, <2>1 DEF Baseline, Control, Kept, devVars
  <2>2. CASE WaitGone \/ WaitUp \/ WaitAdvance
    BY <1>0, <2>2 DEF WaitGone, WaitUp, WaitAdvance, Judge, Control, Kept, devVars, runVars
  <2>3. CASE Recheck
    <3>1. PICK h \in Answers : fails' = (fails \/ ~NotRegressed(h))
      BY <2>3 DEF Recheck, Judge
    <3>2. sc = 2 /\ ~fails' => fin >= seenFin
      <4>1. sc = 2 /\ ~fails' => h.f >= base.f
        BY <1>0, <3>1 DEF NotRegressed, TypeOK
      <4>2. sc = 2 => base.f = seenFin
        BY <1>0, <2>3 DEF Recheck, Kept
      <4>3. (h.f = fin \/ h.f = -1) /\ fin \in Nat /\ seenFin \in Int
        BY <1>0, <3>1, AnswerType, ResilienceAssumption DEF TypeOK
      <4>4. QED
        BY <4>1, <4>2, <4>3
    <3>3. QED
      BY <1>0, <1>1, <2>3, <3>2 DEF Recheck, Control, Kept, TypeOK
  <2>4. QED
    BY <2>1, <2>2, <2>3
<1>6. QED
  BY <1>2, <1>4, <1>5 DEF IInv

LEMMA JudgeSteps ==
  ASSUME IInv, CheckGone \/ CheckUp \/ CheckSurvival
  PROVE  IInv'
<1>0. TypeOK /\ Control /\ FirstRun /\ Kept
  BY DEF IInv
<1>1. /\ UNCHANGED <<procs, pidFile, unsafe, safe, fin, broken, run, mark, sc, base, seenFin>>
      /\ fails => fails'
  BY DEF CheckGone, CheckUp, CheckSurvival, Judge, devVars, runVars
<1>2. TypeOK'
  <2>1. fails' \in BOOLEAN
    BY <1>0 DEF CheckGone, CheckUp, CheckSurvival, Judge, TypeOK
  <2>2. /\ pc' \in {"start", "survive", "exit", "advance"}
        /\ left' = left \/ left' = Patience
    BY DEF CheckGone, CheckUp, CheckSurvival, runVars
  <2>3. QED
    BY <1>0, <1>1, <2>1, <2>2, ResilienceAssumption DEF TypeOK
<1>3. Control' /\ Kept'
  BY <1>0, <1>1 DEF CheckGone, CheckUp, CheckSurvival, Control, Kept
<1>4. ASSUME run = 1
      PROVE  (mark = 3 /\ Cast /\ Named /\ Gone /\ Alive)'
  <2>0. mark = 3 /\ Cast /\ Named /\ Gone /\ Alive
    BY <1>0, <1>4 DEF FirstRun
  <2>1. Cast' /\ Named'
    <3>1. \A s \in 1..3 : Reached(s, New)' <=> Reached(s, New)
      BY <1>0, <1>1 DEF CheckGone, CheckUp, CheckSurvival, Reached, New, Up, Judged, TypeOK
    <3>2. QED
      BY <1>1, <2>0, <3>1, SameCast
  <2>2. CASE CheckGone
    <3>0. ~fails' => ~SeenAlive
      BY <2>2 DEF CheckGone, Judge
    <3>1. sc = 2 /\ ~fails' => ~procs[2].live
      <4>1. sc = 2 => pidFile["fisco"] = 2 /\ procs[2].comp = "fisco"
        BY <2>0, <2>2 DEF CheckGone, Cast, Named, Reached, New, Up, Judged
      <4>2. QED
        BY <1>0, <3>0, <4>1, VictimOf DEF SeenAlive, Live
    <3>2. sc = 3 /\ ~fails' => ~procs[3].live
      <4>1. 3 \in 1..Len(procs) /\ procs[3].comp = "opnode"
        BY <2>0 DEF Cast
      <4>2. QED
        BY <1>0, <3>0, <4>1, VictimOf DEF SeenAlive, Running, Live
    <3>3. Gone'
      BY <1>0, <1>1, <2>0, <2>2, <3>1, <3>2 DEF CheckGone, Gone, Reached, New, Up, Judged,
         TypeOK
    <3>4. Alive'
      BY <1>0, <1>1, <2>0, <2>2 DEF CheckGone, Alive, Reached, New, Up, Judged, TypeOK
    <3>5. QED
      BY <1>1, <2>0, <2>1, <3>3, <3>4
  <2>3. CASE CheckUp \/ CheckSurvival
    <3>1. Gone'
      BY <1>0, <1>1, <2>0, <2>3 DEF CheckUp, CheckSurvival, Gone, Reached, New, Up, Judged,
         TypeOK
    <3>2. /\ sc = 1 /\ ~fails' /\ pc' # "survive" => procs[4].live
          /\ sc = 2 /\ ~fails' => procs[6].live
          /\ sc = 3 /\ ~fails' => procs[7].live
      <4>1. ~fails' /\ pc' # "exit" => ~fails /\ Running(Victim)
        <5>1. CASE CheckUp
          BY <5>1 DEF CheckUp, Judge
        <5>2. CASE CheckSurvival
          BY <1>0, <5>2, VictimOf DEF CheckSurvival, Judge, Survives, Control
        <5>3. QED
          BY <2>3, <5>1, <5>2
      <4>2. pc' = "exit" => sc = 1 /\ fails'
        BY <2>3 DEF CheckUp, CheckSurvival, Judge
      <4>3. pc \in {"up", "survive"}
        BY <2>3 DEF CheckUp, CheckSurvival
      <4>4. /\ sc = 1 => Reached(1, New)
            /\ sc = 2 => Reached(2, New)
            /\ sc = 3 => Reached(3, New)
        BY <4>3 DEF Reached, New
      <4>5. QED
        BY <1>0, <1>4, <4>1, <4>2, <4>4, NewOneRuns, VictimOf
    <3>3. Alive'
      BY <1>0, <1>1, <2>0, <2>3, <3>2 DEF CheckUp, CheckSurvival, Alive, Reached, New, Up,
         Judged, TypeOK
    <3>4. QED
      BY <1>1, <2>0, <2>1, <3>1, <3>3
  <2>4. QED
    BY <2>2, <2>3
<1>5. QED
  BY <1>1, <1>2, <1>3, <1>4 DEF IInv, FirstRun

-----------------------------------------------------------------------------
(* The kill, the restart, and the next run.                                   *)

LEMMA KillStep ==
  ASSUME IInv, KillVictim
  PROVE  IInv'
<1>0. TypeOK /\ Control /\ FirstRun /\ Kept
  BY DEF IInv
<1>1. /\ UNCHANGED <<pidFile, unsafe, safe, fin, broken, run, mark, sc, base, fails, seenFin>>
      /\ pc = "kill" /\ pc' = "gone" /\ left' \in 0..Patience
  BY ResilienceAssumption DEF KillVictim, runVars
<1> DEFINE p == pidFile[Victim]
<1>2. p \in 1..Len(procs)
  BY <1>0, VictimOf DEF TypeOK
<1>3. /\ \/ procs' = [procs EXCEPT ![p].live = FALSE]
         \/ procs' = [procs EXCEPT ![p].term = TRUE]
      /\ sc = 1 => procs' = [procs EXCEPT ![p].live = FALSE]
  BY DEF KillVictim
<1> HIDE DEF p
<1>4. /\ procs' \in Seq(Procs) /\ Len(procs') = Len(procs)
      /\ \A q \in 1..Len(procs) : /\ procs'[q].comp = procs[q].comp
                                  /\ procs'[q].live => procs[q].live
                                  /\ q # p => procs'[q] = procs[q]
  BY <1>0, <1>2, <1>3, OneProcess
<1>5. TypeOK'
  BY <1>0, <1>1, <1>4 DEF TypeOK
<1>6. Control' /\ Kept'
  BY <1>0, <1>1 DEF Control, Kept
<1>7. ASSUME run = 1
      PROVE  (mark = 3 /\ Cast /\ Named /\ Gone /\ Alive)'
  <2>1. mark = 3 /\ Cast /\ Named /\ Gone /\ Alive
    BY <1>0, <1>7 DEF FirstRun
  <2>2. /\ sc = 1 => Len(procs) = 3 /\ p = 1
        /\ sc = 2 => Len(procs) = 4 /\ p = 2
        /\ sc = 3 => Len(procs) = 6 /\ p = 3
    BY <1>0, <1>1, <2>1, VictimOf DEF p, Cast, Named, Reached, New, Up, Judged
  <2>3. sc \in {1, 2, 3}
    BY <1>0 DEF TypeOK
  <2>4. Cast'
    BY <1>1, <1>4, <2>1, <2>2, <2>3 DEF Cast, Reached, New, Up, Judged
  <2>5. Named'
    BY <1>1, <2>1 DEF Named, Reached, New, Up, Judged
  <2>6. Gone'
    <3>1. sc = 1 => ~procs'[1].live
      <4>1. procs \in Seq(Procs) /\ procs[p] \in Procs
        BY <1>0, <1>2 DEF TypeOK
      <4>2. sc = 1 => procs'[p].live = FALSE
        BY <1>2, <1>3, <4>1 DEF Procs
      <4>3. QED
        BY <2>2, <4>2
    <3>2. QED
      BY <1>1, <1>4, <2>1, <2>2, <2>3, <3>1 DEF Gone, Reached, New, Up, Judged
  <2>7. Alive'
    BY <1>1, <1>4, <2>1, <2>2, <2>3 DEF Alive, Reached, New, Up, Judged
  <2>8. QED
    BY <1>1, <2>1, <2>4, <2>5, <2>6, <2>7
<1>8. QED
  BY <1>1, <1>5, <1>6, <1>7 DEF IInv, FirstRun

LEMMA RestartStep ==
  ASSUME IInv, Restart
  PROVE  IInv'
<1>0. TypeOK /\ Control /\ FirstRun /\ Kept
  BY DEF IInv
<1>1. /\ UNCHANGED <<run, mark, sc, base, fails, seenFin>>
      /\ pc = "start" /\ pc' = "up" /\ left' \in 0..Patience
      /\ Comeback \/ UNCHANGED <<unsafe, safe, fin, broken>>
  BY ResilienceAssumption DEF Restart
<1>2. /\ procs' \in Seq(Procs)
      /\ Len(procs') = Len(procs) + (IF Victim = "fisco" THEN 2 ELSE 1)
      /\ \A p \in 1..Len(procs) : procs'[p] = procs[p]
      /\ pidFile' = [pidFile EXCEPT ![Victim] = Len(procs) + 1]
      /\ procs'[Len(procs')].comp = Victim
      /\ Victim = "fisco" => procs'[Len(procs) + 1].comp = "shell"
      /\ \A p \in Len(procs) + 1..Len(procs') : ~procs'[p].term
  BY <1>0, VictimOf, RestartType DEF Restart
<1>3. Len(procs) \in Nat /\ Len(procs') >= Len(procs) + 1
  BY <1>0, <1>2 DEF TypeOK
<1>4. TypeOK'
  <2>1. /\ unsafe' \in 0..MaxHead /\ safe' \in 0..unsafe' /\ fin' \in 0..safe'
        /\ broken' \subseteq {"loss", "stuck"}
    <3>1. CASE UNCHANGED <<unsafe, safe, fin, broken>>
      BY <1>0, <3>1 DEF TypeOK
    <3>2. CASE unsafe' = 0 /\ safe' = 0 /\ fin' = 0 /\ broken' = broken \cup {"loss"}
      BY <1>0, <3>2, ResilienceAssumption DEF TypeOK
    <3>3. CASE broken' = broken \cup {"stuck"} /\ UNCHANGED <<unsafe, safe, fin>>
      BY <1>0, <3>3 DEF TypeOK
    <3>4. CASE safe' \in fin..safe /\ UNCHANGED <<unsafe, fin, broken>>
      BY <1>0, <3>4, ResilienceAssumption DEF TypeOK
    <3>5. QED
      BY <1>1, <3>1, <3>2, <3>3, <3>4 DEF Comeback
  <2>2. pidFile' \in [Comps -> 1..Len(procs')] /\ mark \in 0..Len(procs')
    BY <1>0, <1>2, <1>3, VictimOf DEF TypeOK
  <2>3. QED
    BY <1>0, <1>1, <1>2, <2>1, <2>2 DEF TypeOK
<1>5. Control' /\ Kept'
  <2>1. sc = 3 => fin' = fin
    BY <1>0, <1>1, VictimOf DEF Comeback
  <2>2. QED
    BY <1>0, <1>1, <2>1 DEF Control, Kept
<1>6. ASSUME run = 1
      PROVE  (mark = 3 /\ Cast /\ Named /\ Gone /\ Alive)'
  <2>1. mark = 3 /\ Cast /\ Named /\ Gone /\ Alive
    BY <1>0, <1>6 DEF FirstRun
  <2>2. /\ sc = 1 => Len(procs) = 3 /\ Len(procs') = 4
        /\ sc = 2 => Len(procs) = 4 /\ Len(procs') = 6
        /\ sc = 3 => Len(procs) = 6 /\ Len(procs') = 7
    BY <1>0, <1>1, <1>2, <2>1, VictimOf DEF Cast, Reached, New, Up, Judged
  <2>3. sc \in {1, 2, 3}
    BY <1>0 DEF TypeOK
  <2>4. Cast'
    BY <1>0, <1>1, <1>2, <2>1, <2>2, <2>3, VictimOf DEF Cast, Reached, New, Up, Judged
  <2>5. Named'
    <3>1. /\ pidFile' = [pidFile EXCEPT ![Victim] = Len(procs) + 1]
          /\ pidFile \in [Comps -> 1..Len(procs)]
      BY <1>0, <1>2 DEF TypeOK
    <3>6. /\ pidFile'[Victim] = Len(procs) + 1
          /\ \A c \in Comps : c # Victim => pidFile'[c] = pidFile[c]
      BY <1>0, <3>1, VictimOf
    <3>2. CASE sc = 1
      BY <1>0, <1>1, <2>1, <2>2, <3>1, <3>2, VictimOf
      DEF Named, Reached, New, Up, Judged, Comps
    <3>3. CASE sc = 2
      <4>1. /\ Reached(1, New) /\ Reached(1, New)'
            /\ ~Reached(2, New) /\ Reached(2, New)'
            /\ ~Reached(3, New) /\ ~Reached(3, New)'
        BY <1>1, <3>3 DEF Reached, New, Up, Judged
      <4>2. Victim = "fisco" /\ pidFile'["fisco"] = 5
        <5>1. Victim = "fisco"
          BY <1>0, <3>3, VictimOf
        <5>2. Len(procs) = 4
          BY <2>2, <3>3
        <5>3. pidFile'[Victim] = Len(procs) + 1
          BY <3>6
        <5>4. QED
          BY <5>1, <5>2, <5>3
      <4>3. /\ pidFile'["batcher"] = pidFile["batcher"]
            /\ pidFile'["opnode"] = pidFile["opnode"]
        BY <3>6, <4>2 DEF Comps
      <4>4. QED
        BY <2>1, <4>1, <4>2, <4>3 DEF Named
    <3>4. CASE sc = 3
      <4>1. /\ Reached(1, New) /\ Reached(1, New)'
            /\ Reached(2, New) /\ Reached(2, New)'
            /\ ~Reached(3, New) /\ Reached(3, New)'
        BY <1>1, <3>4 DEF Reached, New, Up, Judged
      <4>2. Victim = "opnode" /\ pidFile'["opnode"] = 7
        <5>1. Victim = "opnode"
          BY <1>0, <3>4, VictimOf
        <5>2. Len(procs) = 6
          BY <2>2, <3>4
        <5>3. pidFile'[Victim] = Len(procs) + 1
          BY <3>6
        <5>4. QED
          BY <5>1, <5>2, <5>3
      <4>3. /\ pidFile'["batcher"] = pidFile["batcher"]
            /\ pidFile'["fisco"] = pidFile["fisco"]
        BY <3>6, <4>2 DEF Comps
      <4>4. QED
        BY <2>1, <4>1, <4>2, <4>3 DEF Named
    <3>5. QED
      BY <2>3, <3>2, <3>3, <3>4
  <2>6. Gone'
    BY <1>1, <1>2, <2>1, <2>2, <2>3 DEF Gone, Reached, New, Up, Judged
  <2>7. Alive'
    <3>1. \A p \in 4..Len(procs') : ~procs'[p].term
      BY <1>2, <1>3, <2>1 DEF Alive
    <3>2. QED
      BY <1>1, <1>2, <2>1, <2>2, <2>3, <3>1 DEF Alive, Reached, New, Up, Judged
  <2>8. QED
    BY <1>1, <2>1, <2>4, <2>5, <2>6, <2>7
<1>7. QED
  BY <1>1, <1>4, <1>5, <1>6 DEF IInv, FirstRun

LEMMA AgainStep ==
  ASSUME IInv, RunAgain
  PROVE  IInv'
<1>0. TypeOK
  BY DEF IInv
<1>1. TypeOK'
  <2>1. run' \in 1..Runs /\ mark' \in 0..Len(procs)
    BY <1>0, ResilienceAssumption DEF RunAgain, TypeOK
  <2>2. QED
    <3>1. UNCHANGED <<procs, pidFile, unsafe, safe, fin, broken, left, base, seenFin>>
      BY DEF RunAgain, devVars
    <3>2. sc' = 1 /\ pc' = "base" /\ ~fails' /\ fails' \in BOOLEAN
      <4>1. sc' = 1 /\ pc' = "base" /\ fails' = FALSE
        BY DEF RunAgain
      <4>2. QED
        BY <4>1
    <3>3. QED
      BY <1>0, <2>1, <3>1, <3>2 DEF TypeOK
<1>2. run' # 1
  BY <1>0 DEF RunAgain, TypeOK
<1>3. QED
  BY <1>1, <1>2 DEF RunAgain, IInv, Control, FirstRun, Kept

-----------------------------------------------------------------------------
(* Resilience: the theorems. *)

LEMMA InvInit == Init => IInv
BY TypeInit DEF Init, IInv, Control, FirstRun, Kept, Cast, Named, Gone, Alive, Reached, New,
   Up, Judged, Proc

LEMMA InvNext == IInv /\ [Next]_vars => IInv'
<1> SUFFICES ASSUME IInv, [Next]_vars PROVE IInv'
  OBVIOUS
<1>1. CASE Script
  BY <1>1, LookSteps, JudgeSteps, KillStep, RestartStep, AgainStep DEF Script
<1>2. CASE Seal \/ Derive \/ Finalize \/ Stop \/ Hangup
  BY <1>2, HeadSteps, StopSteps
<1>3. CASE UNCHANGED vars
  BY <1>3 DEF vars, devVars, runVars, IInv, TypeOK, Control, FirstRun, Cast, Named, Gone,
     Alive, Kept, Reached
<1>4. QED
  BY <1>1, <1>2, <1>3 DEF Next

LEMMA Invariant == Spec => []IInv
BY InvInit, InvNext, PTL DEF Spec

\* Type correctness.
THEOREM TypeCorrect == Spec => []TypeOK
<1>1. IInv => TypeOK
  BY DEF IInv
<1>2. QED
  BY <1>1, Invariant, PTL

\* An all-green first run has replaced the three processes: the old ones are dead, the
\* new ones alive.
THEOREM GreenIsRestarted == Spec => []GreenMeansRestarted
<1>1. IInv => GreenMeansRestarted
  <2> SUFFICES ASSUME IInv, Green, run = 1
               PROVE  \A c \in Comps :
                        /\ \E p \in mark + 1..Len(procs) : procs[p].comp = c /\ Live(p)
                        /\ \A p \in 1..mark : procs[p].comp = c => ~Live(p)
    BY DEF GreenMeansRestarted
  <2>1. sc = 3 /\ pc = "done" /\ ~fails /\ mark = 3 /\ Cast /\ Gone /\ Alive
    BY DEF IInv, Control, FirstRun, Green
  <2>2. /\ Len(procs) = 7 /\ ~procs[1].live /\ ~procs[2].live /\ ~procs[3].live
        /\ procs[4].live /\ procs[6].live /\ procs[7].live
        /\ procs[4].comp = "batcher" /\ procs[6].comp = "fisco" /\ procs[7].comp = "opnode"
    BY <2>1 DEF Cast, Gone, Alive, Reached, New, Up, Judged
  <2>3. \A p \in 1..mark : ~Live(p)
    BY <2>1, <2>2 DEF Live
  <2>4. Live(4) /\ Live(6) /\ Live(7)
    BY <2>2 DEF Live
  <2>5. QED
    BY <2>1, <2>2, <2>3, <2>4 DEF Comps
<1>2. QED
  BY <1>1, Invariant, PTL

\* After an all-green run the chain is final where S2 found it.
THEOREM NothingLost == Spec => []NoSilentLoss
<1>1. IInv => NoSilentLoss
  BY DEF IInv, Control, Kept, NoSilentLoss, Green
<1>2. QED
  BY <1>1, Invariant, PTL

-----------------------------------------------------------------------------
(* SetupC2: the inductive invariant, what a completed step leaves behind    *)
(* and what the commands of a step in progress have done so far.            *)

\* The labels inside step k, and all of its labels.
Inside(k) ==
  CASE k = 2 -> {"apply", "rollup", "eip", "genesis"}
    [] k = 3 -> {"header"}
    [] k = 4 -> {"kill", "start", "probe", "wipe", "restart", "reprobe"}
    [] k = 6 -> {"blocks"}
    [] OTHER -> {}

\* A step is reached when its predecessors are complete, and while it runs it is not.
Progress ==
  /\ at # "idle" => runs > 0
  /\ \A k \in 1..7 : at = Entry[k] => done >= k - 1
  /\ \A k \in 1..7 : at \in Inside(k) => done = k - 1
  /\ at \in {"manifest", "ready"} => done >= end

RightTime == IF off THEN "abs" ELSE "zero"

Deployed == rollup.dep = state /\ rollup.jov = RightTime
Tuned == rollup.eip /\ rollup.dep \in eip

\* A node that runs has been started on config.genesis since it was written.
NodeOK ==
  node # NoNode => node.gen = cfg.gen /\ node.jov = cfg.jov /\ data = cfg.gen

\* Completed steps.
Completeness ==
  /\ done >= 2 => Deployed /\ Tuned /\ l2gen = state
  /\ done >= 3 => allocs = l2gen /\ header.dep = allocs
  /\ done >= 4 => /\ cfg.gen = header /\ NodeOK /\ node.up
                  /\ ~off => cfg.jov = "zero"
  /\ done >= 5 => rollup.l2 = node.gen
  /\ done >= 6 => opnode = rollup /\ blocks

\* The step in progress.
Partial ==
  /\ at = "rollup" => state # 0
  /\ at \in {"eip", "genesis"} => Deployed /\ state # 0
  /\ at = "genesis" => Tuned
  /\ at = "header" => allocs = l2gen
  /\ at \in Inside(4) => cfg.gen = header /\ (~off => cfg.jov = "zero")
  /\ at \in {"start", "restart"} => node = NoNode
  /\ at \in {"probe", "wipe", "reprobe"} => NodeOK
  /\ at = "blocks" => opnode = rollup

\* The shell variable of a run that has passed through step 2, and what it wrote
\* with it.
After2 == {"eip", "genesis", "allocs", "header", "config"}
After4 == Inside(4) \cup {"align", "opnode", "blocks", "batcher"}

Remembered ==
  /\ start <= 2 /\ off /\ at \in After2 => abs = "abs"
  /\ start <= 2 /\ off /\ at \in After4 => cfg.jov = "abs"
  /\ start <= 2 /\ off /\ end >= 4 /\ at \in {"manifest", "ready"} => cfg.jov = "abs"

SetupInv == SetupTypeOK /\ Progress /\ Completeness /\ Partial /\ Remembered

-----------------------------------------------------------------------------
(* SetupC2: every step keeps it. *)

LEMMA EntryLabels ==
  /\ Entry[1] = "anvil" /\ Entry[2] = "init" /\ Entry[3] = "allocs"
  /\ Entry[4] = "config" /\ Entry[5] = "align" /\ Entry[6] = "opnode"
  /\ Entry[7] = "batcher"
BY DEF Entry

\* Steps 1 and 2.
LEMMA DeploySteps ==
  ASSUME SetupInv, Anvil \/ InitDeploy \/ Apply \/ InspectRollup \/ SetParams \/ InspectGenesis
  PROVE  SetupInv'
<1>0. SetupTypeOK /\ Progress /\ Completeness /\ Partial /\ Remembered
  BY DEF SetupInv
<1>1. CASE Anvil
  <2>1. SetupTypeOK'
    BY <1>0, <1>1, EntryLabels, SetupAssumption DEF Anvil, Finish, Same, files,
       SetupTypeOK, Labels
  <2>2. Progress'
    BY <1>0, <1>1, EntryLabels DEF Anvil, Finish, Same, SetupTypeOK, Progress, Inside
  <2>3. Completeness'
    BY <1>0, <1>1, EntryLabels DEF Anvil, Same, files, Completeness, Deployed, Tuned,
       RightTime, NodeOK
  <2>4. Partial'
    BY <1>0, <1>1, EntryLabels DEF Anvil, Finish, Partial, Inside
  <2>5. Remembered'
    BY <1>0, <1>1, EntryLabels DEF Anvil, Finish, Same, SetupTypeOK, Remembered, After2,
       After4, Inside
  <2>6. QED
    BY <2>1, <2>2, <2>3, <2>4, <2>5 DEF SetupInv
<1>2. CASE InitDeploy
  <2>1. SetupTypeOK'
    BY <1>0, <1>2, EntryLabels, SetupAssumption DEF InitDeploy, Begin, Then, Same,
       devnet, SetupTypeOK, Labels
  <2>2. Progress'
    BY <1>0, <1>2, EntryLabels DEF InitDeploy, Begin, Then, Same, SetupTypeOK, Progress,
       Inside
  <2>3. Completeness'
    BY <1>0, <1>2, EntryLabels DEF InitDeploy, Begin, SetupTypeOK, Completeness
  <2>4. Partial'
    BY <1>0, <1>2, EntryLabels DEF InitDeploy, Then, Partial, Inside
  <2>5. Remembered'
    BY <1>0, <1>2, EntryLabels DEF InitDeploy, Then, Remembered, After2, After4,
       Inside
  <2>6. QED
    BY <2>1, <2>2, <2>3, <2>4, <2>5 DEF SetupInv
<1>3. CASE Apply
  <2>1. SetupTypeOK'
    BY <1>0, <1>3, EntryLabels, SetupAssumption DEF Apply, Within, Then, Same, devnet,
       SetupTypeOK, Labels
  <2>2. Progress'
    BY <1>0, <1>3, EntryLabels DEF Apply, Within, Then, Same, Progress, Inside
  <2>3. Completeness'
    BY <1>0, <1>3, EntryLabels DEF Apply, Within, Completeness, Inside, Progress
  <2>4. Partial'
    BY <1>0, <1>3, EntryLabels DEF Apply, Within, Then, Partial, Inside, Progress
  <2>5. Remembered'
    BY <1>0, <1>3, EntryLabels DEF Apply, Then, Remembered, After2, After4, Inside
  <2>6. QED
    BY <2>1, <2>2, <2>3, <2>4, <2>5 DEF SetupInv
<1>4. CASE InspectRollup
  <2>1. SetupTypeOK'
    BY <1>0, <1>4, EntryLabels, SetupAssumption DEF InspectRollup, Within, Then,
       ReadBack, Same, devnet, SetupTypeOK, Rollups, NoGen, Gens, Times, Labels
  <2>2. Progress'
    BY <1>0, <1>4, EntryLabels DEF InspectRollup, Within, Then, Same, Progress, Inside
  <2>3. Completeness'
    BY <1>0, <1>4, EntryLabels DEF InspectRollup, Within, Completeness, Inside,
       Progress
  <2>4. Partial'
    BY <1>0, <1>4, EntryLabels DEF InspectRollup, Within, Then, Same, Partial, Inside,
       Deployed, RightTime
  <2>5. Remembered'
    BY <1>0, <1>4, EntryLabels DEF InspectRollup, Then, ReadBack, Same, Remembered,
       After4, Inside
  <2>6. QED
    BY <2>1, <2>2, <2>3, <2>4, <2>5 DEF SetupInv
<1>5. CASE SetParams
  <2>1. SetupTypeOK'
    <3>1. rollup.dep \in 1..MaxRuns /\ rollup \in Rollups
      BY <1>0, <1>5 DEF SetParams, Within, SetupTypeOK, Partial, Deployed
    <3>2. eip' \subseteq 1..MaxRuns
      BY <1>0, <1>5, <3>1 DEF SetParams, Parameterised, SetupTypeOK
    <3>3. rollup' \in Rollups
      BY <1>5, <3>1 DEF SetParams, Rollups
    <3>4. at' \in Labels
      BY <1>5 DEF SetParams, Then, Labels
    <3>5. QED
      BY <1>0, <1>5, <3>2, <3>3, <3>4 DEF SetParams, Within, Same, SetupTypeOK
  <2>2. Progress'
    BY <1>0, <1>5, EntryLabels DEF SetParams, Within, Then, Same, Progress, Inside
  <2>3. Completeness'
    BY <1>0, <1>5, EntryLabels DEF SetParams, Within, Completeness, Inside, Progress
  <2>4. Partial'
    BY <1>0, <1>5, EntryLabels DEF SetParams, Within, Then, Parameterised, Same,
       Partial, Inside, Deployed, Tuned, RightTime
  <2>5. Remembered'
    BY <1>0, <1>5, EntryLabels DEF SetParams, Within, Then, Same, Remembered, After2,
       After4, Inside
  <2>6. QED
    BY <2>1, <2>2, <2>3, <2>4, <2>5 DEF SetupInv
<1>6. CASE InspectGenesis
  <2>1. SetupTypeOK'
    BY <1>0, <1>6, EntryLabels, SetupAssumption DEF InspectGenesis, Completed, Finish,
       Same, devnet, SetupTypeOK, Labels
  <2>2. Progress'
    BY <1>0, <1>6, EntryLabels DEF InspectGenesis, Completed, Finish, Same, SetupTypeOK,
       Progress, Inside
  <2>3. Completeness'
    BY <1>0, <1>6, EntryLabels DEF InspectGenesis, Completed, Same, devnet,
       Completeness, Partial, Deployed, Tuned, RightTime
  <2>4. Partial'
    BY <1>0, <1>6, EntryLabels DEF InspectGenesis, Finish, Partial, Inside
  <2>5. Remembered'
    BY <1>0, <1>6, EntryLabels DEF InspectGenesis, Finish, Same, SetupTypeOK, Remembered,
       After2, After4, Inside
  <2>6. QED
    BY <2>1, <2>2, <2>3, <2>4, <2>5 DEF SetupInv
<1>7. QED
  BY <1>1, <1>2, <1>3, <1>4, <1>5, <1>6

\* Step 3, and the file that step 4 begins with.
LEMMA GenesisSteps ==
  ASSUME SetupInv, BuildAllocs \/ BuildHeader \/ WriteConfig
  PROVE  SetupInv'
<1>0. SetupTypeOK /\ Progress /\ Completeness /\ Partial /\ Remembered
  BY DEF SetupInv
<1>1. CASE BuildAllocs
  <2>1. SetupTypeOK'
    BY <1>0, <1>1, EntryLabels, SetupAssumption DEF BuildAllocs, Begin, Then, Same,
       devnet, SetupTypeOK, Labels
  <2>2. Progress'
    BY <1>0, <1>1, EntryLabels DEF BuildAllocs, Begin, Then, Same, SetupTypeOK, Progress,
       Inside
  <2>3. Completeness'
    BY <1>0, <1>1, EntryLabels DEF BuildAllocs, Begin, Same, devnet, Completeness,
       Deployed, Tuned, RightTime, NodeOK, Progress
  <2>4. Partial'
    BY <1>0, <1>1, EntryLabels DEF BuildAllocs, Then, Partial, Inside
  <2>5. Remembered'
    BY <1>0, <1>1, EntryLabels DEF BuildAllocs, Begin, Then, Same, Remembered, After2,
       After4, Inside
  <2>6. QED
    BY <2>1, <2>2, <2>3, <2>4, <2>5 DEF SetupInv
<1>2. CASE BuildHeader
  <2>1. SetupTypeOK'
    BY <1>0, <1>2, EntryLabels, SetupAssumption DEF BuildHeader, Completed, Finish,
       Same, devnet, SetupTypeOK, Gens, Labels
  <2>2. Progress'
    BY <1>0, <1>2, EntryLabels DEF BuildHeader, Completed, Finish, Same, SetupTypeOK,
       Progress, Inside
  <2>3. Completeness'
    BY <1>0, <1>2, EntryLabels DEF BuildHeader, Completed, Same, devnet, Completeness,
       Partial, Deployed, Tuned, RightTime
  <2>4. Partial'
    BY <1>0, <1>2, EntryLabels DEF BuildHeader, Finish, Partial, Inside
  <2>5. Remembered'
    BY <1>0, <1>2, EntryLabels DEF BuildHeader, Finish, Same, SetupTypeOK, Remembered,
       After2, After4, Inside
  <2>6. QED
    BY <2>1, <2>2, <2>3, <2>4, <2>5 DEF SetupInv
<1>3. CASE WriteConfig
  <2>1. SetupTypeOK'
    BY <1>0, <1>3, EntryLabels, SetupAssumption DEF WriteConfig, Begin, Then,
       JovianTime, Same, devnet, SetupTypeOK, Times, Labels
  <2>2. Progress'
    BY <1>0, <1>3, EntryLabels DEF WriteConfig, Begin, Then, Same, SetupTypeOK, Progress,
       Inside
  <2>3. Completeness'
    BY <1>0, <1>3, EntryLabels DEF WriteConfig, Begin, Same, devnet, SetupTypeOK,
       Completeness, Deployed, Tuned, RightTime
  <2>4. Partial'
    BY <1>0, <1>3, EntryLabels DEF WriteConfig, Then, JovianTime, Same, Partial
  <2>5. Remembered'
    BY <1>0, <1>3, EntryLabels DEF WriteConfig, Begin, JovianTime, Same, Remembered,
       After2
  <2>6. QED
    BY <2>1, <2>2, <2>3, <2>4, <2>5 DEF SetupInv
<1>4. QED
  BY <1>1, <1>2, <1>3

\* A node that is started has the genesis and the fork time of config.genesis.
LEMMA LaunchedLemma ==
  ASSUME NEW n \in Launched
  PROVE  \E up \in BOOLEAN : n = [gen |-> cfg.gen, jov |-> cfg.jov, up |-> up]
<1> DEFINE ups == {TRUE} \cup (IF slow THEN {FALSE} ELSE {})
<1>1. Launched = {[gen |-> cfg.gen, jov |-> cfg.jov, up |-> up] : up \in ups}
  BY DEF Launched
<1>2. ups \subseteq BOOLEAN
  OBVIOUS
<1> HIDE DEF ups
<1>3. PICK up \in ups : n = [gen |-> cfg.gen, jov |-> cfg.jov, up |-> up]
  BY <1>1
<1>4. QED
  BY <1>2, <1>3

\* Step 4.
LEMMA NodeSteps ==
  ASSUME SetupInv, KillNode \/ WipeData \/ StartNode \/ Probe
  PROVE  SetupInv'
<1>0. SetupTypeOK /\ Progress /\ Completeness /\ Partial /\ Remembered
  BY DEF SetupInv
<1>1. CASE KillNode
  <2>1. SetupTypeOK'
    BY <1>0, <1>1, EntryLabels, SetupAssumption DEF KillNode, Within, Then, AfterKill,
       Same, files, SetupTypeOK, NoNode, NoGen, Gens, Times, Labels
  <2>2. Progress'
    BY <1>0, <1>1, EntryLabels DEF KillNode, Within, Then, Same, Progress, Inside
  <2>3. Completeness'
    BY <1>0, <1>1, EntryLabels DEF KillNode, Within, Same, files, Completeness,
       Inside, Deployed, Tuned, RightTime, Progress
  <2>4. Partial'
    BY <1>0, <1>1, EntryLabels DEF KillNode, Within, Then, AfterKill, Same, files,
       Partial, Inside
  <2>5. Remembered'
    BY <1>0, <1>1, EntryLabels DEF KillNode, Within, Then, Same, files, Remembered,
       After2, After4, Inside
  <2>6. QED
    BY <2>1, <2>2, <2>3, <2>4, <2>5 DEF SetupInv
<1>2. CASE WipeData
  <2>1. SetupTypeOK'
    <3>1. wiped' \in [data : Gens, for : Gens, blocks : BOOLEAN]
      BY <1>0, <1>2 DEF WipeData, SetupTypeOK
    <3>2. NoGen \in Gens /\ NoNode \in [gen : Gens, jov : Times, up : BOOLEAN]
      BY SetupAssumption DEF NoNode, NoGen, Gens, Times
    <3>3. at' \in Labels
      BY <1>2 DEF WipeData, Then, Labels
    <3>4. QED
      BY <1>0, <1>2, <3>1, <3>2, <3>3 DEF WipeData, AfterKill, Within, Same, SetupTypeOK
  <2>2. Progress'
    BY <1>0, <1>2, EntryLabels DEF WipeData, Within, Then, Same, Progress, Inside
  <2>3. Completeness'
    BY <1>0, <1>2, EntryLabels DEF WipeData, Within, Same, Completeness, Inside,
       Deployed, Tuned, RightTime, Progress
  <2>4. Partial'
    BY <1>0, <1>2, EntryLabels DEF WipeData, Within, Then, AfterKill, Same, Partial,
       Inside
  <2>5. Remembered'
    BY <1>0, <1>2, EntryLabels DEF WipeData, Within, Then, Same, Remembered, After2,
       After4, Inside
  <2>6. QED
    BY <2>1, <2>2, <2>3, <2>4, <2>5 DEF SetupInv
<1>3. CASE StartNode
  <2>1. SetupTypeOK'
    <3>1. cfg.gen \in Gens /\ cfg.jov \in Times
      BY <1>0 DEF SetupTypeOK
    <3>2. Launched \subseteq [gen : Gens, jov : Times, up : BOOLEAN]
      BY <3>1, LaunchedLemma
    <3>3. data' \in Gens /\ node' \in [gen : Gens, jov : Times, up : BOOLEAN]
      BY <1>0, <1>3, <3>1, <3>2 DEF StartNode, SetupTypeOK
    <3>4. at' \in Labels
      BY <1>3 DEF StartNode, Then, Labels
    <3>5. QED
      BY <1>0, <1>3, <3>3, <3>4 DEF StartNode, Same, SetupTypeOK
  <2>2. Progress'
    BY <1>0, <1>3, EntryLabels DEF StartNode, Then, Same, Progress, Inside
  <2>3. Completeness'
    BY <1>0, <1>3, EntryLabels DEF StartNode, Same, Completeness, Inside, Deployed,
       Tuned, RightTime, Progress
  <2>4. Partial'
    <3>1. node = NoNode
      BY <1>0, <1>3 DEF StartNode, Partial
    <3>2. ASSUME NEW n \in Launched
          PROVE  n.gen = cfg.gen /\ n.jov = cfg.jov
      BY LaunchedLemma
    <3>3. NodeOK'
      BY <1>3, <3>1, <3>2 DEF StartNode, NodeOK
    <3>4. cfg.gen = header /\ (~off => cfg.jov = "zero")
      BY <1>0, <1>3 DEF StartNode, Partial, Inside
    <3>5. at' \in {"probe", "reprobe"}
      BY <1>3 DEF StartNode, Then
    <3>6. QED
      BY <1>3, <3>3, <3>4, <3>5 DEF StartNode, Same, Partial
  <2>5. Remembered'
    BY <1>0, <1>3, EntryLabels DEF StartNode, Then, Same, Remembered, After2, After4,
       Inside
  <2>6. QED
    BY <2>1, <2>2, <2>3, <2>4, <2>5 DEF SetupInv
<1>4. CASE Probe
  <2>1. SetupTypeOK'
    BY <1>0, <1>4, EntryLabels, SetupAssumption DEF Probe, Completed, Finish, Then,
       Same, files, devnet, SetupTypeOK, Labels
  <2>2. Progress'
    BY <1>0, <1>4, EntryLabels DEF Probe, Completed, Finish, Then, Same, SetupTypeOK,
       Progress, Inside
  <2>3. Completeness'
    BY <1>0, <1>4, EntryLabels DEF Probe, Completed, Same, files, devnet,
       Completeness, Partial, Inside, Deployed, Tuned, RightTime, NodeOK, Progress
  <2>4. Partial'
    BY <1>0, <1>4, EntryLabels DEF Probe, Finish, Then, Same, files, devnet, Partial,
       Inside, NodeOK
  <2>5. Remembered'
    BY <1>0, <1>4, EntryLabels DEF Probe, Finish, Then, Same, files, Remembered,
       After2, After4, Inside
  <2>6. QED
    BY <2>1, <2>2, <2>3, <2>4, <2>5 DEF SetupInv
<1>5. QED
  BY <1>1, <1>2, <1>3, <1>4

\* Steps 5 to 7, and the manifest.
LEMMA FinishingSteps ==
  ASSUME SetupInv, Align \/ StartOpNode \/ CheckBlocks \/ StartBatcher \/ CheckManifest
  PROVE  SetupInv'
<1>0. SetupTypeOK /\ Progress /\ Completeness /\ Partial /\ Remembered
  BY DEF SetupInv
<1>1. CASE Align
  <2>1. SetupTypeOK'
    BY <1>0, <1>1, EntryLabels, SetupAssumption DEF Align, Completed, Finish, Same,
       devnet, SetupTypeOK, Rollups, Labels
  <2>2. Progress'
    BY <1>0, <1>1, EntryLabels DEF Align, Completed, Finish, Same, SetupTypeOK, Progress,
       Inside
  <2>3. Completeness'
    BY <1>0, <1>1, EntryLabels DEF Align, Completed, Same, devnet, SetupTypeOK,
       Completeness, Deployed, Tuned, RightTime, NodeOK
  <2>4. Partial'
    BY <1>0, <1>1, EntryLabels DEF Align, Finish, Partial, Inside
  <2>5. Remembered'
    BY <1>0, <1>1, EntryLabels DEF Align, Finish, Same, Remembered, After2, After4
  <2>6. QED
    BY <2>1, <2>2, <2>3, <2>4, <2>5 DEF SetupInv
<1>2. CASE StartOpNode
  <2>1. SetupTypeOK'
    BY <1>0, <1>2, EntryLabels, SetupAssumption DEF StartOpNode, Begin, Then, Same,
       files, SetupTypeOK, Labels
  <2>2. Progress'
    BY <1>0, <1>2, EntryLabels DEF StartOpNode, Begin, Then, Same, SetupTypeOK, Progress,
       Inside
  <2>3. Completeness'
    BY <1>0, <1>2, EntryLabels DEF StartOpNode, Begin, Same, files, SetupTypeOK,
       Completeness, Deployed, Tuned, RightTime, NodeOK
  <2>4. Partial'
    BY <1>0, <1>2, EntryLabels DEF StartOpNode, Then, files, Partial, Inside
  <2>5. Remembered'
    BY <1>0, <1>2, EntryLabels DEF StartOpNode, Begin, Then, Same, files, Remembered,
       After2, After4
  <2>6. QED
    BY <2>1, <2>2, <2>3, <2>4, <2>5 DEF SetupInv
<1>3. CASE CheckBlocks
  <2>1. SetupTypeOK'
    BY <1>0, <1>3, EntryLabels, SetupAssumption DEF CheckBlocks, Completed, Finish,
       Then, Same, files, devnet, SetupTypeOK, Labels
  <2>2. Progress'
    BY <1>0, <1>3, EntryLabels DEF CheckBlocks, Completed, Finish, Then, Same, SetupTypeOK,
       Progress, Inside
  <2>3. Completeness'
    BY <1>0, <1>3, EntryLabels DEF CheckBlocks, Same, files, devnet, Completeness,
       Partial, Inside, Deployed, Tuned, RightTime, NodeOK, Progress
  <2>4. Partial'
    BY <1>0, <1>3, EntryLabels DEF CheckBlocks, Finish, Then, Partial, Inside
  <2>5. Remembered'
    BY <1>0, <1>3, EntryLabels DEF CheckBlocks, Finish, Then, Same, files, Remembered,
       After2, After4
  <2>6. QED
    BY <2>1, <2>2, <2>3, <2>4, <2>5 DEF SetupInv
<1>4. CASE StartBatcher
  <2>1. SetupTypeOK'
    BY <1>0, <1>4, EntryLabels, SetupAssumption DEF StartBatcher, Completed, Finish,
       Same, files, devnet, SetupTypeOK, Labels
  <2>2. Progress'
    BY <1>0, <1>4, EntryLabels DEF StartBatcher, Completed, Finish, Same, SetupTypeOK,
       Progress, Inside
  <2>3. Completeness'
    BY <1>0, <1>4, EntryLabels DEF StartBatcher, Same, files, devnet, SetupTypeOK,
       Completeness, Deployed, Tuned, RightTime, NodeOK, Progress
  <2>4. Partial'
    BY <1>0, <1>4, EntryLabels DEF StartBatcher, Finish, SetupTypeOK, Partial, Inside
  <2>5. Remembered'
    BY <1>0, <1>4, EntryLabels DEF StartBatcher, Finish, Same, files, SetupTypeOK,
       Remembered, After2, After4
  <2>6. QED
    BY <2>1, <2>2, <2>3, <2>4, <2>5 DEF SetupInv
<1>5. CASE CheckManifest
  <2>1. SetupTypeOK'
    BY <1>0, <1>5, EntryLabels, SetupAssumption DEF CheckManifest, Within, Then, Same,
       files, devnet, SetupTypeOK, Labels
  <2>2. Progress'
    BY <1>0, <1>5, EntryLabels DEF CheckManifest, Within, Then, Same, Progress, Inside
  <2>3. Completeness'
    BY <1>0, <1>5, EntryLabels DEF CheckManifest, Within, Same, files, devnet,
       Completeness, Deployed, Tuned, RightTime, NodeOK
  <2>4. Partial'
    BY <1>0, <1>5, EntryLabels DEF CheckManifest, Then, Partial, Inside
  <2>5. Remembered'
    BY <1>0, <1>5, EntryLabels DEF CheckManifest, Within, Then, Same, files,
       Remembered, After2, After4, Inside
  <2>6. QED
    BY <2>1, <2>2, <2>3, <2>4, <2>5 DEF SetupInv
<1>6. QED
  BY <1>1, <1>2, <1>3, <1>4, <1>5

\* What is not the script's: the operator, the end of a run, the processes.
LEMMA OutsideSteps ==
  ASSUME SetupInv, (\E s \in 1..7, e \in Ends : Run(s, e)) \/ Abort \/ ComeUp \/ Produce
  PROVE  SetupInv'
<1>0. SetupTypeOK /\ Progress /\ Completeness /\ Partial /\ Remembered
  BY DEF SetupInv
<1>1. ASSUME NEW s \in 1..7, NEW e \in Ends, Run(s, e)
      PROVE  SetupInv'
  <2>1. s = 1 \/ s = 2 \/ s = 3 \/ s = 4 \/ s = 5 \/ s = 6 \/ s = 7
    OBVIOUS
  <2>2. SetupTypeOK'
    BY <1>0, <1>1, <2>1, EntryLabels, SetupAssumption DEF Run, SetupTypeOK, Labels, files,
       devnet
  <2>3. Progress'
    BY <1>0, <1>1, <2>1, EntryLabels, SetupAssumption DEF Run, SetupTypeOK, Progress,
       Inside
  <2>4. Completeness'
    BY <1>0, <1>1 DEF Run, Completeness, Deployed, Tuned, RightTime, NodeOK, files,
       devnet
  <2>5. Partial'
    BY <1>0, <1>1, <2>1, EntryLabels DEF Run, Partial, Inside
  <2>6. Remembered'
    BY <1>0, <1>1, <2>1, EntryLabels DEF Run, Remembered, After2, After4, Inside
  <2>7. QED
    BY <2>2, <2>3, <2>4, <2>5, <2>6 DEF SetupInv
<1>2. CASE Abort
  <2>1. SetupTypeOK'
    BY <1>0, <1>2 DEF Abort, SetupTypeOK, Labels, files, devnet
  <2>2. Progress' /\ Partial' /\ Remembered'
    BY <1>2, EntryLabels DEF Abort, Progress, Partial, Remembered, Inside, After2,
       After4
  <2>3. Completeness'
    BY <1>0, <1>2 DEF Abort, Completeness, Deployed, Tuned, RightTime, NodeOK, files,
       devnet
  <2>4. QED
    BY <2>1, <2>2, <2>3 DEF SetupInv
<1>3. CASE ComeUp
  <2>1. SetupTypeOK'
    BY <1>0, <1>3 DEF ComeUp, SetupTypeOK, files
  <2>2. Progress' /\ Remembered'
    BY <1>0, <1>3 DEF ComeUp, Progress, Remembered, files
  <2>3. node' # NoNode /\ node'.gen = node.gen /\ node'.jov = node.jov /\ node'.up
    BY <1>0, <1>3 DEF ComeUp, NoNode
  <2>4. Completeness' /\ Partial'
    BY <1>0, <1>3, <2>3 DEF ComeUp, Completeness, Partial, Deployed, Tuned, RightTime,
       NodeOK, files
  <2>5. QED
    BY <2>1, <2>2, <2>4 DEF SetupInv
<1>4. CASE Produce
  <2>1. SetupTypeOK'
    BY <1>0, <1>4 DEF Produce, SetupTypeOK, files
  <2>2. Progress' /\ Completeness' /\ Partial' /\ Remembered'
    BY <1>0, <1>4 DEF Produce, Progress, Completeness, Partial, Remembered, Deployed,
       Tuned, RightTime, NodeOK, files
  <2>3. QED
    BY <2>1, <2>2 DEF SetupInv
<1>5. QED
  BY <1>1, <1>2, <1>3, <1>4

LEMMA StutterStep == ASSUME SetupInv, UNCHANGED setupVars PROVE SetupInv'
<1>1. SetupTypeOK' /\ Progress' /\ Remembered'
  BY DEF SetupInv, setupVars, files, devnet, SetupTypeOK, Progress, Remembered
<1>2. Completeness' /\ Partial'
  BY DEF SetupInv, setupVars, files, devnet, Completeness, Partial, Deployed, Tuned, RightTime,
     NodeOK
<1>3. QED
  BY <1>1, <1>2 DEF SetupInv

LEMMA InitHolds == SetupInit => SetupInv
<1>1. SetupInit => SetupTypeOK
  <2>1. NoGen \in Gens /\ {"none", "zero"} \subseteq Times
    BY SetupAssumption DEF NoGen, Gens, Times
  <2>2. /\ NoRollup \in Rollups
        /\ NoNode \in [gen : Gens, jov : Times, up : BOOLEAN]
    BY <2>1, SetupAssumption DEF NoRollup, Rollups, NoNode
  <2>3. /\ [gen |-> NoGen, jov |-> "none"] \in [gen : Gens, jov : Times]
        /\ [data |-> NoGen, for |-> NoGen, blocks |-> FALSE]
             \in [data : Gens, for : Gens, blocks : BOOLEAN]
    BY <2>1
  <2>4. SUFFICES ASSUME SetupInit PROVE SetupTypeOK
    OBVIOUS
  <2>5. /\ rollup \in Rollups /\ opnode \in Rollups
        /\ header \in Gens /\ data \in Gens
        /\ cfg \in [gen : Gens, jov : Times]
        /\ node \in [gen : Gens, jov : Times, up : BOOLEAN]
        /\ wiped \in [data : Gens, for : Gens, blocks : BOOLEAN]
    BY <2>1, <2>2, <2>3, <2>4 DEF SetupInit
  <2>6. l1 \in BOOLEAN /\ blocks \in BOOLEAN /\ off \in BOOLEAN /\ slow \in BOOLEAN
    BY <2>4, SetupAssumption, Zenon DEF SetupInit
  <2>7. /\ eip \subseteq 1..MaxRuns
        /\ state \in 0..MaxRuns /\ l2gen \in 0..MaxRuns /\ allocs \in 0..MaxRuns
        /\ start \in 1..7 /\ end \in 1..7 /\ done \in 0..7 /\ runs \in 0..MaxRuns
        /\ abs \in {"unset", "empty", "abs"} /\ at \in Labels
    BY <2>4, SetupAssumption DEF SetupInit, Labels
  <2>8. QED
    BY <2>5, <2>6, <2>7 DEF SetupTypeOK
<1>2. SetupInit => Progress /\ Completeness /\ Partial /\ Remembered
  BY EntryLabels DEF SetupInit, Progress, Completeness, Partial, Remembered, Inside,
     After2, After4
<1>3. QED
  BY <1>1, <1>2 DEF SetupInv

LEMMA Invariance == SetupSpec => []SetupInv
<1>1. SetupInv /\ [SetupNext]_setupVars => SetupInv'
  BY DeploySteps, GenesisSteps, NodeSteps, FinishingSteps, OutsideSteps, StutterStep
     DEF SetupNext, Step
<1>2. QED
  BY InitHolds, <1>1, PTL DEF SetupSpec

-----------------------------------------------------------------------------
(* SetupC2: the theorems. *)

\* Every file, process and variable has its type; in particular no L1 contract is
\* given parameters before there is a deployment.
THEOREM SetupTypeCorrect == SetupSpec => []SetupTypeOK
<1>1. SetupInv => SetupTypeOK
  BY DEF SetupInv
<1>2. QED
  BY <1>1, Invariance, PTL

\* However many runs were cut short, wherever, and resumed from whatever step: a run
\* that ends in "ready" has a single deployment behind all of it (setup_c2.sh, the
\* manifest check and the message after it).
THEOREM ReadyIsAligned == SetupSpec => []ReadyMeansAligned
<1>1. SetupInv => ReadyMeansAligned
  BY DEF SetupInv, SetupTypeOK, Progress, Completeness, Remembered, Deployed, Tuned, RightTime,
     NodeOK, NoNode, ReadyMeansAligned
<1>2. QED
  BY <1>1, Invariance, PTL

-----------------------------------------------------------------------------
(* SetupC2: what a run that starts a node over removes. *)

\* Where the node is fast, one that does not answer has met another chain in its
\* directory, and the directory is still the one it met when it is removed.
Mismatched ==
  ~slow => /\ at = "probe" /\ ~node.up => data # cfg.gen
           /\ at = "wipe" => data # cfg.gen
           /\ wiped.blocks => wiped.data # wiped.for

LEMMA MismatchedStep ==
  ASSUME SetupInv, Mismatched, [SetupNext]_setupVars
  PROVE  Mismatched'
<1>1. CASE UNCHANGED <<slow, node, data, cfg, wiped>> /\ at' \notin {"probe", "wipe"}
  BY <1>1 DEF Mismatched
<1>2. CASE UNCHANGED setupVars
  BY <1>2 DEF setupVars, files, devnet, Mismatched
<1>3. CASE Anvil \/ InitDeploy \/ Apply \/ InspectRollup \/ SetParams \/ InspectGenesis
  <2>1. UNCHANGED <<slow, node, data, cfg, wiped>>
    BY <1>3 DEF Anvil, InitDeploy, Apply, InspectRollup, SetParams, InspectGenesis, Same, files, devnet
  <2>2. at' \notin {"probe", "wipe"}
    BY <1>3, EntryLabels DEF SetupInv, SetupTypeOK, Anvil, InitDeploy, Apply, InspectRollup, SetParams,
       InspectGenesis, Finish, Then
  <2>3. QED
    BY <1>1, <2>1, <2>2
<1>4. CASE BuildAllocs \/ BuildHeader \/ WriteConfig
  <2>1. UNCHANGED <<slow, wiped>> /\ at' \notin {"probe", "wipe"}
    BY <1>4, EntryLabels DEF BuildAllocs, BuildHeader, WriteConfig, Same, Finish, Then
  <2>2. QED
    BY <2>1 DEF Mismatched
<1>5. CASE KillNode
  BY <1>5 DEF KillNode, Then, Same, Mismatched
<1>6. CASE WipeData
  BY <1>6 DEF WipeData, Within, Then, Same, Mismatched
<1>7. CASE StartNode
  <2>1. slow' = slow /\ wiped' = wiped /\ cfg' = cfg /\ at' # "wipe"
    BY <1>7 DEF StartNode, Then, Same
  <2>2. CASE at = "start" /\ ~slow
    <3>1. node = NoNode
      BY <2>2 DEF SetupInv, Partial
    <3>2. CASE data \in {NoGen, cfg.gen}
      <4>1. node' \in Launched
        BY <1>7, <3>1, <3>2 DEF StartNode
      <4>2. node'.up
        BY <2>2, <4>1 DEF Launched
      <4>3. QED
        BY <2>1, <4>2 DEF Mismatched
    <3>3. CASE data \notin {NoGen, cfg.gen}
      <4>1. data' = data
        BY <1>7, <3>3 DEF StartNode
      <4>2. QED
        BY <2>1, <3>3, <4>1 DEF Mismatched
    <3>4. QED
      BY <3>2, <3>3
  <2>3. CASE at # "start"
    <3>1. at' = "reprobe"
      BY <1>7, <2>3 DEF StartNode, Then
    <3>2. QED
      BY <2>1, <3>1 DEF Mismatched
  <2>4. CASE slow
    BY <2>1, <2>4 DEF Mismatched
  <2>5. QED
    BY <2>2, <2>3, <2>4
<1>8. CASE Probe
  <2>1. UNCHANGED <<slow, node, data, cfg, wiped>>
    BY <1>8 DEF Probe, Same, files, devnet
  <2>2. \/ at' = "wipe" /\ at = "probe" /\ ~node.up
        \/ at' \notin {"probe", "wipe"}
    BY <1>8, EntryLabels DEF Probe, Then, Finish
  <2>3. QED
    BY <2>1, <2>2 DEF Mismatched
<1>9. CASE Align \/ StartOpNode \/ CheckBlocks \/ StartBatcher \/ CheckManifest
  <2>1. UNCHANGED <<slow, node, data, cfg, wiped>>
    BY <1>9 DEF Align, StartOpNode, CheckBlocks, StartBatcher, CheckManifest, Same, files, devnet
  <2>2. at' \notin {"probe", "wipe"}
    BY <1>9, EntryLabels DEF SetupInv, SetupTypeOK, Align, StartOpNode, CheckBlocks, StartBatcher,
       CheckManifest, Finish, Then
  <2>3. QED
    BY <1>1, <2>1, <2>2
<1>10. CASE (\E s \in 1..7, e \in Ends : Run(s, e)) \/ Abort
  <2>1. UNCHANGED <<slow, node, data, cfg, wiped>>
    BY <1>10 DEF Run, Abort, files, devnet
  <2>2. at' \notin {"probe", "wipe"}
    BY <1>10, EntryLabels DEF Run, Abort
  <2>3. QED
    BY <1>1, <2>1, <2>2
<1>11. CASE ComeUp
  <2>1. UNCHANGED <<slow, data, cfg, wiped, at>> /\ node' = [node EXCEPT !.up = TRUE]
    BY <1>11 DEF ComeUp, files
  <2>2. node'.up
    BY <2>1 DEF SetupInv, SetupTypeOK
  <2>3. QED
    BY <2>1, <2>2 DEF Mismatched
<1>12. CASE Produce
  BY <1>12 DEF Produce, files, Mismatched
<1>13. QED
  BY <1>2, <1>3, <1>4, <1>5, <1>6, <1>7, <1>8, <1>9, <1>10, <1>11, <1>12 DEF SetupNext, Step

\* Where the node is fast, setup_c2.sh removes a chain that has blocks only for another
\* genesis than its own, over any number of runs from any step.
THEOREM WipeIsMismatch == SetupSpec => []WipeMeansMismatch
<1>1. SetupInit => Mismatched
  BY DEF SetupInit, Mismatched
<1>2. SetupInv /\ Mismatched /\ [SetupNext]_setupVars => Mismatched'
  BY MismatchedStep
<1>3. Mismatched => WipeMeansMismatch
  BY DEF Mismatched, WipeMeansMismatch
<1>4. QED
  BY <1>1, <1>2, <1>3, Invariance, PTL DEF SetupSpec
===============================================================================
