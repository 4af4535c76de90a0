------------------------- MODULE WithdrawClaimProofs -------------------------
(***************************************************************************)
(* Proofs about WithdrawClaim, for every set of scripts, withdrawals and    *)
(* programs, and every delay, bond and budget.                              *)
(***************************************************************************)
EXTENDS WithdrawClaim, TLAPS

-----------------------------------------------------------------------------
(* Sequences *)

\* Replacing one element keeps a sequence a sequence of the same length.
LEMMA ExceptSeqLemma ==
  ASSUME NEW S, NEW q \in Seq(S), NEW i \in 1..Len(q), NEW e \in S
  PROVE  LET r == [q EXCEPT ![i] = e] IN
         /\ r \in Seq(S)
         /\ Len(r) = Len(q)
         /\ r[i] = e
         /\ \A j \in 1..Len(q) : j # i => r[j] = q[j]
OBVIOUS

LEMMA ElementLemma ==
  ASSUME NEW S, NEW q \in Seq(S), NEW i \in 1..Len(q)
  PROVE  q[i] \in S
OBVIOUS

\* Appending one element keeps what was there.
LEMMA AppendSeqLemma ==
  ASSUME NEW S, NEW q \in Seq(S), NEW e \in S
  PROVE  LET r == Append(q, e) IN
         /\ r \in Seq(S)
         /\ Len(r) = Len(q) + 1
         /\ r[Len(q) + 1] = e
         /\ \A j \in 1..Len(q) : r[j] = q[j]
OBVIOUS

\* Raising one entry of a ledger.
LEMMA CreditLemma ==
  ASSUME NEW S, NEW f \in [S -> Nat], NEW x \in S, NEW n \in Nat
  PROVE  [f EXCEPT ![x] = @ + n] \in [S -> Nat]
OBVIOUS

-----------------------------------------------------------------------------
(* Games: each operation keeps a game a game, with its root and its birthday. *)

SameGame(h, g) == h \in Games /\ TreeOK(h) /\ h.root = g.root /\ h.created = g.created

LEMMA NewGameType ==
  ASSUME now \in Nat, NEW s \in Scripts, NEW root \in Nat, NEW block \in Nat
  PROVE  NewGame(s, root, block) \in Games /\ TreeOK(NewGame(s, root, block))
BY BondAssumption DEF NewGame, Games, Claim, Claims, Actors, Statuses, TreeOK

LEMMA ClockType ==
  ASSUME now \in Nat, NEW g \in Games, TreeOK(g), NEW i \in 1..Len(g.claims)
  PROVE  ChallengeClock(g, i) \in Int
<1>0. g.claims \in Seq(Claims) /\ Len(g.claims) \in Nat
  BY DEF Games
<1>1. g.claims[i] \in Claims /\ g.claims[i].parent < i
  BY <1>0, ElementLemma DEF TreeOK
<1>2. g.claims[i].parent = 0 \/ g.claims[g.claims[i].parent] \in Claims
  <2> DEFINE p == g.claims[i].parent
  <2>1. p \in 0..2 /\ p < i
    BY <1>1 DEF Claims
  <2> HIDE DEF p
  <2>2. p = 0 \/ p \in 1..Len(g.claims)
    <3>1. i \in Nat /\ i <= Len(g.claims)
      BY <1>0
    <3>2. QED
      BY <1>0, <2>1, <3>1
  <2>3. p = 0 \/ g.claims[p] \in Claims
    BY <1>0, <2>2, ElementLemma
  <2>4. QED
    BY <2>3 DEF p
<1> DEFINE before == IF g.claims[i].parent = 0 THEN 0
                     ELSE g.claims[g.claims[i].parent].used
<1>3. before \in Int /\ g.claims[i].at \in Nat
  BY <1>1, <1>2 DEF Claims
<1> HIDE DEF before
<1>4. before + (now - g.claims[i].at) \in Int /\ MaxClock \in Int
  BY <1>3, DelayAssumption
<1>5. ChallengeClock(g, i) = IF before + (now - g.claims[i].at) > MaxClock
                             THEN MaxClock ELSE before + (now - g.claims[i].at)
  BY DEF ChallengeClock, before
<1>6. QED
  BY <1>4, <1>5

LEMMA AttackedType ==
  ASSUME now \in Nat, NEW g \in Games, TreeOK(g), NEW i \in 1..2, NEW who \in Actors,
         i \in 1..Len(g.claims)
  PROVE  SameGame(Attacked(g, i, who), g)
<1> DEFINE c == Claim(i, who, RequiredBond(i), ChallengeClock(g, i))
<1>0. g.claims \in Seq(Claims) /\ Len(g.claims) \in Nat
  BY DEF Games
<1>1. c \in Claims /\ c.parent = i
  BY ClockType, BondAssumption DEF Claim, Claims, RequiredBond
<1> HIDE DEF c
<1>2. /\ Append(g.claims, c) \in Seq(Claims)
      /\ Len(Append(g.claims, c)) = Len(g.claims) + 1
      /\ Append(g.claims, c)[Len(g.claims) + 1] = c
      /\ \A j \in 1..Len(g.claims) : Append(g.claims, c)[j] = g.claims[j]
  BY <1>0, <1>1, AppendSeqLemma
<1>3. Attacked(g, i, who) = [g EXCEPT !.claims = Append(g.claims, c)]
  BY DEF Attacked, c
<1>4. Attacked(g, i, who) \in Games
  BY <1>2, <1>3 DEF Games
<1>5. TreeOK(Attacked(g, i, who))
  <2> DEFINE h == Attacked(g, i, who)
  <2>1. h.claims = Append(g.claims, c)
    BY <1>3 DEF Games
  <2>2. SUFFICES ASSUME NEW j \in 1..Len(g.claims) + 1
                 PROVE  Append(g.claims, c)[j].parent < j
    BY <1>2, <2>1 DEF TreeOK
  <2>3. CASE j = Len(g.claims) + 1
    BY <1>0, <1>1, <1>2, <2>3
  <2>4. CASE j \in 1..Len(g.claims)
    BY <1>2, <2>4 DEF TreeOK
  <2>5. QED
    BY <1>0, <2>3, <2>4
<1>6. QED
  BY <1>3, <1>4, <1>5 DEF SameGame, Games

LEMMA CounterType ==
  ASSUME NEW g \in Games, NEW i \in 1..Len(g.claims)
  PROVE  Counter(g, i) \in Actors \cup {"nobody"} /\ Winner(g, i) \in Actors
<1> DEFINE winning == {j \in Children(g, i) : g.claims[j].counteredBy = "nobody"}
<1>1. g.claims \in Seq(Claims)
  BY DEF Games
<1>2. ASSUME NEW j \in 1..Len(g.claims)
      PROVE  g.claims[j].by \in Actors
  <2>1. g.claims[j] \in Claims
    BY <1>1, ElementLemma
  <2>2. QED
    BY <2>1 DEF Claims
<1>3. winning # {} => (CHOOSE j \in winning : TRUE) \in 1..Len(g.claims)
  BY DEF Children
<1>4. Counter(g, i) = IF winning = {} THEN "nobody"
                      ELSE g.claims[CHOOSE j \in winning : TRUE].by
  BY DEF Counter
<1> HIDE DEF winning
<1>5. Counter(g, i) \in Actors \cup {"nobody"}
  BY <1>2, <1>3, <1>4
<1>6. QED
  BY <1>2, <1>5 DEF Winner

LEMMA ResolvedClaimType ==
  ASSUME NEW g \in Games, TreeOK(g), NEW i \in 1..Len(g.claims)
  PROVE  SameGame(ResolvedClaim(g, i), g)
<1> DEFINE d == [g.claims[i] EXCEPT !.resolved = TRUE, !.counteredBy = Counter(g, i)]
           cs == [g.claims EXCEPT ![i] = d]
           cr == [g.credit EXCEPT ![Winner(g, i)] = @ + g.claims[i].bond]
<1>1. g.claims \in Seq(Claims) /\ g.claims[i] \in Claims /\ g.credit \in [Actors -> Nat]
  BY ElementLemma DEF Games
<1>2. d \in Claims /\ d.parent = g.claims[i].parent
  BY <1>1, CounterType DEF Claims
<1>3. cr \in [Actors -> Nat]
  <2>1. g.claims[i].bond \in Nat
    BY <1>1 DEF Claims
  <2>2. Winner(g, i) \in Actors
    BY CounterType
  <2>3. QED
    BY <1>1, <2>1, <2>2, CreditLemma
<1> HIDE DEF d
<1>4. /\ cs \in Seq(Claims)
      /\ Len(cs) = Len(g.claims)
      /\ cs[i] = d
      /\ \A j \in 1..Len(g.claims) : j # i => cs[j] = g.claims[j]
  BY <1>1, <1>2, ExceptSeqLemma
<1>5. ResolvedClaim(g, i) = [g EXCEPT !.claims = cs, !.credit = cr]
  BY DEF ResolvedClaim, d
<1> HIDE DEF cs, cr
<1>6. /\ ResolvedClaim(g, i) \in Games
      /\ ResolvedClaim(g, i).root = g.root
      /\ ResolvedClaim(g, i).created = g.created
      /\ ResolvedClaim(g, i).claims = cs
  BY <1>3, <1>4, <1>5 DEF Games
<1>7. TreeOK(ResolvedClaim(g, i))
  BY <1>2, <1>4, <1>6 DEF TreeOK
<1>8. QED
  BY <1>6, <1>7 DEF SameGame

LEMMA ResolvedGameType ==
  ASSUME now \in Nat, NEW g \in Games, TreeOK(g)
  PROVE  SameGame(ResolvedGame(g), g)
BY DEF ResolvedGame, SameGame, Games, Statuses, TreeOK

LEMMA CreditedType ==
  ASSUME now \in Nat, NEW g \in Games, TreeOK(g), NEW who \in Actors
  PROVE  SameGame(Credited(g, who), g)
BY DEF Credited, SameGame, Games, TreeOK

-----------------------------------------------------------------------------
(* The inductive invariant.  TypeOK alone is not inductive: an index into    *)
(* games must be known to be one before the game can be read, and what the   *)
(* portal records follows from what the script had read before it proved.    *)

Memory(l, n) == [bal : Nat, before : Int, out : 0..l, hdr : 0..l, gi : 0..n, k : Nat]

\* The labels at which a script works on the game it looked up.
InGame == {"prove", "prove_send", "recorded", "oracle", "attack", "rebut", "clock",
           "clock_send", "resolve_send", "check", "fin", "fin_send",
           "unlock_send", "pay", "pay_send"}

\* Memory m is good at a label when L2 has l blocks, f of them final, and the
\* factory n games: it claims a final block, and its game is one of the n.
MemoryAt(m, label, l, f, n) ==
  /\ m \in Memory(l, n)
  /\ m.out <= f
  /\ label = "index" => n > 0
  /\ label \in InGame => m.gi \in 1..n

\* A memory with one field written is a memory, and keeps the other fields.
LEMMA Remembers ==
  ASSUME NEW l, NEW n, NEW r \in Memory(l, n)
  PROVE  /\ \A v \in Nat : LET m == [r EXCEPT !.bal = v]
                           IN m \in Memory(l, n) /\ m.out = r.out /\ m.gi = r.gi
         /\ \A v \in Int : LET m == [r EXCEPT !.before = v]
                           IN m \in Memory(l, n) /\ m.out = r.out /\ m.gi = r.gi
         /\ \A v \in 0..l : LET m == [r EXCEPT !.out = v]
                            IN m \in Memory(l, n) /\ m.out = v /\ m.gi = r.gi
         /\ \A v \in 0..l : LET m == [r EXCEPT !.hdr = v]
                            IN m \in Memory(l, n) /\ m.out = r.out /\ m.gi = r.gi
         /\ \A v \in 0..n : LET m == [r EXCEPT !.gi = v]
                            IN m \in Memory(l, n) /\ m.out = r.out /\ m.gi = v
         /\ \A v \in Nat : LET m == [r EXCEPT !.k = v]
                           IN m \in Memory(l, n) /\ m.out = r.out /\ m.gi = r.gi
<1>1. ASSUME NEW v \in Nat
      PROVE  LET m == [r EXCEPT !.bal = v]
             IN m \in Memory(l, n) /\ m.out = r.out /\ m.gi = r.gi
  BY DEF Memory
<1>2. ASSUME NEW v \in Int
      PROVE  LET m == [r EXCEPT !.before = v]
             IN m \in Memory(l, n) /\ m.out = r.out /\ m.gi = r.gi
  BY DEF Memory
<1>3. ASSUME NEW v \in 0..l
      PROVE  LET m == [r EXCEPT !.out = v]
             IN m \in Memory(l, n) /\ m.out = v /\ m.gi = r.gi
  BY DEF Memory
<1>4. ASSUME NEW v \in 0..l
      PROVE  LET m == [r EXCEPT !.hdr = v]
             IN m \in Memory(l, n) /\ m.out = r.out /\ m.gi = r.gi
  BY DEF Memory
<1>5. ASSUME NEW v \in 0..n
      PROVE  LET m == [r EXCEPT !.gi = v]
             IN m \in Memory(l, n) /\ m.out = r.out /\ m.gi = v
  BY DEF Memory
<1>6. ASSUME NEW v \in Nat
      PROVE  LET m == [r EXCEPT !.k = v]
             IN m \in Memory(l, n) /\ m.out = r.out /\ m.gi = r.gi
  BY DEF Memory
<1>7. QED
  BY <1>1, <1>2, <1>3, <1>4, <1>5, <1>6

ChainsOK ==
  /\ latest \in Nat /\ fin \in 0..latest
  /\ wdBlock \in [Withdrawals -> 0..latest]
  /\ funds \in Nat /\ pending \in Nat

ProgramOK ==
  /\ prog \in Programs
  /\ ph \in [Scripts -> Nat]
  /\ \A s \in Scripts : ph[s] \in 1..Len(prog[s])

ControlOK ==
  /\ pc \in [Scripts -> Labels]
  /\ since \in [Scripts -> Nat]
  /\ why \in [Scripts -> Reasons]

MemoryOK ==
  /\ mem \in [Scripts -> Memory(latest, Len(games))]
  /\ \A s \in Scripts : MemoryAt(mem[s], pc[s], latest, fin, Len(games))

ScriptInv == ProgramOK /\ ControlOK /\ MemoryOK
BridgeInv == BridgeTypeOK /\ ProvenIsFinal
IInv == BridgeInv /\ ChainsOK /\ ScriptInv

\* Chains and the factory only grow.
Grows ==
  /\ latest \in Nat /\ latest' \in Nat /\ latest <= latest'
  /\ fin \in Nat /\ fin' \in Nat /\ fin <= fin'
  /\ Len(games) \in Nat /\ Len(games') \in Nat /\ Len(games) <= Len(games')

-----------------------------------------------------------------------------
(* The script's half of the invariant under each way a step can end. *)

\* What a phase is made of.
LEMMA PhaseType ==
  ASSUME ProgramOK, NEW s \in Scripts, NEW i \in 1..Len(prog[s])
  PROVE  prog[s][i].kind \in Kinds /\ prog[s][i].wd \in Withdrawals
<1>1. prog[s] \in Seq([kind : Kinds, wd : Withdrawals])
  BY ProgramAssumption DEF ProgramOK
<1>2. prog[s][i] \in [kind : Kinds, wd : Withdrawals]
  BY <1>1, ElementLemma
<1>3. QED
  BY <1>2

LEMMA WdType ==
  ASSUME ProgramOK, NEW s \in Scripts
  PROVE  Wd(s) \in Withdrawals /\ Kind(s) \in Kinds
BY PhaseType DEF ProgramOK, Wd, Kind, Phase

\* What was good memory stays so when the chains and the factory grow.
LEMMA MemoryGrows ==
  ASSUME ScriptInv, Grows, NEW t \in Scripts
  PROVE  MemoryAt(mem[t], pc[t], latest', fin', Len(games'))
BY DEF ScriptInv, MemoryOK, MemoryAt, Memory, Grows

\* Script s goes to a label, with memory m, which is good there.
LEMMA MemoryStep ==
  ASSUME ScriptInv, Grows, NEW s \in Scripts, NEW label \in Labels, NEW m,
         MemoryAt(m, label, latest', fin', Len(games')),
         pc' = [pc EXCEPT ![s] = label],
         mem' = [mem EXCEPT ![s] = m]
  PROVE  MemoryOK'
<1>1. ASSUME NEW t \in Scripts
      PROVE  MemoryAt(mem'[t], pc'[t], latest', fin', Len(games'))
  <2>1. CASE t = s
    BY <2>1 DEF ScriptInv, ControlOK, MemoryOK
  <2>2. CASE t # s
    <3>1. mem'[t] = mem[t] /\ pc'[t] = pc[t]
      BY <2>2 DEF ScriptInv, ControlOK, MemoryOK
    <3>2. QED
      BY <3>1, MemoryGrows
  <2>3. QED
    BY <2>1, <2>2
<1>2. mem' \in [Scripts -> Memory(latest', Len(games'))]
  <2>1. \A t \in Scripts : mem'[t] \in Memory(latest', Len(games'))
    BY <1>1 DEF MemoryAt
  <2>2. mem' = [t \in Scripts |-> mem'[t]]
    BY DEF ScriptInv, MemoryOK
  <2>3. QED
    BY <2>1, <2>2
<1>3. QED
  BY <1>1, <1>2 DEF MemoryOK

\* Advance(s, label): with a new memory, or with the old one.
LEMMA AdvanceKeeps ==
  ASSUME ScriptInv, Grows, now \in Nat, NEW s \in Scripts, NEW label \in Labels, NEW m,
         MemoryAt(m, label, latest', fin', Len(games')),
         Advance(s, label), mem' = [mem EXCEPT ![s] = m],
         UNCHANGED <<prog, ph>>
  PROVE  ScriptInv'
<1>1. MemoryOK'
  BY MemoryStep DEF Advance
<1>2. ProgramOK'
  BY DEF ScriptInv, ProgramOK
<1>3. ControlOK'
  BY DEF ScriptInv, ControlOK, Advance
<1>4. QED
  BY <1>1, <1>2, <1>3 DEF ScriptInv

LEMMA AdvanceStays ==
  ASSUME ScriptInv, Grows, now \in Nat, NEW s \in Scripts, NEW label \in Labels,
         label = "index" => Len(games') > 0,
         label \in InGame => mem[s].gi \in 1..Len(games),
         Advance(s, label), UNCHANGED <<prog, ph, mem>>
  PROVE  ScriptInv'
<1>1. MemoryAt(mem[s], label, latest', fin', Len(games'))
  BY MemoryGrows DEF MemoryAt, Grows
<1>2. mem' = [mem EXCEPT ![s] = mem[s]]
  BY DEF ScriptInv, MemoryOK
<1>3. QED
  BY <1>1, <1>2, AdvanceKeeps

LEMMA ExitKeeps ==
  ASSUME ScriptInv, Grows, NEW s \in Scripts, NEW reason \in Reasons,
         Exit(s, reason), UNCHANGED <<prog, ph>>
  PROVE  ScriptInv'
<1> DEFINE m == [Blank EXCEPT !.bal = mem[s].bal]
<1>0. mem[s].bal \in Nat
  BY DEF ScriptInv, MemoryOK, MemoryAt, Memory
<1>1. MemoryAt(m, "exit", latest', fin', Len(games'))
  BY <1>0 DEF MemoryAt, Memory, Blank, InGame, Grows
<1>2. MemoryOK'
  BY <1>1, MemoryStep DEF Exit, Labels
<1>3. ProgramOK'
  BY DEF ScriptInv, ProgramOK
<1>4. ControlOK'
  BY DEF ScriptInv, ControlOK, Exit, Labels
<1>5. QED
  BY <1>2, <1>3, <1>4 DEF ScriptInv

LEMMA EndPhaseKeeps ==
  ASSUME ScriptInv, Grows, now \in Nat, NEW s \in Scripts,
         EndPhase(s), UNCHANGED prog
  PROVE  ScriptInv'
<1>1. mem' = [mem EXCEPT ![s] = Blank]
  BY DEF EndPhase
<1>2. ph \in [Scripts -> Nat] /\ ph[s] \in 1..Len(prog[s])
  BY DEF ScriptInv, ProgramOK
<1>3. CASE ph[s] = Len(prog[s])
  <2>1. Advance(s, "done") /\ UNCHANGED ph
    BY <1>3 DEF EndPhase
  <2>2. MemoryAt(Blank, "done", latest', fin', Len(games'))
    BY DEF MemoryAt, Memory, Blank, InGame, Grows
  <2>3. QED
    BY <1>1, <2>1, <2>2, AdvanceKeeps DEF Labels
<1>4. CASE ph[s] # Len(prog[s])
  <2> DEFINE label == First(prog[s][ph[s] + 1].kind)
  <2>1. Advance(s, label) /\ ph' = [ph EXCEPT ![s] = @ + 1]
    BY <1>4 DEF EndPhase
  <2>2. Len(prog[s]) \in Nat
    BY ProgramAssumption DEF ScriptInv, ProgramOK
  <2>3. ph[s] + 1 \in 1..Len(prog[s])
    BY <1>2, <1>4, <2>2
  <2>4. prog[s][ph[s] + 1].kind \in Kinds
    BY <2>3, PhaseType DEF ScriptInv
  <2>5. label \in {"fund", "initiate", "output"}
    BY <2>4 DEF First, Kinds
  <2> HIDE DEF label
  <2>6. MemoryAt(Blank, label, latest', fin', Len(games'))
    BY <2>5 DEF MemoryAt, Memory, Blank, InGame, Grows
  <2>7. label \in Labels
    BY <2>5 DEF Labels, Waits
  <2>8. MemoryOK'
    BY <1>1, <2>1, <2>6, <2>7, MemoryStep DEF Advance
  <2>9. ProgramOK'
    <3>1. prog' = prog /\ prog \in Programs /\ ph \in [Scripts -> Nat]
      BY DEF ScriptInv, ProgramOK
    <3>2. ph' \in [Scripts -> Nat]
      BY <1>2, <2>1
    <3>3. ph'[s] = ph[s] + 1 /\ \A t \in Scripts \ {s} : ph'[t] = ph[t]
      BY <1>2, <2>1
    <3>4. \A t \in Scripts : ph[t] \in 1..Len(prog[t])
      BY DEF ScriptInv, ProgramOK
    <3>5. \A t \in Scripts : ph'[t] \in 1..Len(prog[t])
      BY <2>3, <3>3, <3>4
    <3>6. QED
      BY <3>1, <3>2, <3>5 DEF ProgramOK
  <2>10. ControlOK'
    BY <2>1, <2>7 DEF ScriptInv, ControlOK, Advance
  <2>11. QED
    BY <2>8, <2>9, <2>10 DEF ScriptInv
<1>5. QED
  BY <1>3, <1>4

LEMMA ScriptsIdle ==
  ASSUME ScriptInv, Grows, UNCHANGED scriptVars
  PROVE  ScriptInv'
<1>1. \A t \in Scripts : MemoryAt(mem'[t], pc'[t], latest', fin', Len(games'))
  BY MemoryGrows DEF scriptVars
<1>2. mem' \in [Scripts -> Memory(latest', Len(games'))]
  <2>1. \A t \in Scripts : mem'[t] \in Memory(latest', Len(games'))
    BY <1>1 DEF MemoryAt
  <2>2. mem' = [t \in Scripts |-> mem'[t]]
    BY DEF ScriptInv, MemoryOK, scriptVars
  <2>3. QED
    BY <2>1, <2>2
<1>3. MemoryOK'
  BY <1>1, <1>2 DEF MemoryOK
<1>4. ProgramOK' /\ ControlOK'
  BY DEF ScriptInv, ProgramOK, ControlOK, scriptVars
<1>5. QED
  BY <1>3, <1>4 DEF ScriptInv

-----------------------------------------------------------------------------
(* The bridge's half. *)

\* L2 grows by blocks that hold each withdrawal where it was.
KeepsBlocks == \A w \in Withdrawals : wdBlock[w] # 0 => wdBlock'[w] = wdBlock[w]

\* The portal's record is good as long as games keep root and birthday.
LEMMA RecordKeeps ==
  ASSUME BridgeInv, ChainsOK, KeepsBlocks, NEW w \in Withdrawals,
         fin' \in Nat, fin <= fin', Len(games') \in Nat, Len(games) <= Len(games'),
         \A i \in 1..Len(games) : /\ games'[i].root = games[i].root
                                  /\ games'[i].created = games[i].created,
         proven'[w] = proven[w], proven[w].game # 0
  PROVE  GoodRecord(w)'
<1> DEFINE i == proven[w].game
<1>1. /\ i \in 1..Len(games)
      /\ games[i].created < proven[w].at
      /\ games[i].root \in 1..fin
      /\ w \in Storage(games[i].root)
  BY DEF BridgeInv, ProvenIsFinal, GoodRecord
<1>2. fin \in Nat /\ Len(games) \in Nat
  BY DEF ChainsOK, BridgeInv, BridgeTypeOK
<1>3. games'[i].root = games[i].root /\ games'[i].created = games[i].created
  BY <1>1
<1>4. i \in 1..Len(games') /\ games'[i].root \in 1..fin'
  BY <1>1, <1>2, <1>3
<1> HIDE DEF i
<1>5. wdBlock[w] \in 1..games[i].root
  BY <1>1 DEF Storage
<1>6. wdBlock'[w] = wdBlock[w]
  BY <1>1, <1>2, <1>5 DEF KeepsBlocks
<1>7. wdBlock'[w] \in 1..games'[i].root
  BY <1>3, <1>5, <1>6
<1>8. QED
  BY <1>1, <1>3, <1>4, <1>7 DEF GoodRecord, Storage, i

LEMMA BridgeIdle ==
  ASSUME BridgeInv, ChainsOK, KeepsBlocks, fin' \in Nat, fin <= fin',
         UNCHANGED <<games, proven>>, BridgeTypeOK'
  PROVE  BridgeInv'
<1>1. Len(games) \in Nat
  BY DEF BridgeInv, BridgeTypeOK
<1>2. ProvenIsFinal'
  BY <1>1, RecordKeeps DEF ProvenIsFinal
<1>3. QED
  BY <1>2 DEF BridgeInv

\* Script s plays a move in game i.
LEMMA BridgeMove ==
  ASSUME BridgeInv, ChainsOK, UNCHANGED <<now, proven, finalized, paid, portalBal, l2Vars>>,
         anchor' \in Nat, dev1' \in Int, NEW i \in 1..Len(games), NEW h, SameGame(h, games[i]),
         games' = [games EXCEPT ![i] = h]
  PROVE  BridgeInv' /\ Len(games') = Len(games)
<1>1. games \in Seq(Games) /\ Len(games) \in Nat /\ h \in Games
  BY DEF BridgeInv, BridgeTypeOK, SameGame
<1>2. /\ games' \in Seq(Games)
      /\ Len(games') = Len(games)
      /\ games'[i] = h
      /\ \A j \in 1..Len(games) : j # i => games'[j] = games[j]
  BY <1>1, ExceptSeqLemma
<1>3. BridgeTypeOK'
  <2>1. \A j \in 1..Len(games') : TreeOK(games'[j])
    BY <1>2 DEF BridgeInv, BridgeTypeOK, SameGame
  <2>2. \A j \in 1..Len(games') : TreeOK(games[j])'
    BY <2>1 DEF TreeOK
  <2>3. QED
    BY <1>2, <2>2 DEF BridgeInv, BridgeTypeOK
<1>4. \A j \in 1..Len(games) : /\ games'[j].root = games[j].root
                               /\ games'[j].created = games[j].created
  BY <1>2 DEF SameGame
<1>5. fin' \in Nat /\ fin <= fin' /\ KeepsBlocks
  BY DEF ChainsOK, l2Vars, KeepsBlocks
<1>6. ProvenIsFinal'
  BY <1>1, <1>2, <1>4, <1>5, RecordKeeps DEF ProvenIsFinal
<1>7. QED
  BY <1>2, <1>3, <1>6 DEF BridgeInv

-----------------------------------------------------------------------------
(* Every step. *)

\* What a step inherits when it leaves both chains' contracts alone.
LEMMA QuietStep ==
  ASSUME IInv, UNCHANGED <<bridgeVars, l2Vars>>
  PROVE  BridgeInv' /\ ChainsOK' /\ Grows
<1>1. Grows
  BY DEF IInv, BridgeInv, BridgeTypeOK, ChainsOK, Grows, bridgeVars, l2Vars
<1>2. BridgeTypeOK'
  BY DEF IInv, BridgeInv, BridgeTypeOK, TreeOK, bridgeVars
<1>3. ChainsOK'
  BY DEF IInv, ChainsOK, l2Vars
<1>4. BridgeInv'
  BY <1>2, <1>1, BridgeIdle DEF IInv, Grows, KeepsBlocks, bridgeVars, l2Vars
<1>5. QED
  BY <1>1, <1>3, <1>4

\* A move in the script's own game leaves the script's half to its Advance.
LEMMA MoveStep ==
  ASSUME IInv, NEW s \in Scripts, pc[s] \in InGame, NEW h, SameGame(h, Game(s)),
         UpdateGame(s, h), anchor' \in Nat, dev1' \in Int,
         UNCHANGED <<now, proven, finalized, paid, portalBal, l2Vars>>
  PROVE  BridgeInv' /\ ChainsOK' /\ Grows
<1>1. mem[s].gi \in 1..Len(games)
  BY DEF IInv, ScriptInv, MemoryOK, MemoryAt
<1>2. BridgeInv' /\ Len(games') = Len(games)
  BY <1>1, BridgeMove DEF IInv, UpdateGame, Game
<1>3. ChainsOK'
  BY DEF IInv, ChainsOK, l2Vars
<1>4. Grows
  BY <1>2 DEF IInv, BridgeInv, BridgeTypeOK, ChainsOK, Grows, l2Vars
<1>5. QED
  BY <1>2, <1>3, <1>4

\* The game a script reads where it may read it.
LEMMA GameType ==
  ASSUME IInv, NEW s \in Scripts, pc[s] \in InGame
  PROVE  Game(s) \in Games /\ TreeOK(Game(s)) /\ mem[s].gi \in 1..Len(games)
<1>1. mem[s].gi \in 1..Len(games)
  BY DEF IInv, ScriptInv, MemoryOK, MemoryAt
<1>2. QED
  BY <1>1, ElementLemma DEF IInv, BridgeInv, BridgeTypeOK, Game

\* The steps that read, poll, give up or end: the contracts stay as they are.
LEMMA QuietSteps ==
  ASSUME IInv, NEW s \in Scripts,
         \/ ReadL2Balance(s) \/ ReadL1Balance(s) \/ NoFunds(s)
         \/ ReadOutput(s) \/ NotFinalized(s) \/ ReadHeader(s) \/ ReadProof(s)
         \/ Poll(s) \/ TimedOut(s) \/ Reverted(s) \/ ReadIndex(s) \/ Recorded(s)
         \/ Oracle(s) \/ Check(s) \/ CheckDelta(s)
  PROVE  IInv'
<1>1. UNCHANGED <<bridgeVars, l2Vars, prog>>
  BY DEF ReadL2Balance, ReadL1Balance, NoFunds, CheckDelta, ReadOutput, NotFinalized, ReadHeader, ReadProof, Poll, TimedOut, Reverted,
         ReadIndex, Recorded, Oracle, Check
<1>2. BridgeInv' /\ ChainsOK' /\ Grows
  BY <1>1, QuietStep
<1>3. ScriptInv /\ now \in Nat /\ UNCHANGED <<prog, latest, fin, games>>
  BY <1>1 DEF IInv, BridgeInv, BridgeTypeOK, bridgeVars, l2Vars
<1>4. /\ mem[s] \in Memory(latest, Len(games))
      /\ MemoryAt(mem[s], pc[s], latest, fin, Len(games))
      /\ latest \in Nat /\ fin \in 0..latest /\ Len(games) \in Nat
  BY <1>2, <1>3 DEF IInv, ScriptInv, MemoryOK, ChainsOK, Grows
<1>5. ASSUME ReadOutput(s) PROVE ScriptInv'
  <2> DEFINE m == [mem[s] EXCEPT !.out = fin]
  <2>1. mem' = [mem EXCEPT ![s] = m]
    BY <1>5 DEF ReadOutput, OutputHead
  <2>2. MemoryAt(m, "header", latest, fin, Len(games))
    <3>1. m \in Memory(latest, Len(games)) /\ m.out = fin
      <4>1. fin \in 0..latest
        BY <1>4
      <4>2. QED
        BY <1>4, <4>1, Remembers
    <3> HIDE DEF m
    <3>2. QED
      BY <1>4, <3>1 DEF MemoryAt, InGame
  <2>3. Advance(s, "header") /\ UNCHANGED ph
    BY <1>5 DEF ReadOutput
  <2> HIDE DEF m
  <2>4. QED
    BY <1>2, <1>3, <2>1, <2>2, <2>3, AdvanceKeeps DEF Labels
<1>6. ASSUME NoFunds(s) \/ NotFinalized(s) \/ TimedOut(s) \/ Reverted(s) PROVE ScriptInv'
  BY <1>2, <1>3, <1>6, ExitKeeps DEF NoFunds, NotFinalized, TimedOut, Reverted, Reasons
<1>7. ASSUME ReadHeader(s) PROVE ScriptInv'
  <2> DEFINE m == [mem[s] EXCEPT !.hdr = latest]
  <2>1. mem' = [mem EXCEPT ![s] = m]
    BY <1>7 DEF ReadHeader
  <2>2. MemoryAt(m, "proof", latest, fin, Len(games))
    <3>1. m \in Memory(latest, Len(games)) /\ m.out = mem[s].out
      BY <1>4, Remembers
    <3> HIDE DEF m
    <3>2. QED
      BY <1>4, <3>1 DEF MemoryAt, InGame
  <2>3. Advance(s, "proof") /\ UNCHANGED ph
    BY <1>7 DEF ReadHeader
  <2> HIDE DEF m
  <2>4. QED
    BY <1>2, <1>3, <2>1, <2>2, <2>3, AdvanceKeeps DEF Labels
<1>8. ASSUME ReadProof(s) PROVE ScriptInv'
  <2>1. CASE Exit(s, "not_anchored") \/ Exit(s, "storage_root")
    BY <1>2, <1>3, <1>8, <2>1, ExitKeeps DEF ReadProof, Reasons
  <2>2. CASE Advance(s, "create") /\ UNCHANGED mem
    BY <1>2, <1>3, <1>8, <2>2, AdvanceStays DEF ReadProof, Labels, Sends, InGame
  <2>3. QED
    BY <1>8, <2>1, <2>2 DEF ReadProof
<1>9. ASSUME Poll(s) PROVE ScriptInv'
  <2>1. pc[s] \in Gated /\ Advance(s, Then[pc[s]]) /\ UNCHANGED <<ph, mem>>
    BY <1>9 DEF Poll
  <2>2. /\ Then[pc[s]] \in Sends \cup {"before"} /\ Then[pc[s]] # "index"
        /\ Then[pc[s]] \in InGame => pc[s] \in InGame
    BY <2>1 DEF Gated, InGame, Then, Sends
  <2>3. Then[pc[s]] \in InGame => mem[s].gi \in 1..Len(games)
    BY <1>4, <2>2 DEF MemoryAt
  <2>4. QED
    BY <1>2, <1>3, <2>1, <2>2, <2>3, AdvanceStays DEF Labels
<1>10. ASSUME ReadIndex(s), ~Exit(s, "lifecycle") PROVE ScriptInv'
  <2> DEFINE m == [mem[s] EXCEPT !.gi = Len(games)]
             label == IF Kind(s) = "dishonest" THEN "oracle" ELSE "prove"
  <2>1. mem' = [mem EXCEPT ![s] = m]
    BY <1>10 DEF ReadIndex, LastIndex
  <2>2. Advance(s, label) /\ pc[s] = "index" /\ UNCHANGED ph
    BY <1>10 DEF ReadIndex
  <2>3. label \in {"oracle", "prove"} /\ Len(games) > 0
    BY <1>4, <2>2 DEF MemoryAt
  <2> HIDE DEF label
  <2>4. MemoryAt(m, label, latest, fin, Len(games))
    <3>1. /\ m \in Memory(latest, Len(games))
          /\ m.out = mem[s].out /\ m.gi = Len(games)
      <4>1. mem[s] \in Memory(latest, Len(games)) /\ Len(games) \in 0..Len(games)
        BY <1>4
      <4>2. QED
        BY <4>1 DEF Memory
    <3> HIDE DEF m
    <3>2. QED
      BY <1>4, <2>3, <3>1 DEF MemoryAt
  <2>5. label \in Labels
    BY <2>3 DEF Labels, Waits
  <2> HIDE DEF m
  <2>6. QED
    BY <1>2, <1>3, <2>1, <2>2, <2>4, <2>5, AdvanceKeeps
<1>11. ASSUME Recorded(s) \/ Oracle(s) PROVE ScriptInv'
  <2>1. pc[s] \in InGame
    BY <1>11 DEF Recorded, Oracle, InGame
  <2>2. mem[s].gi \in 1..Len(games)
    BY <1>4, <2>1 DEF MemoryAt
  <2>3. CASE \E r \in Reasons : Exit(s, r)
    BY <1>2, <1>3, <1>11, <2>3, ExitKeeps DEF Recorded, Oracle
  <2>4. CASE (Advance(s, "clock") \/ Advance(s, "attack")) /\ UNCHANGED mem
    BY <1>2, <1>3, <1>11, <2>2, <2>4, AdvanceStays
       DEF Recorded, Oracle, Labels, Waits, Sends
  <2>5. QED
    BY <1>11, <2>3, <2>4 DEF Recorded, Oracle, Reasons
<1>12. ASSUME Check(s) PROVE ScriptInv'
  <2>1. pc[s] = "check"
    BY <1>12 DEF Check
  <2>2. mem[s].gi \in 1..Len(games)
    BY <1>4, <2>1 DEF MemoryAt, InGame
  <2>3. CASE Exit(s, "ledger") /\ UNCHANGED ph
    BY <1>2, <1>3, <2>3, ExitKeeps DEF Reasons
  <2>4. CASE EndPhase(s)
    BY <1>2, <1>3, <2>4, EndPhaseKeeps
  <2>5. CASE Advance(s, "fin") /\ UNCHANGED <<ph, mem>>
    BY <1>2, <1>3, <2>2, <2>5, AdvanceStays DEF Labels, Waits
  <2>6. QED
    BY <1>12, <2>3, <2>4, <2>5 DEF Check
<1>13. ASSUME ReadIndex(s), Exit(s, "lifecycle") PROVE ScriptInv'
  BY <1>2, <1>3, <1>13, ExitKeeps DEF ReadIndex, Reasons
<1>14. ASSUME ReadL2Balance(s) PROVE ScriptInv'
  <2> DEFINE m == [mem[s] EXCEPT !.bal = funds]
             label == IF funds >= Ether + Headroom THEN "before" ELSE "headroom"
  <2>1. mem' = [mem EXCEPT ![s] = m] /\ Advance(s, label) /\ UNCHANGED ph
    BY <1>14 DEF ReadL2Balance
  <2>2. label \in {"before", "headroom"} /\ funds \in Nat
    BY DEF IInv, ChainsOK
  <2> HIDE DEF label
  <2>3. MemoryAt(m, label, latest, fin, Len(games)) /\ label \in Labels
    <3>1. m \in Memory(latest, Len(games)) /\ m.out = mem[s].out
      BY <1>4, <2>2, Remembers
    <3> HIDE DEF m
    <3>2. QED
      BY <1>4, <2>2, <3>1 DEF MemoryAt, InGame, Labels
  <2> HIDE DEF m
  <2>4. QED
    BY <1>2, <1>3, <2>1, <2>3, AdvanceKeeps
<1>15. ASSUME ReadL1Balance(s) PROVE ScriptInv'
  <2> DEFINE m == [mem[s] EXCEPT !.before = dev1]
  <2>1. mem' = [mem EXCEPT ![s] = m] /\ Advance(s, "initiate") /\ UNCHANGED ph
    BY <1>15 DEF ReadL1Balance
  <2>2. dev1 \in Int
    BY DEF IInv, BridgeInv, BridgeTypeOK
  <2>3. MemoryAt(m, "initiate", latest, fin, Len(games))
    <3>1. m \in Memory(latest, Len(games)) /\ m.out = mem[s].out
      BY <1>4, <2>2, Remembers
    <3> HIDE DEF m
    <3>2. QED
      BY <1>4, <3>1 DEF MemoryAt, InGame
  <2> HIDE DEF m
  <2>4. QED
    BY <1>2, <1>3, <2>1, <2>3, AdvanceKeeps DEF Labels
<1>16. ASSUME CheckDelta(s) PROVE ScriptInv'
  <2>1. CASE Exit(s, "delta") /\ UNCHANGED ph
    BY <1>2, <1>3, <2>1, ExitKeeps DEF Reasons
  <2>2. CASE Advance(s, "sendoff") /\ UNCHANGED <<ph, mem>>
    BY <1>2, <1>3, <2>2, AdvanceStays DEF Labels, InGame
  <2>3. QED
    BY <1>16, <2>1, <2>2 DEF CheckDelta
<1>17. QED
  BY <1>2, <1>5, <1>6, <1>7, <1>8, <1>9, <1>10, <1>11, <1>12, <1>13, <1>14, <1>15, <1>16 DEF IInv

\* The transactions inside a game: attack, rebut, resolveClaim, resolve, and the
\* two claimCredit calls.
LEMMA GameSteps ==
  ASSUME IInv, NEW s \in Scripts,
         \/ Attack(s) \/ Rebut(s) \/ ResolveClaim(s) \/ Resolve(s)
         \/ Unlock(s) \/ RecoverBond(s)
  PROVE  IInv'
<1>1. pc[s] \in InGame
  BY DEF Attack, Rebut, ResolveClaim, Resolve, Unlock, RecoverBond, Sent, InGame
<1> DEFINE g == Game(s)
<1>2. g \in Games /\ TreeOK(g) /\ mem[s].gi \in 1..Len(games)
  BY <1>1, GameType
<1>3. now \in Nat /\ anchor \in Nat /\ g.block \in Nat /\ ScriptInv
  BY <1>2 DEF IInv, BridgeInv, BridgeTypeOK, Games
<1>4. Gate(s) /\ UNCHANGED <<now, proven, finalized, paid, portalBal, l2Vars, prog>>
  BY DEF Attack, Rebut, ResolveClaim, Resolve, Unlock, RecoverBond, Sent
<1>5. /\ AnchorAfter(g) \in Nat /\ dev1 \in Int
      /\ dev1 - RebutBond \in Int /\ dev1 + PaidOut(g, "proposer") \in Int
  <2>1. g.credit["proposer"] \in Nat
    BY <1>2 DEF Games, Actors
  <2>2. dev1 \in Int /\ RebutBond \in Nat
    BY BondAssumption DEF IInv, BridgeInv, BridgeTypeOK
  <2> HIDE DEF g
  <2>3. PaidOut(g, "proposer") \in Nat
    BY <2>1 DEF PaidOut
  <2>4. QED
    BY <1>3, <2>2, <2>3 DEF AnchorAfter
<1>6. /\ mem[s] \in Memory(latest, Len(games))
      /\ MemoryAt(mem[s], pc[s], latest, fin, Len(games))
      /\ latest \in Nat /\ fin \in 0..latest /\ Len(games) \in Nat
  BY DEF IInv, ScriptInv, MemoryOK, ChainsOK, BridgeInv, BridgeTypeOK
<1>7. Len(games') = Len(games) /\ latest' = latest /\ fin' = fin
  <2>1. \E h : games' = [games EXCEPT ![mem[s].gi] = h]
    BY DEF Attack, Rebut, ResolveClaim, Resolve, Unlock, RecoverBond, UpdateGame
  <2>2. QED
    BY <1>4, <2>1 DEF IInv, BridgeInv, BridgeTypeOK, l2Vars
<1>8. ASSUME NEW h, SameGame(h, g), UpdateGame(s, h), anchor' \in Nat, dev1' \in Int
      PROVE  BridgeInv' /\ ChainsOK' /\ Grows
  BY <1>1, <1>4, <1>8, MoveStep
<1>9. ASSUME Attack(s) \/ Rebut(s) PROVE IInv'
  <2>1. CASE Attack(s)
    <3>1. 1 \in 1..Len(g.claims)
      BY <1>4, <2>1 DEF Attack, Sent, Gate, CanAttack
    <3>2. SameGame(Attacked(g, 1, "challenger"), g)
      BY <1>2, <1>3, <3>1, AttackedType DEF Actors
    <3>3. BridgeInv' /\ ChainsOK' /\ Grows
      BY <1>3, <1>5, <1>8, <2>1, <3>2 DEF Attack
    <3>4. ScriptInv'
      BY <1>2, <1>3, <2>1, <3>3, AdvanceStays DEF Attack, Labels, Waits, Sends
    <3>5. QED
      BY <3>3, <3>4 DEF IInv
  <2>2. CASE Rebut(s)
    <3>1. 2 \in 1..Len(g.claims)
      BY <1>4, <2>2 DEF Rebut, Sent, Gate, CanAttack
    <3>2. SameGame(Attacked(g, 2, "proposer"), g)
      BY <1>2, <1>3, <3>1, AttackedType DEF Actors
    <3>3. BridgeInv' /\ ChainsOK' /\ Grows
      BY <1>3, <1>5, <1>8, <2>2, <3>2 DEF Rebut
    <3>4. ScriptInv'
      BY <1>2, <1>3, <2>2, <3>3, AdvanceStays DEF Rebut, Labels, Waits
    <3>5. QED
      BY <3>3, <3>4 DEF IInv
  <2>3. QED
    BY <1>9, <2>1, <2>2
<1>10. ASSUME ResolveClaim(s) PROVE IInv'
  <2> DEFINE i == ResolveNext(s)
             m == [mem[s] EXCEPT !.k = @ + 1]
             label == IF mem[s].k + 1 = Len(Order(Kind(s))) THEN "resolve_send"
                                                            ELSE "clock"
  <2>1. i \in 1..Len(g.claims)
    BY <1>4, <1>10 DEF ResolveClaim, Sent, Gate, CanResolveClaim
  <2>2. SameGame(ResolvedClaim(g, i), g)
    BY <1>2, <2>1, ResolvedClaimType
  <2>3. BridgeInv' /\ ChainsOK' /\ Grows
    BY <1>3, <1>5, <1>8, <1>10, <2>2 DEF ResolveClaim
  <2>4. mem' = [mem EXCEPT ![s] = m] /\ Advance(s, label) /\ UNCHANGED <<prog, ph>>
    BY <1>10 DEF ResolveClaim
  <2>5. label \in Labels /\ label # "index"
    BY DEF Labels, Waits, Sends
  <2> HIDE DEF label
  <2>6. MemoryAt(m, label, latest', fin', Len(games'))
    <3>1. /\ m \in Memory(latest, Len(games))
          /\ m.out = mem[s].out /\ m.gi = mem[s].gi
      <4>1. mem[s] \in Memory(latest, Len(games)) /\ mem[s].k + 1 \in Nat
        BY <1>6 DEF Memory
      <4>2. QED
        BY <4>1, Remembers
    <3> HIDE DEF m
    <3>2. QED
      BY <1>2, <1>6, <1>7, <2>5, <3>1 DEF MemoryAt
  <2> HIDE DEF m
  <2>7. ScriptInv'
    BY <1>3, <2>3, <2>4, <2>5, <2>6, AdvanceKeeps
  <2>8. QED
    BY <2>3, <2>7 DEF IInv
<1>11. ASSUME Resolve(s) PROVE IInv'
  <2>1. SameGame(ResolvedGame(g), g)
    BY <1>2, <1>3, ResolvedGameType
  <2>2. BridgeInv' /\ ChainsOK' /\ Grows
    BY <1>3, <1>5, <1>8, <1>11, <2>1 DEF Resolve
  <2>3. ScriptInv'
    BY <1>2, <1>3, <1>11, <2>2, AdvanceStays DEF Resolve, Labels
  <2>4. QED
    BY <2>2, <2>3 DEF IInv
<1>12. ASSUME Unlock(s) PROVE IInv'
  <2>1. SameGame(Credited(g, "proposer"), g)
    BY <1>2, <1>3, CreditedType DEF Actors
  <2>2. BridgeInv' /\ ChainsOK' /\ Grows
    BY <1>5, <1>8, <1>12, <2>1 DEF Unlock
  <2>3. ScriptInv'
    BY <1>2, <1>3, <1>12, <2>2, AdvanceStays DEF Unlock, Labels, Waits
  <2>4. QED
    BY <2>2, <2>3 DEF IInv
<1>13. ASSUME RecoverBond(s) PROVE IInv'
  <2>1. SameGame(Credited(g, "proposer"), g)
    BY <1>2, <1>3, CreditedType DEF Actors
  <2>2. BridgeInv' /\ ChainsOK' /\ Grows
    BY <1>5, <1>8, <1>13, <2>1 DEF RecoverBond
  <2>3. ScriptInv'
    BY <1>2, <1>3, <1>13, <2>2, AdvanceStays DEF RecoverBond, Labels, InGame
  <2>4. QED
    BY <2>2, <2>3 DEF IInv
<1>14. QED
  BY <1>9, <1>10, <1>11, <1>12, <1>13

\* The transactions outside a game: the top-up and the headroom deposit, the L2
\* withdrawal, create, prove and finalize, and the last one on L2.
LEMMA LedgerSteps ==
  ASSUME IInv, NEW s \in Scripts,
         \/ Fund(s) \/ DepositHeadroom(s) \/ Initiate(s) \/ CreateGame(s) \/ Prove(s)
         \/ FinalizeWithdrawal(s) \/ Sendoff(s)
  PROVE  IInv'
<1>1. /\ mem[s] \in Memory(latest, Len(games))
      /\ MemoryAt(mem[s], pc[s], latest, fin, Len(games))
      /\ latest \in Nat /\ fin \in 0..latest /\ Len(games) \in Nat
      /\ ScriptInv /\ now \in Nat /\ games \in Seq(Games)
      /\ BridgeInv /\ ChainsOK
  BY DEF IInv, ScriptInv, MemoryOK, ChainsOK, BridgeInv, BridgeTypeOK
<1>2. Wd(s) \in Withdrawals
  BY <1>1, WdType DEF ScriptInv
<1>3. ASSUME Fund(s) PROVE IInv'
  <2>1. Grows /\ ChainsOK'
    BY <1>1, <1>3 DEF Fund, Grows, ChainsOK, l2Vars
  <2>2. BridgeTypeOK'
    BY <1>1, <1>3 DEF Fund, BridgeInv, BridgeTypeOK, TopUp, TreeOK, Ether
  <2>3. BridgeInv'
    BY <1>1, <1>3, <2>1, <2>2, BridgeIdle DEF Fund, Grows, KeepsBlocks, l2Vars
  <2>4. ScriptInv'
    BY <1>1, <1>3, <2>1, AdvanceStays DEF Fund, Labels, InGame
  <2>5. QED
    BY <2>1, <2>3, <2>4 DEF IInv
<1>4. ASSUME Initiate(s) PROVE IInv'
  <2>1. UNCHANGED <<bridgeVars, fin, prog, ph, mem>> /\ Advance(s, "output")
    BY <1>4 DEF Initiate, l2Vars
  <2>2. /\ latest' \in {latest, latest + 1}
        /\ wdBlock' \in [Withdrawals -> 0..latest']
        /\ KeepsBlocks
    BY <1>1, <1>2, <1>4 DEF Initiate, ChainsOK, KeepsBlocks, l2Vars
  <2>0. funds' \in Nat /\ pending' \in Nat
    BY <1>1, <1>4, BudgetAssumption DEF Initiate, ChainsOK, Ether, l2Vars
  <2>3. Grows /\ ChainsOK'
    BY <1>1, <2>0, <2>1, <2>2 DEF Grows, ChainsOK, bridgeVars
  <2>4. BridgeTypeOK'
    BY <1>1, <2>1 DEF BridgeInv, BridgeTypeOK, TreeOK, bridgeVars
  <2>5. BridgeInv'
    BY <1>1, <2>1, <2>2, <2>3, <2>4, BridgeIdle DEF Grows, bridgeVars
  <2>6. ScriptInv'
    BY <1>1, <2>1, <2>3, AdvanceStays DEF Labels, Waits, InGame
  <2>7. QED
    BY <2>3, <2>5, <2>6 DEF IInv
<1>5. ASSUME CreateGame(s) PROVE IInv'
  <2> DEFINE h == NewGame(s, Root(s), ClaimedBlock(s))
  <2>1. mem[s].out \in Nat
    BY <1>1 DEF Memory
  <2>2. h \in Games /\ TreeOK(h)
    BY <1>1, <2>1, NewGameType DEF Root, ClaimedBlock, FakeRoot
  <2>3. /\ games' = Append(games, h) /\ dev1' \in Int
        /\ UNCHANGED <<now, proven, finalized, paid, portalBal, anchor, l2Vars,
                       prog, ph, mem>>
        /\ Advance(s, "index")
    BY <1>1, <1>5, BondAssumption DEF CreateGame, BridgeInv, BridgeTypeOK
  <2> HIDE DEF h
  <2>4. /\ games' \in Seq(Games)
        /\ Len(games') = Len(games) + 1
        /\ games'[Len(games) + 1] = h
        /\ \A j \in 1..Len(games) : games'[j] = games[j]
    BY <1>1, <2>2, <2>3, AppendSeqLemma
  <2>5. Grows /\ ChainsOK' /\ KeepsBlocks
    BY <1>1, <2>3, <2>4 DEF Grows, ChainsOK, KeepsBlocks, l2Vars
  <2>6. BridgeTypeOK'
    <3>1. \A j \in 1..Len(games') : TreeOK(games'[j])
      BY <1>1, <2>2, <2>4 DEF BridgeInv, BridgeTypeOK
    <3>2. \A j \in 1..Len(games') : TreeOK(games[j])'
      BY <3>1 DEF TreeOK
    <3>3. QED
      BY <1>1, <2>3, <2>4, <3>2 DEF BridgeInv, BridgeTypeOK
  <2>7. ProvenIsFinal'
    BY <1>1, <2>3, <2>4, <2>5, RecordKeeps DEF ProvenIsFinal, Grows
  <2>8. ScriptInv'
    BY <1>1, <2>3, <2>4, <2>5, AdvanceStays DEF Labels, InGame
  <2>9. QED
    BY <2>5, <2>6, <2>7, <2>8 DEF IInv, BridgeInv
<1>6. ASSUME Prove(s) PROVE IInv'
  <2> DEFINE i == mem[s].gi
             label == IF Kind(s) = "abandoned" THEN "attack" ELSE "recorded"
  <2>1. /\ proven' = [proven EXCEPT ![Wd(s)] = [game |-> i, at |-> now]]
        /\ UNCHANGED <<now, games, finalized, paid, portalBal, dev1, anchor, l2Vars,
                       prog, ph, mem>>
        /\ Advance(s, label)
        /\ pc[s] = "prove_send" /\ Gate(s)
    BY <1>6 DEF Prove, Sent
  <2>2. Game(s) \in Games /\ i \in 1..Len(games)
    BY <2>1, GameType DEF InGame
  <2>3. label \in Labels /\ label # "index"
    BY DEF Labels, Sends
  <2>4. Grows /\ ChainsOK' /\ KeepsBlocks
    BY <1>1, <2>1 DEF Grows, ChainsOK, KeepsBlocks, l2Vars
  <2>5. ScriptInv'
    <3> HIDE DEF label
    <3>1. QED
      BY <1>1, <2>1, <2>2, <2>3, <2>4, AdvanceStays
  <2>6. i \in Nat
    BY <1>1, <2>2
  <2>7. BridgeTypeOK'
    BY <1>1, <1>2, <2>1, <2>6 DEF BridgeInv, BridgeTypeOK, TreeOK
  <2>8. ASSUME NEW w \in Withdrawals, w = Wd(s)
        PROVE  GoodRecord(w)'
    <3>1. /\ games[i].created < now /\ games[i].root = mem[s].out
          /\ w \in Storage(mem[s].out)
      BY <2>1, <2>8 DEF Gate, CanProve, PastCreation, RootMatches, Game
    <3>2. mem[s].out \in 0..fin /\ wdBlock[w] \in 1..mem[s].out
      BY <1>1, <3>1 DEF MemoryAt, Memory, Storage
    <3>3. mem[s].out \in 1..fin
      BY <1>1, <3>2
    <3>4. proven'[w] = [game |-> i, at |-> now]
      BY <1>1, <2>1, <2>8 DEF BridgeInv, BridgeTypeOK
    <3> HIDE DEF i
    <3>5. QED
      BY <1>2, <2>1, <2>2, <3>1, <3>2, <3>3, <3>4 DEF GoodRecord, Storage, l2Vars
  <2>9. ProvenIsFinal'
    <3>1. ASSUME NEW w \in Withdrawals, w # Wd(s), proven'[w].game # 0
          PROVE  GoodRecord(w)'
      <4>1. proven'[w] = proven[w]
        BY <1>1, <2>1, <3>1 DEF BridgeInv, BridgeTypeOK
      <4>2. QED
        BY <1>1, <2>1, <2>4, <3>1, <4>1, RecordKeeps DEF Grows
    <3>2. QED
      BY <2>8, <3>1 DEF ProvenIsFinal
  <2>10. QED
    BY <2>4, <2>5, <2>7, <2>9 DEF IInv, BridgeInv
<1>7. ASSUME FinalizeWithdrawal(s) PROVE IInv'
  <2>1. /\ UNCHANGED <<now, games, proven, anchor, l2Vars, prog>>
        /\ Finalize(Wd(s)) /\ pc[s] = "fin_send"
    BY <1>7 DEF FinalizeWithdrawal, Sent
  <2>2. Grows /\ ChainsOK' /\ KeepsBlocks
    BY <1>1, <2>1 DEF Grows, ChainsOK, KeepsBlocks, l2Vars
  <2>3. BridgeTypeOK'
    BY <1>1, <1>2, <2>1 DEF BridgeInv, BridgeTypeOK, Finalize, TreeOK, Ether
  <2>4. BridgeInv'
    BY <1>1, <2>1, <2>2, <2>3, BridgeIdle DEF Grows
  <2>5. ScriptInv'
    <3>1. CASE Advance(s, "unlock_send") /\ UNCHANGED <<ph, mem>>
      BY <1>1, <2>1, <2>2, <3>1, AdvanceStays DEF Labels, Sends, MemoryAt, InGame
    <3>2. CASE EndPhase(s)
      BY <1>1, <2>1, <2>2, <3>2, EndPhaseKeeps
    <3>3. QED
      BY <1>7, <3>1, <3>2 DEF FinalizeWithdrawal
  <2>6. QED
    BY <2>2, <2>4, <2>5 DEF IInv
<1>8. ASSUME DepositHeadroom(s) PROVE IInv'
  <2>1. Grows /\ ChainsOK'
    BY <1>1, <1>8 DEF DepositHeadroom, Grows, ChainsOK
  <2>2. BridgeTypeOK'
    BY <1>1, <1>8 DEF DepositHeadroom, BridgeInv, BridgeTypeOK, Headroom, TreeOK
  <2>3. BridgeInv'
    BY <1>1, <1>8, <2>1, <2>2, BridgeIdle DEF DepositHeadroom, Grows, KeepsBlocks
  <2>4. ScriptInv'
    BY <1>1, <1>8, <2>1, AdvanceStays DEF DepositHeadroom, Labels, Waits, InGame
  <2>5. QED
    BY <2>1, <2>3, <2>4 DEF IInv
<1>9. ASSUME Sendoff(s) PROVE IInv'
  <2>1. /\ UNCHANGED <<bridgeVars, fin, wdBlock, pending, prog>> /\ EndPhase(s)
        /\ latest' = latest + 1
    BY <1>9 DEF Sendoff
  <2>2. funds' \in Nat
    BY <1>1, <1>9, BudgetAssumption DEF Sendoff, ChainsOK, Value
  <2>3. Grows /\ ChainsOK' /\ KeepsBlocks
    BY <1>1, <2>1, <2>2 DEF Grows, ChainsOK, KeepsBlocks, bridgeVars
  <2>4. BridgeTypeOK'
    BY <1>1, <2>1 DEF BridgeInv, BridgeTypeOK, TreeOK, bridgeVars
  <2>5. BridgeInv'
    BY <1>1, <2>1, <2>3, <2>4, BridgeIdle DEF Grows, bridgeVars
  <2>6. ScriptInv'
    BY <1>1, <2>1, <2>3, EndPhaseKeeps
  <2>7. QED
    BY <2>3, <2>5, <2>6 DEF IInv
<1>10. QED
  BY <1>3, <1>4, <1>5, <1>6, <1>7, <1>8, <1>9

\* The chains: sealing, deriving, finalizing, and the passing of time.
LEMMA ChainSteps ==
  ASSUME IInv, SealBlock \/ Derive \/ FinalizeL2 \/ Tick
  PROVE  IInv'
<1>1. UNCHANGED <<games, proven, scriptVars, wdBlock>>
  BY DEF SealBlock, Derive, FinalizeL2, Tick, l2Vars, bridgeVars
<1>2. /\ latest' \in {latest, latest + 1} /\ fin' \in {fin, latest}
      /\ fin' <= latest' /\ now' \in {now, now + 1}
      /\ UNCHANGED <<finalized, paid, portalBal, dev1, anchor>>
      /\ funds' \in Nat /\ pending' \in Nat
  BY DEF SealBlock, Derive, FinalizeL2, Tick, IInv, ChainsOK, Headroom, l2Vars, bridgeVars
<1>3. Grows /\ ChainsOK' /\ KeepsBlocks
  BY <1>1, <1>2 DEF IInv, BridgeInv, BridgeTypeOK, ChainsOK, Grows, KeepsBlocks
<1>4. BridgeTypeOK'
  <2>1. BridgeTypeOK /\ now' \in Nat
    BY <1>2 DEF IInv, BridgeInv, BridgeTypeOK
  <2>2. UNCHANGED <<games, proven, finalized, paid, portalBal, dev1, anchor>>
    BY <1>1, <1>2
  <2>3. QED
    BY <2>1, <2>2 DEF BridgeTypeOK, TreeOK
<1>5. BridgeInv'
  BY <1>1, <1>3, <1>4, BridgeIdle DEF IInv, Grows
<1>6. ScriptInv'
  BY <1>1, <1>3, ScriptsIdle DEF IInv
<1>7. QED
  BY <1>3, <1>5, <1>6 DEF IInv

LEMMA InitHolds == Init => IInv
<1> SUFFICES ASSUME Init PROVE IInv
  OBVIOUS
<1>1. BridgeTypeOK /\ ChainsOK
  BY DelayAssumption, BudgetAssumption DEF Init, BridgeInit, BridgeTypeOK, ChainsOK, TreeOK
<1>2. ProvenIsFinal
  BY DEF Init, BridgeInit, ProvenIsFinal
<1>3. ProgramOK
  BY ProgramAssumption DEF Init, ProgramOK
<1>4. \A s \in Scripts : First(prog[s][1].kind) \in {"fund", "initiate", "output"}
  <2>1. \A s \in Scripts : 1 \in 1..Len(prog[s])
    BY <1>3 DEF Init, ProgramOK
  <2>2. \A s \in Scripts : prog[s][1].kind \in Kinds
    BY <1>3, <2>1, PhaseType
  <2>3. QED
    BY <2>2 DEF First, Kinds
<1>5. pc = [s \in Scripts |-> First(prog[s][1].kind)]
  BY DEF Init
<1>6. ControlOK
  BY <1>4, <1>5 DEF Init, ControlOK, Labels, Waits, Reasons
<1>7. MemoryOK
  BY <1>1, <1>4, <1>5
     DEF Init, BridgeInit, MemoryOK, MemoryAt, Memory, Blank, InGame, ChainsOK
<1>8. QED
  BY <1>1, <1>2, <1>3, <1>6, <1>7 DEF IInv, BridgeInv, ScriptInv

LEMMA StepHolds == IInv /\ [Next]_vars => IInv'
<1> SUFFICES ASSUME IInv, [Next]_vars PROVE IInv'
  OBVIOUS
<1>1. CASE \E s \in Scripts : ScriptStep(s)
  BY <1>1, QuietSteps, GameSteps, LedgerSteps DEF ScriptStep
<1>2. CASE SealBlock \/ Derive \/ FinalizeL2 \/ Tick
  BY <1>2, ChainSteps
<1>3. CASE UNCHANGED vars
  <2>1. BridgeInv' /\ ChainsOK' /\ Grows
    BY <1>3, QuietStep DEF vars
  <2>2. ScriptInv'
    BY <1>3, <2>1, ScriptsIdle DEF IInv, vars
  <2>3. QED
    BY <2>1, <2>2 DEF IInv
<1>4. QED
  BY <1>1, <1>2, <1>3 DEF Next

-----------------------------------------------------------------------------
(* Theorems *)

\* The inductive invariant holds in every reachable state.
THEOREM Invariance == Spec => []IInv
BY InitHolds, StepHolds, PTL DEF Spec

\* Whatever scripts, programs, delays, bonds and budgets: the claim scripts and
\* the contracts stay within their types; in particular no script ever reads a
\* game that is not there, and no move leaves a cycle in a claim tree.
THEOREM TypeCorrect == Spec => []TypeOK
<1>1. IInv => TypeOK
  BY DEF IInv, BridgeInv, ChainsOK, ScriptInv, ProgramOK, ControlOK, MemoryOK,
         Memory, TypeOK
<1>2. QED
  BY <1>1, Invariance, PTL

\* Whatever runs beside a claim script, the portal only ever records a proof of a
\* withdrawal against a game that was created earlier and whose root commits to a
\* finalized L2 block holding that withdrawal.
THEOREM RecordsAreFinal == Spec => []ProvenIsFinal
<1>1. IInv => ProvenIsFinal
  BY DEF IInv, BridgeInv
<1>2. QED
  BY <1>1, Invariance, PTL

-----------------------------------------------------------------------------
(* The claim path implements BridgePromise. *)

\* Storage grows with the block.
LEMMA StorageGrows ==
  ASSUME ChainsOK, NEW a \in Nat, NEW b \in Nat, a <= b
  PROVE  Storage(a) \subseteq Storage(b)
BY DEF ChainsOK, Storage

SentSet == {w \in Withdrawals : wdBlock[w] # 0}

\* Nothing but Initiate and the chains' own steps moves the promise's L2 half, and
\* nothing but FinalizeWithdrawal its L1 half.
LEMMA PromiseStep ==
  ASSUME IInv, [Next]_vars
  PROVE  Promise!PromiseNext \/ UNCHANGED <<SentSet, Storage(fin), finalized, paid>>
<1>1. /\ latest \in Nat /\ fin \in 0..latest /\ ChainsOK
      /\ wdBlock \in [Withdrawals -> 0..latest] /\ ScriptInv /\ ProvenIsFinal
  BY DEF IInv, ChainsOK, BridgeInv
<1>2. CASE UNCHANGED <<fin, wdBlock, finalized, paid>>
  BY <1>2 DEF SentSet, Storage
<1>3. ASSUME NEW s \in Scripts, Initiate(s)
      PROVE  Promise!PromiseNext \/ UNCHANGED <<SentSet, Storage(fin), finalized, paid>>
  <2>1. Wd(s) \in Withdrawals
    BY <1>1, WdType DEF ScriptInv
  <2>2. UNCHANGED <<fin, finalized, paid>>
    BY <1>3 DEF Initiate, bridgeVars, l2Vars
  <2>3. CASE wdBlock[Wd(s)] = 0
    <3>1. wdBlock' = [wdBlock EXCEPT ![Wd(s)] = latest + 1]
      BY <1>3, <2>3 DEF Initiate
    <3>2. SentSet' = SentSet \cup {Wd(s)} /\ Wd(s) \notin SentSet
      BY <1>1, <2>1, <2>3, <3>1 DEF SentSet
    <3>3. Storage(fin)' = Storage(fin)
      BY <1>1, <2>1, <2>2, <2>3, <3>1 DEF Storage
    <3>4. QED
      BY <2>1, <2>2, <3>2, <3>3 DEF Promise!PromiseNext, Promise!Send, SentSet
  <2>4. CASE wdBlock[Wd(s)] # 0
    BY <1>2, <1>3, <2>2, <2>4 DEF Initiate, l2Vars
  <2>5. QED
    BY <2>3, <2>4
<1>4. ASSUME NEW s \in Scripts, FinalizeWithdrawal(s)
      PROVE  Promise!PromiseNext
  <2>1. Wd(s) \in Withdrawals
    BY <1>1, WdType DEF ScriptInv
  <2>2. Gate(s) /\ pc[s] = "fin_send" /\ Finalize(Wd(s)) /\ UNCHANGED l2Vars
    BY <1>4 DEF FinalizeWithdrawal, Sent
  <2>3. Wd(s) \notin finalized /\ proven[Wd(s)].game # 0
    BY <2>2 DEF Gate, CanFinalize
  <2>4. Wd(s) \in Storage(fin)
    <3> DEFINE b == games[proven[Wd(s)].game].root
    <3>1. b \in 1..fin /\ Wd(s) \in Storage(b)
      BY <1>1, <2>1, <2>3 DEF ProvenIsFinal, GoodRecord
    <3>2. QED
      BY <1>1, <3>1, StorageGrows
  <2>5. /\ finalized' = finalized \cup {Wd(s)}
        /\ paid' \in {paid, paid \cup {Wd(s)}}
    BY <2>2 DEF Finalize
  <2>6. SentSet' = SentSet /\ Storage(fin)' = Storage(fin)
    BY <2>2 DEF SentSet, Storage, l2Vars
  <2>7. QED
    BY <2>1, <2>3, <2>4, <2>5, <2>6 DEF Promise!PromiseNext, Promise!Claim, SentSet
<1>5. ASSUME FinalizeL2 PROVE Promise!PromiseNext
  <2>1. fin' = latest /\ UNCHANGED <<wdBlock, finalized, paid>>
    BY <1>5 DEF FinalizeL2, bridgeVars
  <2>2. Storage(fin)' = SentSet
    BY <1>1, <2>1 DEF Storage, SentSet
  <2>3. QED
    BY <2>1, <2>2 DEF Promise!PromiseNext, Promise!Settle, SentSet
<1>6. ASSUME NEW s \in Scripts, ScriptStep(s), ~Initiate(s), ~FinalizeWithdrawal(s)
      PROVE  UNCHANGED <<fin, wdBlock, finalized, paid>>
  BY <1>6 DEF ScriptStep, Fund, ReadL2Balance, DepositHeadroom, ReadL1Balance, NoFunds,
     CheckDelta, Sendoff, ReadOutput, NotFinalized, ReadHeader, ReadProof, Poll,
     TimedOut, Reverted, CreateGame, ReadIndex, Prove, Recorded, Oracle, Attack, Rebut,
     ResolveClaim, Resolve, Check, Unlock, RecoverBond, bridgeVars, l2Vars
<1>7. CASE SealBlock \/ Derive \/ Tick \/ UNCHANGED vars
  BY <1>2, <1>7 DEF SealBlock, Derive, Tick, vars, bridgeVars, l2Vars
<1>8. QED
  BY <1>2, <1>3, <1>4, <1>5, <1>6, <1>7 DEF Next

\* Seen through its finalized output and the portal's ledger, the whole machinery
\* of games, clocks, bonds and proofs is the promise: no withdrawal is claimed on
\* L1 twice, none before its L2 block is final, none paid without being claimed.
THEOREM PromiseKept == Spec => KeepsPromise
<1>1. Init => Promise!PromiseInit
  BY DEF Init, BridgeInit, Promise!PromiseInit, Storage
<1>2. IInv /\ [Next]_vars => [Promise!PromiseNext]_Promise!bvars
  BY PromiseStep DEF Promise!bvars, SentSet
<1>3. QED
  BY <1>1, <1>2, Invariance, PTL DEF Spec, KeepsPromise, Promise!PromiseSpec

-----------------------------------------------------------------------------
(* A script's own game. *)

Honest(s) == Kind(s) # "dishonest"

\* Past the output it read; past the game it posted; past the proof in the game it found.
Started == Labels \ {"fund", "balance", "headroom", "credit", "before", "initiate", "output",
                     "delta", "sendoff", "done", "exit"}
Posted == {"index", "recorded"} \cup InGame
Matched == Posted \ {"index", "prove", "prove_send", "oracle"}

OwnAt(s, m, label, gs) ==
  /\ label \in Posted => \E i \in 1..Len(gs) : gs[i].owner = s /\ gs[i].root = m.out
  /\ label \in Matched => m.gi \in 1..Len(gs) /\ gs[m.gi].root = m.out

\* A root names one game: with a root that is no fake comes one block, and the factory
\* takes no root and block twice.
RootsUnique ==
  /\ \A i \in 1..Len(games) : games[i].root # FakeRoot => games[i].block = games[i].root
  /\ \A i, j \in 1..Len(games) :
       games[i].root = games[j].root /\ games[i].block = games[j].block => i = j

\* An honest script does not come to the oracle.
OracleIsForLiars == \A s \in Scripts : pc[s] = "oracle" => ~Honest(s)

OwnInv ==
  /\ RootsUnique /\ OracleIsForLiars
  /\ \A s \in Scripts :
       /\ pc[s] \in Started => mem[s].out # 0
       /\ Honest(s) => OwnAt(s, mem[s], pc[s], games)

\* A game keeps what names it and whose it is.
SameId(h, g) == h.root = g.root /\ h.block = g.block /\ h.owner = g.owner

LEMMA MoveIds ==
  ASSUME NEW g \in Games
  PROVE  /\ \A i, who : SameId(Attacked(g, i, who), g)
         /\ \A i : SameId(ResolvedClaim(g, i), g)
         /\ SameId(ResolvedGame(g), g)
         /\ \A who : SameId(Credited(g, who), g)
<1>1. ASSUME NEW i, NEW who
      PROVE  SameId(Attacked(g, i, who), g)
  BY DEF Attacked, SameId, Games
<1>2. ASSUME NEW i
      PROVE  SameId(ResolvedClaim(g, i), g)
  BY DEF ResolvedClaim, SameId, Games
<1>3. SameId(ResolvedGame(g), g)
  BY DEF ResolvedGame, SameId, Games
<1>4. ASSUME NEW who
      PROVE  SameId(Credited(g, who), g)
  BY DEF Credited, SameId, Games
<1>5. QED
  BY <1>1, <1>2, <1>3, <1>4

Creates == \E s \in Scripts : CreateGame(s)

\* Only create adds a game, and nothing renames one.
LEMMA GamesKeep ==
  ASSUME IInv, [Next]_vars
  PROVE  /\ Len(games) \in Nat
         /\ \A i \in 1..Len(games) : SameId(games'[i], games[i])
         /\ ~Creates => Len(games') = Len(games)
<1>1. games \in Seq(Games) /\ Len(games) \in Nat
  BY DEF IInv, BridgeInv, BridgeTypeOK
<1>2. CASE UNCHANGED games
  BY <1>1, <1>2 DEF SameId
<1>3. ASSUME NEW s \in Scripts, Attack(s) \/ Rebut(s) \/ ResolveClaim(s) \/ Resolve(s)
                               \/ Unlock(s) \/ RecoverBond(s)
      PROVE  Len(games') = Len(games) /\ \A i \in 1..Len(games) : SameId(games'[i], games[i])
  <2>1. pc[s] \in InGame
    BY <1>3 DEF Attack, Rebut, ResolveClaim, Resolve, Unlock, RecoverBond, Sent, InGame
  <2>2. Game(s) \in Games /\ mem[s].gi \in 1..Len(games)
    BY <2>1, GameType
  <2>3. PICK h : SameId(h, Game(s)) /\ games' = [games EXCEPT ![mem[s].gi] = h]
    BY <1>3, <2>2, MoveIds DEF Attack, Rebut, ResolveClaim, Resolve, Unlock, RecoverBond, UpdateGame
  <2>4. QED
    BY <1>1, <2>2, <2>3 DEF SameId, Game
<1>4. ASSUME NEW s \in Scripts, CreateGame(s)
      PROVE  \A i \in 1..Len(games) : SameId(games'[i], games[i])
  BY <1>1, <1>4 DEF CreateGame, SameId
<1>5. QED
  BY <1>1, <1>2, <1>3, <1>4
     DEF Next, ScriptStep, Creates, Fund, ReadL2Balance, DepositHeadroom, ReadL1Balance, NoFunds,
         Initiate, ReadOutput, NotFinalized, ReadHeader, ReadProof, Poll, TimedOut, Reverted,
         ReadIndex, Prove, Recorded, Oracle, Check, FinalizeWithdrawal, CheckDelta, Sendoff,
         SealBlock, Derive, FinalizeL2, Tick, vars, bridgeVars

\* create takes a root and a block that no game has, and a root that is no fake with its
\* own block.
LEMMA RootsStep ==
  ASSUME IInv, OwnInv, [Next]_vars
  PROVE  RootsUnique'
<1>1. /\ Len(games) \in Nat /\ games \in Seq(Games)
      /\ \A i \in 1..Len(games) : SameId(games'[i], games[i])
      /\ ~Creates => Len(games') = Len(games)
  BY GamesKeep DEF IInv, BridgeInv, BridgeTypeOK
<1>2. CASE ~Creates
  BY <1>1, <1>2 DEF OwnInv, RootsUnique, SameId
<1>3. CASE Creates
  <2>1. PICK s \in Scripts : CreateGame(s)
    BY <1>3 DEF Creates
  <2> DEFINE h == NewGame(s, Root(s), ClaimedBlock(s))
  <2>2. /\ h.root = Root(s) /\ h.block = ClaimedBlock(s)
        /\ \A i \in 1..Len(games) : ~(games[i].root = h.root /\ games[i].block = h.block)
    BY <2>1 DEF CreateGame, Sent, Gate, CanCreate, NewGame
  <2>3. h.root # FakeRoot => h.block = h.root
    BY <2>2 DEF Root, ClaimedBlock
  <2> HIDE DEF h
  <2>4. games' = Append(games, h)
    BY <2>1 DEF CreateGame, h
  <2>5. /\ Len(games') = Len(games) + 1 /\ games'[Len(games) + 1] = h
        /\ \A i \in 1..Len(games) : games'[i] = games[i]
    BY <1>1, <2>4
  <2>6. \A i \in 1..Len(games') : i \in 1..Len(games) \/ i = Len(games) + 1
    BY <1>1, <2>5
  <2>7. ASSUME NEW i \in 1..Len(games'), NEW j \in 1..Len(games'),
               games'[i].root = games'[j].root, games'[i].block = games'[j].block
        PROVE  i = j
    <3>1. CASE i \in 1..Len(games) /\ j \in 1..Len(games)
      BY <2>5, <2>7, <3>1 DEF OwnInv, RootsUnique
    <3>2. CASE i = Len(games) + 1 \/ j = Len(games) + 1
      BY <2>2, <2>5, <2>6, <2>7, <3>2
    <3>3. QED
      BY <2>6, <3>1, <3>2
  <2>8. \A i \in 1..Len(games') : games'[i].root # FakeRoot => games'[i].block = games'[i].root
    BY <2>3, <2>5, <2>6 DEF OwnInv, RootsUnique
  <2>9. QED
    BY <2>7, <2>8 DEF RootsUnique
<1>4. QED
  BY <1>2, <1>3

\* Script s goes to a label with memory m, and where that stays within its phase, how.
Moves(s, label, m) ==
  /\ pc' = [pc EXCEPT ![s] = label] /\ mem' = [mem EXCEPT ![s] = m]
  /\ prog' = prog /\ \A t \in Scripts \ {s} : ph'[t] = ph[t]
  /\ label \in Started =>
       /\ ph' = ph /\ (label = "oracle" => ~Honest(s))
       /\ \/ pc[s] = "output" /\ label = "header" /\ m.out # 0
          \/ pc[s] \in Started /\ m.out = mem[s].out /\ label \notin Posted
          \/ pc[s] = "create" /\ m = mem[s] /\ label = "index" /\ CreateGame(s)
          \/ pc[s] \in Posted /\ m.out = mem[s].out /\ label \in Posted \ Matched
          \/ /\ pc[s] = "prove_send" /\ m = mem[s] /\ label \in Matched
             /\ RootMatches(Game(s), mem[s].out)
          \/ /\ pc[s] \in Matched /\ m.out = mem[s].out /\ m.gi = mem[s].gi /\ label \in Matched
          \/ pc[s] = "oracle" /\ m.out = mem[s].out /\ ~Honest(s)

LEMMA MovesLemma ==
  ASSUME IInv, OracleIsForLiars, NEW s \in Scripts, ScriptStep(s)
  PROVE  \E label, m : Moves(s, label, m)
<1>1. /\ mem \in [Scripts -> Memory(latest, Len(games))] /\ mem[s] \in Memory(latest, Len(games))
      /\ ph \in [Scripts -> Nat] /\ wdBlock \in [Withdrawals -> 0..latest] /\ fin \in Nat
      /\ latest \in Nat /\ Wd(s) \in Withdrawals
  BY WdType DEF IInv, ScriptInv, MemoryOK, ProgramOK, ChainsOK
<1>2. ASSUME NEW reason, Exit(s, reason), UNCHANGED <<prog, ph>>
      PROVE  \E m : Moves(s, "exit", m)
  BY <1>2 DEF Exit, Moves, Started
<1>3. ASSUME NEW label, Advance(s, label), UNCHANGED <<prog, ph, mem>>, label # "oracle",
             \/ label \notin Started
             \/ pc[s] \in Started /\ label \notin Posted
             \/ pc[s] = "create" /\ label = "index" /\ CreateGame(s)
             \/ pc[s] \in Posted /\ label \in Posted \ Matched
             \/ pc[s] = "prove_send" /\ label \in Matched /\ RootMatches(Game(s), mem[s].out)
             \/ pc[s] \in Matched /\ label \in Matched
             \/ pc[s] = "oracle" /\ ~Honest(s)
      PROVE  Moves(s, label, mem[s])
  <2>1. mem' = [mem EXCEPT ![s] = mem[s]] /\ pc' = [pc EXCEPT ![s] = label]
    BY <1>1, <1>3 DEF Advance
  <2>2. QED
    BY <1>3, <2>1 DEF Moves
<1>4. ASSUME EndPhase(s), prog' = prog
      PROVE  \E label : Moves(s, label, Blank)
  <2>1. PICK label \in {"fund", "initiate", "output", "done"} : Advance(s, label)
    <3>1. First(prog[s][ph[s] + 1].kind) \in {"fund", "initiate", "output"} \/ ph[s] = Len(prog[s])
      <4>1. CASE ph[s] # Len(prog[s])
        <5>1. prog[s] \in Seq([kind : Kinds, wd : Withdrawals]) /\ ph[s] \in 1..Len(prog[s])
          BY ProgramAssumption DEF IInv, ScriptInv, ProgramOK
        <5>2. ph[s] + 1 \in 1..Len(prog[s])
          BY <4>1, <5>1
        <5>3. prog[s][ph[s] + 1].kind \in Kinds
          BY <5>2, PhaseType DEF IInv, ScriptInv
        <5>4. QED
          BY <5>3 DEF First, Kinds
      <4>2. QED
        BY <4>1
    <3>2. QED
      BY <1>4, <3>1 DEF EndPhase
  <2>2. label \notin Started
    BY <2>1 DEF Started
  <2>3. mem' = [mem EXCEPT ![s] = Blank] /\ \A t \in Scripts \ {s} : ph'[t] = ph[t]
    BY <1>1, <1>4 DEF EndPhase
  <2>4. QED
    BY <1>4, <2>1, <2>2, <2>3 DEF Moves, Advance
<1>5. CASE Fund(s) \/ DepositHeadroom(s) \/ Initiate(s)
  BY <1>3, <1>5 DEF Fund, DepositHeadroom, Initiate, Started
<1>6. CASE ReadOutput(s)
  <2> DEFINE m == [mem[s] EXCEPT !.out = fin]
  <2>1. mem' = [mem EXCEPT ![s] = m] /\ m.out = fin
    BY <1>1, <1>6 DEF ReadOutput, Memory, OutputHead
  <2>2. fin # 0
    BY <1>1, <1>6 DEF ReadOutput, OutputHead
  <2> HIDE DEF m
  <2>3. Moves(s, "header", m)
    BY <1>6, <2>1, <2>2 DEF ReadOutput, Advance, Moves
  <2>4. QED
    BY <2>3
<1>7. CASE NoFunds(s) \/ NotFinalized(s) \/ TimedOut(s) \/ Reverted(s)
  BY <1>2, <1>7 DEF NoFunds, NotFinalized, TimedOut, Reverted
<1>8. CASE ReadHeader(s)
  <2> DEFINE m == [mem[s] EXCEPT !.hdr = latest]
  <2>1. mem' = [mem EXCEPT ![s] = m] /\ m.out = mem[s].out
    BY <1>1, <1>8 DEF ReadHeader, Memory
  <2> HIDE DEF m
  <2>2. "proof" \notin Posted /\ "header" \in Started
    BY DEF Posted, InGame, Started, Labels
  <2>3. Moves(s, "proof", m)
    BY <1>8, <2>1, <2>2 DEF ReadHeader, Advance, Moves
  <2>4. QED
    BY <2>3
<1>9. CASE ReadProof(s)
  <2>1. "create" \notin Posted /\ "proof" \in Started
    BY DEF Posted, InGame, Started, Labels
  <2>2. QED
    BY <1>2, <1>3, <1>9, <2>1 DEF ReadProof
<1>10. CASE Poll(s)
  <2>1. \/ pc[s] = "credit" /\ Then[pc[s]] = "before"
        \/ pc[s] = "prove" /\ Then[pc[s]] = "prove_send"
        \/ pc[s] \in {"clock", "fin", "pay"} /\ Then[pc[s]] \in {"clock_send", "fin_send", "pay_send"}
    BY <1>10 DEF Poll, Gated, Then
  <2>2. \/ Then[pc[s]] \notin Started
        \/ pc[s] \in Posted /\ Then[pc[s]] \in Posted \ Matched
        \/ pc[s] \in Matched /\ Then[pc[s]] \in Matched
    BY <2>1 DEF Posted, Matched, InGame, Started
  <2>3. Then[pc[s]] # "oracle"
    BY <2>1
  <2>4. QED
    BY <1>3, <1>10, <2>2, <2>3 DEF Poll
<1>11. CASE CreateGame(s)
  BY <1>3, <1>11 DEF CreateGame, Sent
<1>12. CASE ReadIndex(s) /\ ~Exit(s, "lifecycle")
  <2> DEFINE m == [mem[s] EXCEPT !.gi = LastIndex]
             label == IF Kind(s) = "dishonest" THEN "oracle" ELSE "prove"
  <2>1. mem' = [mem EXCEPT ![s] = m] /\ m.out = mem[s].out /\ Advance(s, label) /\ pc[s] = "index"
    BY <1>1, <1>12 DEF ReadIndex, Memory
  <2>2. label \in Posted \ Matched /\ pc[s] \in Posted /\ (label = "oracle" => ~Honest(s))
    BY <2>1 DEF Honest, Posted, Matched, InGame
  <2> HIDE DEF m, label
  <2>3. Moves(s, label, m)
    BY <1>12, <2>1, <2>2 DEF ReadIndex, Advance, Moves
  <2>4. QED
    BY <2>3
<1>13. CASE Prove(s)
  <2>1. RootMatches(Game(s), mem[s].out) /\ pc[s] = "prove_send"
    BY <1>13 DEF Prove, Sent, Gate, CanProve
  <2>2. "attack" \in Matched /\ "recorded" \in Matched
    BY DEF Posted, Matched, InGame
  <2>3. QED
    BY <1>3, <1>13, <2>1, <2>2 DEF Prove
<1>14. CASE Recorded(s) \/ Attack(s) \/ Rebut(s) \/ Resolve(s) \/ Unlock(s)
  <2>1. {"recorded", "rebut", "resolve_send", "unlock_send"} \subseteq Matched
    BY DEF Posted, Matched, InGame
  <2>2. {"attack", "clock", "check", "pay"} \subseteq Matched
    BY DEF Posted, Matched, InGame
  <2>3. QED
    BY <1>2, <1>3, <1>14, <2>1, <2>2 DEF Recorded, Attack, Rebut, Resolve, Unlock, Sent
<1>15. CASE Oracle(s)
  <2>1. pc[s] = "oracle" /\ ~Honest(s)
    BY <1>15 DEF Oracle, OracleIsForLiars
  <2>2. QED
    BY <1>2, <1>3, <1>15, <2>1 DEF Oracle
<1>16. CASE ResolveClaim(s)
  <2> DEFINE m == [mem[s] EXCEPT !.k = @ + 1]
             label == IF mem[s].k + 1 = Len(Order(Kind(s))) THEN "resolve_send" ELSE "clock"
  <2>1. /\ mem' = [mem EXCEPT ![s] = m] /\ m.out = mem[s].out /\ m.gi = mem[s].gi
        /\ Advance(s, label) /\ pc[s] = "clock_send"
    BY <1>1, <1>16 DEF ResolveClaim, Memory, Sent
  <2>2. label \in Matched /\ pc[s] \in Matched /\ label # "oracle"
    BY <2>1 DEF Posted, Matched, InGame
  <2> HIDE DEF m, label
  <2>3. Moves(s, label, m)
    BY <1>16, <2>1, <2>2 DEF ResolveClaim, Advance, Moves
  <2>4. QED
    BY <2>3
<1>17. CASE Check(s)
  <2>1. {"check", "fin"} \subseteq Matched
    BY DEF Posted, Matched, InGame
  <2>2. QED
    BY <1>2, <1>3, <1>4, <1>17, <2>1 DEF Check
<1>18. CASE FinalizeWithdrawal(s)
  <2>1. {"fin_send", "unlock_send"} \subseteq Matched
    BY DEF Posted, Matched, InGame
  <2>2. QED
    BY <1>3, <1>4, <1>18, <2>1 DEF FinalizeWithdrawal, Sent
<1>19. CASE RecoverBond(s) \/ CheckDelta(s)
  BY <1>2, <1>3, <1>19 DEF RecoverBond, CheckDelta, Started
<1>20. CASE Sendoff(s)
  BY <1>4, <1>20 DEF Sendoff
<1>21. CASE ReadIndex(s) /\ Exit(s, "lifecycle")
  BY <1>2, <1>21 DEF ReadIndex
<1>22. CASE ReadL2Balance(s)
  <2> DEFINE m == [mem[s] EXCEPT !.bal = funds]
             label == IF funds >= Ether + Headroom THEN "before" ELSE "headroom"
  <2>1. mem' = [mem EXCEPT ![s] = m] /\ label \notin Started
    BY <1>22 DEF ReadL2Balance, Started
  <2> HIDE DEF m
  <2>2. Moves(s, label, m)
    BY <1>22, <2>1 DEF ReadL2Balance, Advance, Moves
  <2>3. QED
    BY <2>2
<1>23. CASE ReadL1Balance(s)
  <2> DEFINE m == [mem[s] EXCEPT !.before = dev1]
  <2>1. mem' = [mem EXCEPT ![s] = m] /\ "initiate" \notin Started
    BY <1>23 DEF ReadL1Balance, Started
  <2> HIDE DEF m
  <2>2. Moves(s, "initiate", m)
    BY <1>23, <2>1 DEF ReadL1Balance, Advance, Moves
  <2>3. QED
    BY <2>2
<1>24. QED
  BY <1>5, <1>6, <1>7, <1>8, <1>9, <1>10, <1>11, <1>12, <1>13, <1>14, <1>15, <1>16, <1>17,
     <1>18, <1>19, <1>20, <1>21, <1>22, <1>23 DEF ScriptStep

\* What is known of a script's game outlives any change of the factory.
LEMMA OwnAtKeeps ==
  ASSUME IInv, [Next]_vars, NEW s, NEW m, NEW label, OwnAt(s, m, label, games)
  PROVE  OwnAt(s, m, label, games')
<1>1. /\ Len(games) \in Nat /\ Len(games') \in Nat /\ Len(games) <= Len(games')
      /\ \A i \in 1..Len(games) : SameId(games'[i], games[i])
  <2>1. CASE Creates
    <3>1. games \in Seq(Games) /\ \E h : games' = Append(games, h)
      BY <2>1 DEF Creates, CreateGame, IInv, BridgeInv, BridgeTypeOK
    <3>2. Len(games) \in Nat /\ Len(games') = Len(games) + 1
      BY <3>1
    <3>3. QED
      BY <3>2, GamesKeep
  <2>2. CASE ~Creates
    BY <2>2, GamesKeep
  <2>3. QED
    BY <2>1, <2>2
<1>2. \A i \in 1..Len(games) : i \in 1..Len(games')
  BY <1>1
<1>3. QED
  BY <1>1, <1>2 DEF OwnAt, SameId

LEMMA OwnMove ==
  ASSUME IInv, OwnInv, [Next]_vars, NEW s \in Scripts, ScriptStep(s)
  PROVE  OwnInv'
<1>1. PICK label, m : Moves(s, label, m)
  BY MovesLemma DEF OwnInv
<1>2. /\ pc'[s] = label /\ mem'[s] = m /\ prog' = prog
      /\ \A t \in Scripts \ {s} : pc'[t] = pc[t] /\ mem'[t] = mem[t] /\ ph'[t] = ph[t]
  BY <1>1 DEF Moves, IInv, ScriptInv, ControlOK, MemoryOK
<1>3. ASSUME NEW t \in Scripts, t # s
      PROVE  /\ pc'[t] = "oracle" => ~Honest(t)'
             /\ pc'[t] \in Started => mem'[t].out # 0
             /\ Honest(t)' => OwnAt(t, mem'[t], pc'[t], games')
  <2>1. Honest(t)' = Honest(t) /\ pc'[t] = pc[t] /\ mem'[t] = mem[t]
    BY <1>2, <1>3 DEF Honest, Kind, Phase
  <2>2. QED
    BY <2>1, OwnAtKeeps DEF OwnInv, OracleIsForLiars
<1>4. /\ label = "oracle" => ~Honest(s)'
      /\ label \in Started => m.out # 0
      /\ Honest(s)' => OwnAt(s, m, label, games')
  <2>1. CASE label \notin Started
    <3>1. label \notin Posted /\ label \notin Matched
      BY <2>1 DEF Started, Posted, Matched, InGame, Labels, Waits, Sends
    <3>2. QED
      BY <2>1, <3>1 DEF OwnAt, Posted, InGame
  <2>2. CASE label \in Started
    <3>1. ph' = ph /\ (Honest(s)' <=> Honest(s)) /\ (label = "oracle" => ~Honest(s))
      BY <1>1, <1>2, <2>2 DEF Moves, Honest, Kind, Phase
    <3>2. CASE pc[s] = "output" /\ label = "header" /\ m.out # 0
      BY <3>1, <3>2 DEF OwnAt, Posted, Matched, InGame
    <3>3. CASE pc[s] \in Started /\ m.out = mem[s].out /\ label \notin Posted
      BY <3>1, <3>3 DEF OwnInv, OwnAt, Matched
    <3>4. CASE pc[s] = "create" /\ m = mem[s] /\ label = "index" /\ CreateGame(s)
      <4>1. m.out # 0
        BY <3>4 DEF OwnInv, Started, Labels, Sends
      <4>2. ASSUME Honest(s)
            PROVE  \E i \in 1..Len(games') : games'[i].owner = s /\ games'[i].root = m.out
        <5>1. games \in Seq(Games) /\ Len(games) \in Nat
          BY DEF IInv, BridgeInv, BridgeTypeOK
        <5> DEFINE h == NewGame(s, Root(s), ClaimedBlock(s))
        <5>2. games' = Append(games, h) /\ h.owner = s /\ h.root = m.out
          BY <3>4, <4>2 DEF CreateGame, NewGame, Root, Honest
        <5> HIDE DEF h
        <5>3. Len(games') = Len(games) + 1 /\ games'[Len(games) + 1] = h
          BY <5>1, <5>2
        <5>4. Len(games) + 1 \in 1..Len(games')
          BY <5>1, <5>3
        <5>5. QED
          BY <5>2, <5>3, <5>4
      <4>3. QED
        BY <3>1, <3>4, <4>1, <4>2 DEF OwnAt, Matched
    <3>5. CASE pc[s] \in Posted /\ m.out = mem[s].out /\ label \in Posted \ Matched
      <4>1. pc[s] \in Started
        BY <3>5 DEF Posted, InGame, Started, Labels, Waits, Sends
      <4>2. Honest(s) => OwnAt(s, mem[s], pc[s], games')
        BY OwnAtKeeps DEF OwnInv
      <4>3. QED
        BY <3>1, <3>5, <4>1, <4>2 DEF OwnInv, OwnAt
    <3>6. CASE /\ pc[s] = "prove_send" /\ m = mem[s] /\ label \in Matched
               /\ RootMatches(Game(s), mem[s].out)
      <4>1. pc[s] \in Started /\ pc[s] \in InGame
        BY <3>6 DEF InGame, Started, Labels, Sends
      <4>2. mem[s].gi \in 1..Len(games) /\ games[mem[s].gi].root = mem[s].out
        BY <3>6, <4>1, GameType DEF RootMatches, Game
      <4>3. Honest(s) => OwnAt(s, mem[s], label, games)
        BY <3>6, <4>1, <4>2 DEF OwnInv, OwnAt, Posted
      <4>4. Honest(s) => OwnAt(s, mem[s], label, games')
        BY <4>3, OwnAtKeeps
      <4>5. QED
        BY <3>1, <3>6, <4>1, <4>4 DEF OwnInv
    <3>7. CASE pc[s] \in Matched /\ m.out = mem[s].out /\ m.gi = mem[s].gi /\ label \in Matched
      <4>1. pc[s] \in Started /\ pc[s] \in Posted
        BY <3>7 DEF Matched, Posted, InGame, Started, Labels, Waits, Sends
      <4>2. Honest(s) => OwnAt(s, mem[s], pc[s], games')
        BY OwnAtKeeps DEF OwnInv
      <4>3. QED
        BY <3>1, <3>7, <4>1, <4>2 DEF OwnInv, OwnAt
    <3>8. CASE pc[s] = "oracle" /\ m.out = mem[s].out /\ ~Honest(s)
      <4>1. pc[s] \in Started
        BY <3>8 DEF Started, Labels, Waits
      <4>2. QED
        BY <3>1, <3>8, <4>1 DEF OwnInv
    <3>9. QED
      BY <1>1, <2>2, <3>2, <3>3, <3>4, <3>5, <3>6, <3>7, <3>8 DEF Moves
  <2>3. QED
    BY <2>1, <2>2
<1>5. \A t \in Scripts : /\ pc'[t] = "oracle" => ~Honest(t)'
                         /\ pc'[t] \in Started => mem'[t].out # 0
                         /\ Honest(t)' => OwnAt(t, mem'[t], pc'[t], games')
  BY <1>2, <1>3, <1>4
<1>6. QED
  BY <1>5, RootsStep DEF OwnInv, OracleIsForLiars

LEMMA OwnStep ==
  ASSUME IInv, OwnInv, [Next]_vars
  PROVE  OwnInv'
<1>1. CASE UNCHANGED scriptVars
  <2>1. RootsUnique'
    BY RootsStep
  <2>2. \A t \in Scripts : Honest(t) => OwnAt(t, mem[t], pc[t], games')
    BY OwnAtKeeps DEF OwnInv
  <2>3. QED
    BY <1>1, <2>1, <2>2 DEF OwnInv, OracleIsForLiars, Honest, Kind, Phase, scriptVars
<1>2. CASE \E s \in Scripts : ScriptStep(s)
  BY <1>2, OwnMove
<1>3. QED
  BY <1>1, <1>2 DEF Next, SealBlock, Derive, FinalizeL2, Tick, vars

LEMMA OwnGameLemma == OwnInv /\ IInv => OwnGame
<1>1. SUFFICES ASSUME OwnInv, IInv, NEW s \in Scripts, Honest(s), ProvenIn(s)
               PROVE  Game(s).owner = s
  BY DEF OwnGame, Honest
<1>2. pc[s] \in Matched /\ pc[s] \in Posted /\ pc[s] \in Started
  BY <1>1 DEF ProvenIn, Matched, Posted, InGame, Started, Labels, Waits, Sends
<1>3. mem[s].out # 0 /\ OwnAt(s, mem[s], pc[s], games)
  BY <1>1, <1>2 DEF OwnInv
<1>4. PICK i \in 1..Len(games) : games[i].owner = s /\ games[i].root = mem[s].out
  BY <1>2, <1>3 DEF OwnAt
<1>5. mem[s].gi \in 1..Len(games) /\ games[mem[s].gi].root = mem[s].out
  BY <1>2, <1>3 DEF OwnAt
<1>6. i = mem[s].gi
  BY <1>1, <1>3, <1>4, <1>5 DEF OwnInv, RootsUnique, FakeRoot
<1>7. QED
  BY <1>4, <1>6 DEF Game

\* A matched game is the script's own, through every interleaving of the other scripts.
LEMMA OwnInvariance == Spec => []OwnInv
<1>1. Init => OwnInv
  <2>1. SUFFICES ASSUME Init PROVE OwnInv
    OBVIOUS
  <2>2. games = <<>> /\ Len(games) = 0 /\ prog \in Programs /\ ph = [s \in Scripts |-> 1]
    BY <2>1 DEF Init, BridgeInit
  <2>3. ASSUME NEW s \in Scripts
        PROVE  pc[s] \in {"fund", "initiate", "output"}
    <3>1. prog[s] \in Seq([kind : Kinds, wd : Withdrawals]) /\ Len(prog[s]) > 0
      BY <2>2, ProgramAssumption
    <3>2. 1 \in 1..Len(prog[s])
      BY <3>1
    <3>3. prog[s][1] \in [kind : Kinds, wd : Withdrawals]
      BY <3>1, <3>2, ElementLemma
    <3>4. prog[s][1].kind \in Kinds
      BY <3>3
    <3>5. QED
      BY <2>1, <3>4 DEF Init, First, Kinds
  <2>4. \A s \in Scripts : pc[s] \notin Started /\ pc[s] \notin Posted /\ pc[s] # "oracle"
    BY <2>3 DEF Started, Posted, InGame
  <2>5. QED
    BY <2>2, <2>4 DEF OwnInv, RootsUnique, OracleIsForLiars, OwnAt, Matched
<1>2. IInv /\ OwnInv /\ [Next]_vars => OwnInv'
  BY OwnStep
<1>3. QED
  BY <1>1, <1>2, Invariance, PTL DEF Spec

\* Whatever scripts and programs run beside it: an honest script that reads the factory's
\* last index after its create, and proves against that game, is in the game it created.
THEOREM InOwnGame == Spec => []OwnGame
  BY OwnGameLemma, OwnInvariance, Invariance, PTL

-----------------------------------------------------------------------------
(* The portal's purse.  Finalize pays only out of a portal that holds the     *)
(* ETH, so a lane that ends green has paid only because every script    *)
(* step leaves what the rest of its phase, and the phase after it, will take. *)

\* The labels past the finalization of a claim phase.
Recovering == {"unlock_send", "pay", "pay_send"}
Recovered == Recovering \cup {"delta", "sendoff"}

\* What the portal must hold for a lane at a label of a phase: a claim leaves one
\* ETH for the abandoned phase that follows it.
Purse(kind, label) ==
  IF label \in {"fund", "done", "exit"} \/ kind = "dishonest" THEN 0
  ELSE IF kind = "claim" /\ label \notin Recovered THEN 2 * Ether
  ELSE Ether

\* The lane of withdraw_e2e_ephemeral.sh: a contest of an abandoned game, which
\* funds nothing itself, runs right after a claim, which does.
FundedLane(q) ==
  \A i \in 1..Len(q) :
    q[i].kind = "abandoned" => i > 1 /\ q[i - 1].kind = "claim"

PaidUpTo(s, n) ==
  \A i \in 1..n : prog[s][i].kind # "dishonest" => prog[s][i].wd \in paid

PaidInv(s) ==
  /\ PaidUpTo(s, ph[s] - 1)
  /\ pc[s] \in Recovered \cup {"done"} /\ Kind(s) # "dishonest" => Wd(s) \in paid
  /\ portalBal >= Purse(Kind(s), pc[s])
  /\ pc[s] = "done" => ph[s] = Len(prog[s])

\* The labels between funding and finalization.
Pending == Labels \ (Recovered \cup {"fund", "done", "exit"})

\* A step that neither pays nor changes the phase.
Strides(s) ==
  /\ UNCHANGED <<prog, ph, paid>> /\ portalBal' >= portalBal
  /\ \E label : /\ pc' = [pc EXCEPT ![s] = label]
                /\ \/ label = "exit"
                   \/ pc[s] \in Pending /\ label \in Pending
                   \/ pc[s] \in Recovered /\ label \in Recovered

\* Every step of a script strides, funds, finalizes or ends the phase.
LEMMA StridesLemma ==
  ASSUME IInv, NEW s \in Scripts, ScriptStep(s)
  PROVE  \/ Strides(s)
         \/ Fund(s)
         \/ FinalizeWithdrawal(s)
         \/ /\ EndPhase(s) /\ UNCHANGED <<prog, paid, portalBal>>
            /\ pc[s] = "sendoff" \/ Kind(s) = "dishonest"
<1>0. portalBal \in Nat /\ portalBal >= portalBal
  BY DEF IInv, BridgeInv, BridgeTypeOK
<1>1. ASSUME NEW reason, Exit(s, reason), UNCHANGED <<prog, ph, paid, portalBal>>
      PROVE  Strides(s)
  BY <1>0, <1>1 DEF Exit, Strides
<1>2. ASSUME NEW label \in Pending, Advance(s, label), pc[s] \in Pending,
             UNCHANGED <<prog, ph, paid, portalBal>>
      PROVE  Strides(s)
  BY <1>0, <1>2 DEF Advance, Strides
<1>3. ASSUME NEW label \in Recovered, Advance(s, label), pc[s] \in Recovered,
             UNCHANGED <<prog, ph, paid, portalBal>>
      PROVE  Strides(s)
  BY <1>0, <1>3 DEF Advance, Strides
<1>4. /\ {"balance", "headroom", "credit", "before", "initiate", "output", "header", "proof", "create", "index", "prove", "prove_send",
          "oracle", "recorded", "attack", "rebut", "clock", "clock_send", "resolve_send",
          "check", "fin", "fin_send"} \subseteq Pending
      /\ Recovered = {"unlock_send", "pay", "pay_send", "delta", "sendoff"}
  BY DEF Pending, Labels, Waits, Sends, Recovering, Recovered
<1>5. CASE ReadL2Balance(s) \/ ReadL1Balance(s) \/ Initiate(s) \/ ReadOutput(s) \/ ReadHeader(s) \/ ReadProof(s)
  BY <1>1, <1>2, <1>4, <1>5
     DEF ReadL2Balance, ReadL1Balance, Initiate, ReadOutput, ReadHeader, ReadProof, bridgeVars
<1>6. CASE NoFunds(s) \/ NotFinalized(s) \/ TimedOut(s) \/ Reverted(s)
  BY <1>1, <1>6 DEF NoFunds, NotFinalized, TimedOut, Reverted, bridgeVars
<1>7. CASE Poll(s)
  <2>1. \/ pc[s] = "pay" /\ Then[pc[s]] = "pay_send"
        \/ /\ pc[s] \in {"credit", "prove", "clock", "fin"}
           /\ Then[pc[s]] \in {"before", "prove_send", "clock_send", "fin_send"}
    BY <1>7 DEF Poll, Gated, Then
  <2>2. QED
    BY <1>2, <1>3, <1>4, <1>7, <2>1 DEF Poll, bridgeVars
<1>8. CASE CreateGame(s) \/ ReadIndex(s) \/ Prove(s) \/ Recorded(s) \/ Oracle(s)
  BY <1>1, <1>2, <1>4, <1>8
     DEF CreateGame, ReadIndex, Prove, Recorded, Oracle, Sent, bridgeVars
<1>9. CASE Attack(s) \/ Rebut(s) \/ ResolveClaim(s) \/ Resolve(s)
  BY <1>1, <1>2, <1>4, <1>9 DEF Attack, Rebut, ResolveClaim, Resolve, Sent
<1>10. CASE Check(s)
  BY <1>1, <1>2, <1>4, <1>10 DEF Check, bridgeVars
<1>11. CASE Unlock(s) \/ RecoverBond(s)
  BY <1>3, <1>4, <1>11 DEF Unlock, RecoverBond, Sent
<1>12. CASE CheckDelta(s)
  BY <1>1, <1>3, <1>4, <1>12 DEF CheckDelta, bridgeVars
<1>13. CASE Sendoff(s)
  BY <1>13 DEF Sendoff, bridgeVars
<1>14. CASE DepositHeadroom(s)
  <2>1. pc[s] \in Pending /\ "credit" \in Pending
    BY <1>4, <1>14 DEF DepositHeadroom
  <2>2. /\ UNCHANGED <<prog, ph, paid>> /\ portalBal' >= portalBal
        /\ pc' = [pc EXCEPT ![s] = "credit"]
    BY <1>0, <1>14 DEF DepositHeadroom, Headroom, Advance
  <2>3. QED
    BY <2>1, <2>2 DEF Strides
<1>15. QED
  BY <1>5, <1>6, <1>7, <1>8, <1>9, <1>10, <1>11, <1>12, <1>13, <1>14 DEF ScriptStep

\* A stride keeps the purse: the label it leads to needs what the one before did.
LEMMA StridesKeep ==
  ASSUME IInv, IInv', NEW s \in Scripts, PaidInv(s), Strides(s)
  PROVE  PaidInv(s)'
<1>1. PICK label : /\ pc' = [pc EXCEPT ![s] = label]
                   /\ \/ label = "exit"
                      \/ pc[s] \in Pending /\ label \in Pending
                      \/ pc[s] \in Recovered /\ label \in Recovered
  BY DEF Strides
<1>2. pc'[s] = label /\ Kind(s)' = Kind(s) /\ Wd(s)' = Wd(s)
  BY <1>1 DEF IInv, ScriptInv, ControlOK, Strides, Kind, Wd, Phase
<1>3. portalBal \in Nat /\ portalBal' \in Nat /\ portalBal' >= portalBal
  BY DEF IInv, BridgeInv, BridgeTypeOK, Strides
<1>4. /\ Purse(Kind(s), pc[s]) \in Nat
      /\ \/ Purse(Kind(s), label) = 0
         \/ Purse(Kind(s), label) = Purse(Kind(s), pc[s])
  BY <1>1 DEF Purse, Pending, Recovering, Recovered, Ether
<1>5. portalBal' >= Purse(Kind(s)', pc'[s])
  BY <1>2, <1>3, <1>4 DEF PaidInv
<1>6. /\ pc'[s] # "done"
      /\ pc'[s] \in Recovered => pc[s] \in Recovered
  BY <1>1, <1>2 DEF Pending, Recovering, Recovered
<1>7. PaidUpTo(s, ph[s] - 1)'
  BY DEF Strides, PaidInv, PaidUpTo
<1>8. QED
  BY <1>2, <1>5, <1>6, <1>7 DEF PaidInv, Strides

\* Ending a paid phase.
LEMMA EndPhasePays ==
  ASSUME IInv, NEW s \in Scripts, FundedLane(prog[s]),
         EndPhase(s), UNCHANGED prog,
         PaidUpTo(s, ph[s] - 1), paid \subseteq paid',
         Kind(s) # "dishonest" => Wd(s) \in paid',
         portalBal' \in Nat, Kind(s) = "claim" => portalBal' >= Ether
  PROVE  PaidInv(s)'
<1> DEFINE n == ph[s]
<1>1. n \in 1..Len(prog[s]) /\ Len(prog[s]) \in Nat /\ n \in Nat
  BY ProgramAssumption DEF IInv, ScriptInv, ProgramOK
<1>2. \A i \in 1..n : prog[s][i].kind # "dishonest" => prog[s][i].wd \in paid'
  <2>1. \A i \in 1..n - 1 : prog[s][i].kind # "dishonest" => prog[s][i].wd \in paid'
    BY DEF PaidUpTo
  <2>2. prog[s][n].kind # "dishonest" => prog[s][n].wd \in paid'
    BY DEF Kind, Wd, Phase
  <2>3. \A i \in 1..n : i = n \/ i \in 1..n - 1
    BY <1>1
  <2>4. QED
    BY <2>1, <2>2, <2>3
<1>3. CASE n = Len(prog[s])
  <2>1. pc'[s] = "done" /\ ph' = ph
    BY <1>3 DEF EndPhase, Advance, IInv, ScriptInv, ControlOK
  <2>2. ph'[s] = n /\ Kind(s)' = Kind(s) /\ Wd(s)' = Wd(s)
    BY <2>1 DEF Kind, Wd, Phase
  <2>3. Purse(Kind(s)', pc'[s]) = 0
    BY <2>1 DEF Purse
  <2>4. PaidUpTo(s, ph[s] - 1)'
    BY <1>1, <1>2, <2>2 DEF PaidUpTo
  <2>5. QED
    BY <1>3, <2>1, <2>2, <2>3, <2>4 DEF PaidInv
<1>4. CASE n # Len(prog[s])
  <2> DEFINE next == prog[s][n + 1].kind
  <2>1. pc' = [pc EXCEPT ![s] = First(next)] /\ ph' = [ph EXCEPT ![s] = n + 1]
    BY <1>4 DEF EndPhase, Advance
  <2>2. pc'[s] = First(next) /\ ph'[s] = n + 1
    BY <2>1 DEF IInv, ScriptInv, ControlOK, ProgramOK
  <2>3. Kind(s)' = next
    BY <2>2 DEF Kind, Phase
  <2>4. n + 1 \in 1..Len(prog[s]) /\ (n + 1) - 1 = n
    BY <1>1, <1>4
  <2>5. next \in Kinds
    BY <2>4, PhaseType DEF IInv, ScriptInv
  <2>6. next = "abandoned" => Kind(s) = "claim"
    BY <2>4 DEF FundedLane, Kind, Phase
  <2> HIDE DEF next
  <2>7. /\ First(next) \notin Recovered \cup {"done"}
        /\ next = "claim" => First(next) = "fund"
    BY <2>5 DEF First, Kinds, Recovering, Recovered
  <2>8. Purse(next, First(next)) = 0 \/ (next = "abandoned" /\ Purse(next, First(next)) = Ether)
    BY <2>5, <2>7 DEF Purse, Kinds
  <2>9. PaidUpTo(s, ph[s] - 1)'
    BY <1>2, <2>2, <2>4 DEF PaidUpTo
  <2>10. QED
    BY <2>2, <2>3, <2>6, <2>7, <2>8, <2>9 DEF PaidInv
<1>5. QED
  BY <1>3, <1>4

\* Alone on L1, with every contest behind a claim, a script pays what it finalizes.
LEMMA PaidStep ==
  ASSUME IInv, NEW s \in Scripts, FundedLane(prog[s]), PaidInv(s), ScriptStep(s), IInv'
  PROVE  PaidInv(s)'
<1>1. portalBal \in Nat /\ portalBal' \in Nat
  BY DEF IInv, BridgeInv, BridgeTypeOK
<1>2. Kind(s) \in Kinds
  BY WdType DEF IInv, ScriptInv
<1>3. CASE Strides(s)
  BY <1>3, StridesKeep
<1>4. CASE Fund(s)
  <2>1. pc'[s] = "balance" /\ UNCHANGED <<prog, ph, paid>>
    BY <1>4 DEF Fund, Advance, IInv, ScriptInv, ControlOK
  <2>2. Kind(s)' = Kind(s) /\ Wd(s)' = Wd(s)
    BY <2>1 DEF Kind, Wd, Phase
  <2>3. portalBal' >= 2 * Ether
    BY <1>1, <1>4 DEF Fund, TopUp, Ether
  <2>4. Purse(Kind(s), "balance") \in 0..2 * Ether
    BY DEF Purse, Ether
  <2>5. PaidUpTo(s, ph[s] - 1)'
    BY <2>1 DEF PaidInv, PaidUpTo
  <2>6. portalBal' >= Purse(Kind(s)', pc'[s])
    <3>1. Purse(Kind(s)', pc'[s]) \in 0..2 * Ether
      BY <2>1, <2>2, <2>4
    <3>2. 2 * Ether \in Nat
      BY DEF Ether
    <3>3. QED
      BY <1>1, <2>3, <3>1, <3>2
  <2>7. pc'[s] \notin Recovered \cup {"done"}
    BY <2>1 DEF Recovering, Recovered
  <2>8. QED
    BY <2>5, <2>6, <2>7 DEF PaidInv
<1>5. CASE FinalizeWithdrawal(s)
  <2>1. pc[s] = "fin_send" /\ Finalize(Wd(s)) /\ prog' = prog
    BY <1>5 DEF FinalizeWithdrawal, Sent
  <2>2. Purse(Kind(s), pc[s]) = IF Kind(s) = "claim" THEN 2 * Ether
                                ELSE IF Kind(s) = "dishonest" THEN 0 ELSE Ether
    BY <1>2, <2>1 DEF Purse, Recovering, Recovered, Kinds
  <2>3. /\ paid \subseteq paid'
        /\ Kind(s) # "dishonest" => Wd(s) \in paid'
        /\ Kind(s) = "claim" => portalBal' >= Ether
    BY <1>1, <1>2, <2>1, <2>2 DEF Finalize, PaidInv, Kinds, Ether
  <2>4. CASE Kind(s) = "claim"
    <3>1. pc'[s] = "unlock_send" /\ UNCHANGED <<prog, ph>>
      BY <1>5, <2>4 DEF FinalizeWithdrawal, Advance, IInv, ScriptInv, ControlOK
    <3>2. Kind(s)' = Kind(s) /\ Wd(s)' = Wd(s)
      BY <3>1 DEF Kind, Wd, Phase
    <3>3. Purse("claim", "unlock_send") = Ether
      BY DEF Purse, Recovering, Recovered
    <3>4. PaidUpTo(s, ph[s] - 1)'
      BY <2>3, <3>1 DEF PaidInv, PaidUpTo
    <3>5. QED
      BY <2>3, <2>4, <3>1, <3>2, <3>3, <3>4 DEF PaidInv
  <2>5. CASE Kind(s) # "claim"
    <3>1. EndPhase(s)
      BY <1>5, <2>5 DEF FinalizeWithdrawal
    <3>2. QED
      BY <1>1, <2>1, <2>3, <2>5, <3>1, EndPhasePays DEF PaidInv
  <2>6. QED
    BY <2>4, <2>5
<1>6. CASE /\ EndPhase(s) /\ UNCHANGED <<prog, paid, portalBal>>
           /\ pc[s] = "sendoff" \/ Kind(s) = "dishonest"
  <2>1. Kind(s) # "dishonest" => Wd(s) \in paid'
    BY <1>6 DEF PaidInv, Recovered
  <2>2. Kind(s) = "claim" => portalBal' >= Ether
    BY <1>6 DEF PaidInv, Purse, Recovering, Recovered
  <2>3. QED
    BY <1>1, <1>6, <2>1, <2>2, EndPhasePays DEF PaidInv
<1>7. QED
  BY <1>3, <1>4, <1>5, <1>6, StridesLemma

\* A lane that has the portal to itself and contests only behind a claim ends green only
\* with every withdrawal of its claim and abandoned phases paid, whatever the portal held
\* at the start: the top-up to two ETH covers the claim and the contest that follows it.
THEOREM GreenIsPaid ==
  ASSUME NEW lane, Scripts = {lane},
         \A p \in Programs : FundedLane(p[lane])
  PROVE  Spec => []GreenMeansPaid
<1>1. Init => PaidInv(lane)
  <2>1. SUFFICES ASSUME Init PROVE PaidInv(lane)
    OBVIOUS
  <2>2. /\ prog \in Programs /\ ph[lane] = 1 /\ pc[lane] = First(prog[lane][1].kind)
        /\ portalBal \in Nat
    BY <2>1, DelayAssumption DEF Init, BridgeInit
  <2>3. prog[lane] \in Seq([kind : Kinds, wd : Withdrawals]) /\ Len(prog[lane]) > 0
    BY <2>2, ProgramAssumption
  <2>4. 1 \in 1..Len(prog[lane])
    BY <2>3
  <2>5. prog[lane][1] \in [kind : Kinds, wd : Withdrawals]
    BY <2>3, <2>4, ElementLemma
  <2>6. prog[lane][1].kind \in {"claim", "dishonest"}
    BY <2>2, <2>4, <2>5 DEF FundedLane, Kinds
  <2>7. Kind(lane) = prog[lane][1].kind /\ pc[lane] \in {"fund", "output"}
    BY <2>2, <2>6 DEF Kind, Phase, First
  <2>8. Purse(Kind(lane), pc[lane]) = 0
    BY <2>2, <2>6, <2>7 DEF Purse, First
  <2>9. QED
    BY <2>2, <2>7, <2>8 DEF PaidInv, PaidUpTo, Recovering, Recovered
<1>2. IInv /\ IInv' /\ PaidInv(lane) /\ [Next]_vars => PaidInv(lane)'
  <2>1. SUFFICES ASSUME IInv, IInv', PaidInv(lane), [Next]_vars
                 PROVE  PaidInv(lane)'
    OBVIOUS
  <2>2. FundedLane(prog[lane])
    BY <2>1 DEF IInv, ScriptInv, ProgramOK
  <2>3. CASE ScriptStep(lane)
    BY <2>1, <2>2, <2>3, PaidStep
  <2>4. CASE UNCHANGED <<paid, portalBal, scriptVars>>
    BY <2>1, <2>4 DEF PaidInv, PaidUpTo, Kind, Wd, Phase, scriptVars
  <2>5. QED
    BY <2>1, <2>3, <2>4 DEF Next, SealBlock, Derive, FinalizeL2, Tick, vars, bridgeVars
<1>3. IInv /\ PaidInv(lane) => GreenMeansPaid
  <2>1. SUFFICES ASSUME IInv, PaidInv(lane), NEW i \in 1..Len(prog[lane]), pc[lane] = "done",
                        prog[lane][i].kind # "dishonest"
                 PROVE  prog[lane][i].wd \in paid
    BY DEF GreenMeansPaid
  <2>2. ph[lane] = Len(prog[lane]) /\ Len(prog[lane]) \in Nat
    BY <2>1, ProgramAssumption DEF PaidInv, IInv, ScriptInv, ProgramOK
  <2>3. CASE i = ph[lane]
    BY <2>1, <2>3 DEF PaidInv, Kind, Wd, Phase
  <2>4. CASE i # ph[lane]
    <3>1. i \in 1..ph[lane] - 1
      BY <2>2, <2>4
    <3>2. QED
      BY <2>1, <3>1 DEF PaidInv, PaidUpTo
  <2>5. QED
    BY <2>3, <2>4
<1>4. QED
  BY <1>1, <1>2, <1>3, Invariance, PTL DEF Spec

-----------------------------------------------------------------------------
(* The lane alone on L1 *)

\* What a lane runs: a claim or an abandoned game has a withdrawal of its own, and a
\* dishonest game follows one of them, whose withdrawal it reuses.
LaneShape(q) ==
  \A i \in 1..Len(q) :
    IF q[i].kind = "dishonest"
    THEN i > 1 /\ q[i - 1].kind # "dishonest" /\ q[i].wd = q[i - 1].wd
    ELSE \A j \in 1..i - 1 : q[j].wd # q[i].wd

\* Every wait on L1 outlasts the delay it waits for, a clock of the game outlasts the
\* L1 block a proof has to wait for, and the headroom two transactions on L2.
RoomyBudgets ==
  /\ MaxClock > 1 /\ ProveBudget > 1 /\ ClockBudget > MaxClock
  /\ FinalizeBudget > ProofMaturity + 1 /\ FinalizeBudget > FinalityDelay + 1
  /\ UnlockBudget > UnlockDelay
  /\ \A gas \in L2Gas : 2 * gas < Headroom

\* The labels before a phase has sent its withdrawal, before it has posted its game, and
\* after it has recovered its bond.
Unsent == {"fund", "balance", "headroom", "credit", "before", "initiate"}
Unposted == {"output", "header", "proof", "create"}
Ended == {"delta", "sendoff"}

\* Which phase comes to which label.
LabelOK(s) ==
  /\ pc[s] \in (Unsent \ {"initiate"}) \cup {"recorded"} \cup Recovering \cup Ended =>
       Kind(s) = "claim"
  /\ pc[s] \in {"initiate", "prove", "prove_send", "fin", "fin_send"} => Honest(s)
  /\ pc[s] = "attack" => Kind(s) # "claim"
  /\ pc[s] = "rebut" => Kind(s) = "abandoned"

\* A withdrawal of a phase to come is neither sent nor finalized.
Untouched(s) ==
  /\ \A j \in 1..Len(prog[s]) :
       /\ prog[s][j].kind # "dishonest"
       /\ j > ph[s] \/ (j = ph[s] /\ pc[s] \in Unsent)
       => wdBlock[prog[s][j].wd] = 0 /\ prog[s][j].wd \notin finalized
  /\ Honest(s) /\ pc[s] \in Unposted \cup (Posted \ Recovering) => Wd(s) \notin finalized

\* No game claims a block past the finalized head, but for the one a liar adds to it.
HeadOK ==
  /\ anchor <= fin
  /\ \A i \in 1..Len(games) : games[i].root <= fin /\ games[i].block <= fin + 1

\* The phase's withdrawal is the newest: past every root, every lie and the anchor
\* that earlier phases have left, so that no posted game collides with one of theirs.
Newest(s) ==
  LET w == wdBlock[Wd(s)] IN
  /\ pc[s] \in Unposted \cup Posted \cup Ended =>
       w > 0 /\ \A v \in Withdrawals : wdBlock[v] <= w
  /\ pc[s] \in Started \cup Ended => w <= mem[s].out /\ anchor <= mem[s].out
  /\ pc[s] \in Started \ {"header"} => w <= mem[s].hdr
  /\ ~Honest(s) => w <= fin
  /\ pc[s] \in Unposted \/ (pc[s] \in Posted \cup Ended /\ Honest(s)) =>
       \A i \in 1..Len(games) : games[i].root = FakeRoot => games[i].block <= w
  /\ pc[s] \in Unposted /\ Honest(s) =>
       anchor < w /\ \A i \in 1..Len(games) : games[i].root < w

\* Claim i of a game is by Author(i), with a bond of BondOf(i): each answers the one before.
Author(i) == IF i = 2 THEN "challenger" ELSE "proposer"
Opponent(who) == IF who = "proposer" THEN "challenger" ELSE "proposer"
BondOf(i) == IF i = 1 THEN InitBond ELSE IF i = 2 THEN RootBond ELSE RebutBond

Chain(g, n) ==
  /\ Len(g.claims) = n
  /\ \A i \in 1..n :
       LET c == g.claims[i] IN
       /\ c.parent = i - 1 /\ c.by = Author(i) /\ c.bond = BondOf(i)
       /\ c.used >= 0 /\ (i = 1 => c.used = 0 /\ c.at = g.created)

\* The last k of n claims are resolved: the last one stands, and counters the one before.
Settling(g, n, k) ==
  \A i \in 1..n :
    LET c == g.claims[i] IN
    /\ c.resolved <=> i > n - k
    /\ c.resolved => c.counteredBy = IF i = n - 1 THEN Author(n) ELSE "nobody"

\* Whoever moved last has every bond resolved so far.
Earned(n, k) ==
  (IF k > 0 THEN BondOf(n) ELSE 0) + (IF k > 1 THEN BondOf(n - 1) ELSE 0)
    + (IF k > 2 THEN BondOf(n - 2) ELSE 0)

Ledger(g, n, k) ==
  g.credit[Author(n)] = Earned(n, k) /\ g.credit[Opponent(Author(n))] = 0

\* How many claims a game of a kind gets, has at a label, and how it ends.
TreeSize(kind) == CASE kind = "claim" -> 1 [] kind = "abandoned" -> 3 [] kind = "dishonest" -> 2
Single == {"index", "prove", "prove_send", "oracle", "recorded", "attack"}
Size(kind, label) ==
  IF label \in Single THEN 1 ELSE IF label = "rebut" THEN 2 ELSE TreeSize(kind)
Verdict(kind) == IF kind = "dishonest" THEN "CHALLENGER_WINS" ELSE "DEFENDER_WINS"
Ruled == {"check", "fin", "fin_send"} \cup Recovering
Counting == {"clock", "clock_send"}

ResolvedCount(kind, label, k) ==
  IF label \in Counting THEN k < TreeSize(kind)
  ELSE IF label \in Ruled \cup {"resolve_send"} THEN k = TreeSize(kind)
  ELSE k = 0

\* The phase's game, the last of the factory's.
GameOK(s) ==
  LET g == games[Len(games)]
      n == Size(Kind(s), pc[s])
  IN /\ pc[s] \notin Ended \cup {"done", "exit"} => ResolvedCount(Kind(s), pc[s], mem[s].k)
     /\ pc[s] \in Posted =>
          /\ Len(games) > 0 /\ (pc[s] # "index" => mem[s].gi = Len(games))
          /\ g.root = Root(s)
          /\ Chain(g, n) /\ Settling(g, n, mem[s].k) /\ Ledger(g, n, mem[s].k)
          /\ g.status = IF pc[s] \in Ruled THEN Verdict(Kind(s)) ELSE "IN_PROGRESS"
          /\ pc[s] \notin {"pay", "pay_send"} => g.unlockedAt["proposer"] = 0

\* When what the phase waits for began: never after its wait did.
Timely(s) ==
  LET g == games[Len(games)] IN
  /\ now > 0 /\ since[s] <= now
  /\ \A w \in Withdrawals : proven[w].at <= now
  /\ pc[s] = "index" => g.created = now
  /\ pc[s] \in {"prove", "oracle"} => since[s] = g.created /\ now <= g.created + 1
  /\ pc[s] \in {"prove_send", "attack"} => now = g.created + 1
  /\ pc[s] = "rebut" => g.claims[2].at = now
  /\ pc[s] \in Posted => \A i \in 1..Len(g.claims) : g.claims[i].at <= now
  /\ pc[s] = "clock" =>
       /\ now <= since[s] + MaxClock
       /\ \A i \in 1..Len(g.claims) : g.claims[i].at <= since[s]
  /\ pc[s] = "check" => g.resolvedAt = now
  /\ pc[s] = "fin" =>
       /\ g.resolvedAt <= since[s] /\ proven[Wd(s)].at <= since[s]
       /\ now <= since[s] + ProofMaturity + 1 \/ now <= since[s] + FinalityDelay + 1
  /\ pc[s] \in {"unlock_send", "pay"} => Settled(g)
  /\ pc[s] = "pay" =>
       g.unlockedAt["proposer"] \in 1..since[s] /\ now <= since[s] + UnlockDelay

\* What was simulated holds until the transaction is sent; what was proved stays proved.
Simulated(s) ==
  /\ pc[s] \in {"prove_send", "clock_send", "fin_send", "pay_send"} => Gate(s)
  /\ Honest(s) /\ pc[s] \in Matched => proven[Wd(s)].game = mem[s].gi

Expected(s) ==
  /\ pc[s] # "exit" => why[s] = "none"
  /\ \/ why[s] \in {"none", "not_anchored"}
     \/ why[s] = "not_finalized" /\ Honest(s)
     \/ why[s] = "not_credited" /\ Kind(s) = "claim"
     \/ why[s] = "no_funds" /\ (Kind(s) = "claim" => mem[s].bal < Ether)

LaneInv(s) ==
  /\ LabelOK(s) /\ Untouched(s) /\ HeadOK /\ Newest(s)
  /\ GameOK(s) /\ Timely(s) /\ Simulated(s) /\ Expected(s)

\* What DEV1 has gained on L1 at a label of a claim since the balance it started from.
Gain(label) ==
  IF label \in {"initiate"} \cup Unposted THEN 0
  ELSE IF label = "delta" THEN Ether
  ELSE IF label \in Recovering THEN Ether - InitBond ELSE - InitBond

\* What it has on L2: the deposit is on its way or there, and once there it covers, with
\* what DEV1 had, the ETH and two transactions.
FundsOK(s) ==
  LET bal == mem[s].bal IN
  /\ pc[s] \notin {"credit", "exit"} => pending = 0
  /\ pc[s] = "headroom" => funds = bal
  /\ pc[s] = "credit" =>
       (pending = 0 /\ funds = bal + Headroom) \/ (pending = 1 /\ funds = bal)
  /\ Kind(s) = "claim" /\ bal >= Ether =>
       /\ pc[s] \in {"before", "initiate"} => funds >= Ether + Headroom
       /\ pc[s] \in Unposted \cup Posted \cup Ended => 2 * funds > Headroom

\* The portal can pay the withdrawal, so that the claim's balance adds up on L1.
MoneyInv(s) ==
  /\ Kind(s) = "claim" /\ pc[s] \in Pending => portalBal >= Ether
  /\ Kind(s) = "claim" /\ pc[s] \in {"initiate", "delta"} \cup Unposted \cup Posted =>
       dev1 = mem[s].before + Gain(pc[s])
  /\ pc[s] = "pay_send" => games[Len(games)].unlockedAt["proposer"] # 0
  /\ FundsOK(s)

\* A step of a lane that is alone, with the invariants that hold before and after it.
LaneCtx(s) ==
  /\ Scripts = {s} /\ Slow = {} /\ RoomyBudgets
  /\ IInv /\ IInv' /\ OwnInv /\ LaneShape(prog[s]) /\ LaneInv(s) /\ MoneyInv(s)

\* A posted game is a chain of one claim.
LEMMA NewGameChain ==
  ASSUME now \in Nat, NEW s \in Scripts, NEW root \in Nat, NEW block \in Nat
  PROVE  LET g == NewGame(s, root, block) IN
         /\ Chain(g, 1) /\ Settling(g, 1, 0) /\ Ledger(g, 1, 0)
         /\ g.root = root /\ g.block = block /\ g.created = now
         /\ g.status = "IN_PROGRESS" /\ g.unlockedAt["proposer"] = 0
         /\ \A i \in 1..Len(g.claims) : g.claims[i].at <= now
<1> DEFINE g == NewGame(s, root, block)
           c == Claim(0, "proposer", InitBond, 0)
<1>1. /\ g.claims = <<c>> /\ g.credit = [a \in Actors |-> 0] /\ g.created = now
      /\ g.root = root /\ g.block = block
      /\ g.status = "IN_PROGRESS" /\ g.unlockedAt = [a \in Actors |-> 0]
  BY DEF NewGame
<1>2. /\ c.parent = 0 /\ c.by = "proposer" /\ c.bond = InitBond /\ c.at = now /\ c.used = 0
      /\ c.resolved = FALSE
  BY DEF Claim
<1> HIDE DEF g, c
<1>3. Len(g.claims) = 1 /\ g.claims[1] = c /\ \A i \in 1..1 : i = 1
  BY <1>1
<1>4. Chain(g, 1)
  BY <1>1, <1>2, <1>3 DEF Chain, Author, BondOf
<1>5. Settling(g, 1, 0)
  BY <1>2, <1>3 DEF Settling
<1>6. Ledger(g, 1, 0)
  BY <1>1 DEF Ledger, Earned, Author, Opponent, Actors
<1>7. g.unlockedAt["proposer"] = 0
  BY <1>1 DEF Actors
<1>8. \A i \in 1..Len(g.claims) : g.claims[i].at <= now
  BY <1>2, <1>3
<1>9. QED
  BY <1>1, <1>4, <1>5, <1>6, <1>7, <1>8 DEF g

\* What the clock of whoever would counter claim i of a chain shows.
LEMMA ChainClock ==
  ASSUME now \in Nat, NEW g \in Games, NEW n \in 1..3, Chain(g, n), NEW i \in 1..n,
         \A j \in 1..n : g.claims[j].at <= now
  PROVE  LET before == IF i = 1 THEN 0 ELSE g.claims[i - 1].used
             spent == before + (now - g.claims[i].at)
         IN /\ before \in Nat /\ g.claims[i].at \in Nat
            /\ ChallengeClock(g, i) = IF spent > MaxClock THEN MaxClock ELSE spent
            /\ ChallengeClock(g, i) \in Nat
<1>1. g.claims \in Seq(Claims) /\ Len(g.claims) = n
  BY DEF Games, Chain
<1>2. \A j \in 1..n : g.claims[j] \in Claims
  BY <1>1, ElementLemma
<1>3. g.claims[i].parent = i - 1 /\ g.claims[i].at \in Nat /\ g.claims[i].at <= now
  BY <1>2 DEF Chain, Claims
<1> DEFINE before == IF i = 1 THEN 0 ELSE g.claims[i - 1].used
<1>4. before \in Nat
  <2>1. i # 1 => i - 1 \in 1..n
    OBVIOUS
  <2>2. \A j \in 1..n : g.claims[j].used \in Int /\ g.claims[j].used >= 0
    BY <1>2 DEF Chain, Claims
  <2>3. QED
    BY <2>1, <2>2
<1>5. before = IF g.claims[i].parent = 0 THEN 0 ELSE g.claims[g.claims[i].parent].used
  <2>1. i - 1 = 0 <=> i = 1
    OBVIOUS
  <2>2. QED
    BY <1>3, <2>1
<1> DEFINE spent == before + (now - g.claims[i].at)
<1>6. ChallengeClock(g, i) = IF spent > MaxClock THEN MaxClock ELSE spent
  BY <1>5 DEF ChallengeClock
<1> HIDE DEF before
<1>7. ChallengeClock(g, i) \in Nat
  BY <1>3, <1>4, <1>6, DelayAssumption
<1>8. QED
  BY <1>3, <1>4, <1>6, <1>7 DEF before

\* An attack on the last claim lengthens the chain.
LEMMA AttackChain ==
  ASSUME now \in Nat, NEW g \in Games, NEW i \in 1..2, Chain(g, i), Settling(g, i, 0),
         Ledger(g, i, 0), \A j \in 1..i : g.claims[j].at <= now
  PROVE  LET h == Attacked(g, i, Author(i + 1)) IN
         /\ Chain(h, i + 1) /\ Settling(h, i + 1, 0) /\ Ledger(h, i + 1, 0)
         /\ h.status = g.status /\ h.unlockedAt = g.unlockedAt /\ h.root = g.root
         /\ h.claims[i + 1].at = now /\ \A j \in 1..i + 1 : h.claims[j].at <= now
<1> DEFINE used == ChallengeClock(g, i)
           c == Claim(i, Author(i + 1), RequiredBond(i), used)
           h == Attacked(g, i, Author(i + 1))
<1>1. used \in Nat
  BY ChainClock
<1>2. /\ c.parent = i /\ c.by = Author(i + 1) /\ c.bond = BondOf(i + 1) /\ c.used = used
      /\ c.at = now /\ c.resolved = FALSE
  BY DEF Claim, RequiredBond, BondOf
<1>3. /\ h.claims = Append(g.claims, c) /\ h.credit = g.credit /\ h.status = g.status
      /\ h.unlockedAt = g.unlockedAt /\ h.root = g.root /\ h.created = g.created
  BY DEF Attacked, Games
<1>4. g.claims \in Seq(Claims) /\ Len(g.claims) = i
  BY DEF Games, Chain
<1> HIDE DEF used, c, h
<1>5. /\ Len(h.claims) = i + 1 /\ h.claims[i + 1] = c
      /\ \A j \in 1..i : h.claims[j] = g.claims[j]
  BY <1>3, <1>4
<1>6. \A j \in 1..i + 1 : j = i + 1 \/ (j \in 1..i /\ j # i + 1)
  OBVIOUS
<1>7. Chain(h, i + 1)
  <2>1. SUFFICES ASSUME NEW j \in 1..i + 1
                 PROVE  LET d == h.claims[j] IN
                        /\ d.parent = j - 1 /\ d.by = Author(j) /\ d.bond = BondOf(j)
                        /\ d.used >= 0 /\ (j = 1 => d.used = 0 /\ d.at = h.created)
    BY <1>5 DEF Chain
  <2>2. CASE j = i + 1
    <3>1. h.claims[j] = c /\ j - 1 = i /\ j # 1
      BY <1>5, <2>2
    <3>2. c.parent = j - 1 /\ c.by = Author(j) /\ c.bond = BondOf(j)
      BY <1>2, <2>2, <3>1
    <3>3. c.used >= 0
      BY <1>1, <1>2
    <3>4. QED
      BY <3>1, <3>2, <3>3
  <2>3. CASE j \in 1..i
    BY <1>3, <1>5, <2>3 DEF Chain
  <2>4. QED
    BY <1>6, <2>2, <2>3
<1>8. Settling(h, i + 1, 0)
  <2>1. ASSUME NEW j \in 1..i + 1
        PROVE  h.claims[j].resolved = FALSE
    <3>1. CASE j = i + 1
      BY <1>2, <1>5, <3>1
    <3>2. CASE j \in 1..i
      <4>1. h.claims[j] = g.claims[j] /\ g.claims[j] \in Claims
        BY <1>4, <1>5, <3>2, ElementLemma
      <4>2. g.claims[j].resolved \in BOOLEAN
        BY <4>1 DEF Claims
      <4>3. ~g.claims[j].resolved
        BY <3>2 DEF Settling
      <4>4. QED
        BY <4>1, <4>2, <4>3
    <3>3. QED
      BY <1>6, <3>1, <3>2
  <2>2. \A j \in 1..i + 1 : ~(j > (i + 1) - 0)
    OBVIOUS
  <2>3. QED
    BY <2>1, <2>2 DEF Settling
<1>9. Ledger(h, i + 1, 0)
  BY <1>3 DEF Ledger, Earned, Author, Opponent
<1>10. \A j \in 1..i + 1 : h.claims[j].at <= now
  <2>1. ASSUME NEW j \in 1..i + 1 PROVE h.claims[j].at <= now
    <3>1. CASE j = i + 1
      BY <1>2, <1>5, <3>1
    <3>2. CASE j \in 1..i
      BY <1>5, <3>2
    <3>3. QED
      BY <1>6, <3>1, <3>2
  <2>2. QED
    BY <2>1
<1>11. QED
  BY <1>2, <1>3, <1>5, <1>7, <1>8, <1>9, <1>10 DEF h

\* Resolving the claims of a chain from the last to the first: whoever moved last
\* stands at every turn, and collects the bond.
LEMMA ResolveChain ==
  ASSUME NEW g \in Games, NEW n \in 1..3, NEW k \in 0..2, k < n,
         Chain(g, n), Settling(g, n, k), Ledger(g, n, k)
  PROVE  LET h == ResolvedClaim(g, n - k) IN
         /\ Chain(h, n) /\ Settling(h, n, k + 1) /\ Ledger(h, n, k + 1)
         /\ h.status = g.status /\ h.unlockedAt = g.unlockedAt /\ h.root = g.root
         /\ \A j \in 1..n : h.claims[j].at = g.claims[j].at
<1> DEFINE i == n - k
           c == g.claims[i]
           d == [c EXCEPT !.resolved = TRUE, !.counteredBy = Counter(g, i)]
           h == ResolvedClaim(g, i)
<1>1. i \in 1..n /\ i \in Nat
  OBVIOUS
<1>2. g.claims \in Seq(Claims) /\ Len(g.claims) = n
  BY DEF Games, Chain
<1>3. \A j \in 1..n : g.claims[j] \in Claims
  BY <1>2, ElementLemma
<1>4. c \in Claims /\ c.by = Author(i) /\ c.bond = BondOf(i) /\ c.bond \in Nat
  BY <1>1, <1>3 DEF Chain, Claims
<1>5. Children(g, i) = IF i = n THEN {} ELSE {i + 1}
  <2>1. Children(g, i) = {j \in 1..n : j - 1 = i}
    BY <1>2 DEF Children, Chain
  <2>2. \A j \in 1..n : j - 1 = i <=> j = i + 1
    BY <1>1
  <2> HIDE DEF i
  <2>3. i = n => \A j \in 1..n : j # i + 1
    OBVIOUS
  <2>4. i # n => i + 1 \in 1..n
    BY <1>1
  <2>5. QED
    BY <2>1, <2>2, <2>3, <2>4
<1>6. Counter(g, i) = IF i = n - 1 THEN Author(n) ELSE "nobody"
  <2> DEFINE winning == {j \in Children(g, i) : g.claims[j].counteredBy = "nobody"}
  <2>0. Counter(g, i) = IF winning = {} THEN "nobody"
                        ELSE g.claims[CHOOSE j \in winning : TRUE].by
    BY DEF Counter
  <2>1. CASE i = n
    <3>1. winning = {}
      BY <1>5, <2>1
    <3>2. i # n - 1
      BY <2>1
    <3>3. QED
      BY <2>0, <3>1, <3>2
  <2>2. CASE i # n
    <3>1. i + 1 \in 1..n /\ i + 1 > n - k /\ Children(g, i) = {i + 1}
      BY <1>1, <1>5, <2>2
    <3>2. g.claims[i + 1].counteredBy = IF i + 1 = n - 1 THEN Author(n) ELSE "nobody"
      BY <3>1 DEF Settling
    <3>3. CASE i = n - 1
      <4>1. i + 1 = n /\ i + 1 # n - 1
        BY <3>3
      <4>2. winning = {i + 1}
        BY <3>1, <3>2, <4>1
      <4>3. (CHOOSE j \in winning : TRUE) = n
        BY <4>1, <4>2
      <4>4. g.claims[n].by = Author(n)
        BY DEF Chain
      <4>5. QED
        BY <2>0, <3>3, <4>2, <4>3, <4>4
    <3>4. CASE i # n - 1
      <4>1. i + 1 = n - 1
        BY <1>1, <2>2, <3>4
      <4>2. g.claims[i + 1].counteredBy # "nobody"
        BY <3>2, <4>1 DEF Author
      <4>3. winning = {}
        BY <3>1, <4>2
      <4>4. QED
        BY <2>0, <3>4, <4>3
    <3>5. QED
      BY <3>3, <3>4
  <2>3. QED
    BY <2>1, <2>2
<1>7. Winner(g, i) = Author(n)
  <2>1. Author(n) # "nobody"
    BY DEF Author
  <2>2. i = n \/ i = n - 1 \/ i = n - 2
    OBVIOUS
  <2>3. i = n - 2 => Author(i) = Author(n)
    BY <1>1 DEF Author
  <2>4. QED
    BY <1>4, <1>6, <2>1, <2>2, <2>3 DEF Winner
<1>8. /\ d.resolved = TRUE /\ d.counteredBy = Counter(g, i) /\ d.parent = c.parent
      /\ d.by = c.by /\ d.bond = c.bond /\ d.used = c.used /\ d.at = c.at
  BY <1>4 DEF Claims
<1>9. /\ h.claims = [g.claims EXCEPT ![i] = d]
      /\ h.credit = [g.credit EXCEPT ![Author(n)] = g.credit[Author(n)] + c.bond]
      /\ h.status = g.status /\ h.unlockedAt = g.unlockedAt /\ h.root = g.root
      /\ h.created = g.created
  BY <1>7 DEF ResolvedClaim, Games
<1> HIDE DEF c, d, h
<1>10. /\ Len(h.claims) = n /\ h.claims[i] = d
       /\ \A j \in 1..n : j # i => h.claims[j] = g.claims[j]
  BY <1>1, <1>2, <1>9
<1> HIDE DEF i
<1>11. c = g.claims[i] /\ i = n - k
  BY DEF c, i
<1>12. ASSUME NEW j \in 1..n
       PROVE  /\ h.claims[j].parent = g.claims[j].parent /\ h.claims[j].by = g.claims[j].by
              /\ h.claims[j].bond = g.claims[j].bond /\ h.claims[j].used = g.claims[j].used
              /\ h.claims[j].at = g.claims[j].at
  BY <1>8, <1>10, <1>11
<1>13. Chain(h, n)
  <2>1. SUFFICES ASSUME NEW j \in 1..n
                 PROVE  /\ h.claims[j].parent = j - 1 /\ h.claims[j].by = Author(j)
                        /\ h.claims[j].bond = BondOf(j) /\ h.claims[j].used >= 0
                        /\ j = 1 => h.claims[j].used = 0 /\ h.claims[j].at = h.created
    BY <1>10 DEF Chain
  <2>2. /\ g.claims[j].parent = j - 1 /\ g.claims[j].by = Author(j)
        /\ g.claims[j].bond = BondOf(j) /\ g.claims[j].used >= 0
        /\ j = 1 => g.claims[j].used = 0 /\ g.claims[j].at = g.created
    BY DEF Chain
  <2>3. QED
    BY <1>9, <1>12, <2>2
<1>14. Settling(h, n, k + 1)
  <2>1. SUFFICES ASSUME NEW j \in 1..n
                 PROVE  /\ h.claims[j].resolved <=> j > n - (k + 1)
                        /\ h.claims[j].resolved =>
                             h.claims[j].counteredBy = IF j = n - 1 THEN Author(n) ELSE "nobody"
    BY DEF Settling
  <2>2. CASE j = i
    <3>1. j > n - (k + 1)
      BY <1>11, <2>2
    <3>2. QED
      BY <1>6, <1>8, <1>10, <2>2, <3>1
  <2>3. CASE j # i
    <3>1. j > n - (k + 1) <=> j > n - k
      BY <1>11, <2>3
    <3>2. QED
      BY <1>10, <2>3, <3>1 DEF Settling
  <2>4. QED
    BY <2>2, <2>3
<1>15. Ledger(h, n, k + 1)
  <2>1. g.credit \in [Actors -> Nat] /\ Author(n) \in Actors /\ Opponent(Author(n)) \in Actors
        /\ Author(n) # Opponent(Author(n))
    BY DEF Games, Author, Opponent, Actors
  <2>2. /\ h.credit[Author(n)] = g.credit[Author(n)] + BondOf(i)
        /\ h.credit[Opponent(Author(n))] = 0
    BY <1>4, <1>9, <2>1 DEF Ledger
  <2>3. BondOf(n) \in Nat /\ BondOf(n - 1) \in Nat /\ BondOf(n - 2) \in Nat
    BY BondAssumption DEF BondOf
  <2>4. Earned(n, k + 1) = Earned(n, k) + BondOf(i)
    <3>1. k = 0 \/ k = 1 \/ k = 2
      OBVIOUS
    <3>2. CASE k = 0
      BY <1>11, <2>3, <3>2 DEF Earned
    <3>3. CASE k = 1
      BY <1>11, <2>3, <3>3 DEF Earned
    <3>4. CASE k = 2
      BY <1>11, <2>3, <3>4 DEF Earned
    <3>5. QED
      BY <3>1, <3>2, <3>3, <3>4
  <2>5. QED
    BY <2>2, <2>4 DEF Ledger
<1>16. QED
  BY <1>9, <1>11, <1>12, <1>13, <1>14, <1>15 DEF h, i

-----------------------------------------------------------------------------
(* The lane's steps *)

LEMMA LaneTypes ==
  ASSUME NEW s, LaneCtx(s)
  PROVE  /\ s \in Scripts /\ now \in Nat /\ anchor \in Nat
         /\ games \in Seq(Games) /\ Len(games) \in Nat
         /\ proven \in [Withdrawals -> [game : Nat, at : Nat]] /\ finalized \subseteq Withdrawals
         /\ latest \in Nat /\ fin \in Nat /\ fin <= latest
         /\ wdBlock \in [Withdrawals -> Nat] /\ \A w \in Withdrawals : wdBlock[w] <= latest
         /\ prog[s] \in Seq([kind : Kinds, wd : Withdrawals])
         /\ Len(prog[s]) \in Nat /\ ph[s] \in 1..Len(prog[s])
         /\ ph \in [Scripts -> Nat] /\ pc \in [Scripts -> Labels] /\ pc[s] \in Labels
         /\ since \in [Scripts -> Nat] /\ since[s] \in Nat /\ why \in [Scripts -> Reasons]
         /\ mem \in [Scripts -> Memory(latest, Len(games))]
         /\ mem[s] \in Memory(latest, Len(games))
         /\ mem[s].out \in Nat /\ mem[s].out <= fin /\ mem[s].k \in Nat /\ mem[s].gi \in Nat
         /\ Wd(s) \in Withdrawals /\ Kind(s) \in Kinds
<1>1. s \in Scripts /\ IInv
  BY DEF LaneCtx
<1>2. /\ now \in Nat /\ anchor \in Nat /\ games \in Seq(Games) /\ Len(games) \in Nat
      /\ proven \in [Withdrawals -> [game : Nat, at : Nat]] /\ finalized \subseteq Withdrawals
  BY <1>1 DEF IInv, BridgeInv, BridgeTypeOK
<1>3. /\ latest \in Nat /\ fin \in Nat /\ fin <= latest
      /\ wdBlock \in [Withdrawals -> Nat] /\ \A w \in Withdrawals : wdBlock[w] <= latest
  <2>1. latest \in Nat /\ fin \in 0..latest /\ wdBlock \in [Withdrawals -> 0..latest]
    BY <1>1 DEF IInv, ChainsOK
  <2>2. \A w \in Withdrawals : wdBlock[w] \in 0..latest
    BY <2>1
  <2>3. wdBlock \in [Withdrawals -> Nat]
    BY <2>1
  <2>4. QED
    BY <2>1, <2>2, <2>3
<1>4. prog[s] \in Seq([kind : Kinds, wd : Withdrawals])
  BY <1>1, ProgramAssumption DEF IInv, ScriptInv, ProgramOK
<1>5. Len(prog[s]) \in Nat /\ ph[s] \in 1..Len(prog[s]) /\ ph \in [Scripts -> Nat]
  BY <1>1, <1>4 DEF IInv, ScriptInv, ProgramOK
<1>6. /\ pc \in [Scripts -> Labels] /\ pc[s] \in Labels
      /\ since \in [Scripts -> Nat] /\ since[s] \in Nat /\ why \in [Scripts -> Reasons]
  BY <1>1 DEF IInv, ScriptInv, ControlOK
<1>7. /\ mem \in [Scripts -> Memory(latest, Len(games))]
      /\ mem[s] \in Memory(latest, Len(games)) /\ mem[s].out <= fin
  BY <1>1 DEF IInv, ScriptInv, MemoryOK, MemoryAt
<1>8. mem[s].out \in Nat /\ mem[s].k \in Nat /\ mem[s].gi \in Nat
  BY <1>2, <1>3, <1>7 DEF Memory
<1>9. Wd(s) \in Withdrawals /\ Kind(s) \in Kinds
  BY <1>1, WdType DEF IInv, ScriptInv
<1>10. QED
  BY <1>1, <1>2, <1>3, <1>4, <1>5, <1>6, <1>7, <1>8, <1>9

\* Where a script that stays in its phase is next.
LEMMA LaneAdvance ==
  ASSUME NEW s, LaneCtx(s), NEW label, Advance(s, label), UNCHANGED <<prog, ph>>
  PROVE  /\ pc'[s] = label /\ since'[s] = (IF label \in Waits THEN now ELSE 0)
         /\ why'[s] = why[s]
         /\ Kind(s)' = Kind(s) /\ Wd(s)' = Wd(s) /\ Honest(s)' = Honest(s)
<1>1. Kind(s)' = Kind(s) /\ Wd(s)' = Wd(s) /\ Honest(s)' = Honest(s)
  BY DEF Kind, Wd, Phase, Honest
<1>2. s \notin Slow /\ s \in Scripts
  BY DEF LaneCtx
<1>3. QED
  BY <1>1, <1>2, LaneTypes DEF Advance

\* A script that stops, for a reason a lane may have.
LEMMA LaneExit ==
  ASSUME NEW s, LaneCtx(s), NEW reason,
         \/ reason = "not_anchored"
         \/ reason = "not_finalized" /\ Honest(s)
         \/ reason = "not_credited" /\ Kind(s) = "claim"
         \/ reason = "no_funds" /\ (Kind(s) = "claim" => mem[s].bal < Ether),
         Exit(s, reason), UNCHANGED <<bridgeVars, l2Vars, prog, ph>>
  PROVE  LaneInv(s)'
<1>1. pc'[s] = "exit" /\ since'[s] = 0 /\ why'[s] = reason /\ mem'[s].bal = mem[s].bal
  BY LaneTypes DEF Exit, Blank, Memory
<1>2. Kind(s)' = Kind(s) /\ Wd(s)' = Wd(s) /\ Honest(s)' = Honest(s)
  BY DEF Kind, Wd, Phase, Honest
<1>3. pc'[s] \notin Unsent \cup Unposted \cup Posted \cup Started \cup Recovering \cup Matched
                    \cup Ended
  BY <1>1 DEF Unsent, Unposted, Posted, Started, Recovering, Matched, InGame, Ended
<1>4. /\ UNCHANGED <<now, games, proven, finalized, anchor, latest, fin, wdBlock>>
  BY DEF bridgeVars, l2Vars
<1>5. LabelOK(s)'
  BY <1>1, <1>3 DEF LabelOK
<1>6. Untouched(s)'
  BY <1>1, <1>3, <1>4 DEF Untouched, LaneCtx, LaneInv
<1>7. HeadOK'
  BY <1>4 DEF HeadOK, LaneCtx, LaneInv
<1>8. Newest(s)'
  BY <1>2, <1>3, <1>4 DEF Newest, LaneCtx, LaneInv
<1>9. GameOK(s)'
  BY <1>1, <1>3 DEF GameOK
<1>10. Timely(s)'
  BY <1>1, <1>3, <1>4, LaneTypes DEF Timely, LaneCtx, LaneInv
<1>11. Simulated(s)'
  BY <1>1, <1>3 DEF Simulated
<1>12. Expected(s)'
  BY <1>1, <1>2 DEF Expected
<1>13. QED
  BY <1>5, <1>6, <1>7, <1>8, <1>9, <1>10, <1>11, <1>12 DEF LaneInv

\* Where the next phase begins.
LEMMA NextPhase ==
  ASSUME NEW s, LaneCtx(s), EndPhase(s), UNCHANGED prog
  PROVE  LET n == ph[s] IN
         /\ \/ n = Len(prog[s]) /\ pc'[s] = "done" /\ ph'[s] = n
            \/ /\ n + 1 \in 1..Len(prog[s]) /\ ph'[s] = n + 1
               /\ pc'[s] = First(prog[s][n + 1].kind)
         /\ pc'[s] \in {"done", "fund", "initiate", "output"}
         /\ pc'[s] = "fund" => Kind(s)' = "claim"
         /\ pc'[s] = "initiate" => Kind(s)' = "abandoned"
         /\ pc'[s] = "output" => Kind(s)' = "dishonest"
<1> DEFINE q == prog[s]
           n == ph[s]
<1>1. n \in 1..Len(q) /\ n \in Nat /\ Len(q) \in Nat /\ s \in Scripts
  BY LaneTypes
<1>2. \/ n = Len(q) /\ pc'[s] = "done" /\ ph'[s] = n
      \/ n + 1 \in 1..Len(q) /\ pc'[s] = First(q[n + 1].kind) /\ ph'[s] = n + 1
  <2>1. CASE n = Len(q)
    BY <2>1, LaneTypes DEF EndPhase, Advance
  <2>2. CASE n # Len(q)
    <3>1. /\ pc' = [pc EXCEPT ![s] = First(q[n + 1].kind)]
          /\ ph' = [ph EXCEPT ![s] = n + 1]
      BY <2>2 DEF EndPhase, Advance
    <3>2. n + 1 \in 1..Len(q)
      BY <1>1, <2>2
    <3>3. QED
      BY <1>1, <3>1, <3>2, LaneTypes
  <2>3. QED
    BY <2>1, <2>2
<1>3. \A j \in 1..Len(q) : q[j].kind \in Kinds
  BY <1>1, PhaseType DEF LaneCtx, IInv, ScriptInv
<1>4. Kind(s)' = q[ph'[s]].kind
  BY DEF Kind, Phase
<1>5. pc'[s] = "done" \/ (pc'[s] = First(Kind(s)') /\ Kind(s)' \in Kinds)
  BY <1>2, <1>3, <1>4
<1>6. QED
  BY <1>2, <1>5 DEF First, Kinds

\* What later phases need of the one that ends.
LEMMA LaneEndPhase ==
  ASSUME NEW s, LaneCtx(s), EndPhase(s), pc[s] \in {"check", "fin_send", "sendoff"},
         UNCHANGED <<now, proven, fin, wdBlock, prog>>,
         finalized' \subseteq finalized \cup {Wd(s)}, anchor' <= fin,
         Len(games') = Len(games),
         \A i \in 1..Len(games) :
           games'[i].root = games[i].root /\ games'[i].block = games[i].block
  PROVE  LaneInv(s)'
<1> DEFINE q == prog[s]
           n == ph[s]
<1>1. UNCHANGED <<now, proven, fin, wdBlock, prog>> /\ prog'[s] = q
  OBVIOUS
<1>2. /\ LabelOK(s) /\ Untouched(s) /\ HeadOK /\ Newest(s)
      /\ GameOK(s) /\ Timely(s) /\ Simulated(s) /\ Expected(s)
      /\ LaneShape(q) /\ s \notin Slow /\ s \in Scripts
  BY DEF LaneCtx, LaneInv
<1>3. pc[s] \in Posted \cup Ended /\ pc[s] \in Started \cup Ended
  BY DEF Posted, InGame, Started, Labels, Waits, Sends, Ended
<1>4. n \in 1..Len(q) /\ n \in Nat /\ Len(q) \in Nat
  BY LaneTypes
<1>5. mem'[s] = Blank /\ why' = why /\ since'[s] \in {0, now}
  BY <1>2, LaneTypes DEF EndPhase, Advance
<1>6. \/ n = Len(q) /\ pc'[s] = "done" /\ ph'[s] = n
      \/ n + 1 \in 1..Len(q) /\ pc'[s] = First(q[n + 1].kind) /\ ph'[s] = n + 1
  BY NextPhase
<1>7. \A j \in 1..Len(q) : q[j].kind \in Kinds /\ q[j].wd \in Withdrawals
  BY <1>2, PhaseType DEF LaneCtx, IInv, ScriptInv
<1>8. Kind(s)' = q[ph'[s]].kind /\ Wd(s)' = q[ph'[s]].wd /\ Wd(s) = q[n].wd /\ Kind(s) = q[n].kind
  BY <1>1 DEF Kind, Wd, Phase
<1>10. /\ pc'[s] \in {"done", "fund", "initiate", "output"}
       /\ pc'[s] = "fund" => Kind(s)' = "claim"
       /\ pc'[s] = "initiate" => Kind(s)' = "abandoned"
       /\ pc'[s] = "output" => Kind(s)' = "dishonest"
  BY NextPhase
<1> HIDE DEF q, n
<1>11. pc'[s] \notin Posted \cup Started \cup Recovering \cup Matched \cup Ended
  BY <1>10 DEF Posted, Started, Recovering, Matched, InGame, Ended
<1>12. LabelOK(s)'
  BY <1>10, <1>11 DEF LabelOK, Honest, Unsent
<1>13. Untouched(s)'
  <2>1. ASSUME NEW j \in 1..Len(q), q[j].kind # "dishonest", j > n
        PROVE  wdBlock[q[j].wd] = 0 /\ q[j].wd \notin finalized'
    <3>1. wdBlock[q[j].wd] = 0 /\ q[j].wd \notin finalized
      BY <1>2, <2>1 DEF Untouched, n, q
    <3>2. n \in 1..j - 1
      BY <1>4, <2>1
    <3>3. q[n].wd # q[j].wd
      BY <1>2, <2>1, <3>2 DEF LaneShape
    <3>4. QED
      BY <1>8, <3>1, <3>3
  <2>2. ASSUME NEW j \in 1..Len(q),
               j > ph'[s] \/ (j = ph'[s] /\ pc'[s] \in Unsent)
        PROVE  j > n
    <3>1. pc'[s] \in Unsent => ph'[s] = n + 1
      BY <1>6 DEF Unsent
    <3>2. QED
      BY <1>4, <1>6, <2>2, <3>1
  <2>3. ~(Honest(s)' /\ pc'[s] \in Unposted \cup (Posted \ Recovering))
    BY <1>10, <1>11 DEF Honest, Unposted
  <2>4. QED
    BY <1>1, <2>1, <2>2, <2>3 DEF Untouched
<1>14. HeadOK'
  BY <1>1, <1>2 DEF HeadOK
<1>15. Newest(s)'
  <2>1. CASE Kind(s)' = "dishonest"
    <3>1. CASE pc'[s] = "done"
      <4>0. n + 1 \in 1..Len(q) => First(q[n + 1].kind) # "done"
        BY <1>7 DEF First, Kinds
      <4>1. Kind(s)' = Kind(s) /\ Wd(s)' = Wd(s)
        BY <1>6, <1>8, <3>1, <4>0
      <4>2. QED
        BY <1>1, <1>2, <1>11, <2>1, <3>1, <4>1 DEF Newest, Honest, Unposted
    <3>2. CASE pc'[s] # "done"
      <4>1. n + 1 \in 1..Len(q) /\ ph'[s] = n + 1
        BY <1>6, <3>2
      <4>2. (n + 1) - 1 = n
        BY <1>4
      <4>3. q[n].kind # "dishonest" /\ q[n + 1].wd = q[n].wd
        BY <1>2, <1>8, <2>1, <4>1, <4>2 DEF LaneShape
      <4>4. Wd(s)' = Wd(s) /\ Honest(s)
        BY <1>8, <4>1, <4>3 DEF Honest
      <4> DEFINE w == wdBlock[Wd(s)]
      <4>5. /\ w > 0 /\ \A v \in Withdrawals : wdBlock[v] <= w
            /\ w <= mem[s].out
            /\ \A i \in 1..Len(games) : games[i].root = FakeRoot => games[i].block <= w
        BY <1>2, <1>3, <4>4 DEF Newest
      <4>6. w <= fin
        BY <4>5, LaneTypes
      <4>7. wdBlock'[Wd(s)'] = w /\ fin' = fin
        BY <1>1, <4>4
      <4>8. ~Honest(s)' /\ pc'[s] \notin Started \cup Posted \cup Ended
        BY <1>11, <2>1 DEF Honest
      <4> HIDE DEF w
      <4>9. \A i \in 1..Len(games') : games'[i].root = FakeRoot => games'[i].block <= w
        BY <4>5
      <4>10. QED
        BY <1>1, <4>5, <4>6, <4>7, <4>8, <4>9 DEF Newest
    <3>3. QED
      BY <3>1, <3>2
  <2>2. CASE Kind(s)' # "dishonest"
    <3>1. pc'[s] \notin Unposted \cup Posted \cup Started \cup Ended /\ Honest(s)'
      BY <1>10, <1>11, <2>2 DEF Unposted, Honest
    <3>2. QED
      BY <3>1 DEF Newest
  <2>3. QED
    BY <2>1, <2>2
<1>16. GameOK(s)'
  <2>1. mem'[s].k = 0
    BY <1>5 DEF Blank
  <2>2. pc'[s] \notin {"done", "exit"} => ResolvedCount(Kind(s)', pc'[s], mem'[s].k)
    BY <1>10, <2>1 DEF ResolvedCount, Counting, Ruled, Recovering
  <2>3. QED
    BY <1>11, <2>2 DEF GameOK
<1>17. Timely(s)'
  <2>1. now' > 0 /\ since'[s] <= now' /\ \A w \in Withdrawals : proven'[w].at <= now'
    BY <1>1, <1>2, <1>5, LaneTypes DEF Timely
  <2>2. QED
    BY <1>10, <1>11, <2>1 DEF Timely
<1>18. Simulated(s)'
  BY <1>10, <1>11 DEF Simulated
<1>19. Expected(s)'
  BY <1>2, <1>5 DEF Expected
<1>20. QED
  BY <1>12, <1>13, <1>14, <1>15, <1>16, <1>17, <1>18, <1>19 DEF LaneInv

-----------------------------------------------------------------------------
(* What a lane's gates need, and when they have it *)

\* The phase's game, once there is one.
LEMMA LaneGame ==
  ASSUME NEW s, LaneCtx(s), pc[s] \in Posted
  PROVE  LET g == games[Len(games)]
             n == Size(Kind(s), pc[s])
         IN /\ g \in Games /\ n \in 1..3 /\ n <= TreeSize(Kind(s)) /\ TreeSize(Kind(s)) \in 1..3
            /\ Len(games) \in 1..Len(games) /\ (pc[s] # "index" => Game(s) = g)
            /\ g.root = Root(s) /\ Chain(g, n) /\ Settling(g, n, mem[s].k)
            /\ Ledger(g, n, mem[s].k) /\ Len(g.claims) = n
            /\ g.status = IF pc[s] \in Ruled THEN Verdict(Kind(s)) ELSE "IN_PROGRESS"
            /\ \A i \in 1..n : g.claims[i].at <= now /\ g.claims[i].at \in Nat
            /\ g.created \in Nat /\ g.resolvedAt \in Nat /\ g.unlockedAt["proposer"] \in Nat
            /\ g.credit["proposer"] \in Nat /\ g.block \in Nat /\ g.root \in Nat
            /\ pc[s] \notin {"pay", "pay_send"} => g.unlockedAt["proposer"] = 0
<1> DEFINE g == games[Len(games)]
           n == Size(Kind(s), pc[s])
<1>1. GameOK(s) /\ Timely(s) /\ LabelOK(s)
  BY DEF LaneCtx, LaneInv
<1>2. Len(games) \in 1..Len(games) /\ g \in Games
  BY <1>1, LaneTypes, ElementLemma DEF GameOK
<1>3. n \in 1..3 /\ n <= TreeSize(Kind(s)) /\ TreeSize(Kind(s)) \in 1..3
  <2>1. TreeSize(Kind(s)) \in 1..3
    BY LaneTypes DEF Kinds, TreeSize
  <2>2. pc[s] = "rebut" => TreeSize(Kind(s)) = 3
    BY <1>1 DEF LabelOK, TreeSize
  <2>3. QED
    BY <2>1, <2>2 DEF Size
<1>4. pc[s] # "index" => Game(s) = g
  BY <1>1 DEF GameOK, Game
<1>5. Chain(g, n) /\ g.claims \in Seq(Claims)
  BY <1>1, <1>2 DEF GameOK, Games
<1>6. Len(g.claims) = n
  BY <1>5 DEF Chain
<1>7. \A i \in 1..n : g.claims[i].at <= now /\ g.claims[i].at \in Nat
  <2>1. \A i \in 1..n : g.claims[i] \in Claims
    BY <1>5, <1>6, ElementLemma
  <2>2. \A i \in 1..n : g.claims[i].at \in Nat
    BY <2>1 DEF Claims
  <2>3. QED
    BY <1>1, <1>6, <2>2 DEF Timely
<1>8. /\ g.created \in Nat /\ g.resolvedAt \in Nat /\ g.unlockedAt["proposer"] \in Nat
      /\ g.credit["proposer"] \in Nat /\ g.block \in Nat /\ g.root \in Nat
  BY <1>2 DEF Games, Actors
<1> HIDE DEF g, n
<1>9. /\ g.root = Root(s) /\ Settling(g, n, mem[s].k) /\ Ledger(g, n, mem[s].k)
      /\ g.status = IF pc[s] \in Ruled THEN Verdict(Kind(s)) ELSE "IN_PROGRESS"
      /\ pc[s] \notin {"pay", "pay_send"} => g.unlockedAt["proposer"] = 0
  BY <1>1 DEF GameOK, g, n
<1>10. QED
  BY <1>2, <1>3, <1>4, <1>5, <1>6, <1>7, <1>8, <1>9 DEF g, n

\* Every withdrawal sent so far is in the output a phase claims and in its proof.
LEMMA LaneStorage ==
  ASSUME NEW s, LaneCtx(s), pc[s] \in Started
  PROVE  /\ Wd(s) \in Storage(mem[s].out) /\ Storage(latest) = Storage(mem[s].out)
         /\ pc[s] # "header" => Storage(mem[s].hdr) = Storage(mem[s].out)
<1> DEFINE w == wdBlock[Wd(s)]
<1>1. pc[s] \in Unposted \cup Posted
  BY DEF Started, Unposted, Posted, InGame, Labels, Waits, Sends
<1>2. /\ w > 0 /\ w <= mem[s].out /\ (pc[s] # "header" => w <= mem[s].hdr)
      /\ \A v \in Withdrawals : wdBlock[v] <= w
  BY <1>1 DEF LaneCtx, LaneInv, Newest
<1>3. mem[s].hdr \in Nat
  BY LaneTypes DEF Memory
<1>4. ASSUME NEW b \in Nat, w <= b
      PROVE  Storage(b) = {v \in Withdrawals : wdBlock[v] > 0}
  <2>1. ASSUME NEW v \in Withdrawals
        PROVE  wdBlock[v] \in 1..b <=> wdBlock[v] > 0
    <3>1. wdBlock[v] \in Nat /\ w \in Nat /\ wdBlock[v] <= w
      BY <1>2, LaneTypes
    <3> HIDE DEF w
    <3>2. QED
      BY <1>4, <3>1
  <2>2. QED
    BY <2>1 DEF Storage
<1>5. w <= latest /\ w \in Nat
  BY LaneTypes
<1>6. Wd(s) \in {v \in Withdrawals : wdBlock[v] > 0}
  BY <1>2, LaneTypes
<1> HIDE DEF w
<1>7. QED
  BY <1>2, <1>3, <1>4, <1>5, <1>6, LaneTypes

LEMMA CreateGate ==
  ASSUME NEW s, LaneCtx(s), pc[s] = "create"
  PROVE  CanCreate(Root(s), ClaimedBlock(s))
<1> DEFINE w == wdBlock[Wd(s)]
<1>1. Newest(s) /\ HeadOK
  BY DEF LaneCtx, LaneInv
<1>2. pc[s] \in Unposted /\ pc[s] \in Started
  BY DEF Unposted, Started, Labels, Sends
<1>3. /\ w <= mem[s].out /\ anchor <= mem[s].out /\ w > 0
      /\ \A i \in 1..Len(games) : games[i].root = FakeRoot => games[i].block <= w
      /\ Honest(s) => anchor < w /\ \A i \in 1..Len(games) : games[i].root < w
  BY <1>1, <1>2 DEF Newest
<1>4. w \in Nat /\ mem[s].out \in Nat /\ anchor \in Nat
  BY LaneTypes
<1>5. \A i \in 1..Len(games) : games[i].root \in Nat /\ games[i].block \in Nat
  <2>1. \A i \in 1..Len(games) : games[i] \in Games
    BY LaneTypes, ElementLemma
  <2>2. QED
    BY <2>1 DEF Games
<1> HIDE DEF w
<1>6. CASE Honest(s)
  <2>1. Root(s) = mem[s].out /\ ClaimedBlock(s) = mem[s].out
    BY <1>6 DEF Honest, Root, ClaimedBlock
  <2>2. \A i \in 1..Len(games) : games[i].root # mem[s].out
    BY <1>3, <1>4, <1>5, <1>6
  <2>3. QED
    BY <1>3, <1>4, <1>6, <2>1, <2>2 DEF CanCreate
<1>7. CASE ~Honest(s)
  <2>1. Root(s) = FakeRoot /\ ClaimedBlock(s) = mem[s].out + 1
    BY <1>7 DEF Honest, Root, ClaimedBlock
  <2>2. \A i \in 1..Len(games) : games[i].root = FakeRoot => games[i].block # mem[s].out + 1
    BY <1>3, <1>4, <1>5
  <2>3. QED
    BY <1>3, <1>4, <2>1, <2>2 DEF CanCreate
<1>8. QED
  BY <1>6, <1>7

LEMMA ProveGate ==
  ASSUME NEW s, LaneCtx(s), pc[s] = "prove", now > games[Len(games)].created
  PROVE  Gate(s)
<1>1. pc[s] \in Posted /\ pc[s] \in Started /\ pc[s] \notin Ruled
  BY DEF Posted, InGame, Started, Labels, Waits, Ruled, Recovering
<1>2. Honest(s)
  BY DEF LaneCtx, LaneInv, LabelOK
<1>3. CanProve(Game(s), mem[s].out)
  BY <1>1, <1>2, LaneGame DEF CanProve, PastCreation, RootMatches, Root, Honest
<1>4. QED
  BY <1>1, <1>3, LaneStorage DEF Gate

LEMMA AttackGate ==
  ASSUME NEW s, LaneCtx(s), pc[s] \in {"attack", "rebut"}
  PROVE  Gate(s)
<1> DEFINE g == games[Len(games)]
           i == IF pc[s] = "attack" THEN 1 ELSE 2
<1>1. pc[s] \in Posted /\ pc[s] \notin Ruled
  BY DEF Posted, InGame, Ruled, Recovering
<1>2. Size(Kind(s), pc[s]) = i /\ i \in 1..2
  BY DEF Size, Single
<1>3. /\ g \in Games /\ Game(s) = g /\ g.root = Root(s) /\ Chain(g, i) /\ Len(g.claims) = i
      /\ g.status = "IN_PROGRESS" /\ g.created \in Nat
      /\ \A j \in 1..i : g.claims[j].at <= now /\ g.claims[j].at \in Nat
  BY <1>1, <1>2, LaneGame
<1>4. IF i = 1 THEN now = g.created + 1 ELSE now = g.claims[2].at
  BY DEF LaneCtx, LaneInv, Timely
<1>5. now \in Nat /\ MaxClock > 1 /\ MaxClock \in Nat
  BY LaneTypes, DelayAssumption DEF LaneCtx, RoomyBudgets
<1> HIDE DEF g
<1>6. ChallengeClock(g, i) < MaxClock
  <2> DEFINE before == IF i = 1 THEN 0 ELSE g.claims[i - 1].used
             spent == before + (now - g.claims[i].at)
  <2>1. ChallengeClock(g, i) = IF spent > MaxClock THEN MaxClock ELSE spent
    BY <1>2, <1>3, <1>5, ChainClock
  <2>2. spent \in 0..1
    <3>1. CASE i = 1
      <4>1. g.claims[1].at = g.created
        BY <1>3, <3>1 DEF Chain
      <4>2. QED
        BY <1>3, <1>4, <1>5, <3>1, <4>1
    <3>2. CASE i = 2
      <4>1. g.claims[1].used = 0
        BY <1>3, <3>2 DEF Chain
      <4>2. g.claims[2].at \in Nat
        BY <1>3, <3>2
      <4>3. QED
        BY <1>4, <1>5, <3>2, <4>1, <4>2
    <3>3. QED
      BY <1>2, <3>1, <3>2
  <2> HIDE DEF spent
  <2>3. QED
    BY <1>5, <2>1, <2>2
<1>7. Children(g, i) = {}
  <2>1. \A j \in 1..i : g.claims[j].parent # i
    BY <1>2, <1>3 DEF Chain
  <2>2. QED
    BY <1>3, <2>1 DEF Children
<1>8. CanAttack(g, i, Root(s))
  BY <1>2, <1>3, <1>6, <1>7 DEF CanAttack
<1>9. QED
  BY <1>3, <1>8 DEF Gate

\* The order of resolution is bottom-up.
LEMMA NextIsLast ==
  ASSUME NEW s, LaneCtx(s), mem[s].k < TreeSize(Kind(s))
  PROVE  /\ ResolveNext(s) = TreeSize(Kind(s)) - mem[s].k
         /\ Len(Order(Kind(s))) = TreeSize(Kind(s))
<1>1. Kind(s) \in Kinds /\ mem[s].k \in Nat
  BY LaneTypes
<1> DEFINE k == mem[s].k
<1>2. ResolveNext(s) = Order(Kind(s))[k + 1] /\ k \in Nat
  BY <1>1 DEF ResolveNext
<1> HIDE DEF k
<1>3. k < TreeSize(Kind(s))
  BY DEF k
<1>4. CASE Kind(s) = "claim"
  <2>1. Order(Kind(s)) = <<1>> /\ TreeSize(Kind(s)) = 1 /\ k = 0
    BY <1>2, <1>3, <1>4 DEF Order, TreeSize
  <2>2. QED
    BY <1>2, <2>1 DEF k
<1>5. CASE Kind(s) = "abandoned"
  <2>1. Order(Kind(s)) = <<3, 2, 1>> /\ TreeSize(Kind(s)) = 3
    BY <1>5 DEF Order, TreeSize
  <2>2. k = 0 \/ k = 1 \/ k = 2
    BY <1>2, <1>3, <2>1
  <2>3. <<3, 2, 1>>[k + 1] = 3 - k
    BY <2>2
  <2>4. QED
    BY <1>2, <2>1, <2>3 DEF k
<1>6. CASE Kind(s) = "dishonest"
  <2>1. Order(Kind(s)) = <<2, 1>> /\ TreeSize(Kind(s)) = 2
    BY <1>6 DEF Order, TreeSize
  <2>2. k = 0 \/ k = 1
    BY <1>2, <1>3, <2>1
  <2>3. <<2, 1>>[k + 1] = 2 - k
    BY <2>2
  <2>4. QED
    BY <1>2, <2>1, <2>3 DEF k
<1>7. QED
  BY <1>1, <1>4, <1>5, <1>6 DEF Kinds

LEMMA ClockGate ==
  ASSUME NEW s, LaneCtx(s), pc[s] = "clock", now >= since[s] + MaxClock
  PROVE  Gate(s)
<1> DEFINE g == games[Len(games)]
           n == TreeSize(Kind(s))
           k == mem[s].k
           i == n - k
<1>1. pc[s] \in Posted /\ pc[s] \notin Ruled /\ Size(Kind(s), pc[s]) = n
  BY DEF Posted, InGame, Ruled, Recovering, Size, Single
<1>2. /\ g \in Games /\ Game(s) = g /\ Chain(g, n) /\ Settling(g, n, k) /\ Len(g.claims) = n
      /\ g.status = "IN_PROGRESS" /\ n \in 1..3
      /\ \A j \in 1..n : g.claims[j].at <= now /\ g.claims[j].at \in Nat
  BY <1>1, LaneGame
<1>3. k < n /\ k \in Nat
  BY LaneTypes DEF LaneCtx, LaneInv, GameOK, ResolvedCount, Counting, Ended
<1>4. \A j \in 1..n : g.claims[j].at <= since[s]
  BY <1>2 DEF LaneCtx, LaneInv, Timely
<1>5. now \in Nat /\ since[s] \in Nat /\ MaxClock \in Nat
  BY LaneTypes, DelayAssumption
<1>6. ResolveNext(s) = i
  BY <1>3, NextIsLast
<1> HIDE DEF g, n, k
<1>7. i \in 1..n /\ i \in Nat
  BY <1>2, <1>3
<1>8. ChallengeClock(g, i) = MaxClock
  <2> DEFINE before == IF i = 1 THEN 0 ELSE g.claims[i - 1].used
             spent == before + (now - g.claims[i].at)
  <2>1. /\ ChallengeClock(g, i) = IF spent > MaxClock THEN MaxClock ELSE spent
        /\ before \in Nat /\ g.claims[i].at \in Nat
    BY <1>2, <1>5, <1>7, ChainClock
  <2>2. g.claims[i].at <= since[s]
    BY <1>4, <1>7
  <2> HIDE DEF before, i
  <2>3. spent \in Nat /\ spent >= MaxClock
    BY <1>5, <2>1, <2>2
  <2> HIDE DEF spent
  <2>4. QED
    BY <1>5, <2>1, <2>3
<1>9. ~g.claims[i].resolved
  BY <1>2, <1>7 DEF Settling
<1>10. \A j \in Children(g, i) : g.claims[j].resolved
  <2>1. ASSUME NEW j \in Children(g, i)
        PROVE  g.claims[j].resolved
    <3>1. j \in 1..n /\ j - 1 = i
      BY <1>2, <2>1 DEF Children, Chain
    <3>2. QED
      BY <1>2, <1>3, <3>1 DEF Settling
  <2>2. QED
    BY <2>1
<1>11. CanResolveClaim(g, i)
  BY <1>2, <1>7, <1>8, <1>9, <1>10 DEF CanResolveClaim
<1>12. QED
  BY <1>2, <1>6, <1>11 DEF Gate

LEMMA ResolveGate ==
  ASSUME NEW s, LaneCtx(s), pc[s] = "resolve_send"
  PROVE  Gate(s)
<1> DEFINE n == TreeSize(Kind(s))
<1>1. pc[s] \in Posted /\ pc[s] \notin Ruled /\ Size(Kind(s), pc[s]) = n
  BY DEF Posted, InGame, Ruled, Recovering, Size, Single
<1>2. mem[s].k = n
  BY DEF LaneCtx, LaneInv, GameOK, ResolvedCount, Ruled, Recovering, Counting, Ended
<1>3. Settling(Game(s), n, n) /\ n \in 1..3 /\ Game(s).status = "IN_PROGRESS"
  BY <1>1, <1>2, LaneGame
<1>4. Game(s).claims[1].resolved
  <2>1. 1 \in 1..n /\ 1 > n - n
    BY <1>3
  <2>2. QED
    BY <1>3, <2>1 DEF Settling
<1>5. QED
  BY <1>3, <1>4 DEF Gate, CanResolve

LEMMA FinalizeGate ==
  ASSUME NEW s, LaneCtx(s), pc[s] = "fin",
         now > since[s] + ProofMaturity, now > since[s] + FinalityDelay
  PROVE  Gate(s)
<1> DEFINE g == games[Len(games)]
<1>1. pc[s] \in Posted /\ pc[s] \in Ruled /\ pc[s] \in Matched /\ Honest(s)
      /\ pc[s] \in Unposted \cup (Posted \ Recovering)
  BY DEF Posted, InGame, Ruled, Matched, Recovering, LaneCtx, LaneInv, LabelOK
<1>2. Game(s) = g /\ g.status = "DEFENDER_WINS" /\ g.resolvedAt \in Nat
  BY <1>1, LaneGame DEF Verdict, Honest
<1>3. Wd(s) \notin finalized
  BY <1>1 DEF LaneCtx, LaneInv, Untouched
<1>4. proven[Wd(s)].game = mem[s].gi /\ mem[s].gi = Len(games) /\ Len(games) > 0
  BY <1>1 DEF LaneCtx, LaneInv, Simulated, GameOK
<1>5. g.resolvedAt <= since[s] /\ proven[Wd(s)].at <= since[s]
  BY DEF LaneCtx, LaneInv, Timely
<1>6. /\ now \in Nat /\ since[s] \in Nat /\ ProofMaturity \in Nat /\ FinalityDelay \in Nat
      /\ proven[Wd(s)].at \in Nat
  BY LaneTypes, DelayAssumption
<1> HIDE DEF g
<1>7. now - proven[Wd(s)].at > ProofMaturity /\ now - g.resolvedAt > FinalityDelay
  BY <1>2, <1>5, <1>6
<1>8. Settled(g)
  BY <1>2, <1>7 DEF Settled
<1>9. CanFinalize(Wd(s))
  BY <1>2, <1>3, <1>4, <1>7, <1>8, LaneTypes DEF CanFinalize, Game
<1>10. QED
  BY <1>9 DEF Gate

LEMMA UnlockGate ==
  ASSUME NEW s, LaneCtx(s), pc[s] = "unlock_send"
  PROVE  Gate(s)
<1>1. pc[s] \in Posted
  BY DEF Posted, InGame
<1>2. Game(s) = games[Len(games)] /\ Game(s).unlockedAt["proposer"] = 0
  BY <1>1, LaneGame
<1>3. Settled(Game(s))
  BY <1>2 DEF LaneCtx, LaneInv, Timely
<1>4. QED
  BY <1>2, <1>3 DEF Gate, CanClaimCredit

LEMMA PayGate ==
  ASSUME NEW s, LaneCtx(s), pc[s] = "pay", now >= since[s] + UnlockDelay
  PROVE  Gate(s)
<1> DEFINE g == games[Len(games)]
<1>1. pc[s] \in Posted /\ Size(Kind(s), pc[s]) = TreeSize(Kind(s)) /\ Kind(s) = "claim"
  BY DEF Posted, InGame, Size, Single, LaneCtx, LaneInv, LabelOK, Recovering
<1>2. TreeSize(Kind(s)) = 1 /\ mem[s].k = 1
  BY <1>1 DEF LaneCtx, LaneInv, GameOK, ResolvedCount, Ruled, Recovering, Counting, TreeSize, Ended
<1>3. Game(s) = g /\ Ledger(g, 1, 1) /\ g.unlockedAt["proposer"] \in Nat
  BY <1>1, <1>2, LaneGame
<1>4. g.credit["proposer"] > 0
  BY <1>3, BondAssumption DEF Ledger, Earned, Author, BondOf
<1>5. Settled(g) /\ g.unlockedAt["proposer"] \in 1..since[s]
  BY DEF LaneCtx, LaneInv, Timely
<1>6. now \in Nat /\ since[s] \in Nat /\ UnlockDelay \in Nat
  BY LaneTypes, DelayAssumption
<1> HIDE DEF g
<1>7. now >= g.unlockedAt["proposer"] + UnlockDelay
  BY <1>3, <1>5, <1>6
<1>8. QED
  BY <1>3, <1>4, <1>5, <1>7 DEF Gate, CanClaimCredit

\* No transaction of a lane reverts, and no wait of its on L1 outlasts its budget.
LEMMA NeverReverts ==
  ASSUME NEW s, LaneCtx(s), pc[s] \in Sends
  PROVE  Gate(s)
<1>1. pc[s] = "create" => Gate(s)
  BY CreateGate DEF Gate
<1>2. pc[s] \in {"prove_send", "clock_send", "fin_send", "pay_send"} => Gate(s)
  BY DEF LaneCtx, LaneInv, Simulated
<1>3. QED
  BY <1>1, <1>2, AttackGate, ResolveGate, UnlockGate DEF Sends

LEMMA NeverExpires ==
  ASSUME NEW s, LaneCtx(s), pc[s] \in (Gated \ {"credit"}) \cup {"oracle"}
  PROVE  ~Expired(s, Budget(pc[s])) /\ InTime(s, Budget(pc[s]))
<1>1. Timely(s) /\ s \notin Slow /\ RoomyBudgets
  BY DEF LaneCtx, LaneInv
<1>2. /\ now \in Nat /\ since[s] \in Nat
      /\ ProofMaturity \in Nat /\ FinalityDelay \in Nat /\ MaxClock \in Nat /\ UnlockDelay \in Nat
      /\ ProveBudget \in Nat /\ ClockBudget \in Nat /\ FinalizeBudget \in Nat /\ UnlockBudget \in Nat
  BY LaneTypes, DelayAssumption, BudgetAssumption
<1>3. Budget(pc[s]) \in Nat /\ now < since[s] + Budget(pc[s])
  <2>1. CASE pc[s] \in {"prove", "oracle"}
    <3>1. Budget(pc[s]) = ProveBudget /\ now <= since[s] + 1
      BY <1>1, <2>1 DEF Budget, Timely
    <3>2. QED
      BY <1>1, <1>2, <3>1 DEF RoomyBudgets
  <2>2. CASE pc[s] = "clock"
    <3>1. Budget(pc[s]) = ClockBudget /\ now <= since[s] + MaxClock
      BY <1>1, <2>2 DEF Budget, Timely
    <3>2. QED
      BY <1>1, <1>2, <3>1 DEF RoomyBudgets
  <2>3. CASE pc[s] = "fin"
    <3>1. /\ Budget(pc[s]) = FinalizeBudget
          /\ now <= since[s] + ProofMaturity + 1 \/ now <= since[s] + FinalityDelay + 1
      BY <1>1, <2>3 DEF Budget, Timely
    <3>2. QED
      BY <1>1, <1>2, <3>1 DEF RoomyBudgets
  <2>4. CASE pc[s] = "pay"
    <3>1. Budget(pc[s]) = UnlockBudget /\ now <= since[s] + UnlockDelay
      BY <1>1, <2>4 DEF Budget, Timely
    <3>2. QED
      BY <1>1, <1>2, <3>1 DEF RoomyBudgets
  <2>5. QED
    BY <2>1, <2>2, <2>3, <2>4 DEF Gated
<1>4. QED
  BY <1>1, <1>2, <1>3 DEF Expired, InTime

-----------------------------------------------------------------------------
(* Steps within a phase that has its game *)

\* What a step from one such label to another keeps.
LEMMA LaneStays ==
  ASSUME NEW s, LaneCtx(s), NEW label, Advance(s, label),
         UNCHANGED <<prog, ph, latest, fin, wdBlock>>,
         pc[s] \in Posted, label \in Posted,
         finalized' \subseteq finalized \cup {Wd(s)},
         label \in Recovering \/ (pc[s] \notin Recovering /\ finalized' = finalized),
         mem'[s].out = mem[s].out, mem'[s].hdr = mem[s].hdr, anchor' <= mem[s].out,
         Len(games') = Len(games),
         \A i \in 1..Len(games) :
           games'[i].root = games[i].root /\ games'[i].block = games[i].block
  PROVE  Untouched(s)' /\ HeadOK' /\ Newest(s)' /\ Expected(s)'
<1>1. /\ Untouched(s) /\ HeadOK /\ Newest(s) /\ Expected(s) /\ LaneShape(prog[s])
  BY DEF LaneCtx, LaneInv
<1>2. /\ pc'[s] = label /\ why'[s] = why[s]
      /\ Kind(s)' = Kind(s) /\ Wd(s)' = Wd(s) /\ Honest(s)' = Honest(s)
  BY LaneAdvance
<1>3. /\ label \notin Unsent \cup Unposted \cup {"exit", "header"}
      /\ pc[s] \notin Unsent \cup Unposted \cup {"exit", "header"}
      /\ label \in Started /\ pc[s] \in Started
  BY DEF Posted, InGame, Unsent, Unposted, Started, Labels, Waits, Sends
<1>4. Untouched(s)'
  <2>1. ASSUME NEW j \in 1..Len(prog[s]), prog[s][j].kind # "dishonest", j > ph[s]
        PROVE  wdBlock[prog[s][j].wd] = 0 /\ prog[s][j].wd \notin finalized'
    <3>1. wdBlock[prog[s][j].wd] = 0 /\ prog[s][j].wd \notin finalized
      BY <1>1, <2>1 DEF Untouched
    <3>2. ph[s] \in 1..j - 1
      BY <2>1, LaneTypes
    <3>3. prog[s][ph[s]].wd # prog[s][j].wd
      BY <1>1, <2>1, <3>2 DEF LaneShape
    <3>4. QED
      BY <3>1, <3>3 DEF Wd, Phase
  <2>2. Honest(s)' /\ label \notin Recovering => Wd(s)' \notin finalized'
    BY <1>1, <1>2 DEF Untouched
  <2>3. QED
    BY <1>2, <1>3, <2>1, <2>2 DEF Untouched
<1>5. HeadOK'
  <2>1. anchor' \in Nat
    BY DEF LaneCtx, IInv, BridgeInv, BridgeTypeOK
  <2>2. anchor' <= fin
    BY <2>1, LaneTypes
  <2>3. QED
    BY <1>1, <2>2 DEF HeadOK
<1>6. Newest(s)'
  BY <1>1, <1>2, <1>3 DEF Newest
<1>7. Expected(s)'
  BY <1>1, <1>2, <1>3 DEF Expected
<1>8. QED
  BY <1>4, <1>5, <1>6, <1>7

\* The phase's game after a step: h is the factory's last game.
LEMMA GameBecomes ==
  ASSUME NEW s, LaneCtx(s), NEW label \in Posted, Advance(s, label), UNCHANGED <<prog, ph>>,
         Len(games') \in Nat, Len(games') > 0, label # "index" => mem'[s].gi = Len(games'),
         ResolvedCount(Kind(s), label, mem'[s].k), mem'[s].out = mem[s].out,
         NEW h, games'[Len(games')] = h, h.root = Root(s),
         Chain(h, Size(Kind(s), label)), Settling(h, Size(Kind(s), label), mem'[s].k),
         Ledger(h, Size(Kind(s), label), mem'[s].k),
         h.status = IF label \in Ruled THEN Verdict(Kind(s)) ELSE "IN_PROGRESS",
         label \notin {"pay", "pay_send"} => h.unlockedAt["proposer"] = 0
  PROVE  GameOK(s)'
<1>1. pc'[s] = label /\ Kind(s)' = Kind(s)
  BY LaneAdvance
<1>2. Root(s)' = Root(s)
  BY <1>1 DEF Root
<1>3. QED
  BY <1>1, <1>2 DEF GameOK

LEMMA GameStays ==
  ASSUME NEW s, LaneCtx(s), NEW label \in Posted, Advance(s, label),
         UNCHANGED <<prog, ph, games>>, pc[s] \in Posted,
         mem'[s].k = mem[s].k, mem'[s].out = mem[s].out,
         mem'[s].gi = Len(games),
         ResolvedCount(Kind(s), label, mem[s].k),
         Size(Kind(s), label) = Size(Kind(s), pc[s]),
         label \in Ruled <=> pc[s] \in Ruled,
         label \in {"pay", "pay_send"} \/ pc[s] \notin {"pay", "pay_send"}
  PROVE  GameOK(s)'
<1>1. Len(games') \in Nat /\ Len(games') > 0
  BY LaneTypes DEF LaneCtx, LaneInv, GameOK
<1>2. QED
  BY <1>1, LaneGame, GameBecomes

\* A move in the phase's game.
LEMMA GameMoves ==
  ASSUME NEW s, LaneCtx(s), pc[s] \in Posted \ {"index"}, NEW h, UpdateGame(s, h),
         h.root = Game(s).root, h.block = Game(s).block
  PROVE  /\ Len(games') = Len(games) /\ Len(games') \in Nat /\ Len(games') > 0
         /\ games'[Len(games')] = h /\ mem[s].gi = Len(games')
         /\ \A i \in 1..Len(games) :
              games'[i].root = games[i].root /\ games'[i].block = games[i].block
<1>1. mem[s].gi = Len(games) /\ Len(games) \in 1..Len(games) /\ Len(games) \in Nat
  BY LaneTypes, LaneGame DEF LaneCtx, LaneInv, GameOK
<1>2. games' = [games EXCEPT ![Len(games)] = h] /\ Game(s) = games[Len(games)]
  BY <1>1 DEF UpdateGame, Game
<1>3. games \in Seq(Games)
  BY LaneTypes
<1>4. Len(games') = Len(games) /\ games'[Len(games)] = h
      /\ \A i \in 1..Len(games) : i # Len(games) => games'[i] = games[i]
  BY <1>1, <1>2, <1>3
<1>5. Len(games') \in Nat /\ Len(games') > 0 /\ games'[Len(games')] = h /\ mem[s].gi = Len(games')
  <2>1. Len(games) > 0
    BY <1>1
  <2>2. QED
    BY <1>1, <1>4, <2>1
<1>6. ASSUME NEW i \in 1..Len(games)
      PROVE  games'[i].root = games[i].root /\ games'[i].block = games[i].block
  <2>1. CASE i = Len(games)
    <3>1. games'[i] = h /\ Game(s) = games[i]
      BY <1>2, <1>4, <2>1
    <3>2. QED
      BY <3>1
  <2>2. CASE i # Len(games)
    <3>1. games'[i] = games[i]
      BY <1>4, <2>2
    <3>2. QED
      BY <3>1
  <2>3. QED
    BY <2>1, <2>2
<1>7. Len(games') = Len(games)
  BY <1>4
<1>8. QED
  BY <1>5, <1>6, <1>7

-----------------------------------------------------------------------------
(* Each step of the lane *)

\* What precedes the withdrawal: the portal and DEV1 get their funds, and nothing else
\* of the lane moves.
LEMMA LaneUnsent ==
  ASSUME NEW s, LaneCtx(s), pc[s] \in Unsent \ {"initiate"}, NEW label \in Unsent,
         Advance(s, label), mem'[s].k = mem[s].k,
         UNCHANGED <<now, games, proven, finalized, anchor, fin, wdBlock, prog, ph>>
  PROVE  LaneInv(s)'
<1>1. /\ LabelOK(s) /\ Untouched(s) /\ HeadOK /\ Newest(s)
      /\ GameOK(s) /\ Timely(s) /\ Expected(s)
  BY DEF LaneCtx, LaneInv
<1>2. /\ pc'[s] = label /\ since'[s] \in {0, now} /\ why'[s] = why[s]
      /\ Kind(s)' = Kind(s) /\ Wd(s)' = Wd(s) /\ Honest(s)' = Honest(s)
  BY LaneAdvance
<1>3. /\ label \notin Unposted \cup Posted \cup Started \cup Recovering \cup Ended
      /\ label \notin {"exit", "prove_send", "clock_send", "fin_send", "pay_send"}
      /\ label \notin Counting \cup Ruled \cup Matched \cup {"attack", "rebut"}
      /\ pc[s] \notin Counting \cup Ruled \cup Ended \cup {"done", "exit", "resolve_send"}
      /\ label # "resolve_send"
  BY DEF Unsent, Unposted, Posted, Started, Recovering, InGame, Ended, Counting, Ruled, Matched
<1>4. Kind(s) = "claim" /\ Honest(s)
  BY <1>1 DEF LabelOK, Honest
<1>5. LabelOK(s)'
  BY <1>2, <1>3, <1>4 DEF LabelOK, Unsent
<1>6. Untouched(s)'
  BY <1>1, <1>2, <1>3 DEF Untouched
<1>7. HeadOK' /\ Newest(s)'
  BY <1>1, <1>2, <1>3, <1>4 DEF HeadOK, Newest
<1>8. GameOK(s)'
  BY <1>1, <1>2, <1>3 DEF GameOK, ResolvedCount
<1>9. Timely(s)'
  <2>1. label \notin {"index", "prove", "oracle", "prove_send", "attack", "rebut", "clock",
                     "check", "fin", "unlock_send", "pay"}
    BY DEF Unsent
  <2>2. 0 <= now /\ now <= now
    BY LaneTypes
  <2>3. QED
    BY <1>1, <1>2, <1>3, <2>1, <2>2 DEF Timely
<1>10. Simulated(s)' /\ Expected(s)'
  BY <1>1, <1>2, <1>3 DEF Simulated, Expected
<1>11. QED
  BY <1>5, <1>6, <1>7, <1>8, <1>9, <1>10 DEF LaneInv

LEMMA LaneFunding ==
  ASSUME NEW s, LaneCtx(s),
         \/ Fund(s) \/ ReadL2Balance(s) \/ DepositHeadroom(s) \/ ReadL1Balance(s)
         \/ pc[s] = "credit" /\ Poll(s)
  PROVE  LaneInv(s)'
<1>1. /\ pc[s] \in Unsent \ {"initiate"} /\ mem'[s].k = mem[s].k
      /\ UNCHANGED <<now, games, proven, finalized, anchor, fin, wdBlock, prog, ph>>
  <2>1. mem \in [Scripts -> Memory(latest, Len(games))] /\ s \in Scripts
    BY LaneTypes
  <2>2. CASE Fund(s)
    BY <2>2 DEF Fund, Unsent, l2Vars
  <2>3. CASE ReadL2Balance(s)
    BY <2>1, <2>3 DEF ReadL2Balance, Unsent, Memory, bridgeVars, l2Vars
  <2>4. CASE DepositHeadroom(s)
    BY <2>4 DEF DepositHeadroom, Unsent
  <2>5. CASE ReadL1Balance(s)
    BY <2>1, <2>5 DEF ReadL1Balance, Unsent, Memory, bridgeVars, l2Vars
  <2>6. CASE pc[s] = "credit" /\ Poll(s)
    BY <2>6 DEF Poll, Unsent, bridgeVars, l2Vars
  <2>7. QED
    BY <2>2, <2>3, <2>4, <2>5, <2>6
<1>2. \E label \in Unsent : Advance(s, label)
  BY DEF Fund, ReadL2Balance, DepositHeadroom, ReadL1Balance, Poll, Unsent, Then
<1>3. QED
  BY <1>1, <1>2, LaneUnsent

\* DEV1 runs out of ETH before a claim's withdrawal only if it had too little at the start,
\* and never after it.
LEMMA LaneNoFunds ==
  ASSUME NEW s, LaneCtx(s), NoFunds(s)
  PROVE  LaneInv(s)'
<1>1. PICK gas \in L2Gas : funds < Value(pc[s]) + gas
  BY DEF NoFunds
<1>2. gas \in Nat /\ 2 * gas < Headroom /\ funds \in Nat /\ mem[s].bal \in Nat
  BY LaneTypes, BudgetAssumption DEF LaneCtx, RoomyBudgets, IInv, ChainsOK, Memory
<1>3. LabelOK(s) /\ FundsOK(s)
  BY DEF LaneCtx, LaneInv, MoneyInv
<1>4. Kind(s) = "claim" => mem[s].bal < Ether
  <2>1. SUFFICES ASSUME Kind(s) = "claim", mem[s].bal >= Ether PROVE FALSE
    BY <1>2 DEF Ether
  <2>2. CASE pc[s] = "initiate"
    <3>1. funds >= Ether + Headroom
      BY <1>3, <2>1, <2>2 DEF FundsOK
    <3>2. QED
      BY <1>1, <1>2, <2>2, <3>1 DEF Value, Ether, Headroom
  <2>3. CASE pc[s] = "sendoff"
    <3>1. 2 * funds > Headroom
      BY <1>3, <2>1, <2>3 DEF FundsOK, Ended
    <3>2. QED
      BY <1>1, <1>2, <2>3, <3>1 DEF Value, Headroom
  <2>4. QED
    BY <2>2, <2>3 DEF NoFunds
<1>5. QED
  BY <1>4, LaneExit DEF NoFunds

\* The withdrawal it sends is the newest: it is past the L2 head, and with it past
\* everything the factory and the registry hold.
LEMMA LaneInitiate ==
  ASSUME NEW s, LaneCtx(s), Initiate(s)
  PROVE  LaneInv(s)'
<1>1. /\ LabelOK(s) /\ Untouched(s) /\ HeadOK /\ LaneShape(prog[s])
      /\ GameOK(s) /\ Timely(s) /\ Expected(s)
  BY DEF LaneCtx, LaneInv
<1>2. /\ pc[s] = "initiate" /\ pc'[s] = "output" /\ since'[s] = now /\ why'[s] = why[s]
      /\ Kind(s)' = Kind(s) /\ Wd(s)' = Wd(s) /\ Honest(s)' = Honest(s)
      /\ UNCHANGED <<now, games, proven, finalized, anchor, fin, prog, ph, mem>>
  BY LaneAdvance DEF Initiate, Waits, bridgeVars, l2Vars
<1>3. /\ pc'[s] \notin Posted \cup Started \cup Recovering \cup Unsent \cup Ended
      /\ pc'[s] \in Unposted
  BY <1>2 DEF Unposted, Posted, Started, Recovering, InGame, Unsent, Ended
<1>4. Honest(s) /\ LabelOK(s)'
  BY <1>1, <1>2, <1>3 DEF LabelOK, Unsent
<1>5. wdBlock[Wd(s)] = 0 /\ Wd(s) \notin finalized
  <2>1. ph[s] \in 1..Len(prog[s]) /\ prog[s][ph[s]].kind # "dishonest"
    BY <1>4, LaneTypes DEF Honest, Kind, Phase
  <2>2. pc[s] \in Unsent /\ Wd(s) = prog[s][ph[s]].wd
    BY <1>2 DEF Unsent, Wd, Phase
  <2>3. QED
    BY <1>1, <2>1, <2>2 DEF Untouched
<1>6. wdBlock' = [wdBlock EXCEPT ![Wd(s)] = latest + 1]
  BY <1>5 DEF Initiate
<1>7. Untouched(s)'
  <2>1. ASSUME NEW j \in 1..Len(prog[s]), prog[s][j].kind # "dishonest", j > ph[s]
        PROVE  wdBlock'[prog[s][j].wd] = 0 /\ prog[s][j].wd \notin finalized
    <3>1. wdBlock[prog[s][j].wd] = 0 /\ prog[s][j].wd \notin finalized
      BY <1>1, <2>1 DEF Untouched
    <3>2. ph[s] \in 1..j - 1
      BY <2>1, LaneTypes
    <3>3. prog[s][ph[s]].wd # prog[s][j].wd
      BY <1>1, <2>1, <3>2 DEF LaneShape
    <3>4. prog[s][j].wd \in Withdrawals /\ prog[s][j].wd # Wd(s)
      BY <3>3, PhaseType DEF Wd, Phase, LaneCtx, IInv, ScriptInv
    <3>5. QED
      BY <1>6, <3>1, <3>4, LaneTypes
  <2>2. QED
    BY <1>2, <1>3, <1>5, <2>1 DEF Untouched
<1>8. HeadOK'
  BY <1>1, <1>2 DEF HeadOK
<1>9. Newest(s)'
  <2> DEFINE w == latest + 1
  <2>1. wdBlock'[Wd(s)] = w /\ w > 0
    BY <1>6, LaneTypes
  <2>2. \A v \in Withdrawals : wdBlock'[v] <= w
    BY <1>6, LaneTypes
  <2>3. anchor < w
    BY <1>1, LaneTypes DEF HeadOK
  <2>4. \A i \in 1..Len(games) : games[i].root < w /\ games[i].block <= w
    <3>1. ASSUME NEW i \in 1..Len(games)
          PROVE  games[i].root < w /\ games[i].block <= w
      <4>1. games[i].root \in Nat /\ games[i].block \in Nat
        <5>1. games[i] \in Games
          BY LaneTypes, ElementLemma
        <5>2. QED
          BY <5>1 DEF Games
      <4>2. games[i].root <= fin /\ games[i].block <= fin + 1
        BY <1>1 DEF HeadOK
      <4>3. fin <= latest /\ fin \in Nat /\ latest \in Nat
        BY LaneTypes
      <4>4. QED
        BY <4>1, <4>2, <4>3
    <3>2. QED
      BY <3>1
  <2> HIDE DEF w
  <2>5. QED
    BY <1>2, <1>3, <1>4, <2>1, <2>2, <2>3, <2>4 DEF Newest
<1>10. GameOK(s)'
  BY <1>1, <1>2, <1>3 DEF GameOK, ResolvedCount, Counting, Ruled, Recovering, Ended
<1>11. Timely(s)' /\ Simulated(s)' /\ Expected(s)'
  BY <1>1, <1>2, <1>3, LaneTypes DEF Timely, Simulated, Matched, Expected
<1>12. QED
  BY <1>4, <1>7, <1>8, <1>9, <1>10, <1>11 DEF LaneInv

LEMMA LaneReadOutput ==
  ASSUME NEW s, LaneCtx(s), ReadOutput(s)
  PROVE  LaneInv(s)'
<1>1. /\ LabelOK(s) /\ Untouched(s) /\ HeadOK /\ Newest(s)
      /\ GameOK(s) /\ Timely(s) /\ Expected(s)
  BY DEF LaneCtx, LaneInv
<1>2. /\ pc[s] = "output" /\ pc'[s] = "header" /\ since'[s] = 0 /\ why'[s] = why[s]
      /\ Kind(s)' = Kind(s) /\ Wd(s)' = Wd(s) /\ Honest(s)' = Honest(s)
      /\ UNCHANGED <<now, games, proven, finalized, anchor, latest, fin, wdBlock, prog, ph>>
  BY LaneAdvance DEF ReadOutput, Waits, bridgeVars, l2Vars
<1>3. mem'[s].out = fin /\ mem'[s].k = mem[s].k /\ fin >= wdBlock[Wd(s)]
  BY LaneTypes DEF ReadOutput, OutputHead, Memory
<1>4. /\ pc'[s] \notin Posted \cup Recovering \cup Unsent
      /\ pc[s] \notin Posted \cup Recovering \cup Unsent
      /\ pc'[s] \in Unposted /\ pc[s] \in Unposted
      /\ pc'[s] \notin (Started \ {"header"}) \cup Ended
  BY <1>2 DEF Unposted, Posted, Recovering, InGame, Unsent, Ended
<1>5. LabelOK(s)'
  BY <1>2, <1>4 DEF LabelOK, Ended
<1>6. Untouched(s)'
  BY <1>1, <1>2, <1>4 DEF Untouched
<1>7. HeadOK'
  BY <1>1, <1>2 DEF HeadOK
<1>8. Newest(s)'
  <2>1. wdBlock[Wd(s)] <= fin /\ anchor <= fin
    BY <1>1, <1>3, LaneTypes DEF HeadOK
  <2>2. QED
    BY <1>1, <1>2, <1>3, <1>4, <2>1 DEF Newest
<1>9. GameOK(s)'
  BY <1>1, <1>2, <1>3, <1>4 DEF GameOK, ResolvedCount, Counting, Ruled, Recovering, Ended
<1>10. Timely(s)' /\ Simulated(s)' /\ Expected(s)'
  BY <1>1, <1>2, <1>4, LaneTypes DEF Timely, Simulated, Matched, Expected
<1>11. QED
  BY <1>5, <1>6, <1>7, <1>8, <1>9, <1>10 DEF LaneInv

LEMMA LaneReadHeader ==
  ASSUME NEW s, LaneCtx(s), ReadHeader(s)
  PROVE  LaneInv(s)'
<1>1. /\ LabelOK(s) /\ Untouched(s) /\ HeadOK /\ Newest(s)
      /\ GameOK(s) /\ Timely(s) /\ Expected(s)
  BY DEF LaneCtx, LaneInv
<1>2. /\ pc[s] = "header" /\ pc'[s] = "proof" /\ since'[s] = 0 /\ why'[s] = why[s]
      /\ Kind(s)' = Kind(s) /\ Wd(s)' = Wd(s) /\ Honest(s)' = Honest(s)
      /\ UNCHANGED <<now, games, proven, finalized, anchor, latest, fin, wdBlock, prog, ph>>
  BY LaneAdvance DEF ReadHeader, Waits, bridgeVars, l2Vars
<1>3. mem'[s].out = mem[s].out /\ mem'[s].k = mem[s].k /\ mem'[s].hdr = latest
  BY LaneTypes DEF ReadHeader, Memory
<1>4. /\ pc'[s] \notin Posted \cup Recovering \cup Unsent
      /\ pc[s] \notin Posted \cup Recovering \cup Unsent
      /\ pc'[s] \in Unposted /\ pc[s] \in Unposted /\ pc[s] \in Started /\ pc'[s] \in Started
  BY <1>2 DEF Unposted, Posted, Recovering, InGame, Unsent, Started, Labels
<1>5. LabelOK(s)'
  BY <1>2, <1>4 DEF LabelOK, Ended
<1>6. Untouched(s)'
  BY <1>1, <1>2, <1>4 DEF Untouched
<1>7. HeadOK'
  BY <1>1, <1>2 DEF HeadOK
<1>8. Newest(s)'
  <2>1. wdBlock[Wd(s)] <= latest
    BY LaneTypes
  <2>2. QED
    BY <1>1, <1>2, <1>3, <1>4, <2>1 DEF Newest
<1>9. GameOK(s)'
  BY <1>1, <1>2, <1>3, <1>4 DEF GameOK, ResolvedCount, Counting, Ruled, Recovering, Ended
<1>10. Timely(s)' /\ Simulated(s)' /\ Expected(s)'
  BY <1>1, <1>2, <1>4, LaneTypes DEF Timely, Simulated, Matched, Expected
<1>11. QED
  BY <1>5, <1>6, <1>7, <1>8, <1>9, <1>10 DEF LaneInv

\* The storage root is the one the output commits to: nobody else sends withdrawals.
LEMMA LaneReadProof ==
  ASSUME NEW s, LaneCtx(s), ReadProof(s)
  PROVE  LaneInv(s)'
<1>1. /\ LabelOK(s) /\ Untouched(s) /\ HeadOK /\ Newest(s)
      /\ GameOK(s) /\ Timely(s) /\ Expected(s)
  BY DEF LaneCtx, LaneInv
<1>2. pc[s] = "proof" /\ pc[s] \in Started
  BY DEF ReadProof, Started, Labels
<1>3. CASE mem[s].hdr # latest
  BY <1>3, LaneExit DEF ReadProof
<1>4. CASE mem[s].hdr = latest
  <2>1. Storage(latest) = Storage(mem[s].out)
    BY <1>2, LaneStorage
  <2>2. Advance(s, "create") /\ UNCHANGED <<bridgeVars, l2Vars, prog, ph, mem>>
    BY <1>4, <2>1 DEF ReadProof
  <2>3. /\ pc'[s] = "create" /\ since'[s] = 0 /\ why'[s] = why[s]
        /\ Kind(s)' = Kind(s) /\ Wd(s)' = Wd(s) /\ Honest(s)' = Honest(s)
        /\ UNCHANGED <<now, games, proven, finalized, anchor, latest, fin, wdBlock, prog, ph, mem>>
    BY <2>2, LaneAdvance DEF Waits, bridgeVars, l2Vars
  <2>4. /\ pc'[s] \notin Posted \cup Recovering \cup Unsent
        /\ pc[s] \notin Posted \cup Recovering \cup Unsent
        /\ pc'[s] \in Unposted /\ pc[s] \in Unposted
        /\ pc[s] \in Started \ {"header"} /\ pc'[s] \in Started \ {"header"}
    BY <1>2, <2>3 DEF Unposted, Posted, Recovering, InGame, Unsent, Started, Labels, Sends
  <2>5. LabelOK(s)'
    BY <2>3, <2>4 DEF LabelOK, Ended
  <2>6. Untouched(s)'
    BY <1>1, <2>3, <2>4 DEF Untouched
  <2>7. HeadOK'
    BY <1>1, <2>3 DEF HeadOK
  <2>8. Newest(s)'
    BY <1>1, <2>3, <2>4 DEF Newest
  <2>9. GameOK(s)'
    BY <1>1, <1>2, <2>3, <2>4 DEF GameOK, ResolvedCount, Counting, Ruled, Recovering, Ended
  <2>10. Timely(s)' /\ Simulated(s)' /\ Expected(s)'
    BY <1>1, <1>2, <2>3, <2>4, LaneTypes DEF Timely, Simulated, Matched, Expected
  <2>11. QED
    BY <2>5, <2>6, <2>7, <2>8, <2>9, <2>10 DEF LaneInv
<1>5. QED
  BY <1>3, <1>4

\* The dishonest phase never waits for finality.
LEMMA LaneNotFinalized ==
  ASSUME NEW s, LaneCtx(s), NotFinalized(s)
  PROVE  LaneInv(s)'
<1>1. Honest(s)
  BY LaneTypes DEF NotFinalized, OutputHead, LaneCtx, LaneInv, Newest
<1>2. QED
  BY <1>1, LaneExit DEF NotFinalized

\* A simulation that passed: the transaction it allows is the next step.
LEMMA LanePoll ==
  ASSUME NEW s, LaneCtx(s), Poll(s), pc[s] # "credit"
  PROVE  LaneInv(s)'
<1> DEFINE label == Then[pc[s]]
<1>1. /\ LabelOK(s) /\ HeadOK /\ Newest(s) /\ GameOK(s) /\ Timely(s) /\ Simulated(s)
  BY DEF LaneCtx, LaneInv
<1>2. \/ pc[s] = "prove" /\ label = "prove_send"
      \/ pc[s] = "clock" /\ label = "clock_send"
      \/ pc[s] = "fin" /\ label = "fin_send"
      \/ pc[s] = "pay" /\ label = "pay_send"
  BY DEF Poll, Gated, Then
<1>3. Advance(s, label) /\ UNCHANGED <<bridgeVars, l2Vars, prog, ph, mem>> /\ Gate(s)
  BY DEF Poll
<1> HIDE DEF label
<1>4. /\ pc'[s] = label /\ since'[s] = 0
      /\ Kind(s)' = Kind(s) /\ Wd(s)' = Wd(s) /\ Honest(s)' = Honest(s)
      /\ UNCHANGED <<now, games, proven, finalized, anchor, latest, fin, wdBlock, prog, ph, mem>>
  BY <1>2, <1>3, LaneAdvance DEF Waits, bridgeVars, l2Vars
<1>5. /\ label \in Posted /\ pc[s] \in Posted /\ pc[s] \in Started /\ pc[s] # "index"
      /\ label \in Recovering <=> pc[s] \in Recovering
      /\ label \in Ruled <=> pc[s] \in Ruled
      /\ label \in Single <=> pc[s] \in Single
      /\ label \in Counting <=> pc[s] \in Counting
      /\ label # "rebut" /\ pc[s] # "rebut" /\ pc[s] # "resolve_send" /\ label # "resolve_send"
      /\ label \in Matched <=> pc[s] \in Matched
      /\ pc[s] \notin Ended \cup {"done", "exit"}
  BY <1>2 DEF Posted, InGame, Recovering, Ruled, Single, Counting, Matched, Started,
              Labels, Waits, Sends, Ended
<1>6. LabelOK(s)'
  BY <1>1, <1>2, <1>4, <1>5 DEF LabelOK, Ended, Unsent
<1>7. Untouched(s)' /\ HeadOK' /\ Newest(s)' /\ Expected(s)'
  <2>1. anchor <= mem[s].out
    BY <1>1, <1>5 DEF Newest
  <2>2. QED
    BY <1>3, <1>4, <1>5, <2>1, LaneStays
<1>8. GameOK(s)'
  <2>1. Size(Kind(s), label) = Size(Kind(s), pc[s])
    BY <1>5 DEF Size
  <2>2. ResolvedCount(Kind(s), label, mem[s].k)
    BY <1>1, <1>5 DEF GameOK, ResolvedCount
  <2>3. mem[s].gi = Len(games)
    BY <1>1, <1>5 DEF GameOK
  <2>4. label \in {"pay", "pay_send"} \/ pc[s] \notin {"pay", "pay_send"}
    BY <1>2
  <2>5. QED
    BY <1>3, <1>4, <1>5, <2>1, <2>2, <2>3, <2>4, GameStays
<1>9. Timely(s)'
  <2>1. label = "prove_send" => now = games[Len(games)].created + 1
    <3>1. SUFFICES ASSUME pc[s] = "prove" PROVE now = games[Len(games)].created + 1
      BY <1>2
    <3>2. now <= games[Len(games)].created + 1
      BY <1>1, <3>1 DEF Timely
    <3>3. now > games[Len(games)].created
      BY <1>3, <1>5, <3>1, LaneGame DEF Gate, CanProve, PastCreation
    <3>4. games[Len(games)].created \in Nat /\ now \in Nat
      BY <1>5, LaneGame, LaneTypes
    <3>5. QED
      BY <3>2, <3>3, <3>4
  <2>2. label \in {"prove_send", "clock_send", "fin_send", "pay_send"} /\ 0 <= now
    BY <1>2, LaneTypes
  <2>3. QED
    BY <1>1, <1>4, <1>5, <2>1, <2>2 DEF Timely
<1>10. Simulated(s)'
  <2>1. Gate(s)'
    <3>1. /\ Game(s)' = Game(s) /\ ResolveNext(s)' = ResolveNext(s)
          /\ \A b : Storage(b)' = Storage(b)
      BY <1>4 DEF Game, ResolveNext, Storage
    <3>2. CASE pc[s] = "prove"
      BY <1>2, <1>3, <1>4, <3>1, <3>2 DEF Gate, CanProve, PastCreation, RootMatches, Storage, Game
    <3>3. CASE pc[s] = "clock"
      BY <1>2, <1>3, <1>4, <3>1, <3>3
         DEF Gate, CanResolveClaim, ChallengeClock, Children
    <3>4. CASE pc[s] = "fin"
      BY <1>2, <1>3, <1>4, <3>1, <3>4 DEF Gate, CanFinalize, Settled
    <3>5. CASE pc[s] = "pay"
      BY <1>2, <1>3, <1>4, <3>1, <3>5 DEF Gate, CanClaimCredit, Settled
    <3>6. QED
      BY <1>2, <3>2, <3>3, <3>4, <3>5
  <2>2. QED
    BY <1>1, <1>4, <1>5, <2>1 DEF Simulated
<1>11. QED
  BY <1>6, <1>7, <1>8, <1>9, <1>10 DEF LaneInv

\* The posted game is the last one, and its index is read before anyone posts another.
LEMMA LaneCreate ==
  ASSUME NEW s, LaneCtx(s), CreateGame(s)
  PROVE  LaneInv(s)'
<1> DEFINE g == NewGame(s, Root(s), ClaimedBlock(s))
           n == Len(games) + 1
<1>1. /\ LabelOK(s) /\ Untouched(s) /\ HeadOK /\ Newest(s)
      /\ GameOK(s) /\ Timely(s) /\ Expected(s)
  BY DEF LaneCtx, LaneInv
<1>2. /\ pc[s] = "create" /\ Advance(s, "index")
      /\ games' = Append(games, g)
      /\ UNCHANGED <<now, proven, finalized, anchor, latest, fin, wdBlock, prog, ph, mem>>
  BY DEF CreateGame, Sent, l2Vars
<1>3. /\ pc'[s] = "index" /\ since'[s] = 0 /\ why'[s] = why[s]
      /\ Kind(s)' = Kind(s) /\ Wd(s)' = Wd(s) /\ Honest(s)' = Honest(s)
  BY <1>2, LaneAdvance DEF Waits
<1>4. /\ pc[s] \notin Posted \cup Recovering \cup Unsent
      /\ pc'[s] \notin Recovering \cup Unsent \cup Unposted \cup Ruled \cup Counting
      /\ pc[s] \in Unposted /\ pc'[s] \in Posted /\ pc'[s] \in Single
      /\ pc[s] \in Started \ {"header"} /\ pc'[s] \in Started \ {"header"}
  BY <1>2, <1>3 DEF Unposted, Posted, Recovering, InGame, Unsent, Started, Labels, Sends,
                    Ruled, Counting, Single
<1>5. /\ Root(s) \in Nat /\ ClaimedBlock(s) \in Nat /\ now \in Nat /\ s \in Scripts
      /\ Root(s) <= fin /\ ClaimedBlock(s) <= fin + 1
      /\ Honest(s) => Root(s) = mem[s].out
  <2>1. mem[s].out \in Nat /\ fin \in Nat /\ mem[s].out <= fin /\ now \in Nat /\ s \in Scripts
    BY LaneTypes
  <2>2. CASE Kind(s) = "dishonest"
    <3>1. Root(s) = 0 /\ ClaimedBlock(s) = mem[s].out + 1 /\ ~Honest(s)
      BY <2>2 DEF Root, ClaimedBlock, FakeRoot, Honest
    <3>2. QED
      BY <2>1, <3>1
  <2>3. CASE Kind(s) # "dishonest"
    <3>1. Root(s) = mem[s].out /\ ClaimedBlock(s) = mem[s].out
      BY <2>3 DEF Root, ClaimedBlock
    <3>2. QED
      BY <2>1, <3>1
  <2>4. QED
    BY <2>2, <2>3
<1>6. /\ Chain(g, 1) /\ Settling(g, 1, 0) /\ Ledger(g, 1, 0)
      /\ g.root = Root(s) /\ g.block = ClaimedBlock(s) /\ g.created = now
      /\ g.status = "IN_PROGRESS" /\ g.unlockedAt["proposer"] = 0
      /\ \A i \in 1..Len(g.claims) : g.claims[i].at <= now
  BY <1>5, NewGameChain
<1>7. g \in Games
  BY <1>5, NewGameType
<1> HIDE DEF g
<1>8. /\ Len(games') = n /\ n \in Nat /\ n > 0 /\ games'[n] = g
      /\ \A i \in 1..Len(games) : games'[i] = games[i]
      /\ \A i \in 1..n : i = n \/ i \in 1..Len(games)
  BY <1>2, <1>7, LaneTypes
<1> HIDE DEF n
<1>9. LabelOK(s)'
  BY <1>3, <1>4 DEF LabelOK, Ended, Unsent
<1>10. Untouched(s)'
  BY <1>1, <1>2, <1>3, <1>4 DEF Untouched
<1>11. HeadOK'
  <2>1. ASSUME NEW i \in 1..Len(games')
        PROVE  games'[i].root <= fin /\ games'[i].block <= fin + 1
    BY <1>1, <1>5, <1>6, <1>8 DEF HeadOK
  <2>2. QED
    BY <1>1, <1>2, <2>1 DEF HeadOK
<1>12. Newest(s)'
  <2> DEFINE w == wdBlock[Wd(s)]
  <2>1. /\ w > 0 /\ w <= mem[s].out /\ (~Honest(s) => w <= fin)
        /\ \A v \in Withdrawals : wdBlock[v] <= w
        /\ anchor <= mem[s].out /\ w <= mem[s].hdr
        /\ \A i \in 1..Len(games) : games[i].root = FakeRoot => games[i].block <= w
    BY <1>1, <1>4 DEF Newest
  <2>2. w \in Nat /\ mem[s].out \in Nat
    BY LaneTypes
  <2> HIDE DEF w
  <2>3. Honest(s) => \A i \in 1..Len(games') : games'[i].root = FakeRoot => games'[i].block <= w
    BY <1>5, <1>6, <1>8, <2>1, <2>2 DEF FakeRoot
  <2>4. wdBlock'[Wd(s)'] = w
    BY <1>2, <1>3 DEF w
  <2>5. QED
    BY <1>2, <1>3, <1>4, <2>1, <2>3, <2>4 DEF Newest
<1>13. GameOK(s)'
  <2>1. mem[s].k = 0
    BY <1>1, <1>2 DEF GameOK, ResolvedCount, Counting, Ruled, Recovering, Ended
  <2>2. Size(Kind(s), "index") = 1 /\ ResolvedCount(Kind(s), "index", 0)
    BY DEF Size, Single, ResolvedCount, Counting, Ruled, Recovering
  <2>3. QED
    BY <1>2, <1>3, <1>4, <1>6, <1>8, <2>1, <2>2, GameBecomes
<1>14. Timely(s)'
  BY <1>1, <1>2, <1>3, <1>4, <1>6, <1>8, LaneTypes DEF Timely
<1>15. Simulated(s)' /\ Expected(s)'
  BY <1>1, <1>2, <1>3 DEF Simulated, Matched, Expected
<1>16. QED
  BY <1>9, <1>10, <1>11, <1>12, <1>13, <1>14, <1>15 DEF LaneInv

LEMMA LaneReadIndex ==
  ASSUME NEW s, LaneCtx(s), ReadIndex(s)
  PROVE  LaneInv(s)'
<1> DEFINE label == IF Kind(s) = "dishonest" THEN "oracle" ELSE "prove"
<1>1. /\ LabelOK(s) /\ Newest(s) /\ GameOK(s) /\ Timely(s)
  BY DEF LaneCtx, LaneInv
<1>0. games[LastIndex].status = "IN_PROGRESS"
  BY <1>1 DEF ReadIndex, GameOK, LastIndex, Posted, Ruled, Recovering
<1>2. /\ pc[s] = "index" /\ Advance(s, label) /\ UNCHANGED <<bridgeVars, l2Vars, prog, ph>>
      /\ mem'[s].out = mem[s].out /\ mem'[s].hdr = mem[s].hdr /\ mem'[s].k = mem[s].k
      /\ mem'[s].gi = Len(games)
  <2>1. /\ pc[s] = "index" /\ UNCHANGED <<bridgeVars, l2Vars, prog, ph>>
        /\ mem' = [mem EXCEPT ![s].gi = LastIndex] /\ Advance(s, label)
    BY <1>0 DEF ReadIndex
  <2>2. QED
    BY <2>1, LaneTypes DEF LastIndex, Memory
<1>3. (label = "oracle" /\ ~Honest(s)) \/ (label = "prove" /\ Honest(s))
  <2>1. CASE Kind(s) = "dishonest"
    BY <2>1 DEF Honest
  <2>2. CASE Kind(s) # "dishonest"
    BY <2>2 DEF Honest
  <2>3. QED
    BY <2>1, <2>2
<1> HIDE DEF label
<1>4. /\ pc'[s] = label /\ since'[s] = now
      /\ Kind(s)' = Kind(s) /\ Wd(s)' = Wd(s) /\ Honest(s)' = Honest(s)
      /\ UNCHANGED <<now, games, proven, finalized, anchor, latest, fin, wdBlock, prog, ph>>
  BY <1>2, <1>3, LaneAdvance DEF Waits, bridgeVars, l2Vars
<1>5. /\ label \in Posted /\ pc[s] \in Posted /\ pc[s] \in Started
      /\ label \notin Recovering \cup Ruled \cup Counting \cup Matched
      /\ pc[s] \notin Recovering \cup Ruled \cup Counting
      /\ label \in Single /\ pc[s] \in Single
  BY <1>2, <1>3 DEF Posted, InGame, Recovering, Ruled, Single, Counting, Matched, Started, Labels
<1>6. LabelOK(s)'
  BY <1>3, <1>4, <1>5 DEF LabelOK, Ended, Unsent
<1>7. Untouched(s)' /\ HeadOK' /\ Newest(s)' /\ Expected(s)'
  <2>1. anchor <= mem[s].out
    BY <1>1, <1>5 DEF Newest
  <2>2. QED
    BY <1>2, <1>4, <1>5, <2>1, LaneStays
<1>8. GameOK(s)'
  <2>1. Size(Kind(s), label) = Size(Kind(s), pc[s])
    BY <1>5 DEF Size
  <2>2. ResolvedCount(Kind(s), label, mem[s].k)
    BY <1>1, <1>2, <1>3, <1>5 DEF GameOK, ResolvedCount, Ended
  <2>3. label \in {"pay", "pay_send"} \/ pc[s] \notin {"pay", "pay_send"}
    BY <1>2
  <2>4. QED
    BY <1>2, <1>4, <1>5, <2>1, <2>2, <2>3, GameStays
<1>9. Timely(s)'
  <2>1. games[Len(games)].created = now /\ now > 0
        /\ (\A w \in Withdrawals : proven[w].at <= now)
        /\ \A i \in 1..Len(games[Len(games)].claims) : games[Len(games)].claims[i].at <= now
    BY <1>1, <1>2, <1>5 DEF Timely
  <2>2. now \in Nat /\ now <= now /\ now <= now + 1
    BY LaneTypes
  <2>3. label \notin {"index", "prove_send", "attack", "rebut", "clock", "check", "fin",
                     "unlock_send", "pay"}
    BY <1>3
  <2>4. QED
    BY <1>4, <2>1, <2>2, <2>3 DEF Timely
<1>10. Simulated(s)'
  BY <1>3, <1>4, <1>5 DEF Simulated
<1>11. QED
  BY <1>6, <1>7, <1>8, <1>9, <1>10 DEF LaneInv

\* The record a proof leaves names the phase's game.
LEMMA LaneProve ==
  ASSUME NEW s, LaneCtx(s), Prove(s)
  PROVE  LaneInv(s)'
<1> DEFINE label == IF Kind(s) = "abandoned" THEN "attack" ELSE "recorded"
<1>1. /\ LabelOK(s) /\ Newest(s) /\ GameOK(s) /\ Timely(s)
  BY DEF LaneCtx, LaneInv
<1>2. /\ pc[s] = "prove_send" /\ Advance(s, label)
      /\ proven' = [proven EXCEPT ![Wd(s)] = [game |-> mem[s].gi, at |-> now]]
      /\ UNCHANGED <<now, games, finalized, anchor, latest, fin, wdBlock, prog, ph, mem>>
  BY DEF Prove, Sent, l2Vars
<1>3. Honest(s)
  BY <1>1, <1>2 DEF LabelOK
<1>4. (label = "attack" /\ Kind(s) = "abandoned") \/ (label = "recorded" /\ Kind(s) = "claim")
  <2>1. CASE Kind(s) = "abandoned"
    BY <2>1
  <2>2. CASE Kind(s) # "abandoned"
    BY <1>3, <2>2, LaneTypes DEF Kinds, Honest
  <2>3. QED
    BY <2>1, <2>2
<1> HIDE DEF label
<1>5. /\ pc'[s] = label /\ since'[s] = 0
      /\ Kind(s)' = Kind(s) /\ Wd(s)' = Wd(s) /\ Honest(s)' = Honest(s)
  BY <1>2, <1>4, LaneAdvance DEF Waits
<1>6. /\ label \in Posted /\ pc[s] \in Posted /\ pc[s] \in Started
      /\ label \notin Recovering \cup Ruled \cup Counting
      /\ pc[s] \notin Recovering \cup Ruled \cup Counting
      /\ label \in Single /\ pc[s] \in Single
  BY <1>2, <1>4 DEF Posted, InGame, Recovering, Ruled, Single, Counting, Started, Labels, Sends
<1>7. LabelOK(s)'
  BY <1>4, <1>5, <1>6 DEF LabelOK, Ended, Unsent
<1>8. Untouched(s)' /\ HeadOK' /\ Newest(s)' /\ Expected(s)'
  <2>1. anchor <= mem[s].out
    BY <1>1, <1>6 DEF Newest
  <2>2. QED
    BY <1>2, <1>5, <1>6, <2>1, LaneStays
<1>9. GameOK(s)'
  <2>1. Size(Kind(s), label) = Size(Kind(s), pc[s])
    BY <1>6 DEF Size
  <2>2. ResolvedCount(Kind(s), label, mem[s].k)
    BY <1>1, <1>2, <1>4, <1>6 DEF GameOK, ResolvedCount, Ended
  <2>3. mem[s].gi = Len(games)
    BY <1>1, <1>2, <1>6 DEF GameOK
  <2>4. label \in {"pay", "pay_send"} \/ pc[s] \notin {"pay", "pay_send"}
    BY <1>2
  <2>5. QED
    BY <1>2, <1>5, <1>6, <2>1, <2>2, <2>3, <2>4, GameStays
<1>10. \A w \in Withdrawals : proven'[w].at <= now
  BY <1>1, <1>2, LaneTypes DEF Timely
<1>11. Timely(s)'
  <2>1. /\ now > 0 /\ games[Len(games)].created + 1 = now
        /\ \A i \in 1..Len(games[Len(games)].claims) : games[Len(games)].claims[i].at <= now
    BY <1>1, <1>2, <1>6, LaneTypes DEF Timely
  <2>2. now \in Nat /\ since'[s] <= now
    BY <1>5, <2>1, LaneTypes
  <2>3. label \notin {"index", "prove", "oracle", "prove_send", "rebut", "clock", "check",
                     "fin", "unlock_send", "pay"}
    BY <1>4
  <2>4. now = games[Len(games)].created + 1
    BY <2>1
  <2>5. QED
    BY <1>2, <1>5, <1>10, <2>1, <2>2, <2>3, <2>4 DEF Timely
<1>12. Simulated(s)'
  <2>1. proven'[Wd(s)].game = mem[s].gi
    BY <1>2, LaneTypes
  <2>2. QED
    BY <1>2, <1>4, <1>5, <2>1 DEF Simulated
<1>13. QED
  BY <1>7, <1>8, <1>9, <1>11, <1>12 DEF LaneInv

LEMMA LaneRecorded ==
  ASSUME NEW s, LaneCtx(s), Recorded(s)
  PROVE  LaneInv(s)'
<1>1. /\ LabelOK(s) /\ Newest(s) /\ GameOK(s) /\ Timely(s) /\ Simulated(s)
  BY DEF LaneCtx, LaneInv
<1>2. pc[s] = "recorded" /\ Kind(s) = "claim" /\ Honest(s)
  BY <1>1 DEF Recorded, LabelOK, Honest
<1>3. /\ pc[s] \in Posted /\ pc[s] \in Started /\ pc[s] \in Matched
      /\ pc[s] \notin Recovering \cup Ruled \cup Counting /\ pc[s] \in Single
  BY <1>2 DEF Posted, InGame, Recovering, Ruled, Single, Counting, Started, Labels, Matched
<1>4. /\ "clock" \in Posted /\ "clock" \in Matched
      /\ "clock" \notin Recovering \cup Ruled \cup Single /\ "clock" \in Counting
  BY DEF Posted, InGame, Recovering, Ruled, Single, Counting, Matched
<1>5. proven[Wd(s)].game = mem[s].gi
  BY <1>1, <1>2, <1>3 DEF Simulated
<1>6. Advance(s, "clock") /\ UNCHANGED <<bridgeVars, l2Vars, prog, ph, mem>>
  BY <1>5 DEF Recorded
<1>7. /\ pc'[s] = "clock" /\ since'[s] = now
      /\ Kind(s)' = Kind(s) /\ Wd(s)' = Wd(s) /\ Honest(s)' = Honest(s)
      /\ UNCHANGED <<now, games, proven, finalized, anchor, latest, fin, wdBlock, prog, ph, mem>>
  BY <1>6, LaneAdvance DEF Waits, bridgeVars, l2Vars
<1>8. LabelOK(s)'
  BY <1>7 DEF LabelOK, Recovering, Ended, Unsent
<1>9. Untouched(s)' /\ HeadOK' /\ Newest(s)' /\ Expected(s)'
  <2>1. anchor <= mem[s].out
    BY <1>1, <1>3 DEF Newest
  <2>2. QED
    BY <1>3, <1>4, <1>6, <1>7, <2>1, LaneStays
<1>10. GameOK(s)'
  <2>1. Size(Kind(s), "clock") = Size(Kind(s), pc[s])
    BY <1>2, <1>3, <1>4 DEF Size, TreeSize
  <2>2. ResolvedCount(Kind(s), "clock", mem[s].k)
    BY <1>1, <1>2, <1>3, <1>4 DEF GameOK, ResolvedCount, TreeSize, Ended
  <2>3. mem[s].gi = Len(games)
    BY <1>1, <1>2, <1>3 DEF GameOK
  <2>4. QED
    BY <1>2, <1>3, <1>4, <1>6, <1>7, <2>1, <2>2, <2>3, GameStays
<1>11. Timely(s)'
  <2>1. \A i \in 1..Len(games[Len(games)].claims) : games[Len(games)].claims[i].at <= now
    BY <1>1, <1>3 DEF Timely
  <2>2. now <= now + MaxClock
    BY LaneTypes, DelayAssumption
  <2>3. QED
    BY <1>1, <1>7, <2>1, <2>2, LaneTypes DEF Timely
<1>12. Simulated(s)'
  BY <1>5, <1>7 DEF Simulated
<1>13. QED
  BY <1>8, <1>9, <1>10, <1>11, <1>12 DEF LaneInv

\* The fake root is no output's, and nobody has ruled on the game yet.
LEMMA LaneOracle ==
  ASSUME NEW s, LaneCtx(s), Oracle(s)
  PROVE  LaneInv(s)'
<1>1. /\ LabelOK(s) /\ Newest(s) /\ GameOK(s) /\ Timely(s)
  BY DEF LaneCtx, LaneInv
<1>2. pc[s] = "oracle" /\ ~Honest(s) /\ now > Game(s).created
  BY DEF Oracle, LaneCtx, OwnInv, OracleIsForLiars, PastCreation
<1>3. /\ pc[s] \in Posted /\ pc[s] \in Started /\ pc[s] # "index"
      /\ pc[s] \notin Recovering \cup Ruled \cup Counting /\ pc[s] \in Single
  BY <1>2 DEF Posted, InGame, Recovering, Ruled, Single, Counting, Started, Labels, Waits
<1>4. /\ "attack" \in Posted
      /\ "attack" \notin Recovering \cup Ruled \cup Counting /\ "attack" \in Single
  BY DEF Posted, InGame, Recovering, Ruled, Single, Counting
<1>5. Game(s).status = "IN_PROGRESS" /\ Game(s).root = FakeRoot
      /\ Game(s) = games[Len(games)] /\ Game(s).created \in Nat
  BY <1>2, <1>3, LaneGame DEF Root, Honest
<1>6. mem[s].out > 0
  <2>1. pc[s] \in Unposted \cup Posted
    BY <1>3
  <2>2. wdBlock[Wd(s)] > 0 /\ wdBlock[Wd(s)] <= mem[s].out
    BY <1>1, <1>3, <2>1 DEF Newest
  <2>3. QED
    BY <2>2, LaneTypes
<1>7. Advance(s, "attack") /\ UNCHANGED <<bridgeVars, l2Vars, prog, ph, mem>>
  <2>1. Game(s).status # "CHALLENGER_WINS" /\ ~RootMatches(Game(s), mem[s].out)
    BY <1>5, <1>6 DEF RootMatches, FakeRoot
  <2>2. QED
    BY <2>1 DEF Oracle
<1>8. /\ pc'[s] = "attack" /\ since'[s] = 0
      /\ Kind(s)' = Kind(s) /\ Wd(s)' = Wd(s) /\ Honest(s)' = Honest(s)
      /\ UNCHANGED <<now, games, proven, finalized, anchor, latest, fin, wdBlock, prog, ph, mem>>
  BY <1>7, LaneAdvance DEF Waits, bridgeVars, l2Vars
<1>9. LabelOK(s)'
  BY <1>2, <1>8 DEF LabelOK, Recovering, Honest, Ended, Unsent
<1>10. Untouched(s)' /\ HeadOK' /\ Newest(s)' /\ Expected(s)'
  <2>1. anchor <= mem[s].out
    BY <1>1, <1>3 DEF Newest
  <2>2. QED
    BY <1>3, <1>4, <1>7, <1>8, <2>1, LaneStays
<1>11. GameOK(s)'
  <2>1. Size(Kind(s), "attack") = Size(Kind(s), pc[s])
    BY <1>3, <1>4 DEF Size
  <2>2. ResolvedCount(Kind(s), "attack", mem[s].k)
    BY <1>1, <1>2, <1>3, <1>4 DEF GameOK, ResolvedCount, Ended
  <2>3. mem[s].gi = Len(games)
    BY <1>1, <1>3 DEF GameOK
  <2>4. QED
    BY <1>2, <1>3, <1>4, <1>7, <1>8, <2>1, <2>2, <2>3, GameStays
<1>12. Timely(s)'
  <2>1. now <= games[Len(games)].created + 1 /\ now > 0
        /\ (\A w \in Withdrawals : proven[w].at <= now)
        /\ \A i \in 1..Len(games[Len(games)].claims) : games[Len(games)].claims[i].at <= now
    BY <1>1, <1>2, <1>3 DEF Timely
  <2>2. now = games[Len(games)].created + 1 /\ 0 <= now
    <3>1. now \in Nat
      BY LaneTypes
    <3>2. games[Len(games)].created \in Nat /\ now > games[Len(games)].created
      BY <1>2, <1>5
    <3>3. QED
      BY <2>1, <3>1, <3>2
  <2>3. QED
    BY <1>8, <2>1, <2>2 DEF Timely
<1>13. Simulated(s)'
  BY <1>2, <1>8 DEF Simulated
<1>14. QED
  BY <1>9, <1>10, <1>11, <1>12, <1>13 DEF LaneInv

LEMMA LaneAttack ==
  ASSUME NEW s, LaneCtx(s), Attack(s)
  PROVE  LaneInv(s)'
<1> DEFINE label == IF Kind(s) = "abandoned" THEN "rebut" ELSE "clock"
           g == Game(s)
           h == Attacked(g, 1, "challenger")
<1>1. /\ LabelOK(s) /\ Newest(s) /\ GameOK(s) /\ Timely(s) /\ Simulated(s)
  BY DEF LaneCtx, LaneInv
<1>2. /\ pc[s] = "attack" /\ UpdateGame(s, h) /\ Advance(s, label)
      /\ UNCHANGED <<now, proven, finalized, anchor, latest, fin, wdBlock, prog, ph, mem>>
  BY DEF Attack, Sent, l2Vars
<1>3. (label = "rebut" /\ Kind(s) = "abandoned") \/ (label = "clock" /\ Kind(s) = "dishonest")
  <2>1. CASE Kind(s) = "abandoned"
    BY <2>1
  <2>2. CASE Kind(s) # "abandoned"
    BY <1>1, <1>2, <2>2, LaneTypes DEF Kinds, LabelOK
  <2>3. QED
    BY <2>1, <2>2
<1>4. /\ pc[s] \in Posted \ {"index"} /\ pc[s] \in Started /\ pc[s] \in Matched
      /\ pc[s] \notin Recovering \cup Ruled \cup Counting /\ pc[s] \in Single
      /\ label \in Posted /\ label \notin Recovering \cup Ruled \cup Single
  BY <1>2, <1>3 DEF Posted, InGame, Recovering, Ruled, Single, Counting, Started, Labels,
                    Sends, Matched
<1> HIDE DEF label
<1>5. /\ pc'[s] = label /\ since'[s] = (IF label = "clock" THEN now ELSE 0)
      /\ Kind(s)' = Kind(s) /\ Wd(s)' = Wd(s) /\ Honest(s)' = Honest(s)
  BY <1>2, <1>3, LaneAdvance DEF Waits
<1>6. mem[s].k = 0 /\ Size(Kind(s), pc[s]) = 1 /\ Size(Kind(s), label) = 2
  BY <1>1, <1>2, <1>3, <1>4 DEF GameOK, ResolvedCount, Size, TreeSize, Single, Ended
<1>7. /\ g \in Games /\ Chain(g, 1) /\ Settling(g, 1, 0) /\ Ledger(g, 1, 0)
      /\ g.root = Root(s) /\ g.status = "IN_PROGRESS" /\ g.unlockedAt["proposer"] = 0
      /\ \A i \in 1..1 : g.claims[i].at <= now
  BY <1>2, <1>4, <1>6, LaneGame
<1>8. /\ Chain(h, 2) /\ Settling(h, 2, 0) /\ Ledger(h, 2, 0)
      /\ h.status = "IN_PROGRESS" /\ h.unlockedAt = g.unlockedAt /\ h.root = g.root
      /\ h.claims[2].at = now /\ \A j \in 1..2 : h.claims[j].at <= now
  <2>1. Author(1 + 1) = "challenger" /\ 1 + 1 = 2
    BY DEF Author
  <2>2. QED
    BY <1>7, <2>1, AttackChain, LaneTypes
<1>9. h.block = g.block
  BY <1>7 DEF Attacked, Games
<1> HIDE DEF h, g
<1>10. /\ Len(games') = Len(games) /\ Len(games') \in Nat /\ Len(games') > 0
       /\ games'[Len(games')] = h /\ mem[s].gi = Len(games')
       /\ \A i \in 1..Len(games) :
            games'[i].root = games[i].root /\ games'[i].block = games[i].block
  BY <1>2, <1>4, <1>8, <1>9, GameMoves DEF g
<1>11. LabelOK(s)'
  BY <1>3, <1>4, <1>5 DEF LabelOK, Ended, Unsent
<1>12. Untouched(s)' /\ HeadOK' /\ Newest(s)' /\ Expected(s)'
  <2>1. anchor <= mem[s].out
    BY <1>1, <1>4 DEF Newest
  <2>2. QED
    BY <1>2, <1>4, <1>5, <1>10, <2>1, LaneStays
<1>13. GameOK(s)'
  <2>1. ResolvedCount(Kind(s), label, 0)
    BY <1>3, <1>4 DEF ResolvedCount, Counting, TreeSize
  <2>2. QED
    BY <1>2, <1>4, <1>5, <1>6, <1>7, <1>8, <1>10, <2>1, GameBecomes
<1>14. Timely(s)'
  <2>1. Len(h.claims) = 2
    BY <1>8 DEF Chain
  <2>2. now <= now + MaxClock /\ now \in Nat
    BY LaneTypes, DelayAssumption
  <2>3. QED
    BY <1>1, <1>2, <1>3, <1>5, <1>8, <1>10, <2>1, <2>2 DEF Timely
<1>15. Simulated(s)'
  <2>1. Honest(s) => proven[Wd(s)].game = mem[s].gi
    BY <1>1, <1>4 DEF Simulated
  <2>2. QED
    BY <1>2, <1>3, <1>5, <2>1 DEF Simulated
<1>16. QED
  BY <1>11, <1>12, <1>13, <1>14, <1>15 DEF LaneInv

LEMMA LaneRebut ==
  ASSUME NEW s, LaneCtx(s), Rebut(s)
  PROVE  LaneInv(s)'
<1> DEFINE g == Game(s)
           h == Attacked(g, 2, "proposer")
<1>1. /\ LabelOK(s) /\ Newest(s) /\ GameOK(s) /\ Timely(s) /\ Simulated(s)
  BY DEF LaneCtx, LaneInv
<1>2. /\ pc[s] = "rebut" /\ UpdateGame(s, h) /\ Advance(s, "clock")
      /\ UNCHANGED <<now, proven, finalized, anchor, latest, fin, wdBlock, prog, ph, mem>>
  BY DEF Rebut, Sent, l2Vars
<1>3. Kind(s) = "abandoned"
  BY <1>1, <1>2 DEF LabelOK
<1>4. /\ pc[s] \in Posted \ {"index"} /\ pc[s] \in Started /\ pc[s] \in Matched
      /\ pc[s] \notin Recovering \cup Ruled \cup Counting
      /\ "clock" \in Posted /\ "clock" \notin Recovering \cup Ruled \cup Single
  BY <1>2 DEF Posted, InGame, Recovering, Ruled, Single, Counting, Started, Labels,
              Sends, Matched
<1>5. /\ pc'[s] = "clock" /\ since'[s] = now
      /\ Kind(s)' = Kind(s) /\ Wd(s)' = Wd(s) /\ Honest(s)' = Honest(s)
  BY <1>2, LaneAdvance DEF Waits
<1>6. mem[s].k = 0 /\ Size(Kind(s), pc[s]) = 2 /\ Size(Kind(s), "clock") = 3
  BY <1>1, <1>2, <1>3, <1>4 DEF GameOK, ResolvedCount, Size, TreeSize, Single, Ended
<1>7. /\ g \in Games /\ Chain(g, 2) /\ Settling(g, 2, 0) /\ Ledger(g, 2, 0)
      /\ g.root = Root(s) /\ g.status = "IN_PROGRESS" /\ g.unlockedAt["proposer"] = 0
      /\ \A i \in 1..2 : g.claims[i].at <= now
  BY <1>2, <1>4, <1>6, LaneGame
<1>8. /\ Chain(h, 3) /\ Settling(h, 3, 0) /\ Ledger(h, 3, 0)
      /\ h.status = "IN_PROGRESS" /\ h.unlockedAt = g.unlockedAt /\ h.root = g.root
      /\ \A j \in 1..3 : h.claims[j].at <= now
  <2>1. Author(2 + 1) = "proposer" /\ 2 + 1 = 3
    BY DEF Author
  <2>2. QED
    BY <1>7, <2>1, AttackChain, LaneTypes
<1>9. h.block = g.block
  BY <1>7 DEF Attacked, Games
<1> HIDE DEF h, g
<1>10. /\ Len(games') = Len(games) /\ Len(games') \in Nat /\ Len(games') > 0
       /\ games'[Len(games')] = h /\ mem[s].gi = Len(games')
       /\ \A i \in 1..Len(games) :
            games'[i].root = games[i].root /\ games'[i].block = games[i].block
  BY <1>2, <1>4, <1>8, <1>9, GameMoves DEF g
<1>11. LabelOK(s)'
  BY <1>5 DEF LabelOK, Recovering, Ended, Unsent
<1>12. Untouched(s)' /\ HeadOK' /\ Newest(s)' /\ Expected(s)'
  <2>1. anchor <= mem[s].out
    BY <1>1, <1>4 DEF Newest
  <2>2. QED
    BY <1>2, <1>4, <1>5, <1>10, <2>1, LaneStays
<1>13. GameOK(s)'
  <2>1. ResolvedCount(Kind(s), "clock", 0)
    BY <1>3, <1>4 DEF ResolvedCount, Counting, TreeSize
  <2>2. QED
    BY <1>2, <1>4, <1>5, <1>6, <1>7, <1>8, <1>10, <2>1, GameBecomes
<1>14. Timely(s)'
  <2>1. Len(h.claims) = 3
    BY <1>8 DEF Chain
  <2>2. now <= now + MaxClock /\ now \in Nat
    BY LaneTypes, DelayAssumption
  <2>3. QED
    BY <1>1, <1>2, <1>5, <1>8, <1>10, <2>1, <2>2 DEF Timely
<1>15. Simulated(s)'
  <2>1. Honest(s) => proven[Wd(s)].game = mem[s].gi
    BY <1>1, <1>4 DEF Simulated
  <2>2. QED
    BY <1>2, <1>5, <2>1 DEF Simulated
<1>16. QED
  BY <1>11, <1>12, <1>13, <1>14, <1>15 DEF LaneInv

\* One more claim is resolved, or the last: the clock of the next one runs already.
LEMMA LaneResolveClaim ==
  ASSUME NEW s, LaneCtx(s), ResolveClaim(s)
  PROVE  LaneInv(s)'
<1> DEFINE g == Game(s)
           n == TreeSize(Kind(s))
           k == mem[s].k
           h == ResolvedClaim(g, ResolveNext(s))
           label == IF k + 1 = Len(Order(Kind(s))) THEN "resolve_send" ELSE "clock"
<1>1. /\ LabelOK(s) /\ Newest(s) /\ GameOK(s) /\ Timely(s) /\ Simulated(s)
  BY DEF LaneCtx, LaneInv
<1>2. /\ pc[s] = "clock_send" /\ UpdateGame(s, h) /\ Advance(s, label)
      /\ mem' = [mem EXCEPT ![s].k = @ + 1]
      /\ UNCHANGED <<now, proven, finalized, anchor, latest, fin, wdBlock, prog, ph>>
  BY DEF ResolveClaim, Sent, l2Vars
<1>3. mem'[s].k = k + 1 /\ mem'[s].out = mem[s].out /\ mem'[s].hdr = mem[s].hdr
      /\ mem'[s].gi = mem[s].gi
  BY <1>2, LaneTypes DEF Memory
<1>4. /\ pc[s] \in Posted \ {"index"} /\ pc[s] \in Started /\ pc[s] \in Matched
      /\ pc[s] \notin Recovering \cup Ruled \cup Single /\ pc[s] \in Counting
      /\ {"clock", "resolve_send"} \subseteq Posted /\ {"clock", "resolve_send"} \subseteq Matched
      /\ "clock" \notin Recovering \cup Ruled \cup Single
      /\ "resolve_send" \notin Recovering \cup Ruled \cup Single \cup Counting
  BY <1>2 DEF Posted, InGame, Recovering, Ruled, Single, Counting, Started, Labels,
              Sends, Matched
<1>5. k < n /\ k \in Nat /\ n \in 1..3
  BY <1>1, <1>2, <1>4, LaneTypes, LaneGame DEF GameOK, ResolvedCount, Ended
<1>6. ResolveNext(s) = n - k /\ Len(Order(Kind(s))) = n
  BY <1>5, NextIsLast
<1>7. label = (IF k + 1 = n THEN "resolve_send" ELSE "clock")
  BY <1>6
<1> HIDE DEF label
<1>8. label = "clock" \/ label = "resolve_send"
  BY <1>7
<1>9. /\ pc'[s] = label /\ since'[s] = (IF label = "clock" THEN now ELSE 0)
      /\ Kind(s)' = Kind(s) /\ Wd(s)' = Wd(s) /\ Honest(s)' = Honest(s)
  BY <1>2, <1>8, LaneAdvance DEF Waits
<1>10. Size(Kind(s), pc[s]) = n /\ Size(Kind(s), label) = n
  BY <1>2, <1>4, <1>8 DEF Size
<1>11. /\ g \in Games /\ Chain(g, n) /\ Settling(g, n, k) /\ Ledger(g, n, k)
       /\ g.root = Root(s) /\ g.status = "IN_PROGRESS" /\ g.unlockedAt["proposer"] = 0
       /\ \A i \in 1..n : g.claims[i].at <= now
  BY <1>2, <1>4, <1>10, LaneGame
<1>12. /\ Chain(h, n) /\ Settling(h, n, k + 1) /\ Ledger(h, n, k + 1)
       /\ h.status = "IN_PROGRESS" /\ h.unlockedAt = g.unlockedAt /\ h.root = g.root
       /\ \A j \in 1..n : h.claims[j].at <= now
  <2>1. k \in 0..2 /\ k < n /\ n \in 1..3
    BY <1>5
  <2> HIDE DEF g, n, k
  <2>2. QED
    BY <1>6, <1>11, <2>1, ResolveChain
<1>13. h.block = g.block
  BY <1>11 DEF ResolvedClaim, Games
<1> HIDE DEF h, g
<1>14. /\ Len(games') = Len(games) /\ Len(games') \in Nat /\ Len(games') > 0
       /\ games'[Len(games')] = h /\ mem[s].gi = Len(games')
       /\ \A i \in 1..Len(games) :
            games'[i].root = games[i].root /\ games'[i].block = games[i].block
  BY <1>2, <1>4, <1>12, <1>13, GameMoves DEF g
<1>15. LabelOK(s)'
  BY <1>8, <1>9 DEF LabelOK, Recovering, Ended, Unsent
<1>16. Untouched(s)' /\ HeadOK' /\ Newest(s)' /\ Expected(s)'
  <2>1. anchor <= mem[s].out
    BY <1>1, <1>4 DEF Newest
  <2>2. QED
    BY <1>2, <1>3, <1>4, <1>8, <1>9, <1>14, <2>1, LaneStays
<1>17. GameOK(s)'
  <2>1. ResolvedCount(Kind(s), label, k + 1)
    BY <1>4, <1>5, <1>7, <1>8 DEF ResolvedCount, Counting
  <2> HIDE DEF n, k
  <2>2. QED
    BY <1>2, <1>3, <1>4, <1>8, <1>9, <1>10, <1>11, <1>12, <1>14, <2>1, GameBecomes
<1>18. Timely(s)'
  <2>1. Len(h.claims) = n
    BY <1>12 DEF Chain
  <2>2. now <= now + MaxClock /\ now \in Nat
    BY LaneTypes, DelayAssumption
  <2> HIDE DEF n
  <2>3. QED
    BY <1>1, <1>2, <1>8, <1>9, <1>12, <1>14, <2>1, <2>2 DEF Timely
<1>19. Simulated(s)'
  <2>1. Honest(s) => proven[Wd(s)].game = mem[s].gi
    BY <1>1, <1>4 DEF Simulated
  <2>2. QED
    BY <1>2, <1>3, <1>8, <1>9, <2>1 DEF Simulated
<1>20. QED
  BY <1>15, <1>16, <1>17, <1>18, <1>19 DEF LaneInv

\* The game ends as its root claim does.
LEMMA LaneResolve ==
  ASSUME NEW s, LaneCtx(s), Resolve(s)
  PROVE  LaneInv(s)'
<1> DEFINE g == Game(s)
           n == TreeSize(Kind(s))
           h == ResolvedGame(g)
<1>1. /\ LabelOK(s) /\ Newest(s) /\ GameOK(s) /\ Timely(s) /\ Simulated(s)
  BY DEF LaneCtx, LaneInv
<1>2. /\ pc[s] = "resolve_send" /\ UpdateGame(s, h) /\ Advance(s, "check")
      /\ UNCHANGED <<now, proven, finalized, anchor, latest, fin, wdBlock, prog, ph, mem>>
  BY DEF Resolve, Sent, l2Vars
<1>3. /\ pc[s] \in Posted \ {"index"} /\ pc[s] \in Started /\ pc[s] \in Matched
      /\ pc[s] \notin Recovering \cup Ruled \cup Single \cup Counting
      /\ "check" \in Posted /\ "check" \in Ruled /\ "check" \notin Recovering \cup Single \cup Counting
  BY <1>2 DEF Posted, InGame, Recovering, Ruled, Single, Counting, Started, Labels,
              Sends, Matched
<1>4. /\ pc'[s] = "check" /\ since'[s] = 0
      /\ Kind(s)' = Kind(s) /\ Wd(s)' = Wd(s) /\ Honest(s)' = Honest(s)
  BY <1>2, LaneAdvance DEF Waits
<1>5. mem[s].k = n /\ Size(Kind(s), pc[s]) = n /\ Size(Kind(s), "check") = n
  BY <1>1, <1>2, <1>3 DEF GameOK, ResolvedCount, Size, Ended
<1>6. /\ g \in Games /\ Chain(g, n) /\ Settling(g, n, n) /\ Ledger(g, n, n)
      /\ g.root = Root(s) /\ g.unlockedAt["proposer"] = 0 /\ n \in 1..3
      /\ \A i \in 1..n : g.claims[i].at <= now
  BY <1>2, <1>3, <1>5, LaneGame
<1>7. /\ h.claims = g.claims /\ h.credit = g.credit /\ h.unlockedAt = g.unlockedAt
      /\ h.root = g.root /\ h.block = g.block /\ h.created = g.created /\ h.resolvedAt = now
      /\ h.status = IF g.claims[1].counteredBy = "nobody" THEN "DEFENDER_WINS" ELSE "CHALLENGER_WINS"
  BY <1>6 DEF ResolvedGame, Games
<1>8. g.claims[1].counteredBy = "nobody" <=> Kind(s) # "dishonest"
  <2>1. g.claims[1].counteredBy = IF 1 = n - 1 THEN Author(n) ELSE "nobody"
    <3>1. 1 \in 1..n /\ 1 > n - n
      BY <1>6
    <3>2. QED
      BY <1>6, <3>1 DEF Settling
  <2>2. Kind(s) = "dishonest" <=> n = 2
    BY LaneTypes DEF TreeSize, Kinds
  <2> HIDE DEF n
  <2>3. n = 2 <=> 1 = n - 1
    BY <1>6
  <2>4. Author(n) # "nobody"
    BY DEF Author
  <2>5. QED
    BY <2>1, <2>2, <2>3, <2>4
<1> HIDE DEF h
<1>9. Chain(h, n) /\ Settling(h, n, n) /\ Ledger(h, n, n)
  BY <1>6, <1>7 DEF Chain, Settling, Ledger
<1> HIDE DEF g
<1>10. /\ Len(games') = Len(games) /\ Len(games') \in Nat /\ Len(games') > 0
       /\ games'[Len(games')] = h /\ mem[s].gi = Len(games')
       /\ \A i \in 1..Len(games) :
            games'[i].root = games[i].root /\ games'[i].block = games[i].block
  BY <1>2, <1>3, <1>7, GameMoves DEF g
<1>11. LabelOK(s)'
  BY <1>4 DEF LabelOK, Recovering, Ended, Unsent
<1>12. Untouched(s)' /\ HeadOK' /\ Newest(s)' /\ Expected(s)'
  <2>1. anchor <= mem[s].out
    BY <1>1, <1>3 DEF Newest
  <2>2. QED
    BY <1>2, <1>3, <1>4, <1>10, <2>1, LaneStays
<1>13. GameOK(s)'
  <2>1. ResolvedCount(Kind(s), "check", n)
    BY <1>3 DEF ResolvedCount
  <2>2. h.status = Verdict(Kind(s))
    BY <1>7, <1>8 DEF Verdict
  <2> HIDE DEF n
  <2>3. QED
    BY <1>2, <1>3, <1>4, <1>5, <1>6, <1>7, <1>9, <1>10, <2>1, <2>2, GameBecomes
<1>14. Timely(s)'
  <2>1. Len(h.claims) = n
    BY <1>9 DEF Chain
  <2>2. now \in Nat /\ 0 <= now
    BY LaneTypes
  <2> HIDE DEF n
  <2>3. QED
    BY <1>1, <1>2, <1>4, <1>6, <1>7, <1>10, <2>1, <2>2 DEF Timely
<1>15. Simulated(s)'
  <2>1. Honest(s) => proven[Wd(s)].game = mem[s].gi
    BY <1>1, <1>3 DEF Simulated
  <2>2. QED
    BY <1>2, <1>4, <2>1 DEF Simulated
<1>16. QED
  BY <1>11, <1>12, <1>13, <1>14, <1>15 DEF LaneInv

\* The ledger adds up: the last to move has every bond of the game.
LEMMA LaneLedger ==
  ASSUME NEW s, LaneCtx(s), pc[s] = "check"
  PROVE  LedgerOK(s)
<1> DEFINE g == Game(s)
           n == TreeSize(Kind(s))
<1>1. pc[s] \in Posted /\ pc[s] \in Ruled /\ pc[s] \notin Single \cup Counting
  BY DEF Posted, InGame, Ruled, Single, Counting, Recovering
<1>2. mem[s].k = n /\ Size(Kind(s), pc[s]) = n
  BY <1>1 DEF LaneCtx, LaneInv, GameOK, ResolvedCount, Size, Ended
<1>3. Ledger(g, n, n) /\ g.status = Verdict(Kind(s))
  BY <1>1, <1>2, LaneGame
<1> HIDE DEF g
<1>4. InitBond \in Nat /\ RootBond \in Nat /\ RebutBond \in Nat
  BY BondAssumption
<1>5. CASE Kind(s) = "claim"
  BY <1>3, <1>5 DEF LedgerOK, Verdict, g
<1>6. CASE Kind(s) = "abandoned"
  <2>1. n = 3
    BY <1>6 DEF TreeSize
  <2>2. g.credit["proposer"] = Earned(3, 3) /\ g.credit["challenger"] = 0
    BY <1>3, <2>1 DEF Ledger, Author, Opponent
  <2>3. Earned(3, 3) = RebutBond + RootBond + InitBond
    BY DEF Earned, BondOf
  <2>4. Earned(3, 3) = InitBond + RootBond + RebutBond
    BY <1>4, <2>3
  <2>5. QED
    BY <1>3, <1>6, <2>2, <2>4 DEF LedgerOK, Verdict, g
<1>7. CASE Kind(s) = "dishonest"
  <2>1. n = 2
    BY <1>7 DEF TreeSize
  <2>2. g.credit["challenger"] = Earned(2, 2) /\ g.credit["proposer"] = 0
    BY <1>3, <2>1 DEF Ledger, Author, Opponent
  <2>3. Earned(2, 2) = RootBond + InitBond + 0
    BY DEF Earned, BondOf
  <2>4. Earned(2, 2) = InitBond + RootBond
    BY <1>4, <2>3
  <2>5. QED
    BY <1>3, <1>7, <2>2, <2>4 DEF LedgerOK, Verdict, g
<1>8. QED
  BY <1>5, <1>6, <1>7, LaneTypes DEF Kinds

LEMMA LaneCheck ==
  ASSUME NEW s, LaneCtx(s), Check(s)
  PROVE  LaneInv(s)'
<1>1. /\ LabelOK(s) /\ HeadOK /\ Newest(s) /\ GameOK(s) /\ Timely(s) /\ Simulated(s)
  BY DEF LaneCtx, LaneInv
<1>2. pc[s] = "check" /\ UNCHANGED <<bridgeVars, l2Vars, prog>>
  BY DEF Check
<1>3. UNCHANGED <<now, games, proven, finalized, anchor, latest, fin, wdBlock, prog>>
  BY <1>2 DEF bridgeVars, l2Vars
<1>4. LedgerOK(s)
  BY <1>2, LaneLedger
<1>5. CASE Kind(s) = "dishonest"
  <2>1. EndPhase(s)
    BY <1>4, <1>5 DEF Check
  <2>2. anchor' <= fin
    BY <1>1, <1>3 DEF HeadOK
  <2>3. QED
    BY <1>2, <1>3, <2>1, <2>2, LaneEndPhase
<1>6. CASE Kind(s) # "dishonest"
  <2>1. Advance(s, "fin") /\ UNCHANGED <<ph, mem>>
    BY <1>4, <1>6 DEF Check
  <2>2. /\ pc'[s] = "fin" /\ since'[s] = now
        /\ Kind(s)' = Kind(s) /\ Wd(s)' = Wd(s) /\ Honest(s)' = Honest(s)
    BY <1>3, <2>1, LaneAdvance DEF Waits
  <2>3. /\ pc[s] \in Posted /\ pc[s] \in Started /\ pc[s] # "index" /\ pc[s] \in Matched
        /\ pc[s] \in Ruled /\ pc[s] \notin Recovering \cup Single \cup Counting
        /\ "fin" \in Posted /\ "fin" \in Ruled /\ "fin" \notin Recovering \cup Single \cup Counting
    BY <1>2 DEF Posted, InGame, Recovering, Ruled, Single, Counting, Started, Labels, Matched
  <2>4. LabelOK(s)'
    BY <1>6, <2>2 DEF LabelOK, Recovering, Honest, Ended, Unsent
  <2>5. Untouched(s)' /\ HeadOK' /\ Newest(s)' /\ Expected(s)'
    <3>1. anchor <= mem[s].out
      BY <1>1, <2>3 DEF Newest
    <3>2. QED
      BY <1>3, <2>1, <2>3, <3>1, LaneStays
  <2>6. GameOK(s)'
    <3>1. Size(Kind(s), "fin") = Size(Kind(s), pc[s])
      BY <2>3, <1>2 DEF Size
    <3>2. ResolvedCount(Kind(s), "fin", mem[s].k)
      BY <1>1, <1>2, <2>3 DEF GameOK, ResolvedCount, Ended
    <3>3. mem[s].gi = Len(games)
      BY <1>1, <2>3 DEF GameOK
    <3>4. QED
      BY <1>2, <1>3, <2>1, <2>3, <3>1, <3>2, <3>3, GameStays
  <2>7. Timely(s)'
    <3>1. /\ games[Len(games)].resolvedAt = now /\ now > 0
          /\ \A w \in Withdrawals : proven[w].at <= now
          /\ \A i \in 1..Len(games[Len(games)].claims) : games[Len(games)].claims[i].at <= now
      BY <1>1, <1>2, <2>3 DEF Timely
    <3>2. now <= now /\ now <= now + ProofMaturity + 1
      BY LaneTypes, DelayAssumption
    <3>3. Wd(s) \in Withdrawals
      BY LaneTypes
    <3>4. QED
      BY <1>3, <2>2, <3>1, <3>2, <3>3 DEF Timely
  <2>8. Simulated(s)'
    <3>1. Honest(s) => proven[Wd(s)].game = mem[s].gi
      BY <1>1, <2>3 DEF Simulated
    <3>2. QED
      BY <1>3, <2>1, <2>2, <3>1 DEF Simulated
  <2>9. QED
    BY <2>4, <2>5, <2>6, <2>7, <2>8 DEF LaneInv
<1>7. QED
  BY <1>5, <1>6

LEMMA LaneFinalize ==
  ASSUME NEW s, LaneCtx(s), FinalizeWithdrawal(s)
  PROVE  LaneInv(s)'
<1>1. /\ LabelOK(s) /\ HeadOK /\ Newest(s) /\ GameOK(s) /\ Timely(s) /\ Simulated(s)
  BY DEF LaneCtx, LaneInv
<1>2. /\ pc[s] = "fin_send" /\ Gate(s) /\ finalized' = finalized \cup {Wd(s)}
      /\ UNCHANGED <<now, games, proven, anchor, latest, fin, wdBlock, prog>>
      /\ UNCHANGED l2Vars
  BY DEF FinalizeWithdrawal, Finalize, Sent, l2Vars
<1>3. CASE Kind(s) # "claim"
  <2>1. EndPhase(s)
    BY <1>3 DEF FinalizeWithdrawal
  <2>2. anchor' <= fin
    BY <1>1, <1>2 DEF HeadOK
  <2>3. QED
    BY <1>2, <2>1, <2>2, LaneEndPhase
<1>4. CASE Kind(s) = "claim"
  <2>1. Advance(s, "unlock_send") /\ UNCHANGED <<ph, mem>>
    BY <1>4 DEF FinalizeWithdrawal
  <2>2. /\ pc'[s] = "unlock_send" /\ since'[s] = 0
        /\ Kind(s)' = Kind(s) /\ Wd(s)' = Wd(s) /\ Honest(s)' = Honest(s)
    BY <1>2, <2>1, LaneAdvance DEF Waits
  <2>3. /\ pc[s] \in Posted /\ pc[s] \in Started /\ pc[s] # "index" /\ pc[s] \in Matched
        /\ pc[s] \in Ruled /\ pc[s] \notin Recovering \cup Single \cup Counting
        /\ "unlock_send" \in Posted /\ "unlock_send" \in Ruled
        /\ "unlock_send" \in Recovering /\ "unlock_send" \notin Single \cup Counting
    BY <1>2 DEF Posted, InGame, Recovering, Ruled, Single, Counting, Started, Labels, Matched, Sends
  <2>4. LabelOK(s)'
    BY <1>4, <2>2 DEF LabelOK, Honest
  <2>5. Untouched(s)' /\ HeadOK' /\ Newest(s)' /\ Expected(s)'
    <3>1. anchor <= mem[s].out
      BY <1>1, <2>3 DEF Newest
    <3>2. QED
      BY <1>2, <2>1, <2>3, <3>1, LaneStays
  <2>6. GameOK(s)'
    <3>1. Size(Kind(s), "unlock_send") = Size(Kind(s), pc[s])
      BY <1>2, <2>3 DEF Size
    <3>2. ResolvedCount(Kind(s), "unlock_send", mem[s].k)
      BY <1>1, <1>2, <2>3 DEF GameOK, ResolvedCount, Ended
    <3>3. mem[s].gi = Len(games)
      BY <1>1, <2>3 DEF GameOK
    <3>4. QED
      BY <1>2, <2>1, <2>3, <3>1, <3>2, <3>3, GameStays
  <2>7. Settled(games[Len(games)])
    <3>1. CanFinalize(Wd(s)) /\ Honest(s)
      BY <1>2, <1>4 DEF Gate, Honest
    <3>2. proven[Wd(s)].game = Len(games)
      BY <1>1, <2>3, <3>1 DEF Simulated, GameOK
    <3>3. QED
      BY <3>1, <3>2 DEF CanFinalize
  <2>8. Timely(s)'
    <3>1. Settled(games[Len(games)])'
      BY <1>2, <2>7 DEF Settled
    <3>2. /\ now > 0 /\ 0 <= now
          /\ \A w \in Withdrawals : proven[w].at <= now
          /\ \A i \in 1..Len(games[Len(games)].claims) : games[Len(games)].claims[i].at <= now
      BY <1>1, <2>3, LaneTypes DEF Timely
    <3>3. QED
      BY <1>2, <2>2, <3>1, <3>2 DEF Timely
  <2>9. Simulated(s)'
    <3>1. Honest(s) => proven[Wd(s)].game = mem[s].gi
      BY <1>1, <2>3 DEF Simulated
    <3>2. QED
      BY <1>2, <2>1, <2>2, <3>1 DEF Simulated
  <2>10. QED
    BY <2>4, <2>5, <2>6, <2>8, <2>9 DEF LaneInv
<1>5. QED
  BY <1>3, <1>4

\* Closing the game may move the anchor, but not past the output the phase claimed.
LEMMA LaneAnchor ==
  ASSUME NEW s, LaneCtx(s), pc[s] \in {"unlock_send", "pay_send"}
  PROVE  AnchorAfter(Game(s)) <= mem[s].out
<1>1. pc[s] \in Posted /\ pc[s] \in Started /\ Kind(s) = "claim"
  BY DEF Posted, InGame, Started, Labels, Sends, LaneCtx, LaneInv, LabelOK, Recovering
<1>2. anchor <= mem[s].out /\ mem[s].out # 0
  <2>1. pc[s] \in Unposted \cup Posted
    BY <1>1
  <2>2. wdBlock[Wd(s)] > 0 /\ wdBlock[Wd(s)] <= mem[s].out /\ anchor <= mem[s].out
    BY <1>1, <2>1 DEF LaneCtx, LaneInv, Newest
  <2>3. QED
    BY <2>2, LaneTypes
<1>3. Game(s) = games[Len(games)] /\ Game(s).root = mem[s].out /\ Len(games) \in 1..Len(games)
  BY <1>1, LaneGame DEF Root
<1>4. Game(s).block = mem[s].out
  BY <1>2, <1>3 DEF LaneCtx, OwnInv, RootsUnique, FakeRoot
<1>5. QED
  BY <1>2, <1>4, LaneTypes DEF AnchorAfter

LEMMA LaneUnlock ==
  ASSUME NEW s, LaneCtx(s), Unlock(s)
  PROVE  LaneInv(s)'
<1> DEFINE g == Game(s)
           h == Credited(g, "proposer")
<1>1. /\ LabelOK(s) /\ Newest(s) /\ GameOK(s) /\ Timely(s) /\ Simulated(s)
  BY DEF LaneCtx, LaneInv
<1>2. /\ pc[s] = "unlock_send" /\ UpdateGame(s, h) /\ Advance(s, "pay")
      /\ anchor' = AnchorAfter(g)
      /\ UNCHANGED <<now, proven, finalized, latest, fin, wdBlock, prog, ph, mem>>
  BY DEF Unlock, Sent, l2Vars
<1>3. Kind(s) = "claim" /\ TreeSize(Kind(s)) = 1
  BY <1>1, <1>2 DEF LabelOK, Recovering, TreeSize
<1>4. /\ pc[s] \in Posted \ {"index"} /\ pc[s] \in Started /\ pc[s] \in Matched
      /\ pc[s] \in Ruled /\ pc[s] \notin Single \cup Counting
      /\ "pay" \in Posted /\ "pay" \in Ruled /\ "pay" \in Recovering
      /\ "pay" \notin Single \cup Counting
  BY <1>2 DEF Posted, InGame, Recovering, Ruled, Single, Counting, Started, Labels,
              Sends, Matched
<1>5. /\ pc'[s] = "pay" /\ since'[s] = now
      /\ Kind(s)' = Kind(s) /\ Wd(s)' = Wd(s) /\ Honest(s)' = Honest(s)
  BY <1>2, LaneAdvance DEF Waits
<1>6. mem[s].k = 1 /\ Size(Kind(s), pc[s]) = 1 /\ Size(Kind(s), "pay") = 1
  BY <1>1, <1>2, <1>3, <1>4 DEF GameOK, ResolvedCount, Size, Ended
<1>7. /\ g \in Games /\ Chain(g, 1) /\ Settling(g, 1, 1) /\ Ledger(g, 1, 1)
      /\ g.root = Root(s) /\ g.unlockedAt["proposer"] = 0
      /\ g.status = "DEFENDER_WINS" /\ g = games[Len(games)]
      /\ \A i \in 1..1 : g.claims[i].at <= now
  BY <1>2, <1>3, <1>4, <1>6, LaneGame DEF Verdict
<1>8. Settled(g)
  BY <1>1, <1>2, <1>7 DEF Timely
<1>9. /\ h.claims = g.claims /\ h.credit = g.credit /\ h.root = g.root /\ h.block = g.block
      /\ h.created = g.created /\ h.resolvedAt = g.resolvedAt /\ h.status = g.status
      /\ h.unlockedAt["proposer"] = now
  BY <1>7 DEF Credited, Games, Actors
<1> HIDE DEF h
<1>10. Chain(h, 1) /\ Settling(h, 1, 1) /\ Ledger(h, 1, 1)
  BY <1>7, <1>9 DEF Chain, Settling, Ledger
<1>11. AnchorAfter(g) <= mem[s].out
  BY <1>2, LaneAnchor
<1> HIDE DEF g
<1>12. /\ Len(games') = Len(games) /\ Len(games') \in Nat /\ Len(games') > 0
       /\ games'[Len(games')] = h /\ mem[s].gi = Len(games')
       /\ \A i \in 1..Len(games) :
            games'[i].root = games[i].root /\ games'[i].block = games[i].block
  BY <1>2, <1>4, <1>9, GameMoves DEF g
<1>13. LabelOK(s)'
  BY <1>3, <1>5 DEF LabelOK
<1>14. Untouched(s)' /\ HeadOK' /\ Newest(s)' /\ Expected(s)'
  BY <1>2, <1>4, <1>5, <1>11, <1>12, LaneStays
<1>15. GameOK(s)'
  <2>1. ResolvedCount(Kind(s), "pay", 1)
    BY <1>3, <1>4 DEF ResolvedCount
  <2>2. h.status = Verdict(Kind(s))
    BY <1>3, <1>7, <1>9 DEF Verdict
  <2>3. QED
    BY <1>2, <1>4, <1>6, <1>7, <1>9, <1>10, <1>12, <2>1, <2>2, GameBecomes
<1>16. Timely(s)'
  <2>1. Len(h.claims) = 1
    BY <1>10 DEF Chain
  <2>2. now \in 1..now /\ now <= now /\ now <= now + UnlockDelay
    BY <1>1, LaneTypes, DelayAssumption DEF Timely
  <2>3. Settled(games[Len(games)])'
    BY <1>2, <1>8, <1>9, <1>12 DEF Settled
  <2>4. QED
    BY <1>1, <1>2, <1>5, <1>7, <1>9, <1>12, <2>1, <2>2, <2>3 DEF Timely
<1>17. Simulated(s)'
  <2>1. Honest(s) => proven[Wd(s)].game = mem[s].gi
    BY <1>1, <1>4 DEF Simulated
  <2>2. QED
    BY <1>2, <1>5, <2>1 DEF Simulated
<1>18. QED
  BY <1>13, <1>14, <1>15, <1>16, <1>17 DEF LaneInv

LEMMA LaneRecoverBond ==
  ASSUME NEW s, LaneCtx(s), RecoverBond(s)
  PROVE  LaneInv(s)'
<1> DEFINE g == Game(s)
           h == Credited(g, "proposer")
<1>1. /\ pc[s] = "pay_send" /\ UpdateGame(s, h) /\ Advance(s, "delta")
      /\ anchor' = AnchorAfter(g)
      /\ UNCHANGED <<now, proven, finalized, fin, wdBlock, prog, ph, mem>>
  BY DEF RecoverBond, Sent, l2Vars
<1>2. /\ LabelOK(s) /\ Untouched(s) /\ HeadOK /\ Newest(s) /\ Timely(s) /\ Expected(s)
  BY DEF LaneCtx, LaneInv
<1>3. pc[s] \in Posted \ {"index"} /\ pc[s] \in Started /\ Kind(s) = "claim" /\ Honest(s)
  BY <1>1, <1>2 DEF Posted, InGame, Started, Labels, Sends, LabelOK, Recovering, Honest
<1>4. g \in Games
  BY <1>3, LaneGame
<1>5. h.root = g.root /\ h.block = g.block
  BY <1>4 DEF Credited, Games
<1>6. anchor' <= mem[s].out
  BY <1>1, LaneAnchor
<1>7. anchor' <= fin
  <2>1. anchor' \in Nat
    BY DEF LaneCtx, IInv, BridgeInv, BridgeTypeOK
  <2>2. QED
    BY <1>6, <2>1, LaneTypes
<1> HIDE DEF h
<1>8. /\ Len(games') = Len(games)
      /\ \A i \in 1..Len(games) :
           games'[i].root = games[i].root /\ games'[i].block = games[i].block
  BY <1>1, <1>3, <1>5, GameMoves
<1>9. /\ pc'[s] = "delta" /\ since'[s] = 0 /\ why'[s] = why[s]
      /\ Kind(s)' = Kind(s) /\ Wd(s)' = Wd(s) /\ Honest(s)' = Honest(s)
  BY <1>1, LaneAdvance DEF Waits
<1>10. /\ "delta" \in Ended
       /\ "delta" \notin Unsent \cup Unposted \cup Posted \cup Recovering \cup Started \cup Matched
  BY DEF Unsent, Unposted, Posted, InGame, Recovering, Started, Matched, Ended
<1>11. LabelOK(s)'
  BY <1>3, <1>9, <1>10 DEF LabelOK
<1>12. Untouched(s)'
  BY <1>1, <1>2, <1>9, <1>10 DEF Untouched
<1>13. HeadOK'
  BY <1>1, <1>2, <1>7, <1>8 DEF HeadOK
<1>14. Newest(s)'
  BY <1>1, <1>2, <1>3, <1>6, <1>8, <1>9, <1>10 DEF Newest
<1>15. GameOK(s)'
  BY <1>9, <1>10 DEF GameOK
<1>16. Timely(s)'
  BY <1>1, <1>2, <1>9, <1>10, LaneTypes DEF Timely
<1>17. Simulated(s)' /\ Expected(s)'
  BY <1>1, <1>2, <1>9, <1>10 DEF Simulated, Expected
<1>18. QED
  BY <1>11, <1>12, <1>13, <1>14, <1>15, <1>16, <1>17 DEF LaneInv

\* Nothing is missing on L1: the withdrawal's ETH came, and the bond came back.
LEMMA LaneCheckDelta ==
  ASSUME NEW s, LaneCtx(s), CheckDelta(s)
  PROVE  LaneInv(s)'
<1>1. /\ LabelOK(s) /\ Untouched(s) /\ HeadOK /\ Newest(s) /\ Timely(s) /\ Expected(s)
      /\ MoneyInv(s)
  BY DEF LaneCtx, LaneInv
<1>2. pc[s] = "delta" /\ Kind(s) = "claim"
  BY <1>1 DEF CheckDelta, LabelOK, Ended
<1>3. dev1 - mem[s].before = Ether
  <2>1. dev1 = mem[s].before + Ether
    BY <1>1, <1>2 DEF MoneyInv, Gain, Unposted
  <2>2. mem[s].before \in Int
    BY LaneTypes DEF Memory
  <2>3. QED
    BY <2>1, <2>2 DEF Ether
<1>4. Advance(s, "sendoff") /\ UNCHANGED <<bridgeVars, l2Vars, prog, ph, mem>>
  BY <1>3 DEF CheckDelta, Ether, GasAllowance
<1>5. /\ pc'[s] = "sendoff" /\ since'[s] = 0 /\ why'[s] = why[s]
      /\ Kind(s)' = Kind(s) /\ Wd(s)' = Wd(s) /\ Honest(s)' = Honest(s)
      /\ UNCHANGED <<now, games, proven, finalized, anchor, fin, wdBlock, prog, ph, mem>>
  BY <1>4, LaneAdvance DEF Waits, bridgeVars, l2Vars
<1>6. /\ {"delta", "sendoff"} = Ended
      /\ "sendoff" \notin Unsent \cup Unposted \cup Posted \cup Recovering \cup Started \cup Matched
  BY DEF Unsent, Unposted, Posted, InGame, Recovering, Started, Matched, Ended
<1>7. LabelOK(s)'
  BY <1>2, <1>5, <1>6 DEF LabelOK
<1>8. Untouched(s)'
  BY <1>1, <1>5, <1>6 DEF Untouched
<1>9. HeadOK' /\ Newest(s)'
  BY <1>1, <1>2, <1>5, <1>6 DEF HeadOK, Newest
<1>10. GameOK(s)'
  BY <1>5, <1>6 DEF GameOK
<1>11. Timely(s)'
  BY <1>1, <1>5, <1>6, LaneTypes DEF Timely
<1>12. Simulated(s)' /\ Expected(s)'
  BY <1>1, <1>2, <1>5, <1>6 DEF Simulated, Expected
<1>13. QED
  BY <1>7, <1>8, <1>9, <1>10, <1>11, <1>12 DEF LaneInv

LEMMA LaneSendoff ==
  ASSUME NEW s, LaneCtx(s), Sendoff(s)
  PROVE  LaneInv(s)'
<1>1. /\ pc[s] = "sendoff" /\ EndPhase(s)
      /\ UNCHANGED <<now, games, proven, finalized, anchor, fin, wdBlock, prog>>
  BY DEF Sendoff, bridgeVars
<1>2. anchor' <= fin
  BY <1>1 DEF LaneCtx, LaneInv, HeadOK
<1>3. QED
  BY <1>1, <1>2, LaneEndPhase

-----------------------------------------------------------------------------
(* The chains beside the lane *)

LEMMA LaneBlocks ==
  ASSUME NEW s, LaneCtx(s), SealBlock \/ Derive \/ FinalizeL2 \/ UNCHANGED vars
  PROVE  LaneInv(s)'
<1>1. /\ LabelOK(s) /\ Untouched(s) /\ HeadOK /\ Newest(s)
      /\ GameOK(s) /\ Timely(s) /\ Simulated(s) /\ Expected(s)
  BY DEF LaneCtx, LaneInv
<1>2. /\ UNCHANGED <<now, games, proven, finalized, anchor, wdBlock>>
      /\ UNCHANGED <<prog, ph, pc, mem, since, why>>
  BY DEF SealBlock, Derive, FinalizeL2, vars, l2Vars, bridgeVars, scriptVars
<1>3. fin' \in Nat /\ fin' >= fin
  BY LaneTypes DEF SealBlock, Derive, FinalizeL2, vars, l2Vars
<1>4. /\ Kind(s)' = Kind(s) /\ Wd(s)' = Wd(s) /\ Honest(s)' = Honest(s)
      /\ Game(s)' = Game(s) /\ Root(s)' = Root(s) /\ ResolveNext(s)' = ResolveNext(s)
  BY <1>2 DEF Kind, Wd, Phase, Honest, Game, Root, ResolveNext
<1>5. LabelOK(s)' /\ Untouched(s)'
  BY <1>1, <1>2, <1>4 DEF LabelOK, Untouched
<1>6. HeadOK'
  <2>1. anchor <= fin'
    BY <1>1, <1>3, LaneTypes DEF HeadOK
  <2>2. ASSUME NEW i \in 1..Len(games)
        PROVE  games[i].root <= fin' /\ games[i].block <= fin' + 1
    <3>1. games[i].root \in Nat /\ games[i].block \in Nat
      <4>1. games[i] \in Games
        BY LaneTypes, ElementLemma
      <4>2. QED
        BY <4>1 DEF Games
    <3>2. games[i].root <= fin /\ games[i].block <= fin + 1 /\ fin \in Nat
      BY <1>1, LaneTypes DEF HeadOK
    <3>3. QED
      BY <1>3, <3>1, <3>2
  <2>3. QED
    BY <1>2, <2>1, <2>2 DEF HeadOK
<1>7. Newest(s)'
  <2>1. ~Honest(s) => wdBlock[Wd(s)] <= fin'
    BY <1>1, <1>3, LaneTypes DEF Newest
  <2>2. QED
    BY <1>1, <1>2, <1>4, <2>1 DEF Newest
<1>8. GameOK(s)'
  BY <1>1, <1>2, <1>4 DEF GameOK
<1>9. Timely(s)'
  BY <1>1, <1>2, <1>4 DEF Timely, Settled
<1>10. Simulated(s)'
  <2>1. ASSUME pc[s] \in {"prove_send", "clock_send", "fin_send", "pay_send"}
        PROVE  Gate(s)'
    <3>0. Gate(s) /\ \A b : Storage(b)' = Storage(b)
      BY <1>1, <1>2, <2>1 DEF Simulated, Storage
    <3>1. CASE pc[s] = "prove_send"
      BY <1>2, <1>4, <3>0, <3>1 DEF Gate, CanProve, PastCreation, RootMatches
    <3>2. CASE pc[s] = "clock_send"
      BY <1>2, <1>4, <3>0, <3>2 DEF Gate, CanResolveClaim, ChallengeClock, Children
    <3>3. CASE pc[s] = "fin_send"
      BY <1>2, <1>4, <3>0, <3>3 DEF Gate, CanFinalize, Settled
    <3>4. CASE pc[s] = "pay_send"
      BY <1>2, <1>4, <3>0, <3>4 DEF Gate, CanClaimCredit, Settled
    <3>5. QED
      BY <2>1, <3>1, <3>2, <3>3, <3>4
  <2>2. QED
    BY <1>1, <1>2, <1>4, <2>1 DEF Simulated
<1>11. Expected(s)'
  BY <1>1, <1>2, <1>4 DEF Expected
<1>12. QED
  BY <1>5, <1>6, <1>7, <1>8, <1>9, <1>10, <1>11 DEF LaneInv

\* The L1 clock moves only when the lane cannot: what it waits for is not there yet, so
\* that by the next tick its wait is no longer than the delay.
LEMMA LaneTick ==
  ASSUME NEW s, LaneCtx(s), Tick
  PROVE  LaneInv(s)'
<1>1. /\ LabelOK(s) /\ Untouched(s) /\ HeadOK /\ Newest(s)
      /\ GameOK(s) /\ Timely(s) /\ Simulated(s) /\ Expected(s)
  BY DEF LaneCtx, LaneInv
<1>2. /\ UNCHANGED <<games, proven, finalized, anchor, fin, wdBlock>>
      /\ UNCHANGED <<prog, ph, pc, mem, since, why>>
      /\ now' = now + 1 /\ now \in Nat /\ since[s] \in Nat
  BY LaneTypes DEF Tick, l2Vars, scriptVars
<1>3. Idle(s)
  BY DEF Tick, LaneCtx
<1>4. /\ Kind(s)' = Kind(s) /\ Wd(s)' = Wd(s) /\ Honest(s)' = Honest(s)
      /\ Root(s)' = Root(s)
  BY <1>2 DEF Kind, Wd, Phase, Honest, Root
<1>5. \/ pc[s] \in {"done", "exit", "output", "credit"}
      \/ pc[s] = "oracle" /\ ~PastCreation(Game(s))
      \/ pc[s] \in {"prove", "clock", "fin", "pay"} /\ ~Gate(s)
  BY <1>3 DEF Idle, Gated
<1>6. LabelOK(s)' /\ Untouched(s)' /\ HeadOK' /\ Newest(s)' /\ Expected(s)'
  BY <1>1, <1>2, <1>4 DEF LabelOK, Untouched, HeadOK, Newest, Expected
<1>7. GameOK(s)'
  BY <1>1, <1>2, <1>4 DEF GameOK
<1>8. Simulated(s)'
  BY <1>1, <1>2, <1>4, <1>5 DEF Simulated
<1>9. Timely(s)'
  <2> DEFINE g == games[Len(games)]
  <2>1. /\ now > 0 /\ since[s] <= now
        /\ \A w \in Withdrawals : proven[w].at <= now
    BY <1>1 DEF Timely
  <2>2. now' > 0 /\ since[s] <= now' /\ \A w \in Withdrawals : proven[w].at <= now'
    BY <1>2, <2>1, LaneTypes
  <2>3. CASE pc[s] \in {"done", "exit", "output", "credit"}
    BY <1>2, <2>2, <2>3 DEF Timely, Posted, InGame
  <2>4. CASE pc[s] \in {"prove", "oracle", "clock", "fin", "pay"}
    <3>1. pc[s] \in Posted
      BY <2>4 DEF Posted, InGame
    <3>2. /\ g.created \in Nat /\ g.resolvedAt \in Nat /\ Game(s) = g
          /\ \A i \in 1..Len(g.claims) : g.claims[i].at <= now /\ g.claims[i].at \in Nat
      BY <2>4, <3>1, LaneGame
    <3> HIDE DEF g
    <3>3. \A i \in 1..Len(g.claims) : g.claims[i].at <= now'
      BY <1>2, <3>2
    <3>4. pc[s] \in {"prove", "oracle"} => since[s] = g.created /\ now' <= g.created + 1
      <4>1. SUFFICES ASSUME pc[s] \in {"prove", "oracle"}
                     PROVE  since[s] = g.created /\ now' <= g.created + 1
        OBVIOUS
      <4>2. since[s] = g.created
        BY <1>1, <4>1 DEF Timely, g
      <4>3. ~(now > g.created)
        <5>1. pc[s] = "oracle" => ~(now > g.created)
          BY <1>5, <3>2 DEF PastCreation
        <5>2. pc[s] = "prove" => ~(now > g.created)
          BY <1>5, ProveGate DEF g
        <5>3. QED
          BY <4>1, <5>1, <5>2
      <4>4. QED
        BY <1>2, <3>2, <4>2, <4>3
    <3>5. pc[s] = "clock" =>
            now' <= since[s] + MaxClock /\ \A i \in 1..Len(g.claims) : g.claims[i].at <= since[s]
      <4>1. SUFFICES ASSUME pc[s] = "clock"
                     PROVE  /\ now' <= since[s] + MaxClock
                            /\ \A i \in 1..Len(g.claims) : g.claims[i].at <= since[s]
        OBVIOUS
      <4>2. \A i \in 1..Len(g.claims) : g.claims[i].at <= since[s]
        BY <1>1, <4>1 DEF Timely, g
      <4>3. ~(now >= since[s] + MaxClock)
        BY <1>5, <4>1, ClockGate
      <4>4. QED
        BY <1>2, <4>2, <4>3, DelayAssumption
    <3>6. pc[s] = "fin" =>
            /\ g.resolvedAt <= since[s] /\ proven[Wd(s)].at <= since[s]
            /\ now' <= since[s] + ProofMaturity + 1 \/ now' <= since[s] + FinalityDelay + 1
      <4>1. SUFFICES ASSUME pc[s] = "fin"
                     PROVE  /\ g.resolvedAt <= since[s] /\ proven[Wd(s)].at <= since[s]
                            /\ \/ now' <= since[s] + ProofMaturity + 1
                               \/ now' <= since[s] + FinalityDelay + 1
        OBVIOUS
      <4>2. g.resolvedAt <= since[s] /\ proven[Wd(s)].at <= since[s]
        BY <1>1, <4>1 DEF Timely, g
      <4>3. ~(now > since[s] + ProofMaturity) \/ ~(now > since[s] + FinalityDelay)
        BY <1>5, <4>1, FinalizeGate
      <4>4. QED
        BY <1>2, <4>2, <4>3, DelayAssumption
    <3>7. pc[s] = "pay" =>
            /\ g.unlockedAt["proposer"] \in 1..since[s] /\ now' <= since[s] + UnlockDelay
            /\ Settled(g)'
      <4>1. SUFFICES ASSUME pc[s] = "pay"
                     PROVE  /\ g.unlockedAt["proposer"] \in 1..since[s]
                            /\ now' <= since[s] + UnlockDelay
                            /\ Settled(g)'
        OBVIOUS
      <4>2. g.unlockedAt["proposer"] \in 1..since[s] /\ Settled(g)
        BY <1>1, <4>1 DEF Timely, g
      <4>3. ~(now >= since[s] + UnlockDelay)
        BY <1>5, <4>1, PayGate
      <4>4. g' = g
        BY <1>2 DEF g
      <4>5. Settled(g)'
        BY <1>2, <3>2, <4>2, <4>4, DelayAssumption DEF Settled
      <4>6. QED
        BY <1>2, <4>2, <4>3, <4>5, DelayAssumption
    <3>8. g' = games'[Len(games')] /\ g' = g /\ Wd(s)' = Wd(s) /\ pc'[s] = pc[s]
          /\ since'[s] = since[s] /\ proven' = proven
      BY <1>2, <1>4 DEF g
    <3>9. QED
      BY <2>2, <2>4, <3>3, <3>4, <3>5, <3>6, <3>7, <3>8 DEF Timely
  <2>5. QED
    BY <1>5, <2>3, <2>4
<1>10. QED
  BY <1>6, <1>7, <1>8, <1>9 DEF LaneInv

-----------------------------------------------------------------------------
(* The lane's money *)

LEMMA MoneyTypes ==
  ASSUME NEW s, LaneCtx(s)
  PROVE  /\ funds \in Nat /\ pending \in Nat /\ portalBal \in Nat /\ dev1 \in Int
         /\ mem[s].bal \in Nat /\ mem[s].before \in Int
         /\ InitBond \in Nat /\ Ether = 1000 /\ Headroom = 100
BY LaneTypes, BondAssumption
   DEF LaneCtx, IInv, BridgeInv, BridgeTypeOK, ChainsOK, Memory, Ether, Headroom

\* The labels a game's steps are between.
LEMMA MoneyLabels ==
  /\ Unposted \cap Posted = {} /\ Unposted \cap Recovering = {} /\ Recovering \subseteq Posted
  /\ Unsent \cap (Unposted \cup Posted \cup Ended) = {} /\ Ended \cap (Unposted \cup Posted) = {}
  /\ Pending \subseteq Unsent \cup Unposted \cup (Posted \ Recovering)
  /\ (Unsent \ {"fund"}) \cup Unposted \cup (Posted \ Recovering) \subseteq Pending
  /\ \A label \in Unposted \cup Posted \cup Ended :
       label \notin {"fund", "balance", "headroom", "credit", "before", "initiate", "done", "exit"}
BY DEF Unposted, Posted, InGame, Recovering, Unsent, Ended, Pending, Labels, Waits, Sends, Recovered

\* A step between two labels at which nothing of a claim's money moves.
LEMMA MoneyStays ==
  ASSUME NEW s, LaneCtx(s), NEW label, Advance(s, label), UNCHANGED <<prog, ph>>,
         pc[s] \in Unposted \cup Posted, label \in Unposted \cup Posted,
         label \in Unposted <=> pc[s] \in Unposted,
         label \in Recovering <=> pc[s] \in Recovering,
         UNCHANGED <<portalBal, pending, funds>>, Kind(s) = "claim" => dev1' = dev1,
         mem'[s].bal = mem[s].bal, mem'[s].before = mem[s].before,
         label = "pay_send" => games'[Len(games')].unlockedAt["proposer"] # 0
  PROVE  MoneyInv(s)'
<1>1. MoneyInv(s) /\ FundsOK(s)
  BY DEF LaneCtx, MoneyInv
<1>2. pc'[s] = label /\ Kind(s)' = Kind(s)
  BY LaneAdvance
<1>3. label \in Pending <=> pc[s] \in Pending
  BY MoneyLabels
<1>4. /\ {label, pc[s]} \cap {"fund", "balance", "headroom", "credit", "before", "initiate",
                              "done", "exit"} = {}
      /\ label # "delta" /\ pc[s] # "delta"
  BY MoneyLabels DEF Ended
<1>5. Gain(label) = Gain(pc[s])
  BY <1>4 DEF Gain
<1>6. FundsOK(s)'
  BY <1>1, <1>2, <1>4 DEF FundsOK
<1>7. QED
  BY <1>1, <1>2, <1>3, <1>4, <1>5, <1>6 DEF MoneyInv

\* A script that stops, or whose phase ends, has no deposit on its way and no claim begun.
LEMMA MoneyExit ==
  ASSUME NEW s, LaneCtx(s), NEW reason, Exit(s, reason)
  PROVE  MoneyInv(s)'
<1>1. pc'[s] = "exit"
  BY LaneTypes DEF Exit
<1>2. "exit" \notin Pending \cup Unposted \cup Posted \cup Ended
  BY MoneyLabels DEF Pending
<1>3. QED
  BY <1>1, <1>2 DEF MoneyInv, FundsOK

LEMMA MoneyEndPhase ==
  ASSUME NEW s, LaneCtx(s), EndPhase(s), pc[s] \in {"check", "fin_send", "sendoff"},
         UNCHANGED <<pending, prog>>
  PROVE  MoneyInv(s)'
<1>1. pending' = 0
  BY DEF LaneCtx, MoneyInv, FundsOK
<1>2. /\ pc'[s] \in {"done", "fund", "initiate", "output"}
      /\ pc'[s] = "initiate" => Kind(s)' = "abandoned"
      /\ pc'[s] = "output" => Kind(s)' = "dishonest"
  BY NextPhase
<1>3. /\ {"done", "fund"} \cap (Pending \cup Unposted \cup Posted \cup Ended) = {}
      /\ pc'[s] # "pay_send"
  BY <1>2, MoneyLabels DEF Pending
<1>4. mem'[s].bal = 0 /\ 0 < Ether
  BY LaneTypes DEF EndPhase, Blank, Ether
<1>5. FundsOK(s)'
  BY <1>1, <1>2, <1>3, <1>4 DEF FundsOK, Ether
<1>6. CASE pc'[s] \in {"done", "fund"}
  BY <1>3, <1>5, <1>6 DEF MoneyInv
<1>7. CASE pc'[s] \in {"initiate", "output"}
  <2>1. Kind(s)' # "claim"
    BY <1>2, <1>7
  <2>2. QED
    BY <1>3, <1>5, <2>1 DEF MoneyInv
<1>8. QED
  BY <1>2, <1>6, <1>7

\* Funding the portal and DEV1.
LEMMA MoneyFunding ==
  ASSUME NEW s, LaneCtx(s),
         \/ Fund(s) \/ ReadL2Balance(s) \/ DepositHeadroom(s) \/ ReadL1Balance(s)
         \/ pc[s] = "credit" /\ Poll(s)
  PROVE  MoneyInv(s)'
<1>1. MoneyInv(s) /\ FundsOK(s) /\ LabelOK(s)
  BY DEF LaneCtx, LaneInv, MoneyInv
<1>2. pc[s] \in Unsent \ {"initiate"} /\ Kind(s) = "claim"
  BY <1>1 DEF Fund, ReadL2Balance, DepositHeadroom, ReadL1Balance, Poll, Unsent, LabelOK
<1>3. /\ {"fund", "balance", "headroom", "credit", "before", "initiate"} = Unsent
      /\ Unsent \ {"fund"} \subseteq Pending /\ "initiate" \notin Unposted \cup Posted \cup Ended
      /\ Unsent \cap (Unposted \cup Posted \cup Ended) = {}
  BY MoneyLabels DEF Unsent
<1>4. CASE Fund(s)
  <2>1. /\ pc[s] = "fund" /\ pc'[s] = "balance" /\ Kind(s)' = Kind(s)
        /\ portalBal' = TopUp(portalBal) /\ pending' = pending
    BY <1>4, LaneAdvance DEF Fund, l2Vars
  <2>2. portalBal' >= Ether
    BY <2>1, MoneyTypes DEF TopUp
  <2>3. FundsOK(s)'
    BY <1>1, <1>3, <2>1 DEF FundsOK
  <2>4. QED
    BY <1>3, <2>1, <2>2, <2>3 DEF MoneyInv
<1>5. CASE ReadL2Balance(s)
  <2> DEFINE label == IF funds >= Ether + Headroom THEN "before" ELSE "headroom"
  <2>1. /\ pc[s] = "balance" /\ pc'[s] = label /\ Kind(s)' = Kind(s)
        /\ UNCHANGED <<portalBal, dev1, funds, pending>> /\ mem'[s].bal = funds
    BY <1>5, LaneAdvance, LaneTypes DEF ReadL2Balance, l2Vars, bridgeVars, Memory
  <2>2. pending = 0 /\ portalBal >= Ether
    BY <1>1, <1>2, <1>3, <2>1 DEF FundsOK, MoneyInv
  <2>3. (label = "before" /\ funds >= Ether + Headroom) \/ label = "headroom"
    OBVIOUS
  <2> HIDE DEF label
  <2>4. FundsOK(s)'
    BY <1>3, <2>1, <2>2, <2>3 DEF FundsOK
  <2>5. QED
    BY <1>3, <2>1, <2>2, <2>3, <2>4 DEF MoneyInv
<1>6. CASE DepositHeadroom(s)
  <2>1. /\ pc[s] = "headroom" /\ pc'[s] = "credit" /\ Kind(s)' = Kind(s)
        /\ portalBal' = portalBal + Headroom /\ pending' = pending + 1
        /\ UNCHANGED <<funds, mem>>
    BY <1>6, LaneAdvance DEF DepositHeadroom
  <2>2. pending = 0 /\ portalBal >= Ether /\ funds = mem[s].bal
    BY <1>1, <1>2, <1>3, <2>1 DEF FundsOK, MoneyInv
  <2>3. portalBal' >= Ether /\ pending' = 1
    BY <2>1, <2>2, MoneyTypes
  <2>4. FundsOK(s)'
    BY <1>3, <2>1, <2>2, <2>3 DEF FundsOK
  <2>5. QED
    BY <1>3, <2>1, <2>3, <2>4 DEF MoneyInv
<1>7. CASE pc[s] = "credit" /\ Poll(s)
  <2>1. /\ pc'[s] = "before" /\ Kind(s)' = Kind(s) /\ funds >= mem[s].bal + Headroom
        /\ UNCHANGED <<portalBal, dev1, funds, pending, mem>>
    BY <1>7, LaneAdvance DEF Poll, Then, Gate, l2Vars, bridgeVars
  <2>2. portalBal >= Ether /\ pending = 0 /\ funds = mem[s].bal + Headroom
    <3>1. portalBal >= Ether
      BY <1>1, <1>2, <1>3, <1>7 DEF MoneyInv
    <3>2. \/ pending = 0 /\ funds = mem[s].bal + Headroom
          \/ pending = 1 /\ funds = mem[s].bal
      BY <1>1, <1>7 DEF FundsOK
    <3>3. QED
      BY <2>1, <3>1, <3>2, MoneyTypes
  <2>3. mem[s].bal >= Ether => funds >= Ether + Headroom
    BY <2>2, MoneyTypes
  <2>4. FundsOK(s)'
    BY <1>3, <2>1, <2>2, <2>3 DEF FundsOK
  <2>5. QED
    BY <1>3, <2>1, <2>2, <2>4 DEF MoneyInv
<1>8. CASE ReadL1Balance(s)
  <2>1. /\ pc[s] = "before" /\ pc'[s] = "initiate" /\ Kind(s)' = Kind(s)
        /\ UNCHANGED <<portalBal, dev1, funds, pending>>
        /\ mem'[s].bal = mem[s].bal /\ mem'[s].before = dev1
    BY <1>8, LaneAdvance, LaneTypes DEF ReadL1Balance, l2Vars, bridgeVars, Memory
  <2>2. /\ pending = 0 /\ portalBal >= Ether
        /\ mem[s].bal >= Ether => funds >= Ether + Headroom
    BY <1>1, <1>2, <1>3, <2>1 DEF FundsOK, MoneyInv
  <2>3. FundsOK(s)'
    BY <1>3, <2>1, <2>2 DEF FundsOK
  <2>4. dev1' = mem'[s].before + Gain(pc'[s])
    BY <2>1, MoneyTypes DEF Gain
  <2>5. QED
    BY <1>3, <2>1, <2>2, <2>3, <2>4 DEF MoneyInv
<1>9. QED
  BY <1>4, <1>5, <1>6, <1>7, <1>8

\* The withdrawal costs DEV1 the ETH and a transaction.
LEMMA MoneyInitiate ==
  ASSUME NEW s, LaneCtx(s), Initiate(s)
  PROVE  MoneyInv(s)'
<1>1. MoneyInv(s) /\ FundsOK(s) /\ LabelOK(s) /\ Untouched(s)
  BY DEF LaneCtx, LaneInv, MoneyInv
<1>2. /\ pc[s] = "initiate" /\ pc'[s] = "output" /\ Kind(s)' = Kind(s)
      /\ UNCHANGED <<portalBal, dev1, pending, mem>>
  BY LaneAdvance DEF Initiate, bridgeVars, l2Vars
<1>3. wdBlock[Wd(s)] = 0
  <2>1. ph[s] \in 1..Len(prog[s]) /\ prog[s][ph[s]].kind # "dishonest"
    BY <1>1, <1>2, LaneTypes DEF LabelOK, Honest, Kind, Phase
  <2>2. pc[s] \in Unsent /\ Wd(s) = prog[s][ph[s]].wd
    BY <1>2 DEF Unsent, Wd, Phase
  <2>3. QED
    BY <1>1, <2>1, <2>2 DEF Untouched
<1>4. PICK gas \in L2Gas : funds' = funds - Ether - gas
  BY <1>3 DEF Initiate
<1>5. gas \in Nat /\ 2 * gas < Headroom
  BY BudgetAssumption DEF LaneCtx, RoomyBudgets
<1>6. Kind(s) = "claim" /\ mem[s].bal >= Ether => 2 * funds' > Headroom
  <2>1. SUFFICES ASSUME Kind(s) = "claim", mem[s].bal >= Ether PROVE 2 * funds' > Headroom
    OBVIOUS
  <2>2. funds >= Ether + Headroom
    BY <1>1, <1>2, <2>1 DEF FundsOK
  <2>3. QED
    BY <1>4, <1>5, <2>2, MoneyTypes
<1>7. /\ "output" \in Unposted /\ "initiate" \in Pending /\ "output" \in Pending
  BY DEF Unposted, Pending, Labels, Waits, Recovering, Recovered
<1>8. FundsOK(s)'
  BY <1>1, <1>2, <1>6 DEF FundsOK
<1>9. Gain("output") = Gain("initiate")
  BY <1>7 DEF Gain
<1>10. QED
  BY <1>1, <1>2, <1>7, <1>8, <1>9 DEF MoneyInv

\* The game costs DEV1 its bond.
LEMMA MoneyCreate ==
  ASSUME NEW s, LaneCtx(s), CreateGame(s)
  PROVE  MoneyInv(s)'
<1>1. MoneyInv(s) /\ FundsOK(s)
  BY DEF LaneCtx, MoneyInv
<1>2. /\ pc[s] = "create" /\ pc'[s] = "index" /\ Kind(s)' = Kind(s)
      /\ UNCHANGED <<portalBal, funds, pending, mem>> /\ dev1' = dev1 - InitBond
  BY LaneAdvance DEF CreateGame, Sent, l2Vars
<1>3. /\ "create" \in Unposted /\ "index" \in Posted \ Recovering /\ "index" \notin Unposted
      /\ "create" \in Pending /\ "index" \in Pending
  BY DEF Unposted, Posted, Pending, Labels, Sends, Recovering, Recovered, InGame
<1>4. Gain("index") = - InitBond /\ Gain("create") = 0
  BY <1>3 DEF Gain
<1>5. FundsOK(s)'
  BY <1>1, <1>2, <1>3 DEF FundsOK
<1>6. Kind(s) = "claim" => dev1' = mem[s].before + Gain("index")
  BY <1>1, <1>2, <1>3, <1>4, MoneyTypes DEF MoneyInv
<1>7. QED
  BY <1>1, <1>2, <1>3, <1>5, <1>6 DEF MoneyInv

\* The withdrawal's ETH arrives.
LEMMA MoneyFinalize ==
  ASSUME NEW s, LaneCtx(s), FinalizeWithdrawal(s)
  PROVE  MoneyInv(s)'
<1>1. MoneyInv(s) /\ FundsOK(s)
  BY DEF LaneCtx, MoneyInv
<1>2. pc[s] = "fin_send" /\ Finalize(Wd(s)) /\ UNCHANGED <<prog, funds, pending>>
  BY DEF FinalizeWithdrawal, Sent, l2Vars
<1>3. CASE Kind(s) # "claim"
  BY <1>2, <1>3, MoneyEndPhase DEF FinalizeWithdrawal
<1>4. CASE Kind(s) = "claim"
  <2>1. pc'[s] = "unlock_send" /\ Kind(s)' = Kind(s) /\ mem' = mem
    BY <1>2, <1>4, LaneAdvance DEF FinalizeWithdrawal
  <2>2. /\ "fin_send" \in Posted \ Recovering /\ "fin_send" \in Pending
        /\ "unlock_send" \in Recovering /\ "unlock_send" \in Posted
        /\ "unlock_send" \notin Unposted \cup Pending /\ "fin_send" \notin Unposted
    BY DEF Unposted, Posted, Pending, Labels, Sends, Recovering, Recovered, InGame
  <2>3. dev1' = dev1 + Ether
    BY <1>1, <1>2, <1>4, <2>2 DEF MoneyInv, Finalize
  <2>4. Gain("fin_send") = - InitBond /\ Gain("unlock_send") = Ether - InitBond
    BY <2>2 DEF Gain
  <2>5. dev1' = mem[s].before + Gain("unlock_send")
    BY <1>1, <1>2, <1>4, <2>2, <2>3, <2>4, MoneyTypes DEF MoneyInv
  <2>6. FundsOK(s)'
    BY <1>1, <1>2, <2>1, <2>2 DEF FundsOK
  <2>7. QED
    BY <2>1, <2>2, <2>5, <2>6 DEF MoneyInv
<1>5. QED
  BY <1>3, <1>4

\* The first claimCredit pays nothing, the second the bond.
LEMMA MoneyRecovers ==
  ASSUME NEW s, LaneCtx(s), Unlock(s) \/ RecoverBond(s)
  PROVE  MoneyInv(s)'
<1> DEFINE g == Game(s)
<1>1. MoneyInv(s) /\ FundsOK(s) /\ LabelOK(s) /\ GameOK(s)
  BY DEF LaneCtx, LaneInv, MoneyInv
<1>2. pc[s] \in {"unlock_send", "pay_send"}
  BY DEF Unlock, RecoverBond, Sent
<1>3. /\ pc[s] \in Posted \ {"index"} /\ pc[s] \in Recovering /\ pc[s] \in Ruled
      /\ pc[s] \notin Unposted \cup Single \cup Counting
  BY <1>2 DEF Posted, InGame, Recovering, Ruled, Unposted, Single, Counting
<1>4. Kind(s) = "claim" /\ TreeSize(Kind(s)) = 1
  BY <1>1, <1>3 DEF LabelOK, TreeSize
<1>5. mem[s].k = 1 /\ Size(Kind(s), pc[s]) = 1
  BY <1>1, <1>3, <1>4 DEF GameOK, ResolvedCount, Size, Ended, Ruled, Recovering, Counting
<1>6. /\ g = games[Len(games)] /\ Ledger(g, 1, 1)
      /\ pc[s] = "unlock_send" => g.unlockedAt["proposer"] = 0
  BY <1>2, <1>3, <1>5, LaneGame
<1>7. g.credit["proposer"] = InitBond
  BY <1>6, MoneyTypes DEF Ledger, Earned, Author, BondOf
<1>8. CASE Unlock(s)
  <2>1. PaidOut(g, "proposer") = 0
    BY <1>6, <1>8 DEF Unlock, Sent, PaidOut
  <2>2. /\ Advance(s, "pay") /\ UNCHANGED <<prog, ph, mem, portalBal, pending, funds>>
        /\ dev1' = dev1 + PaidOut(g, "proposer")
    BY <1>8 DEF Unlock, l2Vars
  <2>3. dev1' = dev1
    BY <2>1, <2>2, MoneyTypes
  <2>4. "pay" \in Posted /\ "pay" \in Recovering /\ "pay" \notin Unposted
    BY DEF Posted, InGame, Recovering, Unposted
  <2>5. QED
    BY <1>3, <2>2, <2>3, <2>4, MoneyStays
<1>9. CASE RecoverBond(s)
  <2>1. /\ pc[s] = "pay_send" /\ Advance(s, "delta") /\ UNCHANGED <<prog, ph, mem, pending, funds>>
        /\ dev1' = dev1 + PaidOut(g, "proposer")
    BY <1>9 DEF RecoverBond, Sent, l2Vars
  <2>2. pc'[s] = "delta" /\ Kind(s)' = Kind(s)
    BY <2>1, LaneAdvance
  <2>3. PaidOut(g, "proposer") = InitBond
    BY <1>1, <1>6, <1>7, <2>1 DEF PaidOut, MoneyInv
  <2>4. dev1 = mem[s].before + (Ether - InitBond)
    BY <1>1, <1>3, <1>4, <2>1 DEF MoneyInv, Gain
  <2>5. dev1' = mem[s].before + Ether
    BY <2>1, <2>3, <2>4, MoneyTypes
  <2>6. "delta" \in Ended /\ "delta" \notin Pending \cup Unposted \cup Posted
    BY MoneyLabels DEF Ended, Pending, Recovered
  <2>7. FundsOK(s)'
    BY <1>1, <1>3, <2>1, <2>2, <2>6 DEF FundsOK
  <2>8. QED
    BY <2>1, <2>2, <2>5, <2>6, <2>7 DEF MoneyInv, Gain
<1>10. QED
  BY <1>8, <1>9

LEMMA MoneyCheckDelta ==
  ASSUME NEW s, LaneCtx(s), CheckDelta(s)
  PROVE  MoneyInv(s)'
<1>1. CASE Exit(s, "delta")
  BY <1>1, MoneyExit
<1>2. CASE Advance(s, "sendoff") /\ UNCHANGED mem
  <2>1. /\ pc[s] = "delta" /\ pc'[s] = "sendoff" /\ Kind(s)' = Kind(s)
        /\ UNCHANGED <<funds, pending, mem>>
    BY <1>2, LaneAdvance DEF CheckDelta, l2Vars
  <2>2. Ended = {"delta", "sendoff"} /\ "sendoff" \notin Pending \cup Unposted \cup Posted
    BY MoneyLabels DEF Ended, Pending, Recovered
  <2>3. FundsOK(s)'
    BY <2>1, <2>2 DEF FundsOK, LaneCtx, MoneyInv
  <2>4. QED
    BY <2>1, <2>2, <2>3 DEF MoneyInv
<1>3. QED
  BY <1>1, <1>2 DEF CheckDelta

\* The steps between a claim's withdrawal and the recovery of its bond that move no money
\* of its own.
LEMMA MoneyGame ==
  ASSUME NEW s, LaneCtx(s),
         \/ ReadOutput(s) \/ ReadHeader(s) \/ ReadProof(s) \/ (Poll(s) /\ pc[s] # "credit")
         \/ ReadIndex(s) \/ Prove(s) \/ Recorded(s) \/ Oracle(s) \/ Attack(s) \/ Rebut(s)
         \/ ResolveClaim(s) \/ Resolve(s) \/ Check(s)
  PROVE  MoneyInv(s)'
<1>1. ASSUME NEW reason, Exit(s, reason)
      PROVE  MoneyInv(s)'
  BY <1>1, MoneyExit
<1> DEFINE Still(label) ==
             /\ Advance(s, label) /\ UNCHANGED <<prog, ph, portalBal, pending, funds>>
             /\ Kind(s) = "claim" => dev1' = dev1
             /\ mem'[s].bal = mem[s].bal /\ mem'[s].before = mem[s].before
<1>2. /\ {"output", "header", "proof", "create"} = Unposted
      /\ {"index", "prove", "prove_send", "recorded", "oracle", "attack", "rebut", "clock",
          "clock_send", "resolve_send", "check", "fin", "fin_send"} = Posted \ Recovering
      /\ {"pay", "pay_send"} \subseteq Posted \cap Recovering
      /\ Unposted \cap Posted = {}
  BY DEF Unposted, Posted, InGame, Recovering
<1>3. ASSUME NEW label, Still(label), pc[s] \in Unposted, label \in Unposted
      PROVE  MoneyInv(s)'
  <2>1. label # "pay_send" /\ label \notin Recovering /\ pc[s] \notin Recovering
    BY <1>2, <1>3 DEF Recovering
  <2>2. QED
    BY <1>3, <2>1, MoneyStays
<1>4. ASSUME NEW label, Still(label), pc[s] \in Posted \ Recovering, label \in Posted \ Recovering
      PROVE  MoneyInv(s)'
  <2>1. label # "pay_send" /\ label \notin Unposted /\ pc[s] \notin Unposted
    BY <1>2, <1>4
  <2>2. QED
    BY <1>4, <2>1, MoneyStays
<1>5. CASE ReadOutput(s) \/ ReadHeader(s) \/ ReadProof(s)
  <2>1. mem[s] \in Memory(latest, Len(games)) /\ mem \in [Scripts -> Memory(latest, Len(games))] /\ s \in Scripts
    BY LaneTypes
  <2>2. CASE ReadOutput(s)
    <3>1. Still("header") /\ pc[s] = "output"
      BY <2>1, <2>2 DEF ReadOutput, bridgeVars, l2Vars, Memory
    <3>2. QED
      BY <1>2, <1>3, <3>1
  <2>3. CASE ReadHeader(s)
    <3>1. Still("proof") /\ pc[s] = "header"
      BY <2>1, <2>3 DEF ReadHeader, bridgeVars, l2Vars, Memory
    <3>2. QED
      BY <1>2, <1>3, <3>1
  <2>4. CASE ReadProof(s)
    <3>1. (Still("create") /\ pc[s] = "proof") \/ \E reason : Exit(s, reason)
      BY <2>4 DEF ReadProof, bridgeVars, l2Vars
    <3>2. QED
      BY <1>1, <1>2, <1>3, <3>1
  <2>5. QED
    BY <1>5, <2>2, <2>3, <2>4
<1>6. CASE Poll(s) /\ pc[s] # "credit"
  <2>1. /\ pc[s] \in {"prove", "clock", "fin", "pay"} /\ Still(Then[pc[s]])
        /\ games' = games
    BY <1>6 DEF Poll, Gated, bridgeVars, l2Vars
  <2>2. CASE pc[s] # "pay"
    BY <1>2, <1>4, <2>1, <2>2 DEF Then
  <2>3. CASE pc[s] = "pay"
    <3>1. games[Len(games)].unlockedAt["proposer"] # 0
      BY <2>3 DEF LaneCtx, LaneInv, Timely
    <3>2. Then[pc[s]] = "pay_send"
      BY <2>3 DEF Then
    <3>3. QED
      BY <1>2, <2>1, <2>3, <3>1, <3>2, MoneyStays
  <2>4. QED
    BY <2>2, <2>3
<1>7. CASE ReadIndex(s) \/ Prove(s) \/ Recorded(s) \/ Oracle(s)
  <2>1. mem[s] \in Memory(latest, Len(games)) /\ mem \in [Scripts -> Memory(latest, Len(games))] /\ s \in Scripts
    BY LaneTypes
  <2>2. CASE ReadIndex(s)
    <3>1. \/ \E reason : Exit(s, reason)
          \/ pc[s] = "index" /\ \E label \in {"oracle", "prove"} : Still(label)
      BY <2>1, <2>2 DEF ReadIndex, bridgeVars, l2Vars, Memory
    <3>2. QED
      BY <1>1, <1>2, <1>4, <3>1
  <2>3. CASE Prove(s)
    <3>1. pc[s] = "prove_send" /\ \E label \in {"attack", "recorded"} : Still(label)
      BY <2>3 DEF Prove, Sent, l2Vars
    <3>2. QED
      BY <1>2, <1>4, <3>1
  <2>4. CASE Recorded(s)
    <3>1. \/ \E reason : Exit(s, reason)
          \/ pc[s] = "recorded" /\ Still("clock")
      BY <2>4 DEF Recorded, bridgeVars, l2Vars
    <3>2. QED
      BY <1>1, <1>2, <1>4, <3>1
  <2>5. CASE Oracle(s)
    <3>1. \/ \E reason : Exit(s, reason)
          \/ pc[s] = "oracle" /\ Still("attack")
      BY <2>5 DEF Oracle, bridgeVars, l2Vars
    <3>2. QED
      BY <1>1, <1>2, <1>4, <3>1
  <2>6. QED
    BY <1>7, <2>2, <2>3, <2>4, <2>5
<1>8. CASE Attack(s) \/ Rebut(s) \/ ResolveClaim(s) \/ Resolve(s)
  <2>1. mem[s] \in Memory(latest, Len(games)) /\ mem \in [Scripts -> Memory(latest, Len(games))] /\ s \in Scripts
    BY LaneTypes
  <2>2. CASE Attack(s)
    <3>1. pc[s] = "attack" /\ \E label \in {"rebut", "clock"} : Still(label)
      BY <2>2 DEF Attack, Sent, l2Vars
    <3>2. QED
      BY <1>2, <1>4, <3>1
  <2>3. CASE Rebut(s)
    <3>1. pc[s] = "rebut" /\ Still("clock")
      BY <2>3 DEF Rebut, Sent, l2Vars, LaneCtx, LaneInv, LabelOK
    <3>2. QED
      BY <1>2, <1>4, <3>1
  <2>4. CASE ResolveClaim(s)
    <3>1. pc[s] = "clock_send" /\ \E label \in {"resolve_send", "clock"} : Still(label)
      BY <2>1, <2>4 DEF ResolveClaim, Sent, l2Vars, Memory
    <3>2. QED
      BY <1>2, <1>4, <3>1
  <2>5. CASE Resolve(s)
    <3>1. pc[s] = "resolve_send" /\ Still("check")
      BY <2>5 DEF Resolve, Sent, l2Vars
    <3>2. QED
      BY <1>2, <1>4, <3>1
  <2>6. QED
    BY <1>8, <2>2, <2>3, <2>4, <2>5
<1>9. CASE Check(s)
  <2>1. pc[s] = "check" /\ UNCHANGED <<pending, prog>>
    BY <1>9 DEF Check, l2Vars
  <2>2. \/ \E reason : Exit(s, reason)
        \/ EndPhase(s)
        \/ Still("fin")
    BY <1>9 DEF Check, bridgeVars, l2Vars
  <2>3. QED
    BY <1>1, <1>2, <1>4, <2>1, <2>2, MoneyEndPhase
<1>10. QED
  BY <1>5, <1>6, <1>7, <1>8, <1>9

LEMMA MoneyStep ==
  ASSUME NEW s, LaneCtx(s), [Next]_vars
  PROVE  MoneyInv(s)'
<1>1. MoneyInv(s) /\ FundsOK(s)
  BY DEF LaneCtx, MoneyInv
<1>2. CASE ScriptStep(s)
  <2>1. NoFunds(s) \/ NotFinalized(s) \/ TimedOut(s) \/ Reverted(s) => MoneyInv(s)'
    BY MoneyExit DEF NoFunds, NotFinalized, TimedOut, Reverted
  <2>2. Sendoff(s) => MoneyInv(s)'
    BY MoneyEndPhase DEF Sendoff
  <2>3. QED
    BY <1>2, <2>1, <2>2, MoneyFunding, MoneyInitiate, MoneyCreate, MoneyFinalize, MoneyRecovers,
       MoneyCheckDelta, MoneyGame DEF ScriptStep
<1>3. ASSUME UNCHANGED <<portalBal, dev1, games, scriptVars>>, FundsOK(s)'
      PROVE  MoneyInv(s)'
  BY <1>1, <1>3 DEF MoneyInv, scriptVars, Kind, Phase
<1>4. CASE SealBlock \/ FinalizeL2 \/ UNCHANGED vars \/ Tick
  <2>1. UNCHANGED <<portalBal, dev1, games, scriptVars, funds, pending>>
    BY <1>4 DEF SealBlock, FinalizeL2, Tick, vars, l2Vars, bridgeVars
  <2>2. FundsOK(s)'
    BY <1>1, <2>1 DEF FundsOK, scriptVars, Kind, Phase
  <2>3. QED
    BY <1>3, <2>1, <2>2
<1>5. CASE Derive
  <2>1. /\ pending > 0 /\ pending' = pending - 1 /\ funds' = funds + Headroom
        /\ UNCHANGED <<portalBal, dev1, games, scriptVars>>
    BY <1>5 DEF Derive, bridgeVars
  <2>2. pc[s] = "credit" \/ pc[s] = "exit"
    BY <1>1, <2>1 DEF FundsOK
  <2>3. /\ UNCHANGED <<pc, mem>> /\ Kind(s)' = Kind(s)
        /\ "credit" \notin Unposted \cup Posted \cup Ended
        /\ "exit" \notin Unposted \cup Posted \cup Ended
    BY <2>1, MoneyLabels DEF scriptVars, Kind, Phase
  <2>4. pc[s] = "credit" => pending' = 0 /\ funds' = mem[s].bal + Headroom
    BY <1>1, <2>1, MoneyTypes DEF FundsOK
  <2>5. FundsOK(s)'
    BY <2>2, <2>3, <2>4 DEF FundsOK
  <2>6. QED
    BY <1>3, <2>1, <2>5
<1>6. QED
  BY <1>2, <1>4, <1>5 DEF Next, LaneCtx

-----------------------------------------------------------------------------
(* The theorem *)

LEMMA LaneStep ==
  ASSUME NEW s, LaneCtx(s), [Next]_vars
  PROVE  LaneInv(s)'
<1>1. CASE ScriptStep(s)
  <2>1. TimedOut(s) => LaneInv(s)'
    <3>1. SUFFICES ASSUME TimedOut(s) PROVE LaneInv(s)'
      OBVIOUS
    <3>2. pc[s] = "credit"
      BY <3>1, NeverExpires DEF TimedOut
    <3>3. Kind(s) = "claim"
      BY <3>2 DEF LaneCtx, LaneInv, LabelOK, Unsent
    <3>4. QED
      BY <3>1, <3>2, <3>3, LaneExit DEF TimedOut
  <2>2. ~Reverted(s)
    BY NeverReverts DEF Reverted
  <2>3. CASE \/ Fund(s) \/ ReadL2Balance(s) \/ DepositHeadroom(s) \/ ReadL1Balance(s)
             \/ Initiate(s) \/ NoFunds(s) \/ Poll(s)
    BY <2>3, LaneFunding, LaneInitiate, LaneNoFunds, LanePoll
  <2>4. QED
    BY <1>1, <2>1, <2>2, <2>3, LaneReadOutput, LaneNotFinalized,
       LaneReadHeader, LaneReadProof, LaneCreate, LaneReadIndex, LaneProve,
       LaneRecorded, LaneOracle, LaneAttack, LaneRebut, LaneResolveClaim, LaneResolve,
       LaneCheck, LaneFinalize, LaneUnlock, LaneRecoverBond, LaneCheckDelta, LaneSendoff
       DEF ScriptStep
<1>2. CASE SealBlock \/ Derive \/ FinalizeL2 \/ UNCHANGED vars
  BY <1>2, LaneBlocks
<1>3. CASE Tick
  BY <1>3, LaneTick
<1>4. QED
  BY <1>1, <1>2, <1>3 DEF Next, LaneCtx

LEMMA LaneInit ==
  ASSUME NEW s, s \in Scripts, Init, LaneShape(prog[s])
  PROVE  LaneInv(s) /\ MoneyInv(s)
<1>1. /\ prog \in Programs /\ ph[s] = 1 /\ pc[s] = First(prog[s][1].kind) /\ mem[s] = Blank
      /\ since[s] = 0 /\ why[s] = "none" /\ now = 1 /\ games = <<>> /\ Len(games) = 0
      /\ proven = [w \in Withdrawals |-> [game |-> 0, at |-> 0]] /\ finalized = {}
      /\ anchor = 0 /\ fin = 0 /\ wdBlock = [w \in Withdrawals |-> 0] /\ pending = 0
  BY DEF Init, BridgeInit
<1>2. prog[s] \in Seq([kind : Kinds, wd : Withdrawals]) /\ Len(prog[s]) > 0
  BY <1>1, ProgramAssumption
<1>3. 1 \in 1..Len(prog[s]) /\ Len(prog[s]) \in Nat
  BY <1>2
<1>4. prog[s][1] \in [kind : Kinds, wd : Withdrawals]
  BY <1>2, <1>3, ElementLemma
<1>5. prog[s][1].kind # "dishonest"
  <2>1. ~(1 > 1)
    OBVIOUS
  <2>2. QED
    BY <1>3, <2>1 DEF LaneShape
<1>6. /\ Kind(s) = prog[s][1].kind /\ Wd(s) = prog[s][1].wd /\ Wd(s) \in Withdrawals /\ Honest(s)
      /\ \/ pc[s] = "fund" /\ Kind(s) = "claim"
         \/ pc[s] = "initiate" /\ Kind(s) = "abandoned"
  BY <1>1, <1>4, <1>5 DEF Kind, Wd, Phase, Honest, First, Kinds
<1>7. pc[s] \notin Unposted \cup Posted \cup Started \cup Recovering \cup Matched \cup Ruled
                   \cup Counting \cup Ended
  BY <1>6 DEF Unposted, Posted, Started, Recovering, Matched, InGame, Ruled, Counting, Ended
<1>8. LabelOK(s) /\ HeadOK /\ Newest(s)
  BY <1>1, <1>6, <1>7 DEF LabelOK, HeadOK, Newest, Unsent
<1>9. Untouched(s)
  <2>1. \A j \in 1..Len(prog[s]) : prog[s][j].wd \in Withdrawals
    <3>1. \A j \in 1..Len(prog[s]) : prog[s][j] \in [kind : Kinds, wd : Withdrawals]
      BY <1>2, ElementLemma
    <3>2. QED
      BY <3>1
  <2>2. QED
    BY <1>1, <1>7, <2>1 DEF Untouched
<1>10. GameOK(s)
  BY <1>1, <1>6, <1>7 DEF GameOK, ResolvedCount, Blank
<1>11. Timely(s) /\ Simulated(s) /\ Expected(s)
  BY <1>1, <1>6, <1>7 DEF Timely, Simulated, Expected
<1>12. MoneyInv(s)
  <2>1. "fund" \notin Pending
    BY DEF Pending
  <2>2. mem[s].bal = 0
    BY <1>1 DEF Blank
  <2>3. QED
    BY <1>1, <1>6, <1>7, <2>1, <2>2 DEF MoneyInv, FundsOK, Ether
<1>13. QED
  BY <1>8, <1>9, <1>10, <1>11, <1>12 DEF LaneInv

\* A lane that has L1 to itself and does not dawdle, whose phases are those of
\* withdraw_e2e_ephemeral.sh in any number, whose budgets outlast the devnet's delays and
\* whose headroom covers two transactions on L2, stops early for four reasons only: an L2
\* block between its two "latest" reads, a withdrawal that is not final within
\* --wait-finalized, a headroom deposit not credited within its 300 s, or a DEV1 with too
\* little ETH on L2 (in a claim: with less than the ETH itself when its balance was read).
\* No gate outlasts its budget, no transaction reverts once its simulation has passed, no
\* posted game collides with an earlier one or with the anchor, and every ledger adds up, as
\* does DEV1's balance on L1.
THEOREM OnlyRacesStopIt ==
  ASSUME NEW lane, Scripts = {lane}, Slow = {}, RoomyBudgets,
         \A p \in Programs : LaneShape(p[lane])
  PROVE  Spec => []OnlyRaceFailures
<1> DEFINE I == LaneInv(lane) /\ MoneyInv(lane)
<1>1. Init => I
  <2>1. SUFFICES ASSUME Init PROVE I
    OBVIOUS
  <2>2. LaneShape(prog[lane])
    BY <2>1 DEF Init
  <2>3. QED
    BY <2>1, <2>2, LaneInit
<1>2. IInv /\ IInv' /\ OwnInv /\ I /\ [Next]_vars => I'
  <2>1. SUFFICES ASSUME IInv, IInv', OwnInv, I, [Next]_vars
                 PROVE  LaneInv(lane)' /\ MoneyInv(lane)'
    OBVIOUS
  <2>2. LaneShape(prog[lane])
    BY <2>1 DEF IInv, ScriptInv, ProgramOK
  <2>3. LaneCtx(lane)
    BY <2>1, <2>2 DEF LaneCtx
  <2>4. QED
    BY <2>1, <2>3, LaneStep, MoneyStep
<1>3. I => OnlyRaceFailures
  BY DEF LaneInv, Expected, OnlyRaceFailures, Honest
<1>4. QED
  BY <1>1, <1>2, <1>3, Invariance, OwnInvariance, PTL DEF Spec

=============================================================================
