---------------------------- MODULE LadderProofs ----------------------------
(***************************************************************************)
(* Proofs about Ladder, for any activation tables, chain lengths and        *)
(* creation and probe intervals.                                            *)
(***************************************************************************)
EXTENDS Ladder, TLAPS, WellFoundedInduction, SequenceTheorems, FiniteSetTheorems

-----------------------------------------------------------------------------
(* Least and greatest elements.                                             *)

\* Every set of naturals with an element has a least one.
LEMMA LeastNatural ==
  ASSUME NEW T, T \subseteq Nat, T # {}
  PROVE  \E x \in T : \A y \in T : x <= y
<1> DEFINE R == OpToRel(<, Nat)
<1>1. IsWellFoundedOn(R, Nat)
  BY NatLessThanWellFounded
<1>2. \A x, y \in Nat : y < x => <<y, x>> \in R
  BY DEF OpToRel
<1> HIDE DEF R
<1>3. PICK x \in T : \A y \in T : <<y, x>> \notin R
  BY <1>1, WFMin
<1>4. ASSUME NEW y \in T
      PROVE  x <= y
  <2>1. x \in Nat /\ y \in Nat /\ ~(y < x)
    BY <1>2, <1>3
  <2>2. QED
    BY <2>1
<1>5. QED
  BY <1>4

LEMMA MinLemma ==
  ASSUME NEW S, S \subseteq Nat, S # {}
  PROVE  Min(S) \in S /\ \A y \in S : Min(S) <= y
BY LeastNatural DEF Min

\* The least upper bound of a bounded set of naturals is its greatest element.
LEMMA MaxLemma ==
  ASSUME NEW S, S \subseteq Nat, S # {}, NEW n \in Nat, \A y \in S : y <= n
  PROVE  Max(S) \in S /\ \A y \in S : y <= Max(S)
<1> DEFINE T == {u \in Nat : \A y \in S : y <= u}
<1>1. PICK u \in T : \A v \in T : u <= v
  BY LeastNatural
<1>2. u \in S
  <2>1. SUFFICES ASSUME u \notin S PROVE FALSE
    OBVIOUS
  <2>2. \A y \in S : y <= u - 1
    BY <1>1, <2>1
  <2>3. u - 1 \in T
    <3>1. PICK y \in S : y \in Nat /\ y <= u - 1
      BY <2>2
    <3>2. u \in Nat /\ u - 1 \in Nat
      BY <1>1, <3>1
    <3>3. QED
      BY <2>2, <3>2
  <2>4. QED
    BY <1>1, <2>3
<1>3. \E x \in S : \A y \in S : x >= y
  BY <1>1, <1>2
<1>4. Max(S) \in S /\ \A y \in S : Max(S) >= y
  BY <1>3 DEF Max
<1>5. QED
  BY <1>4

-----------------------------------------------------------------------------
(* Forks and tables.                                                        *)

LEMMA RankLemma ==
  /\ \A r \in Ranks : ladderForks[r] \in Forks /\ Rank(ladderForks[r]) = r
  /\ \A fork \in Forks : Rank(fork) \in Ranks /\ ladderForks[Rank(fork)] = fork
<1>1. \A r, q \in Ranks : ladderForks[r] = ladderForks[q] => r = q
  BY DEF ladderForks, Ranks
<1>2. \A fork \in Forks : \E r \in Ranks : ladderForks[r] = fork
  BY DEF Forks
<1>3. \A fork \in Forks : Rank(fork) \in Ranks /\ ladderForks[Rank(fork)] = fork
  BY <1>2 DEF Rank
<1>4. \A r \in Ranks : ladderForks[r] \in Forks
  BY DEF Forks
<1>5. QED
  BY <1>1, <1>3, <1>4

LEMMA NeverLemma ==
  /\ Never \in Nat
  /\ \A n \in Totals : n \in Nat \ {0} /\ n < Never
<1>1. PICK n \in Totals : \A m \in Totals : m <= n
  BY LadderAssumption
<1>2. Totals \subseteq Nat /\ Totals # {} /\ n \in Nat
  BY <1>1, LadderAssumption
<1>3. Max(Totals) \in Totals /\ \A m \in Totals : m <= Max(Totals)
  BY <1>1, <1>2, MaxLemma
<1>4. ASSUME NEW m \in Totals
      PROVE  m \in Nat \ {0} /\ m < Never
  <2>1. m \in Nat \ {0} /\ Max(Totals) \in Nat /\ m <= Max(Totals)
    BY <1>2, <1>3, LadderAssumption
  <2>2. QED
    BY <2>1 DEF Never
<1>5. Max(Totals) \in Nat
  BY <1>2, <1>3
<1>6. QED
  BY <1>4, <1>5 DEF Never

\* What the parser checks of neighbours holds of any two entries.
LEMMA SortedLemma ==
  ASSUME NEW t \in Tables, NEW n \in Nat, Accepted(t, n)
  PROVE  \A k \in 1..Len(t) : \A j \in 1..(k - 1) :
           t[j].block < t[k].block /\ Rank(t[j].fork) < Rank(t[k].fork)
<1> DEFINE Below(j, k) == t[j].block < t[k].block /\ Rank(t[j].fork) < Rank(t[k].fork)
           Bad == {k \in 1..Len(t) : \E j \in 1..(k - 1) : ~Below(j, k)}
<1>1. /\ t \in Seq([block : Nat, fork : STRING])
      /\ \A k \in 1..Len(t) : t[k].block \in Nat /\ Rank(t[k].fork) \in Ranks
      /\ \A k \in 2..Len(t) : Below(k - 1, k)
  <2>1. t \in Seq([block : Nat, fork : STRING])
    BY LadderAssumption
  <2>2. DOMAIN t = 1..Len(t) /\ Len(t) \in Nat
    BY <2>1
  <2>3. ASSUME NEW k \in 1..Len(t)
        PROVE  t[k].block \in Nat /\ Rank(t[k].fork) \in Ranks
    <3>1. t[k] \in [block : Nat, fork : STRING]
      BY <2>1, <2>3, ElementOfSeq
    <3>2. t[k].fork \in Forks
      BY <2>2 DEF Accepted
    <3>3. QED
      BY <3>1, <3>2, RankLemma
  <2>4. QED
    BY <2>1, <2>3 DEF Accepted
<1>2. SUFFICES ASSUME Bad # {} PROVE FALSE
  OBVIOUS
<1>3. PICK k \in Bad : \A m \in Bad : k <= m
  <2>1. Bad \subseteq Nat
    BY <1>1
  <2> HIDE DEF Bad
  <2>2. QED
    BY <1>2, <2>1, LeastNatural
<1>4. PICK j \in 1..(k - 1) : ~Below(j, k)
  BY <1>3
<1>5. k \in 2..Len(t) /\ k - 1 \in 1..Len(t) /\ j < k - 1
  BY <1>1, <1>3, <1>4
<1>6. k - 1 \notin Bad
  BY <1>3, <1>5
<1>7. Below(j, k - 1) /\ Below(k - 1, k)
  BY <1>1, <1>4, <1>5, <1>6
<1>8. Below(j, k)
  <2> DEFINE b(i) == t[i].block
             r(i) == Rank(t[i].fork)
  <2>1. /\ b(j) \in Nat /\ b(k - 1) \in Nat /\ b(k) \in Nat
        /\ r(j) \in Nat /\ r(k - 1) \in Nat /\ r(k) \in Nat
    <3>1. j \in 1..Len(t) /\ k - 1 \in 1..Len(t) /\ k \in 1..Len(t)
      BY <1>1, <1>4, <1>5
    <3>2. \A i \in 1..Len(t) : b(i) \in Nat /\ r(i) \in Ranks
      BY <1>1
    <3> HIDE DEF b, r
    <3>3. \A i \in 1..Len(t) : r(i) \in Nat
      BY <3>2 DEF Ranks
    <3>4. QED
      BY <3>1, <3>2, <3>3
  <2>2. b(j) < b(k - 1) /\ b(k - 1) < b(k) /\ r(j) < r(k - 1) /\ r(k - 1) < r(k)
    BY <1>7
  <2> HIDE DEF b, r
  <2>3. b(j) < b(k) /\ r(j) < r(k)
    BY <2>1, <2>2
  <2>4. QED
    BY <2>3 DEF b, r
<1>9. QED
  BY <1>4, <1>8

LEMMA TableLemma ==
  ASSUME NEW t \in Tables, NEW n \in Nat, Accepted(t, n)
  PROVE  /\ Len(t) \in Nat /\ Len(t) >= 2 /\ DOMAIN t = 1..Len(t)
         /\ \A k \in 1..Len(t) : /\ t[k].block \in Nat /\ t[k].block < n
                                 /\ t[k].fork \in Forks /\ Rank(t[k].fork) \in Ranks
         /\ t[1].block = 0 /\ t[1].fork = "regolith"
<1>1. t \in Seq([block : Nat, fork : STRING])
  BY LadderAssumption
<1>2. Len(t) \in Nat /\ Len(t) >= 2 /\ DOMAIN t = 1..Len(t)
  BY <1>1 DEF Accepted
<1>3. ASSUME NEW k \in 1..Len(t)
      PROVE  /\ t[k].block \in Nat /\ t[k].block < n
             /\ t[k].fork \in Forks /\ Rank(t[k].fork) \in Ranks
  <2>1. t[k] \in [block : Nat, fork : STRING]
    BY <1>1, <1>3, ElementOfSeq
  <2>2. t[k].fork \in Forks /\ t[k].block < n
    BY <1>2 DEF Accepted
  <2>3. QED
    BY <2>1, <2>2, RankLemma
<1>4. t[1].block = 0 /\ t[1].fork = "regolith"
  BY DEF Accepted
<1>5. QED
  BY <1>2, <1>3, <1>4

\* The entry of a table that is in force at block b.
Entry(t, b) == Max({k \in DOMAIN t : t[k].block <= b})

LEMMA EntryLemma ==
  ASSUME NEW t \in Tables, NEW n \in Nat, Accepted(t, n), NEW b \in Nat
  PROVE  /\ Entry(t, b) \in 1..Len(t) /\ t[Entry(t, b)].block <= b
         /\ \A k \in 1..Len(t) : t[k].block <= b => k <= Entry(t, b)
<1> DEFINE S == {k \in DOMAIN t : t[k].block <= b}
<1>1. /\ S \subseteq Nat /\ 1 \in S /\ Len(t) \in Nat
      /\ \A k \in S : k <= Len(t)
      /\ DOMAIN t = 1..Len(t)
  BY TableLemma
<1>2. Entry(t, b) = Max(S)
  BY DEF Entry
<1>3. Max(S) \in S /\ \A k \in S : k <= Max(S)
  <2> HIDE DEF S
  <2>1. QED
    BY <1>1, MaxLemma
<1>4. QED
  BY <1>1, <1>2, <1>3

\* What coupling makes of one fork.
LEMMA CoupledLemma ==
  ASSUME NEW t \in Tables, NEW n \in Nat, Accepted(t, n), NEW r \in Ranks
  PROVE  /\ (\A k \in 1..Len(t) : Rank(t[k].fork) < r) => Coupled(t)[r] = Never
         /\ \A k \in 1..Len(t) :
              /\ Rank(t[k].fork) >= r
              /\ \A j \in 1..(k - 1) : Rank(t[j].fork) < r
              => Coupled(t)[r] = t[k].block
<1> DEFINE upper == {k \in DOMAIN t : Rank(t[k].fork) >= r}
<1>1. Coupled(t)[r] = IF upper = {} THEN Never ELSE t[Min(upper)].block
  BY DEF Coupled
<1>2. /\ Len(t) \in Nat /\ DOMAIN t = 1..Len(t) /\ r \in Nat
      /\ \A k \in 1..Len(t) : Rank(t[k].fork) \in Nat
  BY TableLemma DEF Ranks
<1>3. ASSUME \A k \in 1..Len(t) : Rank(t[k].fork) < r
      PROVE  upper = {}
  BY <1>2, <1>3
<1>4. ASSUME NEW k \in 1..Len(t), Rank(t[k].fork) >= r,
             \A j \in 1..(k - 1) : Rank(t[j].fork) < r
      PROVE  upper # {} /\ Min(upper) = k
  <2>1. k \in upper /\ upper \subseteq Nat /\ \A j \in upper : k <= j
    BY <1>2, <1>4
  <2>2. Min(upper) \in upper /\ \A j \in upper : Min(upper) <= j
    <3> HIDE DEF upper
    <3>1. QED
      BY <2>1, MinLemma
  <2> DEFINE m == Min(upper)
  <2>3. m \in Nat /\ k \in Nat /\ m <= k /\ k <= m
    <3> HIDE DEF upper
    <3>1. QED
      BY <2>1, <2>2
  <2>4. m = k
    <3> HIDE DEF m
    <3>1. QED
      BY <2>3
  <2>5. QED
    BY <2>1, <2>4
<1>5. QED
  BY <1>1, <1>3, <1>4

\* The last fork active at block b is the one that the table lists last.
LEMMA LastActiveLemma ==
  ASSUME NEW t \in Tables, NEW n \in Totals, Accepted(t, n), NEW b \in 0..n
  PROVE  ladderForks[Max({r \in Ranks : Coupled(t)[r] <= b})] = t[Entry(t, b)].fork
<1> DEFINE K == Entry(t, b)
           R == Rank(t[K].fork)
           S == {r \in Ranks : Coupled(t)[r] <= b}
<1>1. n \in Nat /\ b \in Nat /\ b < Never /\ Never \in Nat
  BY NeverLemma
<1>2. /\ Len(t) \in Nat
      /\ \A k \in 1..Len(t) : t[k].block \in Nat /\ Rank(t[k].fork) \in Ranks
      /\ \A k \in 1..Len(t) : t[k].fork \in Forks
  BY <1>1, TableLemma
<1>3. /\ K \in 1..Len(t) /\ t[K].block <= b
      /\ \A k \in 1..Len(t) : t[k].block <= b => k <= K
  BY <1>1, EntryLemma
<1>4. \A k \in 1..Len(t) : \A j \in 1..(k - 1) : Rank(t[j].fork) < Rank(t[k].fork)
  BY <1>1, SortedLemma
<1>5. R \in Ranks /\ ladderForks[R] = t[K].fork
  BY <1>2, <1>3, RankLemma
<1>6. R \in S
  <2>1. Coupled(t)[R] = t[K].block
    <3>1. /\ Rank(t[K].fork) >= R
          /\ \A j \in 1..(K - 1) : Rank(t[j].fork) < R
      BY <1>3, <1>4, <1>5 DEF Ranks
    <3>2. QED
      BY <1>1, <1>3, <1>5, <3>1, CoupledLemma
  <2>2. QED
    BY <1>3, <1>5, <2>1
<1>7. ASSUME NEW r \in S
      PROVE  r <= R
  <2>0. r \in Ranks /\ Coupled(t)[r] <= b /\ r \in Nat /\ R \in Nat
    BY <1>5 DEF Ranks
  <2>1. SUFFICES ASSUME r > R PROVE FALSE
    <3> HIDE DEF R
    <3>1. QED
      BY <2>0
  <2> DEFINE upper == {k \in 1..Len(t) : Rank(t[k].fork) >= r}
  <2>2. CASE upper = {}
    <3>1. \A k \in 1..Len(t) : Rank(t[k].fork) < r
      BY <1>2, <2>2 DEF Ranks
    <3>2. Coupled(t)[r] = Never
      BY <1>1, <2>0, <3>1, CoupledLemma
    <3>3. QED
      BY <1>1, <2>0, <3>2
  <2>3. CASE upper # {}
    <3>1. PICK k \in upper : \A j \in upper : k <= j
      <4>1. upper \subseteq Nat
        BY <1>2
      <4> HIDE DEF upper
      <4>2. QED
        BY <2>3, <4>1, LeastNatural
    <3>2. \A j \in 1..(k - 1) : Rank(t[j].fork) < r
      BY <1>2, <3>1 DEF Ranks
    <3>3. Coupled(t)[r] = t[k].block
      BY <1>1, <2>0, <3>1, <3>2, CoupledLemma
    <3>4. t[k].block <= b
      BY <2>0, <3>3
    <3>5. k <= K /\ k \in 1..Len(t)
      BY <1>3, <3>1, <3>4
    <3>6. Rank(t[k].fork) <= R
      <4>1. CASE k = K
        BY <1>5, <2>0, <4>1
      <4>2. CASE k # K
        <5>1. k \in 1..(K - 1)
          BY <1>2, <1>3, <3>5, <4>2
        <5>2. Rank(t[k].fork) < Rank(t[K].fork)
          BY <1>3, <1>4, <5>1
        <5>3. Rank(t[k].fork) \in Nat
          BY <1>2, <3>5 DEF Ranks
        <5> DEFINE q == Rank(t[k].fork)
        <5>4. q \in Nat /\ q < R
          BY <5>2, <5>3
        <5> HIDE DEF q, R
        <5>5. q <= R
          BY <2>0, <5>4
        <5>6. QED
          BY <5>5 DEF q
      <4>3. QED
        BY <4>1, <4>2
    <3>7. Rank(t[k].fork) >= r /\ Rank(t[k].fork) \in Nat
      BY <1>2, <3>1 DEF Ranks
    <3> DEFINE q == Rank(t[k].fork)
    <3>8. q \in Nat /\ q <= R /\ q >= r
      BY <3>6, <3>7
    <3> HIDE DEF q, R
    <3>9. QED
      BY <2>0, <2>1, <3>8
  <2>4. QED
    BY <2>2, <2>3
<1>8. Max(S) = R
  <2>1. S \subseteq Nat /\ S # {} /\ R \in Nat /\ \A r \in S : r <= R
    BY <1>5, <1>6, <1>7 DEF Ranks
  <2>2. Max(S) \in S /\ \A r \in S : r <= Max(S)
    <3> HIDE DEF S, R
    <3>1. QED
      BY <2>1, MaxLemma
  <2> HIDE DEF S, R
  <2>3. Max(S) \in Nat /\ Max(S) <= R /\ R <= Max(S)
    BY <1>6, <2>1, <2>2
  <2> DEFINE m == Max(S)
  <2>4. m \in Nat /\ m <= R /\ R <= m
    BY <2>3
  <2> HIDE DEF m
  <2>5. m = R
    BY <2>1, <2>4
  <2>6. QED
    BY <2>5 DEF m
<1>9. QED
  BY <1>5, <1>8

LEMMA CoupledTypeLemma ==
  ASSUME NEW t \in Tables, NEW n \in Totals, Accepted(t, n)
  PROVE  Coupled(t) \in [Ranks -> 0..Never]
<1>1. ASSUME NEW r \in Ranks
      PROVE  Coupled(t)[r] \in 0..Never
  <2> DEFINE upper == {k \in DOMAIN t : Rank(t[k].fork) >= r}
  <2>1. Coupled(t)[r] = IF upper = {} THEN Never ELSE t[Min(upper)].block
    BY DEF Coupled
  <2>2. CASE upper = {}
    BY <2>1, <2>2, NeverLemma
  <2>3. CASE upper # {}
    <3>1. n \in Nat /\ n < Never /\ Never \in Nat
      BY NeverLemma
    <3>2. \A k \in DOMAIN t : k \in Nat /\ t[k].block \in Nat /\ t[k].block < n
      BY <3>1, TableLemma
    <3>3. Min(upper) \in upper
      <4>1. upper \subseteq Nat
        BY <3>2
      <4> HIDE DEF upper
      <4>2. QED
        BY <2>3, <4>1, MinLemma
    <3>4. t[Min(upper)].block \in Nat /\ t[Min(upper)].block < n
      BY <3>2, <3>3
    <3>5. t[Min(upper)].block \in 0..Never
      BY <3>1, <3>4
    <3>6. QED
      BY <2>1, <2>3, <3>5
  <2>4. QED
    BY <2>2, <2>3
<1>2. QED
  BY <1>1 DEF Coupled

\* The premises under which blocks are generated.
Working == Accepted(table, total) /\ act = Coupled(table)

LEMMA BlockForkLemma ==
  ASSUME table \in Tables, total \in Totals, Working, NEW b \in 0..total
  PROVE  blockFork(b) = table[Entry(table, b)].fork /\ blockFork(b) \in Forks
<1>1. blockFork(b) = table[Entry(table, b)].fork
  BY LastActiveLemma DEF Working, blockFork
<1>2. total \in Nat /\ b \in Nat
  BY NeverLemma
<1>3. Entry(table, b) \in 1..Len(table)
  BY <1>2, EntryLemma DEF Working
<1>4. table[Entry(table, b)].fork \in Forks
  BY <1>2, <1>3, TableLemma DEF Working
<1>5. QED
  BY <1>1, <1>4

\* The fork changes only at a block that the table lists.
LEMMA ChangeLemma ==
  ASSUME table \in Tables, total \in Totals, Working, NEW b \in 1..total,
         blockFork(b - 1) # blockFork(b)
  PROVE  b - 1 \in activationIdxs
<1> DEFINE K == Entry(table, b)
           J == Entry(table, b - 1)
<1>1. total \in Nat /\ b \in Nat /\ b - 1 \in Nat /\ b - 1 \in 0..total /\ b \in 0..total
  BY NeverLemma
<1>2. J # K
  BY <1>1, BlockForkLemma
<1>3. /\ K \in 1..Len(table) /\ table[K].block <= b
      /\ \A k \in 1..Len(table) : table[k].block <= b => k <= K
  BY <1>1, EntryLemma DEF Working
<1>4. /\ J \in 1..Len(table) /\ table[J].block <= b - 1
      /\ \A k \in 1..Len(table) : table[k].block <= b - 1 => k <= J
  BY <1>1, EntryLemma DEF Working
<1>5. /\ Len(table) \in Nat /\ table[1].block = 0
      /\ \A k \in 1..Len(table) : table[k].block \in Nat
  BY <1>1, TableLemma DEF Working
<1> HIDE DEF J, K
<1>6. J <= K
  <2>1. table[J].block \in Nat /\ table[J].block <= b
    BY <1>1, <1>4, <1>5
  <2>2. QED
    BY <1>3, <1>4, <2>1
<1>7. ~(table[K].block <= b - 1)
  <2>1. ASSUME table[K].block <= b - 1 PROVE FALSE
    <3>1. K <= J
      BY <1>3, <1>4, <2>1
    <3>2. QED
      BY <1>2, <1>3, <1>4, <1>5, <1>6, <3>1
  <2>2. QED
    BY <2>1
<1>8. table[K].block \in Nat /\ table[K].block = b
  <2>1. table[K].block \in Nat
    BY <1>3, <1>5
  <2>2. QED
    BY <1>1, <1>3, <1>7, <2>1
<1>9. K \in 2..Len(table)
  <2>1. K # 1
    BY <1>1, <1>5, <1>8
  <2>2. QED
    BY <1>3, <1>5, <2>1
<1>10. QED
  BY <1>8, <1>9 DEF activationIdxs

-----------------------------------------------------------------------------
(* Blocks.                                                                   *)

LEMMA LayoutLemma ==
  /\ \A fork \in Forks : forkLayout(fork) \in Layouts
  /\ \A layout : /\ l1BlockWrittenSlots(layout) \subseteq Nat
                 /\ l1BlockStorage(layout) \subseteq Nat
<1>1. Forks = {"regolith", "canyon", "ecotone", "fjord",
               "granite", "holocene", "isthmus", "jovian"}
  BY DEF Forks, Ranks, ladderForks
<1>2. \A fork \in Forks : forkLayout(fork) \in Layouts
  BY <1>1 DEF forkLayout, Layouts
<1>3. \A layout : l1BlockWrittenSlots(layout) \subseteq Nat
  BY DEF l1BlockWrittenSlots
<1>4. \A layout : l1BlockStorage(layout) \subseteq Nat
  BY <1>3 DEF l1BlockStorage
<1>5. QED
  BY <1>2, <1>3, <1>4

LEMMA TupleLemma ==
  ASSUME NEW S
  PROVE  /\ \A x \in S : <<x>> \in Seq(S)
         /\ \A x, y \in S : <<x, y>> \in Seq(S)
         /\ \A x, y, z, w \in S : <<x, x, x, x, y, z, w>> \in Seq(S)
OBVIOUS

LEMMA TxsLemma ==
  ASSUME NEW i
  PROVE  Txs(i) \in Seq(Kinds)
<1>1. \A s1, s2 \in Seq(Kinds) : s1 \o s2 \in Seq(Kinds)
  BY ConcatProperties
<1>2. \A cond : \A txs \in Seq(Kinds) : When(cond, txs) \in Seq(Kinds)
  <2>1. <<>> \in Seq(Kinds)
    OBVIOUS
  <2>2. QED
    BY <2>1, Zenon DEF When
<1>3. /\ <<"attributes">> \in Seq(Kinds) /\ <<"deposit">> \in Seq(Kinds)
      /\ <<"transfer">> \in Seq(Kinds) /\ <<"withdrawal">> \in Seq(Kinds)
      /\ <<"create">> \in Seq(Kinds) /\ <<"precompile">> \in Seq(Kinds)
      /\ <<"deploy", "call">> \in Seq(Kinds)
      /\ <<"log", "log", "log", "log", "churn", "revert", "invalid">> \in Seq(Kinds)
  <2>1. /\ "attributes" \in Kinds /\ "deposit" \in Kinds /\ "transfer" \in Kinds
        /\ "withdrawal" \in Kinds /\ "create" \in Kinds /\ "precompile" \in Kinds
        /\ "deploy" \in Kinds /\ "call" \in Kinds /\ "log" \in Kinds
        /\ "churn" \in Kinds /\ "revert" \in Kinds /\ "invalid" \in Kinds
    BY DEF Kinds
  <2>2. QED
    BY <2>1, TupleLemma, Zenon
<1>4. recipe(i) \in Seq(Kinds)
  BY <1>1, <1>2, <1>3, Zenon DEF recipe
<1>5. QED
  BY <1>1, <1>2, <1>3, <1>4, Zenon DEF Txs

LEMMA BlockLemma ==
  ASSUME TypeOK, Working, NEW i \in Nat, i = Len(chain), i < total
  PROVE  Block(i) \in Blocks
<1>1. table \in Tables /\ total \in Totals /\ total \in Nat
  BY NeverLemma DEF TypeOK
<1>2. blockFork(i + 1) \in Forks /\ blockFork(i) \in Forks
  <2>1. i + 1 \in 0..total /\ i \in 0..total
    BY <1>1
  <2>2. QED
    BY <1>1, <2>1, BlockForkLemma
<1>3. calldataLayout(i + 1) \in Layouts
  <2>1. (i + 1) - 1 = i
    OBVIOUS
  <2>2. QED
    BY <1>2, <2>1, LayoutLemma DEF calldataLayout
<1>4. \A slots : slots \subseteq Nat => L1(slots) \subseteq Slots
  BY DEF L1, Slots
<1>5. withdrawalCount \in Nat /\ contractProbeSeq \in Nat /\ churnPrev(contractProbeSeq) \in Nat
  BY DEF TypeOK, churnPrev
<1>6. /\ \A k \in Nat : withdrawalSlots(k) \subseteq Slots
      /\ \A k \in Nat : churnSlots(k) \subseteq Slots
      /\ {<<"created", i>>} \subseteq Slots
  BY DEF withdrawalSlots, churnSlots, Slots
<1>7. \A txs, kind : \A slots \in SUBSET Slots : Touch(txs, kind, slots) \subseteq Slots
  BY DEF Touch
<1>8. Declared(i, Txs(i)) \in SUBSET Slots
  <2> DEFINE a == L1(l1BlockWrittenSlots(calldataLayout(i + 1)))
             w == Touch(Txs(i), "withdrawal", withdrawalSlots(withdrawalCount + 1))
             c == Touch(Txs(i), "create", {<<"created", i>>})
             h == Touch(Txs(i), "churn", churnSlots(contractProbeSeq))
  <2>1. a \subseteq Slots
    BY <1>4, LayoutLemma
  <2>2. w \subseteq Slots /\ c \subseteq Slots /\ h \subseteq Slots
    BY <1>5, <1>6, <1>7
  <2>3. Declared(i, Txs(i)) = a \cup w \cup c \cup h
    BY DEF Declared
  <2> HIDE DEF a, w, c, h
  <2>4. QED
    BY <2>1, <2>2, <2>3
<1>9. Post(i) \subseteq Slots
  <2>1. CASE i = 0
    BY <1>4, <2>1, LayoutLemma DEF Post, genesisStorage
  <2>2. CASE i # 0
    <3>1. chain \in Seq(Blocks) /\ i \in 1..Len(chain)
      BY <2>2 DEF TypeOK
    <3>2. chain[i] \in Blocks
      BY <3>1, ElementOfSeq
    <3>3. QED
      BY <2>2, <3>2 DEF Post, Blocks
  <2>3. QED
    BY <2>1, <2>2
<1>10. Executed(i, Txs(i)) \in SUBSET Slots
  <2> DEFINE sent == Cardinality({k \in 1..i : <<"passer", k>> \in Post(i)})
             x == Touch(Txs(i), "churn", churnSlots(churnPrev(contractProbeSeq)))
             a == L1(l1BlockStorage(calldataLayout(i + 1)))
             w == Touch(Txs(i), "withdrawal", withdrawalSlots(sent + 1))
             c == Touch(Txs(i), "create", {<<"created", i>>})
             h == Touch(Txs(i), "churn", churnSlots(contractProbeSeq))
  <2>1. sent \in Nat
    <3>1. IsFiniteSet(1..i)
      BY FS_Interval
    <3>2. IsFiniteSet({k \in 1..i : <<"passer", k>> \in Post(i)})
      BY <3>1, FS_Subset
    <3>3. QED
      BY <3>2, FS_CardinalityType
  <2>2. a \subseteq Slots
    BY <1>4, LayoutLemma
  <2>3. w \subseteq Slots /\ c \subseteq Slots /\ h \subseteq Slots
    <3> HIDE DEF sent
    <3>1. sent + 1 \in Nat
      BY <2>1
    <3>2. QED
      BY <1>5, <1>6, <1>7, <3>1
  <2>4. Executed(i, Txs(i)) = (Post(i) \ x) \cup a \cup w \cup c \cup h
    BY DEF Executed
  <2> HIDE DEF x, a, w, c, h
  <2>5. QED
    BY <1>9, <2>2, <2>3, <2>4
<1>11. QED
  BY <1>2, <1>3, <1>8, <1>10, TxsLemma DEF Block, Blocks

-----------------------------------------------------------------------------
(* The inductive invariant.                                                  *)

\* What each stage knows of the table and of the chain.
Staged ==
  /\ pc \in {"parse", "rejected"} => chain = <<>> /\ contractProbeSeq = 0
  /\ pc \notin {"parse", "rejected"} => Working
  /\ pc = "generate" => Len(chain) < total
  /\ pc \in {"check", "emit", "done", "failed"} => Len(chain) = total

Labelled ==
  \A b \in DOMAIN chain : /\ chain[b].fork = blockFork(b)
                          /\ chain[b].layout = calldataLayout(b)

\* The churn groups that are set after the last block.
Churned ==
  \A seq : <<"churn", seq>> \in Post(Len(chain))
             <=> contractProbeSeq > 0 /\ seq = contractProbeSeq - 1

Written ==
  pc = "done" =>
    \A i \in 0..(total - 1) : full \/ shouldEmitPostState(i) => i \in sampled

LInv == TypeOK /\ Staged /\ Labelled /\ Churned /\ Written

LEMMA InitHolds == Init => LInv
<1> SUFFICES ASSUME Init PROVE LInv
  OBVIOUS
<1> USE DEF Init
<1>1. TypeOK
  <2>1. Never \in Nat /\ total \in Nat \ {0}
    BY NeverLemma
  <2>2. Len(chain) = 0 /\ chain \in Seq(Blocks)
    OBVIOUS
  <2>3. act \in [Ranks -> 0..Never]
    BY <2>1
  <2>4. QED
    BY <2>1, <2>2, <2>3 DEF TypeOK
<1>2. Staged
  BY DEF Staged
<1>3. Labelled
  BY DEF Labelled
<1>4. Churned
  BY DEF Churned, Post, genesisStorage, L1
<1>5. Written
  BY DEF Written
<1>6. QED
  BY <1>1, <1>2, <1>3, <1>4, <1>5 DEF LInv

\* A step that leaves the request, the activations and the chain alone.
LEMMA FrameLemma ==
  ASSUME Labelled, Churned, UNCHANGED <<request, act, chain, counters>>
  PROVE  Labelled' /\ Churned'
<1>1. /\ \A b : blockFork(b)' = blockFork(b)
      /\ \A b : Post(b)' = Post(b)
  BY DEF request, blockFork, Post, genesisStorage
<1>2. \A b : calldataLayout(b)' = calldataLayout(b)
  BY DEF request, calldataLayout, blockFork
<1>3. Labelled'
  BY <1>1, <1>2 DEF Labelled
<1>4. Churned'
  BY <1>1 DEF Churned, counters
<1>5. QED
  BY <1>3, <1>4

LEMMA ParseSteps ==
  ASSUME LInv, Parse \/ Reject
  PROVE  LInv'
<1> USE DEF LInv, request, counters
<1>1. UNCHANGED <<table, total, full, chain, withdrawalCount, contractProbeSeq, emitted, sampled>>
  BY DEF Parse, Reject
<1>2. chain = <<>> /\ contractProbeSeq = 0 /\ Len(chain) = 0
  BY DEF Staged, Parse, Reject
<1>3. table \in Tables /\ total \in Totals /\ total \in Nat \ {0}
  BY NeverLemma DEF TypeOK
<1>4. CASE Parse
  <2>1. Accepted(table, total) /\ act' = Coupled(table) /\ pc' = "generate"
    BY <1>4 DEF Parse
  <2>2. act' \in [Ranks -> 0..Never]
    BY <1>3, <2>1, CoupledTypeLemma
  <2>3. TypeOK'
    BY <1>1, <2>1, <2>2 DEF TypeOK
  <2>4. Staged'
    <3>1. Accepted(table, total)'
      BY <1>1, <2>1 DEF Accepted
    <3>2. Coupled(table)' = Coupled(table)
      BY <1>1 DEF Coupled
    <3>3. QED
      BY <1>1, <1>2, <1>3, <2>1, <3>1, <3>2 DEF Staged, Working
  <2>5. Labelled'
    BY <1>1, <1>2 DEF Labelled
  <2>6. Churned'
    BY <1>1 DEF Churned, Post, genesisStorage
  <2>7. Written'
    BY <2>1 DEF Written
  <2>8. QED
    BY <2>3, <2>4, <2>5, <2>6, <2>7
<1>5. CASE Reject
  <2>1. pc' = "rejected" /\ UNCHANGED act
    BY <1>5 DEF Reject
  <2>2. TypeOK'
    BY <1>1, <2>1 DEF TypeOK
  <2>3. Staged'
    BY <1>1, <1>2, <2>1 DEF Staged
  <2>4. Labelled' /\ Churned'
    BY <1>1, <2>1, FrameLemma
  <2>5. Written'
    BY <2>1 DEF Written
  <2>6. QED
    BY <2>2, <2>3, <2>4, <2>5
<1>6. QED
  BY <1>4, <1>5

\* The churn contract's slots across one block.
LEMMA ChurnLemma ==
  ASSUME TypeOK, NEW i \in Nat, NEW txs,
         \A seq : <<"churn", seq>> \in Post(i)
                    <=> contractProbeSeq > 0 /\ seq = contractProbeSeq - 1
  PROVE  /\ Carries(txs, "churn") =>
              \A seq : <<"churn", seq>> \in Executed(i, txs) <=> seq = contractProbeSeq
         /\ ~Carries(txs, "churn") =>
              \A seq : <<"churn", seq>> \in Executed(i, txs)
                         <=> contractProbeSeq > 0 /\ seq = contractProbeSeq - 1
<1> DEFINE sent == Cardinality({k \in 1..i : <<"passer", k>> \in Post(i)})
           x == Touch(txs, "churn", churnSlots(churnPrev(contractProbeSeq)))
           a == L1(l1BlockStorage(calldataLayout(i + 1)))
           w == Touch(txs, "withdrawal", withdrawalSlots(sent + 1))
           c == Touch(txs, "create", {<<"created", i>>})
           h == Touch(txs, "churn", churnSlots(contractProbeSeq))
<1>1. Executed(i, txs) = (Post(i) \ x) \cup a \cup w \cup c \cup h
  BY DEF Executed
<1>2. \A seq : <<"churn", seq>> \notin a
  BY DEF L1
<1>3. \A seq : <<"churn", seq>> \notin w /\ <<"churn", seq>> \notin c
  BY DEF Touch, withdrawalSlots
<1>4. CASE Carries(txs, "churn")
  <2>1. /\ \A seq : <<"churn", seq>> \in h <=> seq = contractProbeSeq
        /\ \A seq : <<"churn", seq>> \in x <=> seq = churnPrev(contractProbeSeq)
    BY <1>4 DEF Touch, churnSlots
  <2>2. contractProbeSeq > 0 => churnPrev(contractProbeSeq) = contractProbeSeq - 1
    BY DEF churnPrev
  <2> HIDE DEF x, a, w, c, h
  <2>3. QED
    BY <1>1, <1>2, <1>3, <1>4, <2>1, <2>2
<1>5. CASE ~Carries(txs, "churn")
  <2>1. x = {} /\ h = {}
    BY <1>5 DEF Touch
  <2> HIDE DEF x, a, w, c, h
  <2>2. QED
    BY <1>1, <1>2, <1>3, <1>5, <2>1
<1>6. QED
  BY <1>4, <1>5

LEMMA GenerateStep ==
  ASSUME LInv, Generate
  PROVE  LInv'
<1> DEFINE i == Len(chain)
           block == Block(i)
           Count(kind) == IF Carries(block.txs, kind) THEN 1 ELSE 0
<1> USE DEF LInv
<1>1. /\ UNCHANGED <<table, total, full, act, emitted, sampled>>
      /\ chain' = Append(chain, block)
      /\ withdrawalCount' = withdrawalCount + Count("withdrawal")
      /\ contractProbeSeq' = contractProbeSeq + Count("churn")
      /\ pc' = IF Len(chain') = total THEN "check" ELSE pc
      /\ pc = "generate" /\ Len(chain) < total
  BY Zenon DEF Generate, request
<1>2. Working /\ table \in Tables /\ total \in Totals /\ total \in Nat \ {0}
  BY <1>1, NeverLemma DEF Staged, TypeOK
<1>3. i \in Nat /\ i < total /\ chain \in Seq(Blocks)
  BY <1>1 DEF TypeOK
<1>4. block \in Blocks
  <2> HIDE DEF i
  <2>1. i = Len(chain)
    BY DEF i
  <2>2. QED
    BY <1>2, <1>3, <2>1, BlockLemma
<1>5. /\ Count("withdrawal") \in {0, 1} /\ Count("churn") \in {0, 1}
      /\ Count("churn") = IF Carries(block.txs, "churn") THEN 1 ELSE 0
  OBVIOUS
<1>6. /\ block.fork = blockFork(i + 1) /\ block.layout = calldataLayout(i + 1)
      /\ block.post = Executed(i, Txs(i)) /\ block.txs = Txs(i)
  BY DEF Block
<1> HIDE DEF block, Count
<1>7. /\ chain' \in Seq(Blocks) /\ Len(chain') = i + 1
      /\ \A b \in 1..i : chain'[b] = chain[b]
      /\ chain'[i + 1] = block
  BY <1>1, <1>3, <1>4
<1> HIDE DEF i
<1>8. TypeOK'
  <2>1. Len(chain') <= total' /\ emitted' \in 0..Len(chain')
    BY <1>1, <1>2, <1>3, <1>7 DEF TypeOK, i
  <2>2. withdrawalCount' \in 0..Len(chain') /\ contractProbeSeq' \in 0..Len(chain')
    BY <1>1, <1>3, <1>5, <1>7 DEF TypeOK, i
  <2>3. pc' \in {"parse", "generate", "check", "emit", "done", "rejected", "failed"}
    BY <1>1
  <2>4. QED
    BY <1>1, <1>7, <2>1, <2>2, <2>3 DEF TypeOK
<1>9. Staged'
  <2>1. Working'
    BY <1>1, <1>2 DEF Working, Accepted, Coupled
  <2>2. Len(chain') # total => Len(chain') < total
    BY <1>2, <1>3, <1>7
  <2>3. pc' \in {"generate", "check"}
    BY <1>1
  <2>4. QED
    BY <1>1, <2>1, <2>2, <2>3 DEF Staged
<1>10. Labelled'
  <2>1. \A b : blockFork(b)' = blockFork(b) /\ calldataLayout(b)' = calldataLayout(b)
    BY <1>1 DEF calldataLayout, blockFork
  <2>2. ASSUME NEW b \in 1..(i + 1)
        PROVE  chain'[b].fork = blockFork(b) /\ chain'[b].layout = calldataLayout(b)
    <3>1. CASE b = i + 1
      BY <1>6, <1>7, <3>1
    <3>2. CASE b # i + 1
      <4>1. b \in 1..i /\ b \in DOMAIN chain
        BY <1>3, <3>2 DEF i
      <4>2. QED
        BY <1>7, <4>1 DEF Labelled
    <3>3. QED
      BY <3>1, <3>2
  <2>3. DOMAIN chain' = 1..(i + 1)
    BY <1>3, <1>7
  <2>4. QED
    BY <2>1, <2>2, <2>3 DEF Labelled
<1>11. Churned'
  <2>1. Post(Len(chain))' = Executed(i, Txs(i))
    <3>1. Post(Len(chain))' = chain'[i + 1].post
      BY <1>3, <1>7 DEF Post
    <3>2. QED
      BY <1>6, <1>7, <3>1
  <2>2. TypeOK /\ \A seq : <<"churn", seq>> \in Post(i)
                           <=> contractProbeSeq > 0 /\ seq = contractProbeSeq - 1
    BY DEF Churned, i
  <2> DEFINE txs == Txs(i)
             E == Executed(i, txs)
  <2>3. contractProbeSeq \in Nat /\ block.txs = txs /\ block.post = E
    BY <1>6 DEF TypeOK
  <2>4. /\ Carries(txs, "churn") =>
             \A seq : <<"churn", seq>> \in E <=> seq = contractProbeSeq
        /\ ~Carries(txs, "churn") =>
             \A seq : <<"churn", seq>> \in E
                        <=> contractProbeSeq > 0 /\ seq = contractProbeSeq - 1
    <3> HIDE DEF txs, LInv
    <3>1. QED
      BY <1>3, <2>2, ChurnLemma
  <2> HIDE DEF txs, E
  <2>5. SUFFICES \A seq : <<"churn", seq>> \in E
                          <=> contractProbeSeq' > 0 /\ seq = contractProbeSeq' - 1
    BY <2>1, <2>3, Zenon DEF Churned, E, txs
  <2>6. CASE Carries(txs, "churn")
    <3>1. contractProbeSeq' > 0 /\ contractProbeSeq' - 1 = contractProbeSeq
      BY <1>1, <1>5, <2>3, <2>6
    <3>2. QED
      BY <2>4, <2>6, <3>1
  <2>7. CASE ~Carries(txs, "churn")
    <3>1. contractProbeSeq' = contractProbeSeq
      BY <1>1, <1>5, <2>3, <2>7
    <3>2. QED
      BY <2>4, <2>7, <3>1
  <2>8. QED
    BY <2>6, <2>7
<1>12. Written'
  BY <1>1 DEF Written
<1>13. QED
  BY <1>8, <1>9, <1>10, <1>11, <1>12

LEMMA EmissionSteps ==
  ASSUME LInv, SelfCheck \/ Emit \/ Refuse \/ Write
  PROVE  LInv'
<1> USE DEF LInv
<1>1. UNCHANGED <<table, total, full, act, chain, withdrawalCount, contractProbeSeq>>
  BY DEF SelfCheck, Emit, Refuse, Write, request, counters
<1>2. /\ pc \in {"check", "emit"} /\ Working /\ Len(chain) = total
      /\ total \in Nat \ {0}
  BY NeverLemma DEF SelfCheck, Emit, Refuse, Write, Staged, TypeOK
<1>3. /\ pc' \in {"emit", "done", "failed"}
      /\ emitted' \in 0..Len(chain)
      /\ sampled' \subseteq 0..(total - 1)
  <2>1. emitted \in 0..Len(chain) /\ sampled \subseteq 0..(total - 1)
    BY DEF TypeOK
  <2>2. CASE SelfCheck
    BY <2>1, <2>2 DEF SelfCheck
  <2>3. CASE Emit
    BY <1>2, <2>1, <2>3 DEF Emit
  <2>4. CASE Refuse
    BY <2>1, <2>4 DEF Refuse
  <2>5. CASE Write
    BY <2>1, <2>5 DEF Write
  <2>6. QED
    BY <2>2, <2>3, <2>4, <2>5
<1>4. TypeOK'
  BY <1>1, <1>3 DEF TypeOK
<1>5. Staged'
  BY <1>1, <1>2, <1>3 DEF Staged, Working, Accepted, Coupled
<1>6. Labelled' /\ Churned'
  BY <1>1, FrameLemma DEF request, counters
<1>7. Written'
  <2>1. CASE Write
    <3>1. sampled' = {i \in 0..(total - 1) : full \/ shouldEmitPostState(i)}
      BY <2>1 DEF Write
    <3>2. \A i : shouldEmitPostState(i)' = shouldEmitPostState(i)
      BY <1>1 DEF shouldEmitPostState, activationIdxs
    <3>3. QED
      BY <1>1, <3>1, <3>2 DEF Written
  <2>2. CASE ~Write
    BY <2>2 DEF SelfCheck, Emit, Refuse, Written
  <2>3. QED
    BY <2>1, <2>2
<1>8. QED
  BY <1>4, <1>5, <1>6, <1>7

LEMMA StutterStep ==
  ASSUME LInv, UNCHANGED vars
  PROVE  LInv'
<1> USE DEF LInv, vars, request, counters
<1>1. TypeOK'
  BY DEF TypeOK
<1>2. Staged'
  BY DEF Staged, Working, Accepted, Coupled
<1>3. Labelled' /\ Churned'
  BY FrameLemma
<1>4. Written'
  BY DEF Written, shouldEmitPostState, activationIdxs
<1>5. QED
  BY <1>1, <1>2, <1>3, <1>4

LEMMA Invariance == Spec => []LInv
<1>1. LInv /\ [Next]_vars => LInv'
  <2> SUFFICES ASSUME LInv, [Next]_vars PROVE LInv'
    OBVIOUS
  <2>1. CASE Parse \/ Reject
    BY <2>1, ParseSteps
  <2>2. CASE Generate
    BY <2>2, GenerateStep
  <2>3. CASE SelfCheck \/ Emit \/ Refuse \/ Write
    BY <2>3, EmissionSteps
  <2>4. CASE UNCHANGED vars
    BY <2>4, StutterStep
  <2>5. QED
    BY <2>1, <2>2, <2>3, <2>4 DEF Next
<1>2. QED
  BY <1>1, InitHolds, PTL DEF Spec

-----------------------------------------------------------------------------
(* What follows.                                                             *)

\* Every state of every request is well formed: TypeOK.
THEOREM TypeCorrect == Spec => []TypeOK
<1>1. LInv => TypeOK
  BY DEF LInv
<1>2. QED
  BY <1>1, Invariance, PTL

\* Whatever forks a table skips and wherever it activates them, a block is
\* labelled with the last fork listed at or before it: CouplingInvisible.
THEOREM LabelsAsListed == Spec => []CouplingInvisible
<1>1. LInv => CouplingInvisible
  <2> SUFFICES ASSUME LInv, NEW b \in DOMAIN chain
               PROVE  chain[b].fork = table[Entry(table, b)].fork
    BY DEF CouplingInvisible, Entry
  <2>1. /\ chain \in Seq(Blocks) /\ Len(chain) <= total
        /\ table \in Tables /\ total \in Totals /\ total \in Nat
    BY NeverLemma DEF LInv, TypeOK
  <2>2. b \in 0..total
    BY <2>1
  <2>3. Working
    BY DEF LInv, Staged
  <2>4. QED
    BY <2>1, <2>2, <2>3, BlockForkLemma DEF LInv, Labelled
<1>2. QED
  BY <1>1, Invariance, PTL

\* At any point of any chain, the churn contract holds the group of its last call
\* and no other: ChurnCleared.
THEOREM OneChurnGroup == Spec => []ChurnCleared
<1>1. LInv => ChurnCleared
  <2> SUFFICES ASSUME LInv
               PROVE  {seq \in 0..total : <<"churn", seq>> \in Post(Len(chain))}
                        = IF contractProbeSeq = 0 THEN {} ELSE {contractProbeSeq - 1}
    BY DEF ChurnCleared
  <2>1. contractProbeSeq \in Nat /\ contractProbeSeq <= total /\ total \in Nat
    BY NeverLemma DEF LInv, TypeOK
  <2>2. \A seq : <<"churn", seq>> \in Post(Len(chain))
                   <=> contractProbeSeq > 0 /\ seq = contractProbeSeq - 1
    BY DEF LInv, Churned
  <2>3. CASE contractProbeSeq = 0
    BY <2>2, <2>3
  <2>4. CASE contractProbeSeq > 0
    <3>1. contractProbeSeq - 1 \in 0..total
      BY <2>1, <2>4
    <3>2. QED
      BY <2>2, <2>4, <3>1
  <2>5. QED
    BY <2>1, <2>3, <2>4
<1>2. QED
  BY <1>1, Invariance, PTL

\* In every vector, both sides of every change of fork or of calldata layout
\* carry their post-state, for any table and any chain length: TransitionsSampled.
THEOREM TransitionsKept == Spec => []TransitionsSampled
<1>1. LInv => TransitionsSampled
  <2> SUFFICES ASSUME LInv, pc = "done", NEW i \in 1..(total - 1),
                      \/ chain[i].fork # chain[i + 1].fork
                      \/ chain[i].layout # chain[i + 1].layout
               PROVE  {i - 1, i} \subseteq sampled
    BY DEF TransitionsSampled
  <2>1. /\ table \in Tables /\ total \in Totals /\ total \in Nat \ {0}
        /\ Working /\ Len(chain) = total /\ chain \in Seq(Blocks)
    BY NeverLemma DEF LInv, TypeOK, Staged
  <2>2. i \in DOMAIN chain /\ i + 1 \in DOMAIN chain /\ i \in Nat
    BY <2>1
  <2>3. \A j \in {i - 1, i} : j \in 0..(total - 1)
    BY <2>1
  <2>4. \A j \in {i - 1, i} : shouldEmitPostState(j)
    <3>1. CASE chain[i].fork # chain[i + 1].fork
      <4>1. blockFork((i + 1) - 1) # blockFork(i + 1)
        <5>1. (i + 1) - 1 = i
          BY <2>2
        <5>2. QED
          BY <2>2, <3>1, <5>1 DEF LInv, Labelled
      <4>2. i + 1 \in 1..total
        BY <2>1
      <4>3. (i + 1) - 1 \in activationIdxs
        BY <2>1, <4>1, <4>2, ChangeLemma
      <4>4. i \in activationIdxs
        BY <2>2, <4>3
      <4>5. \A j \in {i - 1, i} : j \in (i - 1)..(i + 1)
        BY <2>2
      <4>6. QED
        BY <4>4, <4>5 DEF shouldEmitPostState
    <3>2. CASE chain[i].layout # chain[i + 1].layout
      <4>1. calldataLayout(i) # calldataLayout(i + 1)
        BY <2>2, <3>2 DEF LInv, Labelled
      <4>2. blockFork(i - 1) # blockFork(i)
        <5>1. (i + 1) - 1 = i
          BY <2>2
        <5>2. QED
          BY <4>1, <5>1 DEF calldataLayout
      <4>3. i \in 1..total
        BY <2>1
      <4>4. i - 1 \in activationIdxs
        BY <2>1, <4>2, <4>3, ChangeLemma
      <4>5. \A j \in {i - 1, i} : j \in ((i - 1) - 1)..((i - 1) + 1)
        BY <2>2
      <4>6. QED
        BY <4>4, <4>5 DEF shouldEmitPostState
    <3>3. QED
      BY <3>1, <3>2
  <2>5. QED
    BY <2>3, <2>4 DEF LInv, Written
<1>2. QED
  BY <1>1, Invariance, PTL

-----------------------------------------------------------------------------
(* Activations and layouts.                                                  *)

\* Coupled activations come in the order of the forks: Regolith's at the genesis, all
\* others after it, and one that is listed at most at the last block but one.
LEMMA OrderLemma ==
  ASSUME NEW t \in Tables, NEW n \in Totals, Accepted(t, n)
  PROVE  /\ Coupled(t)[1] = 0
         /\ \A r \in Ranks : /\ Coupled(t)[r] \in Nat
                             /\ r # 1 => Coupled(t)[r] >= 1
                             /\ Coupled(t)[r] # Never => Coupled(t)[r] < n
         /\ \A r, q \in Ranks : r <= q => Coupled(t)[r] <= Coupled(t)[q]
<1> DEFINE R(k) == Rank(t[k].fork)
           upper(r) == {k \in 1..Len(t) : R(k) >= r}
           A(r) == Coupled(t)[r]
<1>1. n \in Nat /\ n < Never /\ Never \in Nat
  BY NeverLemma
<1>2. /\ Len(t) \in Nat /\ Len(t) >= 2 /\ DOMAIN t = 1..Len(t)
      /\ \A k \in 1..Len(t) : t[k].block \in Nat /\ t[k].block < n /\ R(k) \in Ranks
      /\ t[1].block = 0 /\ t[1].fork = "regolith"
  BY <1>1, TableLemma
<1>3. \A k \in 1..Len(t) : \A j \in 1..(k - 1) : t[j].block < t[k].block
  BY <1>1, SortedLemma
<1>4. R(1) = 1
  <2>1. ladderForks[1] = "regolith" /\ 1 \in Ranks
    BY DEF ladderForks, Ranks
  <2>2. QED
    BY <1>2, <2>1, RankLemma
<1>5. ASSUME NEW r \in Ranks
      PROVE  \/ upper(r) = {} /\ A(r) = Never
             \/ \E k \in upper(r) : (\A j \in upper(r) : k <= j) /\ A(r) = t[k].block
  <2>1. A(r) = IF upper(r) = {} THEN Never ELSE t[Min(upper(r))].block
    BY <1>2 DEF Coupled
  <2>2. upper(r) \subseteq Nat
    BY <1>2
  <2> HIDE DEF upper, A
  <2>3. CASE upper(r) = {}
    BY <2>1, <2>3
  <2>4. CASE upper(r) # {}
    <3>1. Min(upper(r)) \in upper(r) /\ \A j \in upper(r) : Min(upper(r)) <= j
      BY <2>2, <2>4, MinLemma
    <3>2. QED
      BY <2>1, <2>4, <3>1
  <2>5. QED
    BY <2>3, <2>4
<1>6. \A r \in Ranks : \A k : k \in upper(r) => k \in 1..Len(t) /\ R(k) >= r
  OBVIOUS
<1>7. \A r, q \in Ranks : r <= q => upper(q) \subseteq upper(r)
  BY <1>2 DEF Ranks
<1>8. ASSUME NEW r \in Ranks, r # 1
      PROVE  1 \notin upper(r)
  BY <1>4, <1>8 DEF Ranks
<1>9. 1 \in upper(1)
  BY <1>2, <1>4
<1>10. \A k \in 1..Len(t) : k # 1 => t[k].block >= 1
  <2>1. SUFFICES ASSUME NEW k \in 1..Len(t), k # 1 PROVE t[k].block >= 1
    OBVIOUS
  <2>2. 1 \in 1..(k - 1) /\ t[k].block \in Nat
    BY <1>2, <2>1
  <2>3. 0 < t[k].block
    BY <1>2, <1>3, <2>2
  <2>4. QED
    BY <2>2, <2>3
<1> HIDE DEF upper, A, R
<1>11. A(1) = 0
  <2>1. 1 \in Ranks
    BY DEF Ranks
  <2>2. PICK k \in upper(1) : (\A j \in upper(1) : k <= j) /\ A(1) = t[k].block
    BY <1>5, <1>9, <2>1
  <2>3. k \in 1..Len(t) /\ k <= 1
    BY <1>6, <1>9, <2>1, <2>2
  <2>4. k = 1
    BY <1>2, <2>3
  <2>5. QED
    BY <1>2, <2>2, <2>4
<1>12. ASSUME NEW r \in Ranks
       PROVE  A(r) \in Nat /\ (r # 1 => A(r) >= 1) /\ (A(r) # Never => A(r) < n)
  <2>1. CASE upper(r) = {} /\ A(r) = Never
    BY <1>1, <2>1
  <2>2. CASE \E k \in upper(r) : A(r) = t[k].block
    <3>1. PICK k \in upper(r) : A(r) = t[k].block
      BY <2>2
    <3>2. k \in 1..Len(t) /\ t[k].block \in Nat /\ t[k].block < n
      BY <1>2, <1>6, <3>1
    <3>3. r # 1 => k # 1
      BY <1>8, <3>1
    <3>4. QED
      BY <1>10, <3>1, <3>2, <3>3
  <2>3. QED
    BY <1>5, <2>1, <2>2
<1>13. ASSUME NEW r \in Ranks, NEW q \in Ranks, r <= q
       PROVE  A(r) <= A(q)
  <2>1. upper(q) \subseteq upper(r)
    BY <1>7, <1>13
  <2>2. CASE upper(q) = {}
    <3>1. A(q) = Never
      BY <1>5, <2>2
    <3>2. A(r) \in Nat /\ (A(r) = Never \/ A(r) < n)
      BY <1>12
    <3>3. QED
      BY <1>1, <3>1, <3>2
  <2>3. CASE upper(q) # {}
    <3>1. PICK k \in upper(q) : (\A j \in upper(q) : k <= j) /\ A(q) = t[k].block
      BY <1>5, <2>3
    <3>2. PICK m \in upper(r) : (\A j \in upper(r) : m <= j) /\ A(r) = t[m].block
      BY <1>5, <2>1, <2>3
    <3>3. /\ k \in 1..Len(t) /\ m \in 1..Len(t) /\ m <= k
          /\ t[k].block \in Nat /\ t[m].block \in Nat
      BY <1>2, <1>6, <2>1, <3>1, <3>2
    <3>4. CASE m = k
      BY <3>1, <3>2, <3>3, <3>4
    <3>5. CASE m # k
      <4>1. m \in 1..(k - 1)
        BY <1>2, <3>3, <3>5
      <4>2. t[m].block < t[k].block
        BY <1>3, <3>3, <4>1
      <4>3. QED
        BY <3>1, <3>2, <3>3, <4>2
    <3>6. QED
      BY <3>4, <3>5
  <2>4. QED
    BY <2>2, <2>3
<1>14. QED
  BY <1>11, <1>12, <1>13 DEF A

\* The same of the activations that the generator works with.
Ordered ==
  /\ Never \in Nat /\ total \in Nat /\ total >= 1 /\ total < Never
  /\ act[1] = 0
  /\ \A r \in Ranks : /\ act[r] \in Nat
                      /\ r # 1 => act[r] >= 1
                      /\ act[r] # Never => act[r] < total
  /\ \A r, q \in Ranks : r <= q => act[r] <= act[q]

LEMMA OrderedLemma ==
  ASSUME table \in Tables, total \in Totals, Working
  PROVE  Ordered
BY OrderLemma, NeverLemma DEF Ordered, Working

\* A fork is active at a block if it is no later than the block's.
LEMMA ActiveLemma ==
  ASSUME table \in Tables, total \in Totals, Working, NEW b \in 0..total
  PROVE  /\ Rank(blockFork(b)) \in Ranks
         /\ blockFork(b) = ladderForks[Rank(blockFork(b))]
         /\ \A r \in Ranks : act[r] <= b <=> r <= Rank(blockFork(b))
<1> DEFINE S == {r \in Ranks : act[r] <= b}
           M == Max(S)
<1>1. Ordered
  BY OrderedLemma
<1>2. S \subseteq Nat /\ 1 \in S /\ \A r \in S : r <= 8
  BY <1>1 DEF Ordered, Ranks
<1>3. M \in S /\ \A r \in S : r <= M
  <2> HIDE DEF S
  <2>1. QED
    BY <1>2, MaxLemma
<1>4. blockFork(b) = ladderForks[M] /\ M \in Ranks
  BY <1>3 DEF blockFork
<1>5. Rank(blockFork(b)) = M
  BY <1>4, RankLemma
<1>6. ASSUME NEW r \in Ranks
      PROVE  act[r] <= b <=> r <= M
  <2>1. act[r] <= b => r <= M
    BY <1>3
  <2>2. r <= M => act[r] <= act[M]
    BY <1>1, <1>4 DEF Ordered
  <2>3. act[r] \in Nat /\ act[M] \in Nat /\ act[M] <= b /\ b \in Nat
    BY <1>1, <1>3, <1>4 DEF Ordered
  <2> HIDE DEF M
  <2>4. QED
    BY <2>1, <2>2, <2>3
<1>7. QED
  BY <1>4, <1>5, <1>6

LEMMA RankValues ==
  /\ Rank("canyon") = 2 /\ Rank("ecotone") = 3 /\ Rank("fjord") = 4
  /\ Rank("isthmus") = 7 /\ Rank("jovian") = 8
<1>1. /\ ladderForks[2] = "canyon" /\ ladderForks[3] = "ecotone" /\ ladderForks[4] = "fjord"
      /\ ladderForks[7] = "isthmus" /\ ladderForks[8] = "jovian"
      /\ {2, 3, 4, 7, 8} \subseteq Ranks
  BY DEF ladderForks, Ranks
<1>2. QED
  BY <1>1, RankLemma

\* The layout that a block's fork has, by activations.
LayoutAt(b) ==
  IF b < act[3] THEN "bedrock"
  ELSE IF b < act[7] THEN "ecotone"
  ELSE IF b < act[8] THEN "isthmus" ELSE "jovian"

LEMMA LayoutAtLemma ==
  ASSUME table \in Tables, total \in Totals, Working, NEW b \in 0..total
  PROVE  forkLayout(blockFork(b)) = LayoutAt(b)
<1> DEFINE R == Rank(blockFork(b))
<1>1. /\ R \in Ranks /\ blockFork(b) = ladderForks[R]
      /\ \A r \in Ranks : act[r] <= b <=> r <= R
  BY ActiveLemma
<1>2. /\ b \in Nat /\ act[3] \in Nat /\ act[7] \in Nat /\ act[8] \in Nat
  BY OrderedLemma DEF Ordered, Ranks
<1>3. /\ b < act[3] <=> R < 3
      /\ b < act[7] <=> R < 7
      /\ b < act[8] <=> R < 8
  <2>1. 3 \in Ranks /\ 7 \in Ranks /\ 8 \in Ranks /\ R \in Nat
    BY <1>1 DEF Ranks
  <2> HIDE DEF R
  <2>2. QED
    BY <1>1, <1>2, <2>1
<1>4. \A r \in Ranks : forkLayout(ladderForks[r]) =
        IF r < 3 THEN "bedrock" ELSE IF r < 7 THEN "ecotone"
        ELSE IF r < 8 THEN "isthmus" ELSE "jovian"
  BY DEF Ranks, ladderForks, forkLayout
<1> HIDE DEF R
<1>5. QED
  BY <1>1, <1>3, <1>4, Zenon DEF LayoutAt

-----------------------------------------------------------------------------
(* The L1Block slots of a chain.                                             *)

\* The slots that are set after block b: Bedrock's from the genesis on, those that the
\* first calldata of a later layout introduces from that block on.
Held(b) == {1, 5, 6} \cup (IF act[3] < b THEN {3, 7} ELSE {})
                     \cup (IF act[8] < b THEN {8} ELSE {})

LEMMA HeldLemma ==
  ASSUME Ordered, NEW b \in Nat, b >= 1
  PROVE  Held(b) = Held(b - 1) \cup l1BlockStorage(LayoutAt(b - 1))
<1>1. /\ act[3] \in Nat /\ act[7] \in Nat /\ act[8] \in Nat
      /\ act[3] <= act[7] /\ act[7] <= act[8]
  BY DEF Ordered, Ranks
<1>2. /\ l1BlockStorage("bedrock") = {1, 5, 6} /\ l1BlockStorage("ecotone") = {1, 3, 7}
      /\ l1BlockStorage("isthmus") = {1, 3, 7} /\ l1BlockStorage("jovian") = {1, 3, 7, 8}
  BY DEF l1BlockStorage, l1BlockWrittenSlots
<1>3. CASE b - 1 < act[3]
  BY <1>1, <1>2, <1>3 DEF Held, LayoutAt
<1>4. CASE ~(b - 1 < act[3]) /\ b - 1 < act[7]
  BY <1>1, <1>2, <1>4 DEF Held, LayoutAt
<1>5. CASE ~(b - 1 < act[7]) /\ b - 1 < act[8]
  BY <1>1, <1>2, <1>5 DEF Held, LayoutAt
<1>6. CASE ~(b - 1 < act[8])
  BY <1>1, <1>2, <1>6 DEF Held, LayoutAt
<1>7. QED
  BY <1>3, <1>4, <1>5, <1>6

LEMMA HeldAtStart ==
  ASSUME Ordered
  PROVE  Held(0) = {1, 5, 6}
BY DEF Ordered, Ranks, Held

-----------------------------------------------------------------------------
(* The order of a block's transactions.                                      *)

Deposits == {"attributes", "deposit"}

LEMMA DepositsOnlyLemma ==
  \A x : DepositsOnly(<<x>>) <=> x \in Deposits
<1>1. ASSUME NEW x
      PROVE  DepositsOnly(<<x>>) <=> x \in Deposits
  <2>1. DOMAIN <<x>> = {1} /\ <<x>>[1] = x
    OBVIOUS
  <2>2. QED
    BY <2>1 DEF DepositsOnly, Deposits
<1>2. QED
  BY <1>1

\* A sequence that has no deposits, and one whose deposits come first.
Free(s) == s \in Seq(Kinds) /\ \A k \in 1..Len(s) : s[k] \notin Deposits

Leading(s) ==
  /\ s \in Seq(Kinds)
  /\ \A k \in 1..Len(s) : s[k] \in Deposits => \A j \in 1..(k - 1) : s[j] \in Deposits

LEMMA FreeLemma ==
  ASSUME NEW s, NEW t, Free(s), Free(t)
  PROVE  Free(s \o t)
<1>1. /\ s \in Seq(Kinds) /\ t \in Seq(Kinds)
      /\ Len(s) \in Nat /\ Len(t) \in Nat
  BY DEF Free
<1>2. /\ s \o t \in Seq(Kinds) /\ Len(s \o t) = Len(s) + Len(t)
      /\ \A k \in 1..(Len(s) + Len(t)) :
           (s \o t)[k] = IF k <= Len(s) THEN s[k] ELSE t[k - Len(s)]
  BY <1>1, ConcatProperties
<1>3. ASSUME NEW k \in 1..(Len(s) + Len(t))
      PROVE  (s \o t)[k] \notin Deposits
  <2>1. CASE k <= Len(s)
    BY <1>1, <1>2, <2>1 DEF Free
  <2>2. CASE ~(k <= Len(s))
    <3>1. k - Len(s) \in 1..Len(t)
      BY <1>1, <2>2
    <3>2. QED
      BY <1>2, <2>2, <3>1 DEF Free
  <2>3. QED
    BY <2>1, <2>2
<1>4. QED
  BY <1>2, <1>3 DEF Free

LEMMA LeadingLemma ==
  ASSUME NEW s, NEW t, Leading(s), Free(t)
  PROVE  Leading(s \o t)
<1>1. /\ s \in Seq(Kinds) /\ t \in Seq(Kinds)
      /\ Len(s) \in Nat /\ Len(t) \in Nat
  BY DEF Leading, Free
<1>2. /\ s \o t \in Seq(Kinds) /\ Len(s \o t) = Len(s) + Len(t)
      /\ \A k \in 1..(Len(s) + Len(t)) :
           (s \o t)[k] = IF k <= Len(s) THEN s[k] ELSE t[k - Len(s)]
  BY <1>1, ConcatProperties
<1> DEFINE u == s \o t
<1>3. ASSUME NEW k \in 1..(Len(s) + Len(t)), u[k] \in Deposits, NEW j \in 1..(k - 1)
      PROVE  u[j] \in Deposits
  <2>1. CASE k <= Len(s)
    <3>1. /\ k \in 1..Len(s) /\ j <= Len(s)
          /\ j \in 1..(Len(s) + Len(t))
      BY <1>1, <1>3, <2>1
    <3>2. u[k] = s[k] /\ u[j] = s[j]
      BY <1>2, <2>1, <3>1
    <3>3. QED
      BY <1>3, <3>1, <3>2 DEF Leading
  <2>2. CASE ~(k <= Len(s))
    <3>1. k - Len(s) \in 1..Len(t)
      BY <1>1, <1>3, <2>2
    <3>2. u[k] = t[k - Len(s)]
      BY <1>2, <1>3, <2>2
    <3>3. QED
      BY <1>3, <3>1, <3>2 DEF Free
  <2>3. QED
    BY <2>1, <2>2
<1> HIDE DEF u
<1>4. u \in Seq(Kinds) /\ Len(u) = Len(s) + Len(t)
  BY <1>2 DEF u
<1>5. Leading(u)
  BY <1>3, <1>4 DEF Leading
<1>6. QED
  BY <1>5 DEF u

\* A deposit in front does not disturb.
LEMMA FrontLemma ==
  ASSUME NEW x \in Deposits, NEW s, Leading(s)
  PROVE  Leading(<<x>> \o s)
<1> DEFINE u == <<x>> \o s
<1>1. x \in Kinds
  BY DEF Deposits, Kinds
<1>2. /\ s \in Seq(Kinds) /\ Len(s) \in Nat /\ <<x>> \in Seq(Kinds) /\ Len(<<x>>) = 1
  BY <1>1 DEF Leading
<1>3. /\ u \in Seq(Kinds) /\ Len(u) = 1 + Len(s)
      /\ \A k \in 1..(1 + Len(s)) : u[k] = IF k <= 1 THEN x ELSE s[k - 1]
  <2>1. /\ u \in Seq(Kinds) /\ Len(u) = Len(<<x>>) + Len(s)
        /\ \A k \in 1..(Len(<<x>>) + Len(s)) :
             u[k] = IF k <= Len(<<x>>) THEN <<x>>[k] ELSE s[k - Len(<<x>>)]
    BY <1>2, ConcatProperties
  <2>2. <<x>>[1] = x
    OBVIOUS
  <2>3. ASSUME NEW k \in 1..(1 + Len(s))
        PROVE  u[k] = IF k <= 1 THEN x ELSE s[k - 1]
    <3>1. k <= 1 => k = 1
      BY <1>2
    <3> HIDE DEF u
    <3>2. QED
      BY <1>2, <2>1, <2>2, <2>3, <3>1
  <2>4. QED
    BY <1>2, <2>1, <2>3
<1> HIDE DEF u
<1>4. ASSUME NEW k \in 1..(1 + Len(s)), u[k] \in Deposits, NEW j \in 1..(k - 1)
      PROVE  u[j] \in Deposits
  <2>1. /\ k - 1 \in 1..Len(s) /\ j \in 1..(1 + Len(s)) /\ u[k] = s[k - 1]
        /\ j > 1 => j - 1 \in 1..((k - 1) - 1) /\ u[j] = s[j - 1]
    BY <1>2, <1>3, <1>4
  <2>2. CASE j > 1
    BY <1>4, <2>1, <2>2 DEF Leading
  <2>3. CASE ~(j > 1)
    BY <1>3, <2>1, <2>3
  <2>4. QED
    BY <2>2, <2>3
<1>5. Leading(u)
  BY <1>3, <1>4 DEF Leading
<1>6. QED
  BY <1>5 DEF u

LEMMA FreeTuples ==
  /\ Free(<<>>) /\ Free(<<"transfer">>) /\ Free(<<"withdrawal">>) /\ Free(<<"create">>)
  /\ Free(<<"precompile">>) /\ Free(<<"deploy", "call">>)
  /\ Free(<<"log", "log", "log", "log", "churn", "revert", "invalid">>)
  /\ Leading(<<"deposit">>)
<1>1. \A x \in Kinds \ Deposits : Free(<<x>>)
  BY DEF Free
<1>2. \A x, y \in Kinds \ Deposits : Free(<<x, y>>)
  <2>1. SUFFICES ASSUME NEW x \in Kinds \ Deposits, NEW y \in Kinds \ Deposits
                 PROVE  Free(<<x, y>>)
    OBVIOUS
  <2>2. /\ <<x, y>> \in Seq(Kinds) /\ Len(<<x, y>>) = 2
        /\ <<x, y>>[1] = x /\ <<x, y>>[2] = y
    OBVIOUS
  <2> DEFINE s == <<x, y>>
  <2> HIDE DEF s
  <2>3. s \in Seq(Kinds) /\ Len(s) = 2 /\ s[1] = x /\ s[2] = y
    BY <2>2 DEF s
  <2>4. \A k \in 1..2 : k = 1 \/ k = 2
    OBVIOUS
  <2>5. Free(s)
    BY <2>1, <2>3, <2>4 DEF Free
  <2>6. QED
    BY <2>5 DEF s
<1>3. \A x, y, z, w \in Kinds \ Deposits : Free(<<x, x, x, x, y, z, w>>)
  <2>1. SUFFICES ASSUME NEW x \in Kinds \ Deposits, NEW y \in Kinds \ Deposits,
                        NEW z \in Kinds \ Deposits, NEW w \in Kinds \ Deposits
                 PROVE  Free(<<x, x, x, x, y, z, w>>)
    OBVIOUS
  <2> DEFINE s == <<x, x, x, x, y, z, w>>
  <2>2. /\ s \in Seq(Kinds) /\ Len(s) = 7
        /\ s[1] = x /\ s[2] = x /\ s[3] = x /\ s[4] = x /\ s[5] = y /\ s[6] = z /\ s[7] = w
    OBVIOUS
  <2> HIDE DEF s
  <2>3. \A k \in 1..7 : k = 1 \/ k = 2 \/ k = 3 \/ k = 4 \/ k = 5 \/ k = 6 \/ k = 7
    OBVIOUS
  <2>4. Free(s)
    BY <2>1, <2>2, <2>3 DEF Free
  <2>5. QED
    BY <2>4 DEF s
<1>4. Free(<<>>)
  BY DEF Free
<1>5. {"transfer", "withdrawal", "create", "precompile", "deploy", "call", "log", "churn",
       "revert", "invalid"} \subseteq Kinds \ Deposits
  BY DEF Kinds, Deposits
<1>6. Leading(<<"deposit">>)
  <2>1. /\ <<"deposit">> \in Seq(Kinds) /\ Len(<<"deposit">>) = 1
    BY DEF Kinds
  <2>2. QED
    BY <2>1 DEF Leading
<1>7. QED
  BY <1>1, <1>2, <1>3, <1>4, <1>5, <1>6

LEMMA WhenLemma ==
  \A cond, s : Free(s) => Free(When(cond, s))
BY FreeTuples, Zenon DEF When

\* In no block of any table does a deposit follow another transaction.
LEMMA DepositsFirstLemma ==
  ASSUME NEW i
  PROVE  assertDepositsFirst(Txs(i))
<1>1. Leading(recipe(i))
  BY FreeTuples, WhenLemma, LeadingLemma, Zenon DEF recipe
<1>2. Leading(<<"attributes">> \o recipe(i))
  BY <1>1, FrontLemma DEF Deposits
<1>3. Leading(Txs(i))
  BY <1>2, FreeTuples, WhenLemma, LeadingLemma, Zenon DEF Txs
<1>4. DOMAIN Txs(i) = 1..Len(Txs(i))
  BY <1>3 DEF Leading
<1>5. QED
  BY <1>3, <1>4, DepositsOnlyLemma DEF Leading, assertDepositsFirst

\* The first Jovian block has deposits only.
LEMMA JovianBlockLemma ==
  ASSUME NEW i \in Nat, act[8] = i + 1, i \notin createCallBlocks
  PROVE  DepositsOnly(Txs(i))
<1>1. JovianActivation(i + 1)
  BY DEF JovianActivation
<1>2. ~ladderContractProbesEnabled(i)
  BY DEF ladderContractProbesEnabled, activationTimes
<1>3. \A s1, s2 \in Seq(Deposits) : s1 \o s2 \in Seq(Deposits)
  BY ConcatProperties
<1>4. \A cond, s : ~cond => When(cond, s) = <<>>
  BY DEF When
<1>5. /\ <<>> \in Seq(Deposits) /\ <<"attributes">> \in Seq(Deposits)
      /\ <<"deposit">> \in Seq(Deposits)
  BY DEF Deposits
<1>6. recipe(i) \in Seq(Deposits)
  BY <1>1, <1>3, <1>4, <1>5, Zenon DEF recipe
<1>7. Txs(i) \in Seq(Deposits)
  BY <1>2, <1>3, <1>4, <1>5, <1>6, Zenon DEF Txs
<1>8. DOMAIN Txs(i) = 1..Len(Txs(i))
  BY <1>7
<1>9. \A k \in 1..Len(Txs(i)) : Txs(i)[k] \in Deposits
  BY <1>7, ElementOfSeq
<1>10. QED
  BY <1>8, <1>9 DEF DepositsOnly, Deposits

-----------------------------------------------------------------------------
(* The create-and-call blocks.                                               *)

\* The local definitions of createCallBlocks: a segment's end, the blocks where a call
\* is legal, and how the one nearest to the midpoint is picked.
Starts == {0} \cup activationIdxs
EndOf(s) == Min({e \in activationIdxs \cup {total} : e > s})
LegalIn(s) == {i \in s..(EndOf(s) - 1) : /\ i > 0 /\ i % CreateEvery # 0
                                         /\ i \notin activationIdxs}
MidOf(s) == s + (EndOf(s) - 1 - s) \div 2
Distance(m, i) == IF i < m THEN m - i ELSE i - m
Nearest(S, m) == CHOOSE i \in S : \A j \in S :
                   Distance(m, i) < Distance(m, j)
                     \/ (Distance(m, i) = Distance(m, j) /\ i <= j)
PickedIn(s) == Nearest(LegalIn(s), MidOf(s))

LEMMA CallBlocksAre ==
  createCallBlocks = {PickedIn(s) : s \in {s \in Starts : LegalIn(s) # {}}}
BY DEF createCallBlocks, Starts, EndOf, LegalIn, MidOf, Distance, Nearest, PickedIn

LEMMA IdxsLemma ==
  ASSUME table \in Tables, total \in Totals, Working
  PROVE  /\ total \in Nat /\ total >= 1
         /\ \A s \in activationIdxs : s \in Nat /\ s < total
         /\ \A k \in 2..Len(table) : table[k].block - 1 \in activationIdxs
<1>1. total \in Nat /\ total >= 1
  BY NeverLemma
<1>2. /\ Len(table) \in Nat /\ table[1].block = 0
      /\ \A k \in 1..Len(table) : table[k].block \in Nat /\ table[k].block < total
  BY <1>1, TableLemma DEF Working
<1>3. \A k \in 1..Len(table) : \A j \in 1..(k - 1) : table[j].block < table[k].block
  BY <1>1, SortedLemma DEF Working
<1>4. ASSUME NEW k \in 2..Len(table)
      PROVE  table[k].block - 1 \in Nat /\ table[k].block - 1 < total
  <2>1. k \in 1..Len(table) /\ 1 \in 1..(k - 1)
    BY <1>2
  <2>2. 0 < table[k].block /\ table[k].block \in Nat /\ table[k].block < total
    BY <1>2, <1>3, <2>1
  <2>3. QED
    BY <1>1, <2>2
<1>5. QED
  BY <1>1, <1>4 DEF activationIdxs

LEMMA EndLemma ==
  ASSUME table \in Tables, total \in Totals, Working, NEW s \in Starts
  PROVE  /\ s \in Nat /\ s < total /\ EndOf(s) \in Nat /\ EndOf(s) > s
         /\ EndOf(s) \in activationIdxs \cup {total}
         /\ \A e \in activationIdxs \cup {total} : e > s => EndOf(s) <= e
<1> DEFINE E == {e \in activationIdxs \cup {total} : e > s}
<1>1. s \in Nat /\ s < total /\ total \in Nat
  BY IdxsLemma DEF Starts
<1>2. E \subseteq Nat /\ total \in E
  BY <1>1, IdxsLemma
<1>3. EndOf(s) = Min(E)
  BY DEF EndOf
<1>4. \A e : e \in E <=> e \in activationIdxs \cup {total} /\ e > s
  OBVIOUS
<1> HIDE DEF E
<1>5. Min(E) \in E /\ \A e \in E : Min(E) <= e
  BY <1>2, MinLemma
<1>6. QED
  BY <1>1, <1>2, <1>3, <1>4, <1>5

\* There is a nearest one, and a lower one of two.
LEMMA PickedLemma ==
  ASSUME table \in Tables, total \in Totals, Working, NEW s \in Starts, LegalIn(s) # {}
  PROVE  PickedIn(s) \in LegalIn(s)
<1>1. s \in Nat /\ EndOf(s) \in Nat /\ EndOf(s) > s
  BY EndLemma
<1>2. MidOf(s) \in Nat
  <2>1. (EndOf(s) - 1 - s) \in Nat
    BY <1>1
  <2> DEFINE d == EndOf(s) - 1 - s
  <2>2. d \div 2 \in Nat
    <3> HIDE DEF d
    <3>1. d \in Nat
      BY <2>1 DEF d
    <3>2. QED
      BY <3>1
  <2>3. QED
    BY <1>1, <2>2 DEF MidOf
<1>3. LegalIn(s) \subseteq Nat
  BY <1>1 DEF LegalIn
<1>4. \A i \in LegalIn(s) : Distance(MidOf(s), i) \in Nat
  BY <1>2, <1>3 DEF Distance
<1> DEFINE D == {Distance(MidOf(s), i) : i \in LegalIn(s)}
<1>5. PICK d \in D : \A y \in D : d <= y
  BY <1>4, LeastNatural
<1> DEFINE I == {i \in LegalIn(s) : Distance(MidOf(s), i) = d}
<1>6. PICK i \in I : \A j \in I : i <= j
  BY <1>3, <1>5, LeastNatural
<1>7. i \in LegalIn(s) /\ Distance(MidOf(s), i) = d
  BY <1>6
<1>8. ASSUME NEW j \in LegalIn(s)
      PROVE  \/ Distance(MidOf(s), i) < Distance(MidOf(s), j)
             \/ Distance(MidOf(s), i) = Distance(MidOf(s), j) /\ i <= j
  <2>1. d <= Distance(MidOf(s), j) /\ d \in Nat /\ Distance(MidOf(s), j) \in Nat
    BY <1>4, <1>5, <1>7
  <2>2. Distance(MidOf(s), j) = d => i <= j
    BY <1>6
  <2>3. QED
    BY <1>7, <2>1, <2>2
<1>9. QED
  BY <1>7, <1>8 DEF PickedIn, Nearest

\* A legal block is no activation block, so that the first Jovian block has no call.
LEMMA CallBlocksLegal ==
  ASSUME table \in Tables, total \in Totals, Working
  PROVE  createCallBlocks \cap activationIdxs = {}
<1>1. SUFFICES ASSUME NEW i \in createCallBlocks PROVE i \notin activationIdxs
  OBVIOUS
<1>2. PICK s \in Starts : LegalIn(s) # {} /\ i = PickedIn(s)
  BY <1>1, CallBlocksAre
<1>3. i \in LegalIn(s)
  BY <1>2, PickedLemma
<1>4. QED
  BY <1>3 DEF LegalIn

-----------------------------------------------------------------------------
(* Segments.                                                                 *)

\* Two blocks are in the same segment if the same entry of the table is in force.
At(i) == Entry(table, i + 1)

LEMMA AtLemma ==
  ASSUME table \in Tables, total \in Totals, Working, NEW i \in Nat
  PROVE  /\ At(i) \in 1..Len(table) /\ table[At(i)].block \in Nat
         /\ table[At(i)].block <= i + 1
         /\ \A k \in 1..Len(table) : table[k].block <= i + 1 <=> k <= At(i)
<1>1. total \in Nat /\ i + 1 \in Nat
  BY NeverLemma
<1>2. /\ At(i) \in 1..Len(table) /\ table[At(i)].block <= i + 1
      /\ \A k \in 1..Len(table) : table[k].block <= i + 1 => k <= At(i)
  BY <1>1, EntryLemma DEF Working, At
<1>3. Len(table) \in Nat /\ \A k \in 1..Len(table) : table[k].block \in Nat
  BY <1>1, TableLemma DEF Working
<1>4. ASSUME NEW k \in 1..Len(table), k <= At(i)
      PROVE  table[k].block <= i + 1
  <2>1. CASE k = At(i)
    BY <1>2, <2>1
  <2>2. CASE k # At(i)
    <3>1. k \in 1..(At(i) - 1)
      BY <1>2, <1>3, <1>4, <2>2
    <3>2. table[k].block < table[At(i)].block
      BY <1>1, <1>2, <3>1, SortedLemma DEF Working
    <3>3. table[k].block \in Nat /\ table[At(i)].block \in Nat
      BY <1>2, <1>3
    <3>4. QED
      BY <1>1, <1>2, <3>2, <3>3
  <2>3. QED
    BY <2>1, <2>2
<1>5. QED
  BY <1>2, <1>3, <1>4

\* A segment is what lies between its start and its end.
LEMMA SegmentLemma ==
  ASSUME table \in Tables, total \in Totals, Working, NEW s \in Starts,
         NEW i \in 0..(total - 1)
  PROVE  i \in s..(EndOf(s) - 1) <=> At(i) = At(s)
<1>1. /\ s \in Nat /\ s < total /\ EndOf(s) \in Nat /\ EndOf(s) > s
      /\ EndOf(s) \in activationIdxs \cup {total}
      /\ \A e \in activationIdxs \cup {total} : e > s => EndOf(s) <= e
  BY EndLemma
<1>2. total \in Nat /\ i \in Nat /\ i < total
  BY IdxsLemma
<1>3. /\ At(i) \in 1..Len(table) /\ table[At(i)].block \in Nat
      /\ table[At(i)].block <= i + 1
      /\ \A k \in 1..Len(table) : table[k].block <= i + 1 <=> k <= At(i)
  BY <1>2, AtLemma
<1>4. /\ At(s) \in 1..Len(table) /\ table[At(s)].block \in Nat
      /\ table[At(s)].block <= s + 1
      /\ \A k \in 1..Len(table) : table[k].block <= s + 1 <=> k <= At(s)
  BY <1>1, AtLemma
<1>5. /\ Len(table) \in Nat /\ table[1].block = 0
      /\ \A k \in 1..Len(table) : table[k].block \in Nat
  BY <1>2, TableLemma DEF Working
<1>6. ASSUME i \in s..(EndOf(s) - 1)
      PROVE  At(i) = At(s)
  <2>1. At(s) <= At(i)
    <3>1. table[At(s)].block <= i + 1
      BY <1>1, <1>2, <1>4, <1>6
    <3>2. QED
      BY <1>3, <1>4, <3>1
  <2>2. ASSUME At(s) < At(i) PROVE FALSE
    <3>1. ~(table[At(i)].block <= s + 1)
      BY <1>3, <1>4, <1>5, <2>2
    <3>2. At(i) \in 2..Len(table)
      BY <1>3, <1>4, <1>5, <2>2
    <3> DEFINE e == table[At(i)].block - 1
    <3>3. e \in activationIdxs
      BY <3>2, IdxsLemma
    <3>4. e > s /\ e <= i
      BY <1>1, <1>2, <1>3, <3>1
    <3> HIDE DEF e
    <3>5. EndOf(s) <= e /\ e \in Nat
      BY <1>1, <3>3, <3>4, IdxsLemma
    <3>6. QED
      BY <1>1, <1>2, <1>6, <3>4, <3>5
  <2>3. QED
    BY <1>3, <1>4, <1>5, <2>1, <2>2
<1>7. ASSUME At(i) = At(s)
      PROVE  i \in s..(EndOf(s) - 1)
  <2>1. i >= s
    <3>1. CASE s = 0
      BY <1>2, <3>1
    <3>2. CASE s # 0
      <4>1. PICK k \in 2..Len(table) : s = table[k].block - 1
        BY <3>2 DEF Starts, activationIdxs
      <4>2. k \in 1..Len(table) /\ table[k].block \in Nat /\ table[k].block = s + 1
        BY <1>5, <4>1
      <4>3. k <= At(s)
        BY <1>1, <1>4, <4>2
      <4>4. table[k].block <= i + 1
        BY <1>3, <1>7, <4>2, <4>3
      <4>5. QED
        BY <1>1, <1>2, <4>2, <4>4
    <3>3. QED
      BY <3>1, <3>2
  <2>2. ASSUME EndOf(s) <= i PROVE FALSE
    <3>1. EndOf(s) \in activationIdxs
      BY <1>1, <1>2, <2>2
    <3>2. PICK k \in 2..Len(table) : EndOf(s) = table[k].block - 1
      BY <3>1 DEF activationIdxs
    <3>3. k \in 1..Len(table) /\ table[k].block \in Nat /\ table[k].block = EndOf(s) + 1
      BY <1>1, <1>5, <3>2
    <3>4. table[k].block <= i + 1
      BY <1>1, <1>2, <2>2, <3>3
    <3>5. k <= At(s)
      BY <1>3, <1>7, <3>3, <3>4
    <3>6. table[k].block <= s + 1
      BY <1>4, <3>3, <3>5
    <3>7. QED
      BY <1>1, <3>3, <3>6
  <2>3. QED
    BY <1>1, <1>2, <2>1, <2>2
<1>8. QED
  BY <1>6, <1>7

\* Every entry with a block has one start.
LEMMA StartLemma ==
  ASSUME table \in Tables, total \in Totals, Working, NEW i \in 0..(total - 1)
  PROVE  \E s \in Starts : At(s) = At(i)
<1>1. total \in Nat /\ i \in Nat
  BY IdxsLemma
<1>2. /\ At(i) \in 1..Len(table) /\ table[At(i)].block \in Nat
      /\ table[At(i)].block <= i + 1
      /\ \A k \in 1..Len(table) : table[k].block <= i + 1 <=> k <= At(i)
  BY <1>1, AtLemma
<1>3. Len(table) \in Nat /\ \A k \in 1..Len(table) : table[k].block \in Nat
  BY <1>1, TableLemma DEF Working
<1>4. CASE At(i) = 1
  <2>1. /\ At(0) \in 1..Len(table) /\ table[At(0)].block <= 0 + 1
    BY AtLemma
  <2>2. table[At(0)].block <= i + 1
    BY <1>1, <1>3, <2>1
  <2>3. At(0) <= 1
    BY <1>2, <1>4, <2>1, <2>2
  <2>4. At(0) = 1
    BY <1>3, <2>1, <2>3
  <2>5. QED
    BY <1>4, <2>4 DEF Starts
<1>5. CASE At(i) # 1
  <2> DEFINE s == table[At(i)].block - 1
  <2>1. At(i) \in 2..Len(table)
    BY <1>2, <1>3, <1>5
  <2>2. s \in activationIdxs /\ s \in Nat /\ s + 1 = table[At(i)].block
    BY <1>2, <2>1, IdxsLemma
  <2> HIDE DEF s
  <2>3. /\ At(s) \in 1..Len(table)
        /\ \A k \in 1..Len(table) : table[k].block <= s + 1 <=> k <= At(s)
        /\ table[At(s)].block <= s + 1
    BY <2>2, AtLemma
  <2>4. At(i) <= At(s)
    BY <1>2, <2>2, <2>3
  <2>5. At(s) <= At(i)
    <3>1. table[At(s)].block <= i + 1
      BY <1>1, <1>2, <1>3, <2>2, <2>3
    <3>2. QED
      BY <1>2, <2>3, <3>1
  <2>6. At(s) = At(i)
    BY <1>2, <1>3, <2>3, <2>4, <2>5
  <2>7. QED
    BY <2>2, <2>6 DEF Starts
<1>6. QED
  BY <1>4, <1>5

LEMMA OneStart ==
  ASSUME table \in Tables, total \in Totals, Working, NEW s \in Starts, NEW q \in Starts,
         At(s) = At(q)
  PROVE  s = q
<1>1. /\ s \in Nat /\ s < total /\ EndOf(s) \in Nat
      /\ q \in Nat /\ q < total /\ EndOf(q) \in Nat /\ total \in Nat
  BY EndLemma, IdxsLemma
<1>2. q \in s..(EndOf(s) - 1) /\ s \in q..(EndOf(q) - 1)
  <2>1. s \in 0..(total - 1) /\ q \in 0..(total - 1)
    BY <1>1
  <2>2. QED
    BY <2>1, SegmentLemma
<1>3. QED
  BY <1>1, <1>2

\* The first block of a segment, and no other, is an activation block.
LEMMA BoundaryLemma ==
  ASSUME table \in Tables, total \in Totals, Working, NEW i \in Nat, i > 0
  PROVE  At(i - 1) = At(i) <=> i \notin activationIdxs
<1>1. i - 1 \in Nat /\ (i - 1) + 1 = i /\ total \in Nat
  BY NeverLemma
<1>2. /\ At(i) \in 1..Len(table) /\ table[At(i)].block \in Nat
      /\ table[At(i)].block <= i + 1
      /\ \A k \in 1..Len(table) : table[k].block <= i + 1 <=> k <= At(i)
  BY AtLemma
<1>3. /\ At(i - 1) \in 1..Len(table)
      /\ \A k \in 1..Len(table) : table[k].block <= i <=> k <= At(i - 1)
  <2> DEFINE j == i - 1
  <2>1. j \in Nat /\ j + 1 = i
    BY <1>1
  <2> HIDE DEF j
  <2>2. /\ At(j) \in 1..Len(table)
        /\ \A k \in 1..Len(table) : table[k].block <= j + 1 <=> k <= At(j)
    BY <2>1, AtLemma
  <2>3. QED
    BY <2>1, <2>2 DEF j
<1>4. /\ Len(table) \in Nat /\ table[1].block = 0
      /\ \A k \in 1..Len(table) : table[k].block \in Nat
  BY <1>1, TableLemma DEF Working
<1>5. ASSUME i \in activationIdxs
      PROVE  At(i - 1) # At(i)
  <2>1. PICK k \in 2..Len(table) : i = table[k].block - 1
    BY <1>5 DEF activationIdxs
  <2>2. k \in 1..Len(table) /\ table[k].block \in Nat /\ table[k].block = i + 1
    BY <1>4, <2>1
  <2>3. k <= At(i) /\ ~(k <= At(i - 1))
    <3>1. table[k].block <= i + 1 /\ ~(table[k].block <= i)
      BY <2>2
    <3>2. QED
      BY <1>2, <1>3, <2>2, <3>1
  <2>4. QED
    BY <2>3
<1>6. ASSUME At(i - 1) # At(i)
      PROVE  i \in activationIdxs
  <2>1. ~(table[At(i)].block <= i)
    <3>1. SUFFICES ASSUME table[At(i)].block <= i PROVE FALSE
      OBVIOUS
    <3>2. At(i) <= At(i - 1)
      BY <1>2, <1>3, <3>1
    <3>3. At(i - 1) <= At(i)
      <4>1. table[At(i - 1)].block <= i
        BY <1>3, <1>4
      <4>2. table[At(i - 1)].block \in Nat
        BY <1>3, <1>4
      <4>3. table[At(i - 1)].block <= i + 1
        BY <4>1, <4>2
      <4>4. QED
        BY <1>2, <1>3, <4>3
    <3>4. QED
      BY <1>2, <1>3, <1>4, <1>6, <3>2, <3>3
  <2>2. table[At(i)].block = i + 1
    BY <1>2, <2>1
  <2>3. At(i) # 1
    BY <1>4, <2>1
  <2>4. At(i) \in 2..Len(table) /\ i = table[At(i)].block - 1
    BY <1>2, <1>4, <2>2, <2>3
  <2>5. QED
    BY <2>4 DEF activationIdxs
<1>7. QED
  BY <1>5, <1>6

-----------------------------------------------------------------------------
(* What the emission loop finds.                                             *)

\* The checks of the emission loop look at the whole chain, and what they find is fixed
\* when a block is generated: the transactions are the recipe's, the L1Block slots are
\* those that the activations say, the message passer has counted as the generator has,
\* and no slot is set that the block did not declare.
Reproduced == \A b \in DOMAIN chain : chain[b].txs = Txs(b - 1)

Mirrored ==
  pc \notin {"parse", "rejected"} =>
    \A b \in 0..Len(chain) : \A n : <<"l1", n>> \in Post(b) <=> n \in Held(b)

Counted == \A k \in Nat \ {0} : <<"passer", k>> \in Post(Len(chain)) <=> k <= withdrawalCount

Covered == \A b \in DOMAIN chain : Complete(b)

Judged ==
  /\ pc \in {"parse", "rejected", "generate", "check"} => emitted = 0
  /\ \A b \in 1..emitted : Consistent(b)
  /\ pc = "done" => emitted = total
  /\ pc = "failed" => Skips(act)

Emission == Reproduced /\ Mirrored /\ Counted /\ Covered /\ Judged

\* The premises of the loop.
WholeChain ==
  /\ table \in Tables /\ total \in Totals /\ Working /\ Len(chain) = total
  /\ chain \in Seq(Blocks) /\ Labelled /\ Reproduced /\ Covered
  /\ \A b \in 0..total : \A n : <<"l1", n>> \in Post(b) <=> n \in Held(b)

LEMMA SlotsAre ==
  ASSUME WholeChain, NEW b \in 0..total
  PROVE  L1Slots(b) = Held(b)
<1>1. \A n : <<"l1", n>> \in Post(b) <=> n \in Held(b)
  BY DEF WholeChain
<1>2. Held(b) \subseteq 1..8
  BY DEF Held
<1>3. QED
  BY <1>1, <1>2 DEF L1Slots

LEMMA BlockFacts ==
  ASSUME WholeChain, NEW b \in 1..total
  PROVE  /\ b \in Nat /\ b - 1 \in 0..total /\ b \in 0..total
         /\ chain[b].layout = LayoutAt(b - 1) /\ forkLayout(chain[b].fork) = LayoutAt(b)
         /\ chain[b].txs = Txs(b - 1) /\ Complete(b)
<1>1. total \in Nat /\ b \in Nat /\ b - 1 \in 0..total /\ b \in 0..total
  BY NeverLemma DEF WholeChain
<1>2. b \in DOMAIN chain
  BY DEF WholeChain
<1>3. forkLayout(blockFork(b - 1)) = LayoutAt(b - 1) /\ forkLayout(blockFork(b)) = LayoutAt(b)
  BY <1>1, LayoutAtLemma DEF WholeChain
<1>4. QED
  BY <1>1, <1>2, <1>3 DEF WholeChain, Labelled, Reproduced, Covered, calldataLayout

\* The two cost functions agree on every block of every chain.
LEMMA VaultsLemma ==
  ASSUME WholeChain, NEW b \in 1..total
  PROVE  charged(b) = derived(b)
<1>1. /\ act[3] \in Nat /\ act[4] \in Nat /\ act[7] \in Nat /\ act[8] \in Nat
      /\ act[3] <= act[4] /\ act[4] <= act[7] /\ act[7] <= act[8]
  BY OrderedLemma DEF WholeChain, Ordered, Ranks
<1>2. b \in Nat /\ b \in 0..total /\ chain[b].layout = LayoutAt(b - 1)
  BY BlockFacts
<1>3. EcotoneUnset(b) <=> ~(act[3] < b)
  <2>1. L1Slots(b) = Held(b)
    BY <1>2, SlotsAre
  <2>2. QED
    BY <2>1 DEF EcotoneUnset, Held
<1>4. /\ Active("ecotone", b) <=> act[3] <= b
      /\ Active("fjord", b) <=> act[4] <= b
  BY RankValues DEF Active
<1>5. charged(b) = IF ~(act[3] < b) THEN "bedrock"
                   ELSE IF act[4] <= b THEN "fjord" ELSE "ecotone"
  BY <1>1, <1>2, <1>3, <1>4 DEF charged
<1>6. derived(b) = IF LayoutAt(b - 1) = "bedrock" THEN "bedrock"
                   ELSE IF LayoutAt(b - 1) = "ecotone" /\ ~(act[4] <= b) THEN "ecotone"
                   ELSE "fjord"
  BY <1>2, <1>4 DEF derived
<1>7. QED
  BY <1>1, <1>2, <1>5, <1>6 DEF LayoutAt

\* What the mirror check asks of a block, in terms of activations.
Mirror(b, a, d, sent, own, deposits) ==
  IF a <= b /\ sent = "bedrock" THEN ~(a < b - 1)
  ELSE \/ own = "bedrock" /\ sent = "bedrock"
       \/ own = "jovian" /\ sent = "isthmus" /\ deposits /\ ~(d < b - 1) /\ a < b - 1
       \/ own = "jovian" /\ sent = "jovian" /\ a < b - 1
       \/ own = "isthmus" /\ sent = "ecotone" /\ act[7] = b /\ a < b - 1
       \/ own = "ecotone" /\ sent = "ecotone"
       \/ own = "isthmus" /\ sent = "isthmus" /\ a < b - 1

LEMMA MirrorLemma ==
  ASSUME WholeChain, NEW b \in 1..total
  PROVE  assertL1BlockConsistencyAt(b)
           <=> Mirror(b, act[3], act[8], LayoutAt(b - 1), LayoutAt(b), DepositsOnly(Txs(b - 1)))
<1>1. /\ b \in Nat /\ b - 1 \in 0..total
      /\ chain[b].layout = LayoutAt(b - 1) /\ forkLayout(chain[b].fork) = LayoutAt(b)
      /\ chain[b].txs = Txs(b - 1)
  BY BlockFacts
<1>2. L1Slots(b - 1) = Held(b - 1)
  BY <1>1, SlotsAre
<1>3. /\ BedrockMirrored(b)
      /\ EcotoneMirrored(b) <=> act[3] < b - 1
      /\ EcotoneUnset(b - 1) <=> ~(act[3] < b - 1)
      /\ 8 \in L1Slots(b - 1) <=> act[8] < b - 1
  BY <1>2 DEF BedrockMirrored, EcotoneMirrored, EcotoneUnset, Held
<1>4. Active("ecotone", b) <=> act[3] <= b
  BY RankValues DEF Active
<1>5. QED
  BY <1>1, <1>3, <1>4, RankValues DEF assertL1BlockConsistencyAt, Mirror

\* If the table skips nothing, every block is consistent ...
LEMMA SoundLoop ==
  ASSUME WholeChain, ~Skips(act), NEW b \in 1..total
  PROVE  Consistent(b)
<1>1. /\ b \in Nat /\ b - 1 \in Nat /\ b <= total /\ total \in Nat /\ total < Never
      /\ Never \in Nat
      /\ act[3] \in Nat /\ act[7] \in Nat /\ act[8] \in Nat
      /\ act[3] >= 1 /\ act[3] <= act[7] /\ act[7] <= act[8]
      /\ act[7] # Never => act[7] < total
      /\ act[8] # Never => act[8] < total
  BY BlockFacts, OrderedLemma DEF WholeChain, Ordered, Ranks
<1>2. /\ act[7] # Never => act[7] >= act[3] + 2
      /\ act[8] # Never => act[8] # act[7]
  BY <1>1 DEF Skips
<1>3. act[8] = b => DepositsOnly(Txs(b - 1))
  <2>1. SUFFICES ASSUME act[8] = b PROVE DepositsOnly(Txs(b - 1))
    OBVIOUS
  <2>2. (b - 1) + 1 = b /\ b - 1 \in Nat
    BY <1>1
  <2>3. blockFork(b - 1) # blockFork(b)
    <3>1. forkLayout(blockFork(b)) = "jovian" /\ forkLayout(blockFork(b - 1)) # "jovian"
      <4>1. b \in 0..total /\ b - 1 \in 0..total
        BY BlockFacts
      <4>2. LayoutAt(b) = "jovian" /\ LayoutAt(b - 1) # "jovian"
        BY <1>1, <2>1 DEF LayoutAt
      <4>3. QED
        BY <4>1, <4>2, LayoutAtLemma DEF WholeChain
    <3>2. QED
      BY <3>1
  <2>4. b - 1 \in activationIdxs
    BY <2>3, ChangeLemma DEF WholeChain
  <2>5. b - 1 \notin createCallBlocks
    BY <2>4, CallBlocksLegal DEF WholeChain
  <2>6. QED
    BY <2>1, <2>2, <2>5, JovianBlockLemma
<1>4. assertL1BlockConsistencyAt(b)
  <2>1. CASE b - 1 < act[3]
    BY <1>1, <2>1, MirrorLemma DEF Mirror, LayoutAt
  <2>2. CASE act[3] <= b - 1 /\ b < act[7]
    BY <1>1, <2>2, MirrorLemma DEF Mirror, LayoutAt
  <2>3. CASE act[7] = b
    <3>1. act[3] < b - 1 /\ b < act[8]
      BY <1>1, <1>2, <2>3
    <3>2. LayoutAt(b - 1) = "ecotone" /\ LayoutAt(b) = "isthmus"
      BY <1>1, <2>3, <3>1 DEF LayoutAt
    <3>3. QED
      BY <1>1, <2>3, <3>1, <3>2, MirrorLemma DEF Mirror
  <2>4. CASE act[7] <= b - 1
    <3>1. act[3] < b - 1
      BY <1>1, <1>2, <2>4
    <3>2. CASE b < act[8]
      <4>1. LayoutAt(b - 1) = "isthmus" /\ LayoutAt(b) = "isthmus"
        BY <1>1, <2>4, <3>1, <3>2 DEF LayoutAt
      <4>2. QED
        BY <3>1, <4>1, MirrorLemma DEF Mirror
    <3>3. CASE act[8] = b
      <4>1. LayoutAt(b - 1) = "isthmus" /\ LayoutAt(b) = "jovian" /\ ~(act[8] < b - 1)
        BY <1>1, <2>4, <3>1, <3>3 DEF LayoutAt
      <4>2. QED
        BY <1>3, <3>1, <3>3, <4>1, MirrorLemma DEF Mirror
    <3>4. CASE act[8] <= b - 1
      <4>1. LayoutAt(b - 1) = "jovian" /\ LayoutAt(b) = "jovian"
        BY <1>1, <2>4, <3>1, <3>4 DEF LayoutAt
      <4>2. QED
        BY <3>1, <4>1, MirrorLemma DEF Mirror
    <3>5. QED
      BY <1>1, <3>2, <3>3, <3>4
  <2>5. QED
    BY <1>1, <2>1, <2>2, <2>3, <2>4
<1>5. assertDepositsFirst(chain[b].txs)
  BY BlockFacts, DepositsFirstLemma
<1>6. Complete(b) /\ crossCheckVaults(b)
  BY BlockFacts, VaultsLemma DEF crossCheckVaults
<1>7. QED
  BY <1>4, <1>5, <1>6 DEF Consistent

\* ... and if it does, one is not.
LEMMA CompleteLoop ==
  ASSUME WholeChain, Skips(act)
  PROVE  \E b \in 1..total : ~Consistent(b)
<1>1. /\ total \in Nat /\ total < Never /\ Never \in Nat
      /\ act[3] \in Nat /\ act[7] \in Nat /\ act[8] \in Nat
      /\ act[3] >= 1 /\ act[3] <= act[7] /\ act[7] <= act[8]
      /\ act[7] # Never => act[7] < total
      /\ act[8] # Never => act[8] < total
  BY OrderedLemma DEF WholeChain, Ordered, Ranks
<1>2. CASE act[7] # Never /\ act[7] < act[3] + 2
  <2> DEFINE b == act[3] + 1
  <2>1. b \in 1..total /\ b - 1 = act[3] /\ ~(b < act[7]) /\ b \in Nat
    BY <1>1, <1>2
  <2> HIDE DEF b
  <2>2. LayoutAt(b - 1) # "bedrock" /\ LayoutAt(b) \in {"isthmus", "jovian"}
    BY <1>1, <2>1 DEF LayoutAt
  <2>3. ~Mirror(b, act[3], act[8], LayoutAt(b - 1), LayoutAt(b), DepositsOnly(Txs(b - 1)))
    BY <1>1, <2>1, <2>2 DEF Mirror
  <2>4. QED
    BY <2>1, <2>3, MirrorLemma DEF Consistent
<1>3. CASE act[8] # Never /\ act[8] = act[7] /\ ~(act[7] < act[3] + 2)
  <2> DEFINE b == act[8]
  <2>1. b \in 1..total /\ b = act[7] /\ act[3] <= b - 1 /\ b \in Nat
    BY <1>1, <1>3
  <2>2. LayoutAt(b - 1) = "ecotone" /\ LayoutAt(b) = "jovian"
    BY <1>1, <2>1 DEF LayoutAt
  <2> HIDE DEF b
  <2>3. ~Mirror(b, act[3], act[8], LayoutAt(b - 1), LayoutAt(b), DepositsOnly(Txs(b - 1)))
    BY <2>2 DEF Mirror
  <2>4. QED
    BY <2>1, <2>3, MirrorLemma DEF Consistent
<1>4. QED
  BY <1>1, <1>2, <1>3 DEF Skips

\* The slots after one more block.
LEMMA ExecutedLemma ==
  ASSUME TypeOK, Working, Counted, NEW i \in Nat, i = Len(chain), i < total, NEW txs,
         \A n : <<"l1", n>> \in Post(i) <=> n \in Held(i)
  PROVE  /\ \A n : <<"l1", n>> \in Executed(i, txs) <=> n \in Held(i + 1)
         /\ \A k \in Nat \ {0} :
              <<"passer", k>> \in Executed(i, txs)
                <=> k <= withdrawalCount + (IF Carries(txs, "withdrawal") THEN 1 ELSE 0)
         /\ Executed(i, txs) \subseteq Post(i) \cup Declared(i, txs)
<1> DEFINE sent == Cardinality({k \in 1..i : <<"passer", k>> \in Post(i)})
           x == Touch(txs, "churn", churnSlots(churnPrev(contractProbeSeq)))
           a == L1(l1BlockStorage(calldataLayout(i + 1)))
           w == Touch(txs, "withdrawal", withdrawalSlots(withdrawalCount + 1))
           c == Touch(txs, "create", {<<"created", i>>})
           h == Touch(txs, "churn", churnSlots(contractProbeSeq))
<1>1. /\ table \in Tables /\ total \in Totals /\ total \in Nat
      /\ withdrawalCount \in Nat /\ withdrawalCount <= i
  BY NeverLemma DEF TypeOK
<1>2. sent = withdrawalCount
  <2>1. {k \in 1..i : <<"passer", k>> \in Post(i)} = 1..withdrawalCount
    BY <1>1 DEF Counted
  <2>2. Cardinality(1..withdrawalCount) = withdrawalCount
    BY <1>1, FS_Interval
  <2>3. QED
    BY <2>1, <2>2
<1>3. Executed(i, txs) = (Post(i) \ x) \cup a \cup w \cup c \cup h
  <2>1. Executed(i, txs) = (Post(i) \ x) \cup a
                             \cup Touch(txs, "withdrawal", withdrawalSlots(sent + 1))
                             \cup c \cup h
    BY DEF Executed
  <2> HIDE DEF sent, x, a, c, h
  <2>2. QED
    BY <1>2, <2>1
<1>4. calldataLayout(i + 1) = LayoutAt(i)
  <2>1. (i + 1) - 1 = i /\ i \in 0..total
    BY <1>1
  <2>2. QED
    BY <1>1, <2>1, LayoutAtLemma DEF calldataLayout
<1>5. \A n : <<"l1", n>> \in Executed(i, txs) <=> n \in Held(i + 1)
  <2>1. \A n : <<"l1", n>> \in a <=> n \in l1BlockStorage(LayoutAt(i))
    BY <1>4 DEF L1
  <2>2. \A n : <<"l1", n>> \notin x /\ <<"l1", n>> \notin w
               /\ <<"l1", n>> \notin c /\ <<"l1", n>> \notin h
    BY DEF Touch, churnSlots, withdrawalSlots
  <2>3. Held(i + 1) = Held(i) \cup l1BlockStorage(LayoutAt(i))
    <3> DEFINE b == i + 1
    <3>1. b \in Nat /\ b >= 1 /\ b - 1 = i
      OBVIOUS
    <3> HIDE DEF b
    <3>2. Held(b) = Held(b - 1) \cup l1BlockStorage(LayoutAt(b - 1))
      BY <1>1, <3>1, OrderedLemma, HeldLemma
    <3>3. QED
      BY <3>1, <3>2 DEF b
  <2> HIDE DEF x, a, w, c, h
  <2>4. QED
    BY <1>3, <2>1, <2>2, <2>3
<1>6. \A k \in Nat \ {0} :
        <<"passer", k>> \in Executed(i, txs)
          <=> k <= withdrawalCount + (IF Carries(txs, "withdrawal") THEN 1 ELSE 0)
  <2>1. \A k : <<"passer", k>> \notin a /\ <<"passer", k>> \notin x
               /\ <<"passer", k>> \notin c /\ <<"passer", k>> \notin h
    BY DEF L1, Touch, churnSlots
  <2>2. \A k \in Nat \ {0} : <<"passer", k>> \in w
          <=> Carries(txs, "withdrawal") /\ k = withdrawalCount + 1
    BY DEF Touch, withdrawalSlots
  <2>3. \A k \in Nat \ {0} : <<"passer", k>> \in Post(i) <=> k <= withdrawalCount
    BY DEF Counted
  <2> HIDE DEF x, a, w, c, h
  <2>4. \A k : <<"passer", k>> \in Executed(i, txs)
                 <=> <<"passer", k>> \in Post(i) \/ <<"passer", k>> \in w
    BY <1>3, <2>1
  <2>5. \A k \in Nat \ {0} : <<"passer", k>> \in Executed(i, txs)
          <=> k <= withdrawalCount \/ (Carries(txs, "withdrawal") /\ k = withdrawalCount + 1)
    BY <2>2, <2>3, <2>4
  <2> DEFINE more == IF Carries(txs, "withdrawal") THEN 1 ELSE 0
  <2>6. /\ Carries(txs, "withdrawal") => more = 1
        /\ ~Carries(txs, "withdrawal") => more = 0
    OBVIOUS
  <2> HIDE DEF more
  <2>7. ASSUME NEW k \in Nat \ {0}
        PROVE  <<"passer", k>> \in Executed(i, txs) <=> k <= withdrawalCount + more
    <3>1. CASE Carries(txs, "withdrawal")
      <4>1. k <= withdrawalCount \/ k = withdrawalCount + 1 <=> k <= withdrawalCount + more
        BY <1>1, <2>6, <3>1
      <4>2. QED
        BY <2>5, <3>1, <4>1
    <3>2. CASE ~Carries(txs, "withdrawal")
      <4>1. k <= withdrawalCount <=> k <= withdrawalCount + more
        BY <1>1, <2>6, <3>2
      <4>2. QED
        BY <2>5, <3>2, <4>1
    <3>3. QED
      BY <3>1, <3>2
  <2>8. QED
    BY <2>7 DEF more
<1>7. Executed(i, txs) \subseteq Post(i) \cup Declared(i, txs)
  <2>1. Declared(i, txs) = L1(l1BlockWrittenSlots(calldataLayout(i + 1)))
                             \cup w \cup c \cup h
    BY DEF Declared
  <2>2. a \subseteq L1(l1BlockWrittenSlots(calldataLayout(i + 1)))
    BY DEF L1, l1BlockStorage, l1BlockWrittenSlots
  <2> HIDE DEF x, a, w, c, h
  <2>3. QED
    BY <1>3, <2>1, <2>2
<1>8. QED
  BY <1>5, <1>6, <1>7

LEMMA EmissionStarts == Init => Emission
<1> SUFFICES ASSUME Init PROVE Emission
  OBVIOUS
<1>1. /\ chain = <<>> /\ Len(chain) = 0 /\ DOMAIN chain = {} /\ emitted = 0 /\ pc = "parse"
      /\ withdrawalCount = 0
  BY DEF Init
<1>2. Counted
  BY <1>1 DEF Counted, Post, genesisStorage, L1
<1>3. \A b \in 1..emitted : FALSE
  BY <1>1
<1>4. QED
  BY <1>1, <1>2, <1>3 DEF Emission, Reproduced, Mirrored, Covered, Judged

\* What the blocks are checked against depends on the request, the activations and the
\* chain only.
LEMMA SameRecipe ==
  ASSUME UNCHANGED <<table, total, act>>
  PROVE  /\ \A i : Txs(i)' = Txs(i)
         /\ \A b : Held(b)' = Held(b)
         /\ Skips(act)' = Skips(act)
<1>1. \A b : blockFork(b)' = blockFork(b)
  BY DEF blockFork
<1>2. activationTimes' = activationTimes /\ activationIdxs' = activationIdxs
  BY DEF activationTimes, activationIdxs
<1>3. createCallBlocks' = createCallBlocks
  <2>1. \A s : EndOf(s)' = EndOf(s)
    BY <1>2, Zenon DEF EndOf
  <2>2. \A s : LegalIn(s)' = LegalIn(s) /\ MidOf(s)' = MidOf(s)
    BY <1>2, <2>1 DEF LegalIn, MidOf
  <2>3. \A s : PickedIn(s)' = PickedIn(s)
    <3>1. \A s : PickedIn(s)' = Nearest(LegalIn(s)', MidOf(s)')
      BY DEF PickedIn
    <3>2. QED
      BY <2>2, <3>1 DEF PickedIn
  <2>4. Starts' = Starts
    BY <1>2 DEF Starts
  <2>5. createCallBlocks' = {PickedIn(s)' : s \in {s \in Starts' : LegalIn(s)' # {}}}
    BY DEF createCallBlocks, Starts, EndOf, LegalIn, MidOf, Distance, Nearest, PickedIn
  <2>6. QED
    BY <2>2, <2>3, <2>4, <2>5, CallBlocksAre
<1>4. \A i : ladderContractProbesEnabled(i)' = ladderContractProbesEnabled(i)
  BY <1>2 DEF ladderContractProbesEnabled
<1>5. \A b : JovianActivation(b)' = JovianActivation(b)
  BY DEF JovianActivation
<1>6. \A i : recipe(i)' = recipe(i)
  BY <1>1, <1>5, Zenon DEF recipe
<1>7. \A i : Txs(i)' = Txs(i)
  BY <1>3, <1>4, <1>6, Zenon DEF Txs
<1>8. \A b : Held(b)' = Held(b)
  BY DEF Held
<1>9. Skips(act)' = Skips(act)
  BY DEF Skips
<1>10. QED
  BY <1>7, <1>8, <1>9

LEMMA SameBlocks ==
  ASSUME UNCHANGED <<table, total, act, chain, withdrawalCount>>
  PROVE  /\ Reproduced => Reproduced'
         /\ Counted => Counted'
         /\ Covered => Covered'
         /\ \A b : Post(b)' = Post(b)
         /\ \A b : Consistent(b)' <=> Consistent(b)
<1>1. \A b : Post(b)' = Post(b)
  BY DEF Post, genesisStorage
<1>2. \A b : L1Slots(b)' = L1Slots(b) /\ (Complete(b)' <=> Complete(b))
  BY <1>1 DEF L1Slots, Complete
<1>3. \A fork, b : Active(fork, b)' <=> Active(fork, b)
  BY DEF Active
<1>4. \A b : /\ EcotoneUnset(b)' <=> EcotoneUnset(b)
             /\ BedrockMirrored(b)' <=> BedrockMirrored(b)
             /\ EcotoneMirrored(b)' <=> EcotoneMirrored(b)
  BY <1>2 DEF EcotoneUnset, BedrockMirrored, EcotoneMirrored
<1>5. \A b : assertL1BlockConsistencyAt(b)' <=> assertL1BlockConsistencyAt(b)
  BY <1>2, <1>3, <1>4 DEF assertL1BlockConsistencyAt
<1>6. \A b : charged(b)' = charged(b) /\ derived(b)' = derived(b)
  BY <1>3, <1>4 DEF charged, derived
<1>7. \A b : crossCheckVaults(b)' <=> crossCheckVaults(b)
  BY <1>6 DEF crossCheckVaults
<1>8. \A b : Consistent(b)' <=> Consistent(b)
  BY <1>2, <1>5, <1>7 DEF Consistent
<1>9. Reproduced => Reproduced'
  BY SameRecipe DEF Reproduced
<1>10. (Counted => Counted') /\ (Covered => Covered')
  BY <1>1, <1>2 DEF Counted, Covered
<1>11. QED
  BY <1>1, <1>8, <1>9, <1>10

LEMMA EmissionParse ==
  ASSUME LInv, Emission, Parse \/ Reject
  PROVE  Emission'
<1>1. /\ UNCHANGED <<table, total, chain, withdrawalCount, emitted>>
      /\ pc = "parse"
  BY DEF Parse, Reject, request, counters
<1>2. chain = <<>> /\ Len(chain) = 0 /\ DOMAIN chain = {} /\ emitted = 0
  BY <1>1 DEF LInv, Staged, Emission, Judged
<1>3. Reproduced' /\ Covered'
  BY <1>1, <1>2 DEF Reproduced, Covered
<1>4. Counted'
  BY <1>1 DEF Emission, Counted, Post, genesisStorage
<1>5. Judged'
  <2>1. pc' \in {"generate", "rejected"}
    BY DEF Parse, Reject
  <2>2. \A b \in 1..emitted' : FALSE
    BY <1>1, <1>2
  <2>3. QED
    BY <1>1, <1>2, <2>1, <2>2 DEF Judged
<1>6. Mirrored'
  <2>1. CASE Reject
    BY <2>1 DEF Reject, Mirrored
  <2>2. CASE Parse
    <3>1. table \in Tables /\ total \in Totals /\ Accepted(table, total)
          /\ act' = Coupled(table)
      BY <2>2 DEF Parse, LInv, TypeOK
    <3>2. table[1].fork = "regolith"
      <4>1. total \in Nat
        BY <3>1, NeverLemma
      <4>2. QED
        BY <3>1, <4>1, TableLemma
    <3>3. genesisStorage = L1({1, 5, 6})
      BY <3>2 DEF genesisStorage, forkLayout, l1BlockStorage, l1BlockWrittenSlots
    <3>4. genesisStorage' = L1({1, 5, 6})
      BY <1>1, <3>3 DEF genesisStorage
    <3>5. Held(0)' = {1, 5, 6}
      <4>1. act'[3] \in Nat /\ act'[8] \in Nat
        BY <3>1, OrderLemma DEF Ranks
      <4>2. QED
        BY <4>1 DEF Held
    <3>6. \A n : <<"l1", n>> \in L1({1, 5, 6}) <=> n \in {1, 5, 6}
      BY DEF L1
    <3>7. \A b \in 0..Len(chain') : b = 0
      BY <1>1, <1>2
    <3>8. Post(0)' = L1({1, 5, 6})
      BY <3>4 DEF Post
    <3>9. QED
      BY <3>5, <3>6, <3>7, <3>8 DEF Mirrored
  <2>3. QED
    BY <2>1, <2>2
<1>7. QED
  BY <1>3, <1>4, <1>5, <1>6 DEF Emission

LEMMA EmissionGenerate ==
  ASSUME LInv, Emission, Generate
  PROVE  Emission'
<1>0. PICK i \in Nat : i = Len(chain)
  BY DEF LInv, TypeOK
<1> DEFINE block == Block(i)
<1>1. /\ UNCHANGED <<table, total, act, emitted>>
      /\ chain' = Append(chain, block)
      /\ withdrawalCount' = withdrawalCount
                              + (IF Carries(block.txs, "withdrawal") THEN 1 ELSE 0)
      /\ pc' = IF Len(chain') = total THEN "check" ELSE pc
      /\ pc = "generate" /\ Len(chain) < total
  BY <1>0, Zenon DEF Generate, request
<1>2. /\ TypeOK /\ Working /\ Counted /\ chain \in Seq(Blocks)
      /\ i \in Nat /\ i < total /\ emitted = 0
  BY <1>0, <1>1 DEF LInv, TypeOK, Staged, Emission, Judged
<1>3. \A b \in 0..i : \A n : <<"l1", n>> \in Post(b) <=> n \in Held(b)
  BY <1>0, <1>1 DEF Emission, Mirrored
<1>4. block \in Blocks
  BY <1>0, <1>2, BlockLemma
<1>5. /\ block.txs = Txs(i) /\ block.post = Executed(i, Txs(i))
      /\ block.declared = Declared(i, Txs(i))
  BY DEF Block
<1> HIDE DEF block
<1>6. /\ Len(chain') = i + 1 /\ DOMAIN chain' = 1..(i + 1)
      /\ \A b \in 1..i : chain'[b] = chain[b]
      /\ chain'[i + 1] = block
  BY <1>0, <1>1, <1>2, <1>4
<1>7. DOMAIN chain = 1..i
  BY <1>0, <1>2
<1>8. /\ \A n : <<"l1", n>> \in Executed(i, Txs(i)) <=> n \in Held(i + 1)
      /\ \A k \in Nat \ {0} : <<"passer", k>> \in Executed(i, Txs(i))
                                <=> k <= withdrawalCount'
      /\ Executed(i, Txs(i)) \subseteq Post(i) \cup Declared(i, Txs(i))
  <2> DEFINE txs == Txs(i)
  <2>1. \A n : <<"l1", n>> \in Post(i) <=> n \in Held(i)
    <3>1. i \in 0..i
      BY <1>2
    <3>2. QED
      BY <1>3, <3>1
  <2>2. withdrawalCount' = withdrawalCount
                             + (IF Carries(txs, "withdrawal") THEN 1 ELSE 0)
    BY <1>1, <1>5
  <2> HIDE DEF txs
  <2>4. /\ \A n : <<"l1", n>> \in Executed(i, txs) <=> n \in Held(i + 1)
        /\ \A k \in Nat \ {0} :
             <<"passer", k>> \in Executed(i, txs)
               <=> k <= withdrawalCount + (IF Carries(txs, "withdrawal") THEN 1 ELSE 0)
        /\ Executed(i, txs) \subseteq Post(i) \cup Declared(i, txs)
    BY <1>0, <1>2, <2>1, ExecutedLemma
  <2>5. QED
    BY <2>2, <2>4 DEF txs
<1>9. /\ \A b \in 0..i : Post(b)' = Post(b)
      /\ Post(i + 1)' = Executed(i, Txs(i))
  <2>1. genesisStorage' = genesisStorage
    BY <1>1 DEF genesisStorage
  <2>2. ASSUME NEW b \in 0..i
        PROVE  Post(b)' = Post(b)
    <3>1. b # 0 => b \in 1..i
      BY <1>2
    <3>2. QED
      BY <1>6, <2>1, <3>1 DEF Post
  <2>3. Post(i + 1)' = chain'[i + 1].post
    <3>1. i + 1 # 0
      BY <1>2
    <3>2. QED
      BY <3>1 DEF Post
  <2>4. QED
    BY <1>5, <1>6, <2>2, <2>3
<1>10. (\A j : Txs(j)' = Txs(j)) /\ (\A b : Held(b)' = Held(b))
  BY <1>1, SameRecipe
<1>11. \A b \in 1..(i + 1) : b \in 1..i \/ b = i + 1
  BY <1>2
<1>12. Reproduced'
  <2>1. (i + 1) - 1 = i
    BY <1>2
  <2>2. \A b \in 1..(i + 1) : chain'[b].txs = Txs(b - 1)
    BY <1>5, <1>6, <1>7, <1>11, <2>1 DEF Emission, Reproduced
  <2>3. QED
    BY <1>6, <1>10, <2>2 DEF Reproduced
<1>13. Mirrored'
  <2>1. ASSUME NEW b \in 0..(i + 1), NEW n
        PROVE  <<"l1", n>> \in Post(b)' <=> n \in Held(b)'
    <3>1. CASE b \in 0..i
      BY <1>3, <1>9, <1>10, <3>1
    <3>2. CASE b = i + 1
      BY <1>8, <1>9, <1>10, <3>2
    <3>3. QED
      BY <1>2, <3>1, <3>2
  <2>2. QED
    BY <1>6, <2>1 DEF Mirrored
<1>14. Counted'
  <2>1. Post(Len(chain))' = Executed(i, Txs(i))
    BY <1>6, <1>9
  <2>2. QED
    BY <1>8, <2>1 DEF Counted
<1>15. Covered'
  <2>1. ASSUME NEW b \in 1..(i + 1)
        PROVE  Post(b)' \subseteq Post(b - 1)' \cup chain'[b].declared
    <3>1. CASE b \in 1..i
      <4>1. b \in 0..i /\ b - 1 \in 0..i /\ b \in DOMAIN chain
        BY <1>2, <1>7, <3>1
      <4>2. Post(b) \subseteq Post(b - 1) \cup chain[b].declared
        BY <4>1 DEF Emission, Covered, Complete
      <4>3. QED
        BY <1>6, <1>9, <3>1, <4>1, <4>2
    <3>2. CASE b = i + 1
      <4>1. b - 1 = i /\ i \in 0..i
        BY <1>2, <3>2
      <4>2. Post(b - 1)' = Post(i)
        BY <1>9, <4>1
      <4>3. QED
        BY <1>5, <1>6, <1>8, <1>9, <3>2, <4>2
    <3>3. QED
      BY <1>11, <3>1, <3>2
  <2>2. QED
    BY <1>6, <2>1 DEF Covered, Complete
<1>16. Judged'
  <2>1. pc' \in {"generate", "check"}
    BY <1>1
  <2>2. emitted' = 0 /\ \A b \in 1..emitted' : FALSE
    BY <1>1, <1>2
  <2>3. QED
    BY <2>1, <2>2 DEF Judged
<1>17. QED
  BY <1>12, <1>13, <1>14, <1>15, <1>16 DEF Emission

LEMMA EmissionLoop ==
  ASSUME LInv, Emission, SelfCheck \/ Emit \/ Refuse \/ Write
  PROVE  Emission'
<1>1. UNCHANGED <<table, total, act, chain, withdrawalCount>>
  BY DEF SelfCheck, Emit, Refuse, Write, request, counters
<1>2. /\ pc \in {"check", "emit"} /\ pc' \in {"emit", "failed", "done"}
      /\ Working /\ Len(chain) = total /\ total \in Nat /\ emitted \in Nat
      /\ table \in Tables /\ total \in Totals
  BY NeverLemma DEF SelfCheck, Emit, Refuse, Write, LInv, Staged, TypeOK
<1>3. WholeChain
  BY <1>2 DEF WholeChain, LInv, TypeOK, Emission, Mirrored
<1>4. Reproduced' /\ Counted' /\ Covered'
  BY <1>1, SameBlocks DEF Emission
<1>5. Mirrored'
  <2>1. (\A b : Post(b)' = Post(b)) /\ (\A b : Held(b)' = Held(b)) /\ Len(chain') = Len(chain)
    BY <1>1, SameBlocks, SameRecipe
  <2>2. \A b \in 0..Len(chain) : \A n : <<"l1", n>> \in Post(b) <=> n \in Held(b)
    BY <1>2 DEF Emission, Mirrored
  <2>3. QED
    BY <2>1, <2>2 DEF Mirrored
<1>6. (\A b : Consistent(b)' <=> Consistent(b)) /\ Skips(act)' = Skips(act)
  BY <1>1, SameBlocks, SameRecipe
<1>7. \A b \in 1..emitted : Consistent(b)
  BY DEF Emission, Judged
<1>8. Judged'
  <2>1. CASE SelfCheck
    <3>1. act[Rank("canyon")] \in 1..total => canyonActivated
      <4>1. total < Never /\ Never \in Nat
        BY <1>2, NeverLemma
      <4>2. QED
        BY <1>2, <4>1 DEF canyonActivated
    <3>2. pc' = "emit" /\ emitted' = emitted
      BY <2>1, <3>1 DEF SelfCheck
    <3>3. QED
      BY <1>6, <1>7, <3>2 DEF Judged
  <2>2. CASE Emit
    <3>1. Consistent(emitted + 1) /\ emitted' = emitted + 1 /\ pc' = "emit"
      BY <2>2 DEF Emit
    <3>2. \A b \in 1..(emitted + 1) : b \in 1..emitted \/ b = emitted + 1
      BY <1>2
    <3>3. QED
      BY <1>6, <1>7, <3>1, <3>2 DEF Judged
  <2>3. CASE Refuse
    <3>1. ~Consistent(emitted + 1) /\ emitted < total /\ pc' = "failed" /\ emitted' = emitted
      BY <2>3 DEF Refuse
    <3>2. emitted + 1 \in 1..total
      BY <1>2, <3>1
    <3>3. Skips(act)
      BY <1>3, <3>1, <3>2, SoundLoop
    <3>4. QED
      BY <1>6, <1>7, <3>1, <3>3 DEF Judged
  <2>4. CASE Write
    BY <1>1, <1>6, <1>7, <2>4 DEF Write, Judged
  <2>5. QED
    BY <2>1, <2>2, <2>3, <2>4
<1>9. QED
  BY <1>4, <1>5, <1>8 DEF Emission

LEMMA EmissionStutters ==
  ASSUME LInv, Emission, UNCHANGED vars
  PROVE  Emission'
<1>1. UNCHANGED <<pc, table, total, act, chain, withdrawalCount, emitted>>
  BY DEF vars, request, counters
<1>2. /\ Reproduced' /\ Counted' /\ Covered' /\ \A b : Post(b)' = Post(b)
      /\ \A b : Consistent(b)' <=> Consistent(b)
  BY <1>1, SameBlocks DEF Emission
<1>3. (\A b : Held(b)' = Held(b)) /\ Skips(act)' = Skips(act)
  BY <1>1, SameRecipe
<1>4. Mirrored'
  BY <1>1, <1>2, <1>3 DEF Emission, Mirrored
<1>5. Judged'
  BY <1>1, <1>2, <1>3 DEF Emission, Judged
<1>6. QED
  BY <1>2, <1>4, <1>5 DEF Emission

LEMMA EmissionInvariance == Spec => [](LInv /\ Emission)
<1>1. LInv /\ Emission /\ [Next]_vars => Emission'
  <2> SUFFICES ASSUME LInv, Emission, [Next]_vars PROVE Emission'
    OBVIOUS
  <2>1. CASE Parse \/ Reject
    BY <2>1, EmissionParse
  <2>2. CASE Generate
    BY <2>2, EmissionGenerate
  <2>3. CASE SelfCheck \/ Emit \/ Refuse \/ Write
    BY <2>3, EmissionLoop
  <2>4. CASE UNCHANGED vars
    BY <2>4, EmissionStutters
  <2>5. QED
    BY <2>1, <2>2, <2>3, <2>4 DEF Next
<1>2. QED
  BY <1>1, EmissionStarts, Invariance, PTL DEF Spec

\* For any table, chain length and intervals, the emission loop refuses exactly the
\* chains that cannot exist: GeneratesUnlessSkipping.
THEOREM RefusesOnlySkips == Spec => []GeneratesUnlessSkipping
<1>1. LInv /\ Emission => GeneratesUnlessSkipping
  <2>1. SUFFICES ASSUME LInv, Emission, pc = "done" PROVE ~Skips(act)
    BY DEF Emission, Judged, GeneratesUnlessSkipping
  <2>2. WholeChain
    BY <2>1 DEF WholeChain, LInv, TypeOK, Staged, Emission, Mirrored
  <2>3. \A b \in 1..total : Consistent(b)
    BY <2>1 DEF Emission, Judged
  <2>4. QED
    BY <2>2, <2>3, CompleteLoop
<1>2. QED
  BY <1>1, EmissionInvariance, PTL

-----------------------------------------------------------------------------
(* One create-and-call probe in every segment that has room for one.         *)

LEMMA DeployLemma ==
  ASSUME NEW i
  PROVE  Carries(Txs(i), "deploy") <=> i \in createCallBlocks
<1> DEFINE Others == Kinds \ {"deploy"}
           probes == When(ladderContractProbesEnabled(i),
                          <<"log", "log", "log", "log", "churn", "revert", "invalid">>)
           front == (<<"attributes">> \o recipe(i)) \o probes
           call == When(i \in createCallBlocks, <<"deploy", "call">>)
<1>1. \A s1, s2 \in Seq(Others) : s1 \o s2 \in Seq(Others)
  BY ConcatProperties
<1>2. \A cond : \A txs \in Seq(Others) : When(cond, txs) \in Seq(Others)
  <2>1. <<>> \in Seq(Others)
    OBVIOUS
  <2> HIDE DEF Others
  <2>2. QED
    BY <2>1, Zenon DEF When
<1>3. /\ <<"attributes">> \in Seq(Others) /\ <<"deposit">> \in Seq(Others)
      /\ <<"transfer">> \in Seq(Others) /\ <<"withdrawal">> \in Seq(Others)
      /\ <<"create">> \in Seq(Others) /\ <<"precompile">> \in Seq(Others)
      /\ <<"log", "log", "log", "log", "churn", "revert", "invalid">> \in Seq(Others)
  <2>1. /\ "attributes" \in Others /\ "deposit" \in Others /\ "transfer" \in Others
        /\ "withdrawal" \in Others /\ "create" \in Others /\ "precompile" \in Others
        /\ "log" \in Others /\ "churn" \in Others /\ "revert" \in Others
        /\ "invalid" \in Others
    BY DEF Kinds
  <2> HIDE DEF Others
  <2>2. QED
    BY <2>1, TupleLemma, Zenon
<1>4. recipe(i) \in Seq(Others)
  <2> HIDE DEF Others
  <2>1. QED
    BY <1>1, <1>2, <1>3, Zenon DEF recipe
<1>5. front \in Seq(Others)
  <2> HIDE DEF Others
  <2>1. QED
    BY <1>1, <1>2, <1>3, <1>4, Zenon
<1>6. Txs(i) = front \o call
  BY Zenon DEF Txs
<1>7. ASSUME i \notin createCallBlocks
      PROVE  ~Carries(Txs(i), "deploy")
  <2>1. call = <<>>
    BY <1>7 DEF When
  <2>2. Txs(i) \in Seq(Others)
    <3>1. <<>> \in Seq(Others)
      OBVIOUS
    <3> HIDE DEF Others, front, call
    <3>2. QED
      BY <1>1, <1>5, <1>6, <2>1, <3>1
  <2>3. \A k \in 1..Len(Txs(i)) : Txs(i)[k] \in Others
    BY <2>2, ElementOfSeq
  <2>4. DOMAIN Txs(i) = 1..Len(Txs(i))
    BY <2>2
  <2>5. "deploy" \notin Others
    OBVIOUS
  <2> HIDE DEF Others
  <2>6. QED
    BY <2>3, <2>4, <2>5 DEF Carries
<1>8. ASSUME i \in createCallBlocks
      PROVE  Carries(Txs(i), "deploy")
  <2>1. call = <<"deploy", "call">>
    BY <1>8 DEF When
  <2>2. /\ call \in Seq(Kinds) /\ Len(call) = 2 /\ call[1] = "deploy"
    <3>1. "deploy" \in Kinds /\ "call" \in Kinds
      BY DEF Kinds
    <3>2. <<"deploy", "call">> \in Seq(Kinds)
      BY <3>1, TupleLemma, Zenon
    <3>3. Len(<<"deploy", "call">>) = 2 /\ <<"deploy", "call">>[1] = "deploy"
      OBVIOUS
    <3> HIDE DEF call
    <3>4. QED
      BY <2>1, <3>2, <3>3
  <2>3. front \in Seq(Kinds)
    <3>1. Seq(Others) \subseteq Seq(Kinds)
      <4>1. ASSUME NEW s \in Seq(Others)
            PROVE  s \in Seq(Kinds)
        <5>1. \A k \in 1..Len(s) : s[k] \in Others
          BY ElementOfSeq
        <5>2. s \in [1..Len(s) -> Others] /\ Len(s) \in Nat
          OBVIOUS
        <5>3. QED
          BY <5>1, <5>2
      <4>2. QED
        BY <4>1
    <3> HIDE DEF Others, front
    <3>2. QED
      BY <1>5, <3>1
  <2> HIDE DEF front, call
  <2>4. /\ Len(front) \in Nat /\ Len(front \o call) = Len(front) + 2
        /\ front \o call \in Seq(Kinds)
    <3>1. front \o call \in Seq(Kinds) /\ Len(front \o call) = Len(front) + Len(call)
      BY <2>2, <2>3, ConcatProperties
    <3>2. Len(front) \in Nat
      BY <2>3
    <3>3. QED
      BY <2>2, <3>1, <3>2
  <2>5. (front \o call)[Len(front) + 1] = "deploy"
    <3>1. Len(front) + 1 \in 1..(Len(front) + Len(call)) /\ ~(Len(front) + 1 <= Len(front))
          /\ (Len(front) + 1) - Len(front) = 1
      BY <2>2, <2>4
    <3>2. \A k \in 1..(Len(front) + Len(call)) :
            (front \o call)[k] = IF k <= Len(front) THEN front[k] ELSE call[k - Len(front)]
      BY <2>2, <2>3, ConcatProperties
    <3>3. QED
      BY <2>2, <3>1, <3>2
  <2>6. Len(front) + 1 \in DOMAIN (front \o call)
    BY <2>4
  <2>7. QED
    BY <1>6, <2>5, <2>6 DEF Carries
<1>9. QED
  BY <1>7, <1>8

\* The entry in force is known by its fork.
LEMMA ForkAt ==
  ASSUME table \in Tables, total \in Totals, Working, NEW i \in 0..(total - 1),
         NEW k \in 1..Len(table)
  PROVE  blockFork(i + 1) = table[k].fork <=> At(i) = k
<1>1. total \in Nat /\ i \in Nat /\ i + 1 \in 0..total
  BY NeverLemma
<1>2. blockFork(i + 1) = table[At(i)].fork
  BY <1>1, BlockForkLemma DEF At
<1>3. At(i) \in 1..Len(table) /\ Len(table) \in Nat
  BY <1>1, AtLemma, TableLemma DEF Working
<1>4. ASSUME NEW j \in 1..Len(table), NEW m \in 1..Len(table),
             table[j].fork = table[m].fork
      PROVE  j = m
  <2>1. \A x \in 1..Len(table) : Rank(table[x].fork) \in Nat
    <3>1. \A x \in 1..Len(table) : Rank(table[x].fork) \in Ranks
      BY <1>1, TableLemma DEF Working
    <3>2. QED
      BY <3>1 DEF Ranks
  <2>2. \A x \in 1..Len(table) : \A y \in 1..(x - 1) :
          Rank(table[y].fork) < Rank(table[x].fork)
    BY <1>1, SortedLemma DEF Working
  <2> DEFINE q == Rank(table[j].fork)
  <2>3. q = Rank(table[m].fork) /\ q \in Nat
    BY <1>4, <2>1
  <2>4. CASE j < m
    <3>1. j \in 1..(m - 1)
      BY <1>3, <2>4
    <3>2. q < q
      BY <2>2, <2>3, <3>1
    <3> HIDE DEF q
    <3>3. QED
      BY <2>3, <3>2
  <2>5. CASE m < j
    <3>1. m \in 1..(j - 1)
      BY <1>3, <2>5
    <3>2. q < q
      BY <2>2, <2>3, <3>1
    <3> HIDE DEF q
    <3>3. QED
      BY <2>3, <3>2
  <2>6. QED
    BY <1>3, <2>4, <2>5
<1>5. QED
  BY <1>2, <1>3, <1>4

\* A segment's legal blocks are those of the entry's start, and the nearest is probed.
LEMMA ProbedLemma ==
  ASSUME table \in Tables, total \in Totals, Working, NEW k \in 1..Len(table)
  PROVE  LET segment == {i \in 0..(total - 1) : At(i) = k}
             legal == {i \in segment : /\ i > 0 /\ i % CreateEvery # 0
                                       /\ At(i - 1) = At(i)}
             probed == segment \cap createCallBlocks
         IN  \/ \E i \in legal : probed = {i}
             \/ legal = {} /\ probed = {}
<1> DEFINE segment == {i \in 0..(total - 1) : At(i) = k}
           legal == {i \in segment : /\ i > 0 /\ i % CreateEvery # 0
                                     /\ At(i - 1) = At(i)}
           probed == segment \cap createCallBlocks
<1>1. total \in Nat /\ \A s \in Starts : s \in Nat /\ s < total /\ EndOf(s) \in Nat
  BY IdxsLemma, EndLemma
<1>2. \A s \in Starts : EndOf(s) <= total
  BY <1>1, EndLemma
<1>3. \A s \in Starts : LegalIn(s) # {} => PickedIn(s) \in LegalIn(s)
  BY PickedLemma
<1>4. \A s \in Starts : \A i \in LegalIn(s) : i \in 0..(total - 1) /\ At(i) = At(s)
  <2>1. ASSUME NEW s \in Starts, NEW i \in LegalIn(s)
        PROVE  i \in 0..(total - 1) /\ At(i) = At(s)
    <3>1. i \in s..(EndOf(s) - 1)
      BY <2>1 DEF LegalIn
    <3>2. i \in 0..(total - 1)
      BY <1>1, <1>2, <3>1
    <3>3. QED
      BY <3>1, <3>2, SegmentLemma
  <2>2. QED
    BY <2>1
<1>5. CASE segment = {}
  BY <1>5
<1>6. CASE segment # {}
  <2>1. PICK s \in Starts : At(s) = k
    BY <1>6, StartLemma
  <2>2. segment = s..(EndOf(s) - 1)
    <3>1. \A i \in s..(EndOf(s) - 1) : i \in 0..(total - 1)
      BY <1>1, <1>2
    <3>2. QED
      BY <2>1, <3>1, SegmentLemma
  <2>3. legal = LegalIn(s)
    <3>1. \A i \in segment : i \in Nat
      BY <1>1
    <3>2. \A i \in segment : i > 0 => (At(i - 1) = At(i) <=> i \notin activationIdxs)
      BY <3>1, BoundaryLemma
    <3> HIDE DEF segment
    <3>3. QED
      BY <2>2, <3>2 DEF LegalIn
  <2>4. ASSUME NEW i \in probed
        PROVE  LegalIn(s) # {} /\ i = PickedIn(s)
    <3>1. PICK q \in Starts : LegalIn(q) # {} /\ i = PickedIn(q)
      BY <2>4, CallBlocksAre
    <3>2. At(q) = k
      BY <1>3, <1>4, <2>4, <3>1
    <3>3. q = s
      BY <2>1, <3>2, OneStart
    <3>4. QED
      BY <3>1, <3>3
  <2>5. ASSUME LegalIn(s) # {}
        PROVE  PickedIn(s) \in probed
    <3>1. PickedIn(s) \in createCallBlocks
      BY <2>5, CallBlocksAre
    <3>2. PickedIn(s) \in 0..(total - 1) /\ At(PickedIn(s)) = k
      BY <1>3, <1>4, <2>1, <2>5
    <3>3. QED
      BY <3>1, <3>2
  <2> HIDE DEF segment, legal, probed
  <2>6. CASE LegalIn(s) = {}
    <3>1. probed = {}
      BY <2>4, <2>6
    <3>2. QED
      BY <2>3, <2>6, <3>1 DEF segment, legal, probed
  <2>7. CASE LegalIn(s) # {}
    <3>1. probed = {PickedIn(s)} /\ PickedIn(s) \in legal
      BY <1>3, <2>3, <2>4, <2>5, <2>7
    <3>2. QED
      BY <3>1 DEF segment, legal, probed
  <2>8. QED
    BY <2>6, <2>7
<1>7. QED
  BY <1>5, <1>6

\* Whatever the table lists, every fork of it that has a legal block has exactly one
\* create-and-call probe, at a legal block: SegmentsProbed.
THEOREM OneProbeEach == Spec => []SegmentsProbed
<1>1. LInv /\ Emission => SegmentsProbed
  <2>1. SUFFICES ASSUME LInv, Emission, Len(chain) = total, NEW k \in DOMAIN table
                 PROVE
          LET segment == {i \in 0..(total - 1) : chain[i + 1].fork = table[k].fork}
              legal == {i \in segment : /\ i > 0 /\ i % CreateEvery # 0
                                        /\ chain[i].fork = chain[i + 1].fork}
              probed == {i \in segment : Carries(chain[i + 1].txs, "deploy")}
          IN  /\ probed \subseteq legal
              /\ Cardinality(probed) = IF legal = {} THEN 0 ELSE 1
    BY DEF SegmentsProbed
  <2> DEFINE segment == {i \in 0..(total - 1) : chain[i + 1].fork = table[k].fork}
             legal == {i \in segment : /\ i > 0 /\ i % CreateEvery # 0
                                       /\ chain[i].fork = chain[i + 1].fork}
             probed == {i \in segment : Carries(chain[i + 1].txs, "deploy")}
             segment2 == {i \in 0..(total - 1) : At(i) = k}
             legal2 == {i \in segment2 : /\ i > 0 /\ i % CreateEvery # 0
                                         /\ At(i - 1) = At(i)}
             probed2 == segment2 \cap createCallBlocks
  <2>2. /\ table \in Tables /\ total \in Totals /\ total \in Nat /\ total >= 1
        /\ chain \in Seq(Blocks) /\ DOMAIN chain = 1..total
    BY <2>1, NeverLemma DEF LInv, TypeOK
  <2>3. Working
    <3>1. pc \notin {"parse", "rejected"}
      <4>1. Len(<<>>) = 0
        OBVIOUS
      <4>2. QED
        BY <2>1, <2>2, <4>1 DEF LInv, Staged
    <3>2. Staged
      BY <2>1 DEF LInv
    <3>3. QED
      BY <3>1, <3>2, Zenon DEF Staged
  <2>4. k \in 1..Len(table) /\ Len(table) \in Nat
    BY <2>1, <2>2, <2>3, TableLemma DEF Working
  <2>5. \A i \in 0..(total - 1) : /\ chain[i + 1].fork = blockFork(i + 1)
                                  /\ chain[i + 1].txs = Txs(i)
    <3>1. ASSUME NEW i \in 0..(total - 1)
          PROVE  chain[i + 1].fork = blockFork(i + 1) /\ chain[i + 1].txs = Txs(i)
      <4>1. i + 1 \in DOMAIN chain /\ (i + 1) - 1 = i
        BY <2>2
      <4>2. QED
        BY <2>1, <4>1 DEF LInv, Labelled, Emission, Reproduced
    <3>2. QED
      BY <3>1
  <2>6. segment = segment2
    <3>1. \A i \in 0..(total - 1) : chain[i + 1].fork = table[k].fork <=> At(i) = k
      BY <2>2, <2>3, <2>4, <2>5, ForkAt
    <3>2. QED
      BY <3>1
  <2>7. legal = legal2
    <3>1. ASSUME NEW i \in segment2, i > 0
          PROVE  chain[i].fork = chain[i + 1].fork <=> At(i - 1) = At(i)
      <4>1. i \in 0..(total - 1) /\ i - 1 \in 0..(total - 1) /\ (i - 1) + 1 = i /\ At(i) = k
        BY <2>2, <3>1
      <4> DEFINE j == i - 1
      <4>2. j \in 0..(total - 1) /\ j + 1 = i
        BY <4>1
      <4> HIDE DEF j
      <4>3. chain[i].fork = blockFork(j + 1)
        BY <2>5, <4>2
      <4>4. chain[i + 1].fork = table[k].fork
        BY <2>2, <2>3, <2>4, <2>5, <4>1, ForkAt
      <4>5. blockFork(j + 1) = table[k].fork <=> At(j) = k
        BY <2>2, <2>3, <2>4, <4>2, ForkAt
      <4>6. QED
        BY <4>1, <4>3, <4>4, <4>5 DEF j
    <3> HIDE DEF segment, segment2
    <3>2. QED
      BY <2>6, <3>1
  <2>8. probed = probed2
    <3>1. \A i \in segment2 : i \in 0..(total - 1)
      OBVIOUS
    <3> HIDE DEF segment, segment2
    <3>2. QED
      BY <2>5, <2>6, <3>1, DeployLemma
  <2>9. \/ \E i \in legal2 : probed2 = {i}
        \/ legal2 = {} /\ probed2 = {}
    BY <2>2, <2>3, <2>4, ProbedLemma
  <2> HIDE DEF segment, legal, probed, segment2, legal2, probed2
  <2>10. probed \subseteq legal /\ Cardinality(probed) = IF legal = {} THEN 0 ELSE 1
    <3>1. CASE \E i \in legal2 : probed2 = {i}
      <4>1. PICK i \in legal : probed = {i}
        BY <2>7, <2>8, <3>1
      <4>2. Cardinality({i}) = 1
        BY FS_Singleton
      <4>3. QED
        BY <4>1, <4>2
    <3>2. CASE legal2 = {} /\ probed2 = {}
      BY <2>7, <2>8, <3>2, FS_EmptySet
    <3>3. QED
      BY <2>9, <3>1, <3>2
  <2>11. QED
    BY <2>10 DEF segment, legal, probed
<1>2. QED
  BY <1>1, EmissionInvariance, PTL
=============================================================================
