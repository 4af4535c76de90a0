---------------------------- MODULE GenesisProofs ----------------------------
(***************************************************************************)
(* Proofs about GenesisPipeline, for any chain configurations, base alloc    *)
(* files, hand-written files of any length, and any hash.                   *)
(***************************************************************************)
EXTENDS GenesisPipeline, FiniteSetTheorems, WellFoundedInduction, TLAPS

-----------------------------------------------------------------------------
(* The inductive invariant.                                                 *)

\* Nothing is overlaid before the base is loaded and checked, and the JSON is the merge
\* of all predeploys.
Order ==
  /\ pc \in {"provenance", "base", "expected"} => todo = 1
  /\ pc \in {"provenance", "base", "expected", "overlay", "refused"} => json = <<>>
  /\ json # <<>> => /\ request # None
                    /\ json = merged
                    /\ todo = Len(request.cfg.predeploys) + 1

\* A hand-written file has nothing to do with the build, and is read before it is rooted.
HandWritten ==
  request = None =>
    /\ pc \in {"file", "rollup", "unreadable", "unrootable"}
    /\ base = <<>> /\ merged = <<>> /\ todo = 1
    /\ file \in Seq(HandLines)
    /\ header # <<>> => ~parse_allocs_ini(file).error

\* What is merged is the base and two accounts for each predeploy so far.
Merging ==
  /\ IsFiniteSet(DOMAIN base) /\ IsFiniteSet(DOMAIN merged)
  /\ \A a \in DOMAIN base : a \in DOMAIN merged /\ merged[a] = base[a]
  /\ Cardinality(DOMAIN merged) = Cardinality(DOMAIN base) + 2 * (todo - 1)
  /\ \A a \in DOMAIN merged : IsFiniteSet(DOMAIN merged[a].storage)
  /\ \A i \in 1..(todo - 1) :
       LET p == request.cfg.predeploys[i] IN
       /\ Builds(p, request.cfg, base)
       /\ p.address \in DOMAIN merged
       /\ merged[p.address] = ProxyAlloc(p, request.cfg, base)

\* A comparison is the last thing that happens.
Compared == (verdict # <<>> => pc = "done") /\ DiffTellsApart

IInv == TypeOK /\ Order /\ HandWritten /\ Merging /\ Compared
-----------------------------------------------------------------------------
(* Natural numbers, finite sets and sequences.                              *)

\* A set of natural numbers with 0 and the successor of each of its members has them all.
LEMMA AllNaturals ==
  ASSUME NEW S, 0 \in S, \A n \in S \cap Nat : n + 1 \in S
  PROVE  Nat \subseteq S
<1> DEFINE R == OpToRel(<, Nat)
<1>1. IsWellFoundedOn(R, Nat)
  BY NatLessThanWellFounded
<1>2. \A x, y \in Nat : y < x => <<y, x>> \in R
  BY DEF OpToRel
<1> HIDE DEF R
<1>3. SUFFICES ASSUME Nat \ S # {} PROVE FALSE
  OBVIOUS
<1>4. PICK x \in Nat \ S : \A y \in Nat \ S : <<y, x>> \notin R
  BY <1>1, <1>3, WFMin
<1>5. x - 1 \in Nat /\ x - 1 < x
  BY <1>4
<1>6. x - 1 \in S
  BY <1>2, <1>4, <1>5
<1>7. (x - 1) + 1 \in S
  BY <1>5, <1>6
<1>8. (x - 1) + 1 = x
  BY <1>4
<1>9. QED
  BY <1>4, <1>7, <1>8

\* The values of a function with a finite domain.
LEMMA FiniteRange ==
  ASSUME NEW f, IsFiniteSet(DOMAIN f), f = [x \in DOMAIN f |-> f[x]]
  PROVE  IsFiniteSet({f[x] : x \in DOMAIN f})
<1> DEFINE T == {f[x] : x \in DOMAIN f}
<1>1. f \in Surjection(DOMAIN f, T)
  BY DEF Surjection
<1>2. QED
  BY <1>1, FS_Surjection

LEMMA ListIsFunction ==
  ASSUME NEW s, IsList(s)
  PROVE  /\ Len(s) \in Nat /\ DOMAIN s = 1..Len(s)
         /\ s = [i \in DOMAIN s |-> s[i]]
         /\ IsFiniteSet(DOMAIN s)
<1>1. Len(s) \in Nat /\ DOMAIN s = 1..Len(s) /\ s = [i \in DOMAIN s |-> s[i]]
  BY DEF IsList
<1>2. QED
  BY <1>1, FS_Interval

LEMMA Finite ==
  /\ \A x : IsFiniteSet({x})
  /\ \A S, T : IsFiniteSet(S) /\ IsFiniteSet(T) => IsFiniteSet(S \cup T)
BY FS_Singleton, FS_Union

\* The union of finitely many finite sets.
LEMMA FiniteUnion ==
  ASSUME NEW f, IsFiniteSet(DOMAIN f), f = [x \in DOMAIN f |-> f[x]],
         \A x \in DOMAIN f : IsFiniteSet(f[x])
  PROVE  IsFiniteSet(UNION {f[x] : x \in DOMAIN f})
BY FiniteRange, FS_UNION

\* Sequences over S put one after the other are a sequence over S.
LEMMA Flattened ==
  ASSUME NEW S, NEW ss \in Seq(Seq(S))
  PROVE  FlattenSeq(ss) \in Seq(S)
<1> DEFINE n == Len(ss)
           Up(g, k) == g = [i \in 1..k |-> IF i = 1 THEN ss[i] ELSE g[i - 1] \o ss[i]]
<1>1. n \in Nat /\ \A i \in 1..n : ss[i] \in Seq(S)
  OBVIOUS
<1>2. CASE n = 0
  <2>1. ss = <<>>
    BY <1>2
  <2>2. FlattenSeq(ss) = ss
    BY <1>2 DEF FlattenSeq
  <2>3. <<>> \in Seq(S)
    OBVIOUS
  <2>4. QED
    BY <2>1, <2>2, <2>3
<1>3. CASE n # 0
  <2> DEFINE Has(k) == \E g : Up(g, k) /\ \A i \in 1..k : g[i] \in Seq(S)
             T == {k \in Nat : k <= n => Has(k)}
  <2>1. 0 \in T
    <3> DEFINE g == [i \in 1..0 |-> IF i = 1 THEN ss[i] ELSE <<>>]
    <3>1. Up(g, 0)
      OBVIOUS
    <3>2. Has(0)
      BY <3>1
    <3> HIDE DEF Has
    <3>3. QED
      BY <3>2
  <2>2. ASSUME NEW k \in T \cap Nat
        PROVE  k + 1 \in T
    <3> HIDE DEF Has
    <3>1. SUFFICES ASSUME k + 1 <= n
                   PROVE  Has(k + 1)
      OBVIOUS
    <3>2. Has(k)
      BY <3>1
    <3> USE DEF Has
    <3>3. PICK g : Up(g, k) /\ \A i \in 1..k : g[i] \in Seq(S)
      BY <3>2
    <3> DEFINE one == IF k = 0 THEN ss[k + 1] ELSE g[k] \o ss[k + 1]
               h == [i \in 1..(k + 1) |-> IF i = k + 1 THEN one ELSE g[i]]
    <3>4. one \in Seq(S)
      BY <1>1, <3>1, <3>3
    <3>5. \A i \in 1..(k + 1) : h[i] \in Seq(S)
      BY <3>3, <3>4
    <3>6. \A i \in 1..k : h[i] = g[i]
      OBVIOUS
    <3>7. ASSUME NEW i \in 1..(k + 1)
          PROVE  h[i] = IF i = 1 THEN ss[i] ELSE h[i - 1] \o ss[i]
      <4>1. CASE i = k + 1
        <5>1. k # 0 => h[k] = g[k]
          BY <3>6
        <5>2. QED
          BY <4>1, <5>1
      <4>2. CASE i # k + 1
        <5>1. i \in 1..k
          BY <4>2
        <5>2. g[i] = IF i = 1 THEN ss[i] ELSE g[i - 1] \o ss[i]
          BY <3>3, <5>1
        <5>3. i # 1 => h[i - 1] = g[i - 1]
          BY <3>6, <5>1
        <5>4. QED
          BY <3>6, <5>1, <5>2, <5>3
      <4>3. QED
        BY <4>1, <4>2
    <3>8. Up(h, k + 1)
      BY <3>7
    <3>9. QED
      BY <3>5, <3>8
  <2> HIDE DEF Up, Has
  <2>3. n \in T
    BY <1>1, <2>1, <2>2, AllNaturals
  <2>4. PICK g : Up(g, n) /\ \A i \in 1..n : g[i] \in Seq(S)
    BY <1>1, <2>3 DEF Has
  <2> DEFINE f == CHOOSE h : Up(h, n)
  <2>5. Up(f, n)
    BY <2>4
  <2>6. FlattenSeq(ss) = f[n]
    BY <1>3 DEF FlattenSeq, Up
  <2>7. \A i \in 1..n : f[i] = IF i = 1 THEN ss[i] ELSE f[i - 1] \o ss[i]
    BY <2>5 DEF Up
  <2> HIDE DEF f
  <2> DEFINE U == {k \in Nat : k + 1 \in 1..n => f[k + 1] \in Seq(S)}
  <2>8. 0 \in U
    BY <1>1, <1>3, <2>7
  <2>9. ASSUME NEW k \in U \cap Nat
        PROVE  k + 1 \in U
    <3>1. SUFFICES ASSUME k + 2 \in 1..n PROVE f[k + 2] \in Seq(S)
      OBVIOUS
    <3>2. k + 1 \in 1..n /\ k + 2 # 1 /\ (k + 2) - 1 = k + 1
      BY <1>1, <3>1
    <3>3. f[k + 1] \in Seq(S) /\ ss[k + 2] \in Seq(S)
      BY <1>1, <3>1, <3>2
    <3>4. f[k + 2] = f[k + 1] \o ss[k + 2]
      BY <2>7, <3>1, <3>2
    <3>5. QED
      BY <3>3, <3>4
  <2>10. n - 1 \in U
    <3>1. n - 1 \in Nat
      BY <1>1, <1>3
    <3> HIDE DEF U
    <3>2. QED
      BY <2>8, <2>9, <3>1, AllNaturals
  <2>11. QED
    BY <1>1, <1>3, <2>6, <2>10
<1>4. QED
  BY <1>2, <1>3
\* Slot lines appended one by one are a sequence of slot lines.
LEMMA Appended ==
  ASSUME NEW S, NEW st, IsFiniteSet(DOMAIN st),
         \A s \in DOMAIN st : SlotLine(SlotText(s), st[s]) \in S
  PROVE  FoldSet(LAMBDA s, lines : Append(lines, SlotLine(SlotText(s), st[s])), <<>>, DOMAIN st)
           \in Seq(S)
<1> DEFINE D == DOMAIN st
           pick(t) == CHOOSE s \in t : TRUE
           line(s) == SlotLine(SlotText(s), st[s])
           Small(n) == {t \in SUBSET D : Cardinality(t) <= n}
           Up(g, n) == g = [t \in Small(n) |->
                              IF t = {} THEN <<>> ELSE Append(g[t \ {pick(t)}], line(pick(t)))]
           Has(n) == \E g : Up(g, n) /\ \A t \in Small(n) : g[t] \in Seq(S)
           T == {n \in Nat : Has(n)}
<1>0. <<>> \in Seq(S) /\ \A q \in Seq(S), l \in S : Append(q, l) \in Seq(S)
  OBVIOUS
<1>1. \A t \in SUBSET D : IsFiniteSet(t) /\ Cardinality(t) \in Nat
  BY FS_Subset, FS_CardinalityType
<1>2. ASSUME NEW t \in SUBSET D, t # {}
      PROVE  /\ pick(t) \in t /\ line(pick(t)) \in S
             /\ t \ {pick(t)} \in SUBSET D
             /\ Cardinality(t \ {pick(t)}) = Cardinality(t) - 1
  <2>1. pick(t) \in t
    BY <1>2
  <2>2. QED
    BY <1>1, <2>1, FS_RemoveElement
<1> HIDE DEF pick, line
<1>3. 0 \in T
  <2> DEFINE g == [t \in Small(0) |-> <<>>]
  <2>1. \A t \in Small(0) : t = {}
    BY <1>1, FS_EmptySet
  <2>2. Up(g, 0)
    BY <2>1
  <2>3. \A t \in Small(0) : g[t] \in Seq(S)
    OBVIOUS
  <2>4. QED
    BY <2>2, <2>3
<1>4. ASSUME NEW n \in T \cap Nat
      PROVE  n + 1 \in T
  <2>1. PICK g : Up(g, n) /\ \A t \in Small(n) : g[t] \in Seq(S)
    BY <1>4
  <2> DEFINE h == [t \in Small(n + 1) |->
                     IF t = {} THEN <<>> ELSE Append(g[t \ {pick(t)}], line(pick(t)))]
  <2>2. \A t \in Small(n + 1) : t # {} => t \ {pick(t)} \in Small(n)
    BY <1>1, <1>2
  <2>3. \A t \in Small(n) : t \in Small(n + 1)
    BY <1>1
  <2>4. \A t \in Small(n) : h[t] = g[t]
    BY <2>1, <2>3
  <2>5. Up(h, n + 1)
    BY <2>2, <2>4
  <2>6. \A t \in Small(n + 1) : h[t] \in Seq(S)
    <3>1. SUFFICES ASSUME NEW t \in Small(n + 1) PROVE h[t] \in Seq(S)
      OBVIOUS
    <3>2. CASE t = {}
      <4>1. h[t] = <<>>
        BY <3>2
      <4>2. QED
        BY <1>0, <4>1
    <3>3. CASE t # {}
      <4>1. h[t] = Append(g[t \ {pick(t)}], line(pick(t)))
        BY <3>3
      <4>2. g[t \ {pick(t)}] \in Seq(S) /\ line(pick(t)) \in S
        BY <1>2, <2>1, <2>2, <3>3
      <4>3. QED
        BY <1>0, <4>1, <4>2
    <3>4. QED
      BY <3>2, <3>3
  <2> HIDE DEF Up, h
  <2>7. Has(n + 1)
    BY <2>5, <2>6
  <2>8. QED
    BY <2>7
<1> HIDE DEF T, Has
<1>5. Cardinality(D) \in T
  BY <1>1, <1>3, <1>4, AllNaturals
<1>6. Has(Cardinality(D))
  BY <1>5 DEF T
<1>7. Small(Cardinality(D)) = SUBSET D
  BY FS_Subset
<1>8. PICK g : Up(g, Cardinality(D))
  BY <1>6 DEF Has
<1> DEFINE Whole(f) == f = [t \in SUBSET D |->
                              IF t = {} THEN <<>> ELSE Append(f[t \ {pick(t)}], line(pick(t)))]
           f == CHOOSE h : Whole(h)
<1>9. Whole(g)
  BY <1>7, <1>8
<1>10. Whole(f)
  BY <1>9
<1>11. FoldSet(LAMBDA s, lines : Append(lines, SlotLine(SlotText(s), st[s])), <<>>, D) = f[D]
  BY DEF FoldSet, MapThenFoldSet, pick, line
<1>12. \A t \in SUBSET D : f[t] = IF t = {} THEN <<>>
                                 ELSE Append(f[t \ {pick(t)}], line(pick(t)))
  BY <1>10
<1> HIDE DEF f
<1> DEFINE U == {n \in Nat : \A t \in Small(n) : f[t] \in Seq(S)}
<1>13. 0 \in U
  <2>1. \A t \in Small(0) : t = {}
    BY <1>1, FS_EmptySet
  <2>2. f[{}] = <<>>
    BY <1>12
  <2>3. QED
    BY <1>0, <2>1, <2>2
<1>14. ASSUME NEW n \in U \cap Nat
       PROVE  n + 1 \in U
  <2>1. ASSUME NEW t \in Small(n + 1) PROVE f[t] \in Seq(S)
    <3>1. CASE t = {}
      <4>1. f[t] = <<>>
        BY <1>12, <3>1
      <4>2. QED
        BY <1>0, <4>1
    <3>2. CASE t # {}
      <4>1. t \ {pick(t)} \in Small(n) /\ line(pick(t)) \in S
        BY <1>1, <1>2, <3>2
      <4>2. f[t \ {pick(t)}] \in Seq(S)
        BY <1>14, <4>1
      <4>3. f[t] = Append(f[t \ {pick(t)}], line(pick(t)))
        BY <1>12, <3>2
      <4>4. QED
        BY <1>0, <4>1, <4>2, <4>3
    <3>3. QED
      BY <3>1, <3>2
  <2>2. QED
    BY <2>1
<1> HIDE DEF U
<1>15. Cardinality(D) \in U
  BY <1>1, <1>13, <1>14, AllNaturals
<1>16. f[D] \in Seq(S)
  BY <1>7, <1>15 DEF U
<1>17. QED
  BY <1>11, <1>16
-----------------------------------------------------------------------------
(* The file that is written.                                                *)

\* Every place in the ascending order is taken by a number of the set.
LEMMA AscendingLemma ==
  ASSUME NEW S, S \subseteq Nat, IsFiniteSet(S)
  PROVE  /\ Cardinality(S) \in Nat
         /\ DOMAIN Ascending(S) = 1..Cardinality(S)
         /\ \A i \in 1..Cardinality(S) : Ascending(S)[i] \in S
<1> DEFINE below(n) == {m \in S : m < n}
           rank == [n \in S |-> Cardinality(below(n))]
           T == 0..(Cardinality(S) - 1)
<1>1. Cardinality(S) \in Nat
  BY FS_CardinalityType
<1>2. \A n \in S : IsFiniteSet(below(n)) /\ Cardinality(below(n)) \in Nat
  BY FS_Subset, FS_CardinalityType
<1>3. ASSUME NEW m \in S, NEW n \in S, m < n
      PROVE  Cardinality(below(m)) < Cardinality(below(n))
  <2>1. m \notin below(m) /\ below(m) \cup {m} \subseteq below(n)
    <3>1. m \in Nat /\ n \in Nat /\ m \in below(n) /\ m \notin below(m)
      BY <1>3
    <3>2. \A k \in below(m) : k \in Nat /\ k < n
      BY <1>3, <3>1
    <3>3. QED
      BY <3>1, <3>2
  <2>2. Cardinality(below(m) \cup {m}) = Cardinality(below(m)) + 1
    BY <1>2, <2>1, FS_AddElement
  <2>3. Cardinality(below(m) \cup {m}) <= Cardinality(below(n))
    BY <1>2, <2>1, FS_Subset
  <2>4. QED
    BY <1>2, <2>2, <2>3
<1>4. ASSUME NEW n \in S
      PROVE  rank[n] \in T
  <2>1. below(n) \subseteq S \ {n}
    OBVIOUS
  <2>2. IsFiniteSet(S \ {n}) /\ Cardinality(S \ {n}) = Cardinality(S) - 1
    BY FS_RemoveElement
  <2>3. Cardinality(below(n)) <= Cardinality(S) - 1
    BY <2>1, <2>2, FS_Subset
  <2>4. QED
    BY <1>1, <1>2, <2>3
<1>5. rank \in Injection(S, T)
  <2>1. rank \in [S -> T]
    BY <1>4
  <2>2. ASSUME NEW m \in S, NEW n \in S, rank[m] = rank[n]
        PROVE  m = n
    <3>1. m \in Nat /\ n \in Nat
      OBVIOUS
    <3>2. ~(m < n) /\ ~(n < m)
      BY <1>2, <1>3, <2>2
    <3>3. QED
      BY <3>1, <3>2
  <2>3. QED
    BY <2>1, <2>2 DEF Injection, IsInjective
<1>6. IsFiniteSet(T) /\ Cardinality(T) = Cardinality(S)
  <2>1. 0 \in Int /\ Cardinality(S) - 1 \in Int
    BY <1>1
  <2>2. QED
    BY <1>1, <2>1, FS_Interval
<1>7. rank \in Surjection(S, T)
  BY <1>5, <1>6, FS_Injection
<1>8. \A i \in 1..Cardinality(S) : \E n \in S : Cardinality(below(n)) = i - 1
  <2>1. SUFFICES ASSUME NEW i \in 1..Cardinality(S)
                 PROVE  \E n \in S : rank[n] = i - 1
    OBVIOUS
  <2>2. i - 1 \in T
    BY <1>1
  <2>3. QED
    BY <1>7, <2>2 DEF Surjection
<1>9. QED
  BY <1>1, <1>8 DEF Ascending

\* The lines that an INI file of some accounts can have.
LinesOf(accounts) ==
  {SectionLine(<<"index", i>>) : i \in Int}
  \cup {StorageLine(<<"index", i>>) : i \in Int}
  \cup {FieldLine("address", AddressText(a)) : a \in DOMAIN accounts}
  \cup {FieldLine("nonce", Word(accounts[a].nonce)) : a \in DOMAIN accounts}
  \cup {FieldLine("code", Code(accounts[a].code)) : a \in DOMAIN accounts}
  \cup UNION {{SlotLine(SlotText(s), accounts[a].storage[s]) : s \in DOMAIN accounts[a].storage} :
                a \in DOMAIN accounts}

LEMMA LinesHaveKinds ==
  ASSUME NEW accounts, NEW l \in LinesOf(accounts)
  PROVE  l[1] \in LineKinds
<1>1. \/ \E i \in Int : l = SectionLine(<<"index", i>>)
      \/ \E i \in Int : l = StorageLine(<<"index", i>>)
      \/ \E key, value : l = FieldLine(key, value)
      \/ \E slot, value : l = SlotLine(slot, value)
  BY DEF LinesOf
<1>2. /\ \A name : SectionLine(name)[1] = "alloc" /\ StorageLine(name)[1] = "storage"
      /\ \A key, value : FieldLine(key, value)[1] = "entry" /\ SlotLine(key, value)[1] = "entry"
  BY DEF SectionLine, StorageLine, FieldLine, SlotLine
<1>3. l[1] \in {"alloc", "storage", "entry"}
  BY <1>1, <1>2
<1>4. QED
  BY <1>3 DEF LineKinds

LEMMA AllocLinesLemma ==
  ASSUME NEW accounts, NEW a \in DOMAIN accounts, NEW i \in Int,
         IsFiniteSet(DOMAIN accounts[a].storage)
  PROVE  AllocLines(i, a, accounts[a]) \in Seq(LinesOf(accounts))
<1> DEFINE S == LinesOf(accounts)
           st == accounts[a].storage
           head == <<SectionLine(<<"index", i>>), FieldLine("address", AddressText(a)),
                     FieldLine("nonce", Word(accounts[a].nonce))>>
           code == IF accounts[a].code = "" THEN <<>>
                   ELSE <<FieldLine("code", Code(accounts[a].code))>>
           slots == FoldSet(LAMBDA s, lines : Append(lines, SlotLine(SlotText(s), st[s])),
                            <<>>, DOMAIN st)
           rest == IF st = <<>> THEN <<>> ELSE <<StorageLine(<<"index", i>>)>> \o slots
<1>1. /\ SectionLine(<<"index", i>>) \in S
      /\ StorageLine(<<"index", i>>) \in S
      /\ FieldLine("address", AddressText(a)) \in S
      /\ FieldLine("nonce", Word(accounts[a].nonce)) \in S
      /\ FieldLine("code", Code(accounts[a].code)) \in S
      /\ \A s \in DOMAIN st : SlotLine(SlotText(s), st[s]) \in S
  BY DEF LinesOf
<1>2. AllocLines(i, a, accounts[a]) = head \o code \o rest
  BY DEF AllocLines
<1> HIDE DEF S
<1>3. slots \in Seq(S)
  BY <1>1, Appended
<1>4. <<>> \in Seq(S) /\ \A x, y, z \in S : <<x>> \in Seq(S) /\ <<x, y, z>> \in Seq(S)
  OBVIOUS
<1>5. head \in Seq(S)
  BY <1>1, <1>4
<1>6. code \in Seq(S)
  <2>1. <<FieldLine("code", Code(accounts[a].code))>> \in Seq(S)
    BY <1>1, <1>4
  <2>2. QED
    BY <1>4, <2>1
<1>7. rest \in Seq(S)
  <2>1. <<StorageLine(<<"index", i>>)>> \in Seq(S)
    BY <1>1, <1>4
  <2> HIDE DEF slots
  <2>2. <<StorageLine(<<"index", i>>)>> \o slots \in Seq(S)
    BY <1>3, <2>1
  <2>3. QED
    BY <1>4, <2>2
<1> HIDE DEF head, code, rest
<1>8. (head \o code) \o rest \in Seq(S)
  BY <1>5, <1>6, <1>7
<1>9. QED
  BY <1>2, <1>8 DEF S

LEMMA EmittedLemma ==
  ASSUME NEW accounts, DOMAIN accounts \subseteq Nat, IsFiniteSet(DOMAIN accounts),
         \A a \in DOMAIN accounts : IsFiniteSet(DOMAIN accounts[a].storage)
  PROVE  \A i \in DOMAIN emit_ini(accounts) : emit_ini(accounts)[i][1] \in LineKinds
<1> DEFINE order == Ascending(DOMAIN accounts)
           parts == [i \in DOMAIN order |-> AllocLines(i - 1, order[i], accounts[order[i]])]
           S == LinesOf(accounts)
<1>1. /\ Cardinality(DOMAIN accounts) \in Nat
      /\ DOMAIN order = 1..Cardinality(DOMAIN accounts)
      /\ \A i \in 1..Cardinality(DOMAIN accounts) : order[i] \in DOMAIN accounts
  BY AscendingLemma
<1> HIDE DEF order
<1>2. \A i \in DOMAIN order : AllocLines(i - 1, order[i], accounts[order[i]]) \in Seq(S)
  BY <1>1, AllocLinesLemma
<1>3. parts \in Seq(Seq(S))
  BY <1>1, <1>2
<1>4. emit_ini(accounts) = FlattenSeq(parts)
  BY DEF emit_ini, order
<1>5. emit_ini(accounts) \in Seq(S)
  BY <1>3, <1>4, Flattened
<1>6. QED
  BY <1>5, LinesHaveKinds
-----------------------------------------------------------------------------
(* Storage.                                                                 *)

LEMMA Joined ==
  ASSUME NEW f, NEW g
  PROVE  /\ DOMAIN (f ++ g) = DOMAIN f \cup DOMAIN g
         /\ \A x \in DOMAIN f : (f ++ g)[x] = f[x]
         /\ \A x \in DOMAIN g : x \notin DOMAIN f => (f ++ g)[x] = g[x]
BY DEF ++

LEMMA Single == \A d, e : DOMAIN Put(d, e) = {d} /\ Put(d, e)[d] = e
BY DEF Put

\* What distinguishes the slots: the tag, and for mappings the base, the key and the field.
Tag(slot) == slot[1]

LEMMA Slots ==
  /\ \A n : Tag(Slot(n)) = "slot"
  /\ \A m, n : Slot(m) = Slot(n) => m = n
  /\ Tag(EIP1967_IMPLEMENTATION_SLOT) = "eip1967" /\ Tag(EIP1967_ADMIN_SLOT) = "eip1967"
  /\ EIP1967_IMPLEMENTATION_SLOT # EIP1967_ADMIN_SLOT
  /\ OZ_INITIALIZED_SLOT = Slot(0) /\ OZ_OWNER_SLOT = Slot(51)
  /\ \A b, k, f : Tag(MappingSlot(b, k, f)) = "map" /\ MappingSlot(b, k, f)[3] = k
  /\ \A b, k, f, c, l, g :
       MappingSlot(b, k, f) = MappingSlot(c, l, g) => b = c /\ k = l /\ f = g
  /\ \A k : Tag(EntrySlot(k)) = "entry"
  /\ \A i : Tag(ValuesSlot(i)) = "array"
  /\ \A i, j : ValuesSlot(i) = ValuesSlot(j) => i = j
BY DEF Slot, EIP1967_IMPLEMENTATION_SLOT, EIP1967_ADMIN_SLOT, OZ_INITIALIZED_SLOT, OZ_OWNER_SLOT,
       MappingSlot, EntrySlot, ValuesSlot, Tag

\* The slots of a validator's public key.
LEMMA KeySlots ==
  ASSUME NEW a, NEW length
  PROVE  /\ MappingSlot(103, a, 1) \in DOMAIN put_dynamic_bytes(a, length)
         /\ \A s \in DOMAIN put_dynamic_bytes(a, length) :
              s = MappingSlot(103, a, 1) \/ Tag(s) = "data"
         /\ length \in Nat => IsFiniteSet(DOMAIN put_dynamic_bytes(a, length))
<1> DEFINE slot == MappingSlot(103, a, 1)
           data == [i \in 0..((length - 1) \div 32) |-> <<"data", a, i>>]
           words == {data[i] : i \in 0..((length - 1) \div 32)}
<1>1. CASE length < 32
  <2>1. DOMAIN put_dynamic_bytes(a, length) = {slot}
    BY <1>1, Single DEF put_dynamic_bytes
  <2>2. QED
    BY <2>1, FS_Singleton
<1>2. CASE ~(length < 32)
  <2>1. DOMAIN put_dynamic_bytes(a, length) = {slot} \cup words
    BY <1>2 DEF put_dynamic_bytes
  <2>2. \A s \in words : Tag(s) = "data"
    <3>1. \A i \in 0..((length - 1) \div 32) : data[i] = <<"data", a, i>>
      OBVIOUS
    <3>2. \A i : Tag(<<"data", a, i>>) = "data"
      BY DEF Tag
    <3> HIDE DEF data
    <3>3. QED
      BY <3>1, <3>2
  <2>3. ASSUME length \in Nat PROVE IsFiniteSet({slot} \cup words)
    <3>1. (length - 1) \div 32 \in Int
      BY <1>2, <2>3
    <3>2. DOMAIN data = 0..((length - 1) \div 32) /\ data = [i \in DOMAIN data |-> data[i]]
      OBVIOUS
    <3>3. IsFiniteSet(DOMAIN data)
      BY <3>1, <3>2, FS_Interval
    <3> HIDE DEF data
    <3>4. IsFiniteSet({data[i] : i \in DOMAIN data})
      BY <3>2, <3>3, FiniteRange
    <3>5. IsFiniteSet(words)
      BY <3>2, <3>4
    <3> HIDE DEF words
    <3>6. IsFiniteSet({slot}) /\ IsFiniteSet(words)
      BY <3>5, FS_Singleton
    <3>7. QED
      BY <3>6, FS_Union
  <2>4. QED
    BY <2>1, <2>2, <2>3
<1>3. QED
  BY <1>1, <1>2

\* The slots that a turn of the loop writes and what it writes to them.
WrittenAt(v, i) ==
  /\ {ValuesSlot(i - 1), MappingSlot(102, v.address, 0), MappingSlot(103, v.address, 0),
      MappingSlot(103, v.address, 1)} \subseteq DOMAIN AddValidator(v, i)
  /\ \A s \in DOMAIN AddValidator(v, i) :
       s \in {ValuesSlot(i - 1), MappingSlot(102, v.address, 0),
              MappingSlot(103, v.address, 0), MappingSlot(103, v.address, 1)}
       \/ Tag(s) = "data"
  /\ AddValidator(v, i)[ValuesSlot(i - 1)] = Word(v.address)
  /\ AddValidator(v, i)[MappingSlot(102, v.address, 0)] = Word(i)
  /\ AddValidator(v, i)[MappingSlot(103, v.address, 0)]
       = <<"packed", ConfigWord(v.voting_power), FeeAddress(v)>>
  /\ v.key \in Nat => IsFiniteSet(DOMAIN AddValidator(v, i))

LEMMA Written ==
  ASSUME NEW v, NEW i
  PROVE  WrittenAt(v, i)
<1> DEFINE w == AddValidator(v, i)
           a == ValuesSlot(i - 1)
           b == MappingSlot(102, v.address, 0)
           c == MappingSlot(103, v.address, 0)
           put == put_dynamic_bytes(v.address, v.key)
           fa == Put(a, Word(v.address))
           fb == Put(b, Word(i))
           fc == Put(c, <<"packed", ConfigWord(v.voting_power), FeeAddress(v)>>)
<1>1. w = fa ++ fb ++ fc ++ put
  BY DEF AddValidator
<1>2. a # b /\ a # c /\ b # c
  BY Slots
<1>3. DOMAIN fa = {a} /\ DOMAIN fb = {b} /\ DOMAIN fc = {c}
  BY Single
<1>4. /\ fa[a] = Word(v.address) /\ fb[b] = Word(i)
      /\ fc[c] = <<"packed", ConfigWord(v.voting_power), FeeAddress(v)>>
  BY Single
<1> HIDE DEF fa, fb, fc, a, b, c, put, w
<1> DEFINE f == fa ++ fb
           g == f ++ fc
<1>5. /\ DOMAIN f = DOMAIN fa \cup DOMAIN fb
      /\ DOMAIN g = DOMAIN f \cup DOMAIN fc
      /\ DOMAIN w = DOMAIN g \cup DOMAIN put
  BY <1>1, Joined
<1>6. /\ \A x \in DOMAIN fa : f[x] = fa[x]
      /\ \A x \in DOMAIN fb : x \notin DOMAIN fa => f[x] = fb[x]
  BY Joined
<1>7. /\ \A x \in DOMAIN f : g[x] = f[x]
      /\ \A x \in DOMAIN fc : x \notin DOMAIN f => g[x] = fc[x]
  BY Joined
<1>8. \A x \in DOMAIN g : w[x] = g[x]
  <2>1. w = g ++ put
    BY <1>1
  <2> HIDE DEF f, g
  <2>2. \A x \in DOMAIN g : (g ++ put)[x] = g[x]
    BY Joined
  <2>3. QED
    BY <2>1, <2>2
<1> HIDE DEF f, g
<1>9. DOMAIN w = {a} \cup {b} \cup {c} \cup DOMAIN put
  BY <1>3, <1>5
<1>10. w[a] = fa[a] /\ w[b] = fb[b] /\ w[c] = fc[c]
  BY <1>2, <1>3, <1>5, <1>6, <1>7, <1>8
<1>11. /\ MappingSlot(103, v.address, 1) \in DOMAIN put
       /\ \A s \in DOMAIN put : s = MappingSlot(103, v.address, 1) \/ Tag(s) = "data"
       /\ v.key \in Nat => IsFiniteSet(DOMAIN put)
  BY KeySlots DEF put
<1>12. v.key \in Nat => IsFiniteSet(DOMAIN w)
  <2>1. SUFFICES ASSUME v.key \in Nat PROVE IsFiniteSet(DOMAIN w)
    OBVIOUS
  <2>2. IsFiniteSet({a} \cup {b})
    BY Finite
  <2>3. IsFiniteSet({a} \cup {b} \cup {c})
    BY <2>2, Finite
  <2>4. IsFiniteSet(DOMAIN put)
    BY <1>11, <2>1
  <2>5. QED
    BY <1>9, <2>3, <2>4, FS_Union
<1>13. \A s \in DOMAIN w : s \in {a, b, c, MappingSlot(103, v.address, 1)} \/ Tag(s) = "data"
  <2>1. SUFFICES ASSUME NEW s \in DOMAIN w, s \notin {a, b, c, MappingSlot(103, v.address, 1)}
                 PROVE  Tag(s) = "data"
    OBVIOUS
  <2>2. s \in DOMAIN put
    BY <1>9, <2>1
  <2>3. QED
    BY <1>11, <2>1, <2>2
<1>14. {a, b, c, MappingSlot(103, v.address, 1)} \subseteq DOMAIN w
  BY <1>9, <1>11
<1>15. QED
  BY <1>4, <1>10, <1>12, <1>13, <1>14 DEF WrittenAt, w, a, b, c
\* The slots of the validators: which there are and, since no address is listed twice,
\* what is written to those of the i-th.
LEMMA ValidatorStorage ==
  ASSUME NEW vs, IsList(vs), AcceptsValidators(vs), vs # <<>>
  PROVE  LET st == validator_storage(vs) IN
         /\ DOMAIN st = {Slot(101)} \cup UNION {DOMAIN AddValidator(vs[i], i) : i \in DOMAIN vs}
         /\ st[Slot(101)] = Word(Len(vs))
         /\ \A i \in DOMAIN vs :
              /\ st[ValuesSlot(i - 1)] = Word(vs[i].address)
              /\ st[MappingSlot(102, vs[i].address, 0)] = Word(i)
              /\ st[MappingSlot(103, vs[i].address, 0)]
                   = <<"packed", ConfigWord(vs[i].voting_power), FeeAddress(vs[i])>>
<1> DEFINE W(i) == AddValidator(vs[i], i)
           writes == [i \in DOMAIN vs |-> W(i)]
           writers(s) == {i \in DOMAIN vs : s \in DOMAIN writes[i]}
           all == UNION {DOMAIN writes[i] : i \in DOMAIN vs}
           written == [s \in all |-> writes[Max(writers(s))][s]]
           first == Put(Slot(101), Word(Len(vs)))
           st == validator_storage(vs)
<1>1. st = first ++ written
  BY DEF validator_storage
<1>2. DOMAIN vs \subseteq Nat
  BY ListIsFunction
<1>3. \A i \in DOMAIN vs : writes[i] = W(i)
  OBVIOUS
<1>4. \A i \in DOMAIN vs :
        /\ {ValuesSlot(i - 1), MappingSlot(102, vs[i].address, 0),
            MappingSlot(103, vs[i].address, 0)} \subseteq DOMAIN W(i)
        /\ \A s \in DOMAIN W(i) :
             \/ Tag(s) = "data"
             \/ s = ValuesSlot(i - 1)
             \/ s = MappingSlot(102, vs[i].address, 0)
             \/ s = MappingSlot(103, vs[i].address, 0)
             \/ s = MappingSlot(103, vs[i].address, 1)
        /\ W(i)[ValuesSlot(i - 1)] = Word(vs[i].address)
        /\ W(i)[MappingSlot(102, vs[i].address, 0)] = Word(i)
        /\ W(i)[MappingSlot(103, vs[i].address, 0)]
             = <<"packed", ConfigWord(vs[i].voting_power), FeeAddress(vs[i])>>
  <2>1. SUFFICES ASSUME NEW i \in DOMAIN vs
                 PROVE  /\ {ValuesSlot(i - 1), MappingSlot(102, vs[i].address, 0),
                            MappingSlot(103, vs[i].address, 0)} \subseteq DOMAIN W(i)
                        /\ \A s \in DOMAIN W(i) :
                             \/ Tag(s) = "data"
                             \/ s = ValuesSlot(i - 1)
                             \/ s = MappingSlot(102, vs[i].address, 0)
                             \/ s = MappingSlot(103, vs[i].address, 0)
                             \/ s = MappingSlot(103, vs[i].address, 1)
                        /\ W(i)[ValuesSlot(i - 1)] = Word(vs[i].address)
                        /\ W(i)[MappingSlot(102, vs[i].address, 0)] = Word(i)
                        /\ W(i)[MappingSlot(103, vs[i].address, 0)]
                             = <<"packed", ConfigWord(vs[i].voting_power), FeeAddress(vs[i])>>
    OBVIOUS
  <2>2. WrittenAt(vs[i], i)
    BY Written
  <2>3. QED
    BY <2>2 DEF WrittenAt
<1> HIDE DEF W
<1>5. DOMAIN first = {Slot(101)} /\ first[Slot(101)] = Word(Len(vs))
  BY Single
<1>6. DOMAIN written = all /\ all = UNION {DOMAIN W(i) : i \in DOMAIN vs}
  BY <1>3
<1>7. ASSUME NEW s, NEW i \in DOMAIN vs, writers(s) = {i}
      PROVE  s \in all /\ written[s] = W(i)[s]
  <2>1. i \in writers(s)
    BY <1>7
  <2>2. s \in all
    BY <2>1
  <2>3. Max({i}) = i
    BY <1>2 DEF Max
  <2>4. QED
    BY <1>3, <1>7, <2>2, <2>3
<1>8. ASSUME NEW s, NEW i \in DOMAIN vs, s \in DOMAIN W(i),
             \A j \in DOMAIN vs : s \in DOMAIN W(j) => j = i
      PROVE  writers(s) = {i}
  BY <1>3, <1>8
<1>9. ASSUME NEW i \in DOMAIN vs
      PROVE  /\ writers(ValuesSlot(i - 1)) = {i}
             /\ writers(MappingSlot(102, vs[i].address, 0)) = {i}
             /\ writers(MappingSlot(103, vs[i].address, 0)) = {i}
  <2> HIDE DEF writers, writes
  <2>1. ASSUME NEW j \in DOMAIN vs, ValuesSlot(i - 1) \in DOMAIN W(j)
        PROVE  j = i
    <3>1. ValuesSlot(i - 1) = ValuesSlot(j - 1)
      BY <1>4, <2>1, Slots
    <3>2. i - 1 = j - 1
      BY <3>1, Slots
    <3>3. QED
      BY <1>2, <3>2
  <2>2. ASSUME NEW j \in DOMAIN vs, MappingSlot(102, vs[i].address, 0) \in DOMAIN W(j)
        PROVE  j = i
    <3>1. MappingSlot(102, vs[i].address, 0) = MappingSlot(102, vs[j].address, 0)
      BY <1>4, <2>2, Slots
    <3>2. vs[i].address = vs[j].address
      BY <3>1, Slots
    <3>3. QED
      BY <3>2 DEF AcceptsValidators
  <2>3. ASSUME NEW j \in DOMAIN vs, MappingSlot(103, vs[i].address, 0) \in DOMAIN W(j)
        PROVE  j = i
    <3>1. MappingSlot(103, vs[i].address, 0) = MappingSlot(103, vs[j].address, 0)
      BY <1>4, <2>3, Slots
    <3>2. vs[i].address = vs[j].address
      BY <3>1, Slots
    <3>3. QED
      BY <3>2 DEF AcceptsValidators
  <2>4. QED
    BY <1>4, <1>8, <2>1, <2>2, <2>3
<1> HIDE DEF writers, writes, all, written, first, st
<1>10. ASSUME NEW i \in DOMAIN vs
       PROVE  /\ ValuesSlot(i - 1) \in all
              /\ written[ValuesSlot(i - 1)] = Word(vs[i].address)
              /\ MappingSlot(102, vs[i].address, 0) \in all
              /\ written[MappingSlot(102, vs[i].address, 0)] = Word(i)
              /\ MappingSlot(103, vs[i].address, 0) \in all
              /\ written[MappingSlot(103, vs[i].address, 0)]
                   = <<"packed", ConfigWord(vs[i].voting_power), FeeAddress(vs[i])>>
  <2>1. /\ written[ValuesSlot(i - 1)] = W(i)[ValuesSlot(i - 1)]
        /\ written[MappingSlot(102, vs[i].address, 0)] = W(i)[MappingSlot(102, vs[i].address, 0)]
        /\ written[MappingSlot(103, vs[i].address, 0)] = W(i)[MappingSlot(103, vs[i].address, 0)]
    BY <1>7, <1>9
  <2>2. /\ ValuesSlot(i - 1) \in all
        /\ MappingSlot(102, vs[i].address, 0) \in all
        /\ MappingSlot(103, vs[i].address, 0) \in all
    BY <1>7, <1>9
  <2>3. QED
    BY <1>4, <2>1, <2>2
<1>11. \A s : Tag(s) # "slot" => s # Slot(101)
  BY Slots
<1>12. DOMAIN st = {Slot(101)} \cup all
  <2>1. DOMAIN (first ++ written) = DOMAIN first \cup DOMAIN written
    BY Joined
  <2>2. QED
    BY <1>1, <1>5, <1>6, <2>1
<1>13. st[Slot(101)] = Word(Len(vs))
  <2>1. \A s \in DOMAIN first : (first ++ written)[s] = first[s]
    BY Joined
  <2>2. QED
    BY <1>1, <1>5, <2>1
<1>14. \A s \in all : s # Slot(101) => st[s] = written[s]
  <2>1. \A s \in DOMAIN written : s \notin DOMAIN first => (first ++ written)[s] = written[s]
    BY Joined
  <2>2. QED
    BY <1>1, <1>5, <1>6, <2>1
<1>15. ASSUME NEW i \in DOMAIN vs
       PROVE  /\ st[ValuesSlot(i - 1)] = Word(vs[i].address)
              /\ st[MappingSlot(102, vs[i].address, 0)] = Word(i)
              /\ st[MappingSlot(103, vs[i].address, 0)]
                   = <<"packed", ConfigWord(vs[i].voting_power), FeeAddress(vs[i])>>
  <2>1. /\ ValuesSlot(i - 1) # Slot(101)
        /\ MappingSlot(102, vs[i].address, 0) # Slot(101)
        /\ MappingSlot(103, vs[i].address, 0) # Slot(101)
    BY <1>11, Slots
  <2>2. QED
    BY <1>10, <1>14, <2>1
<1>16. QED
  BY <1>6, <1>12, <1>13, <1>15 DEF st, W
\* Which slots the validators' storage has.
LEMMA ValidatorSlots ==
  ASSUME NEW vs, IsList(vs), AcceptsValidators(vs), \A v \in ToSet(vs) : v.key \in Nat
  PROVE  /\ \A s \in DOMAIN validator_storage(vs) :
              s = Slot(101) \/ Tag(s) \in {"array", "map", "data"}
         /\ \A s \in DOMAIN validator_storage(vs) :
              Tag(s) = "map" => \E i \in DOMAIN vs : s[3] = vs[i].address
         /\ IsFiniteSet(DOMAIN validator_storage(vs))
<1>1. CASE vs = <<>>
  <2>1. DOMAIN validator_storage(vs) = {}
    BY <1>1 DEF validator_storage
  <2>2. QED
    BY <2>1, FS_EmptySet
<1>2. CASE vs # <<>>
  <2> DEFINE W == [i \in DOMAIN vs |-> DOMAIN AddValidator(vs[i], i)]
             st == validator_storage(vs)
  <2>1. DOMAIN st = {Slot(101)} \cup UNION {W[i] : i \in DOMAIN vs}
    <3>1. DOMAIN st = {Slot(101)} \cup UNION {DOMAIN AddValidator(vs[i], i) : i \in DOMAIN vs}
      BY <1>2, ValidatorStorage
    <3>2. UNION {DOMAIN AddValidator(vs[i], i) : i \in DOMAIN vs} = UNION {W[i] : i \in DOMAIN vs}
      OBVIOUS
    <3>3. QED
      BY <3>1, <3>2
  <2>2. ASSUME NEW i \in DOMAIN vs
        PROVE  /\ \A s \in W[i] :
                    \/ Tag(s) = "data" \/ Tag(s) = "array"
                    \/ Tag(s) = "map" /\ s[3] = vs[i].address
               /\ IsFiniteSet(W[i])
    <3>1. WrittenAt(vs[i], i)
      BY Written
    <3>2. vs[i].key \in Nat
      BY DEF ToSet
    <3>3. IsFiniteSet(W[i])
      BY <3>1, <3>2 DEF WrittenAt
    <3>4. ASSUME NEW s \in W[i]
          PROVE  \/ Tag(s) = "data" \/ Tag(s) = "array"
                 \/ Tag(s) = "map" /\ s[3] = vs[i].address
      <4>1. \/ Tag(s) = "data"
            \/ s = ValuesSlot(i - 1)
            \/ s = MappingSlot(102, vs[i].address, 0)
            \/ s = MappingSlot(103, vs[i].address, 0)
            \/ s = MappingSlot(103, vs[i].address, 1)
        BY <3>1 DEF WrittenAt
      <4>2. QED
        BY <4>1, Slots
    <3>5. QED
      BY <3>3, <3>4
  <2>3. DOMAIN W = DOMAIN vs /\ W = [i \in DOMAIN W |-> W[i]]
    OBVIOUS
  <2> HIDE DEF W, st
  <2>4. IsFiniteSet(UNION {W[i] : i \in DOMAIN W})
    BY <2>2, <2>3, ListIsFunction, FiniteUnion
  <2>5. IsFiniteSet(DOMAIN st)
    <3>1. IsFiniteSet(UNION {W[i] : i \in DOMAIN vs})
      BY <2>3, <2>4
    <3>2. IsFiniteSet({Slot(101)} \cup UNION {W[i] : i \in DOMAIN vs})
      BY <3>1, Finite
    <3>3. QED
      BY <2>1, <3>2, Zenon
  <2>6. \A s \in DOMAIN st : s = Slot(101) \/ Tag(s) \in {"array", "map", "data"}
    BY <2>1, <2>2
  <2>7. \A s \in DOMAIN st : Tag(s) = "map" => \E i \in DOMAIN vs : s[3] = vs[i].address
    <3>1. SUFFICES ASSUME NEW s \in DOMAIN st, Tag(s) = "map"
                   PROVE  \E i \in DOMAIN vs : s[3] = vs[i].address
      OBVIOUS
    <3>2. s # Slot(101)
      BY <3>1, Slots
    <3>3. PICK i \in DOMAIN vs : s \in W[i]
      BY <2>1, <3>2
    <3>4. QED
      BY <2>2, <3>1, <3>3
  <2>8. QED
    BY <2>5, <2>6, <2>7 DEF st
<1>3. QED
  BY <1>1, <1>2

\* What the requests' assumption says of a predeploy.
Typed(p) ==
  /\ p.address \in Nat /\ p.implementation \in Nat
  /\ IsFiniteSet(DOMAIN p.storage) /\ IsFiniteSet(DOMAIN p.system_config)
  /\ IsList(p.validators) /\ \A v \in ToSet(p.validators) : v.key \in Nat

\* The storage of a proxy, and which of its four parts a slot is in.
LEMMA ProxySlots ==
  ASSUME NEW p, NEW cfg, Typed(p), AcceptsValidators(p.validators)
  PROVE  LET st == ProxyStorage(p, cfg)
             vals == validator_storage(p.validators)
         IN
         /\ IsFiniteSet(DOMAIN st)
         /\ OZ_OWNER_SLOT \notin DOMAIN p.storage =>
              st[OZ_OWNER_SLOT] = Word(cfg.governance_owner)
         /\ EIP1967_ADMIN_SLOT \notin DOMAIN p.storage =>
              st[EIP1967_ADMIN_SLOT] = Word(cfg.proxy_admin)
         /\ p.storage = <<>> => /\ \A s \in DOMAIN vals : s \in DOMAIN st /\ st[s] = vals[s]
                                /\ \A s \in DOMAIN st : \/ s \in DOMAIN vals
                                                        \/ s # Slot(101) /\ Tag(s) # "map"
<1> DEFINE st == ProxyStorage(p, cfg)
           raw == RawStorage(p)
           vals == validator_storage(p.validators)
           sys == system_config_entry_storage(p.system_config)
           one == Put(OZ_INITIALIZED_SLOT, Word(1))
           two == Put(OZ_OWNER_SLOT, Word(cfg.governance_owner))
           three == Put(EIP1967_IMPLEMENTATION_SLOT, Word(p.implementation))
           four == Put(EIP1967_ADMIN_SLOT, Word(cfg.proxy_admin))
<1>1. st = raw ++ vals ++ sys ++ (one ++ two ++ three ++ four)
  BY DEF ProxyStorage
<1>2. DOMAIN raw = DOMAIN p.storage /\ IsFiniteSet(DOMAIN raw)
  BY DEF RawStorage, Typed
<1>3. /\ \A s \in DOMAIN vals : s = Slot(101) \/ Tag(s) \in {"array", "map", "data"}
      /\ IsFiniteSet(DOMAIN vals)
  BY ValidatorSlots DEF Typed
<1>4. (\A s \in DOMAIN sys : Tag(s) = "entry") /\ IsFiniteSet(DOMAIN sys)
  <2> DEFINE slots == [k \in DOMAIN p.system_config |-> EntrySlot(k)]
  <2>1. DOMAIN sys = {slots[k] : k \in DOMAIN slots}
    BY DEF system_config_entry_storage
  <2>2. \A k \in DOMAIN slots : Tag(slots[k]) = "entry"
    BY Slots
  <2>3. IsFiniteSet(DOMAIN slots) /\ slots = [k \in DOMAIN slots |-> slots[k]]
    BY DEF Typed
  <2> HIDE DEF slots
  <2>4. QED
    BY <2>1, <2>2, <2>3, FiniteRange
<1>5. /\ DOMAIN one = {Slot(0)}
      /\ DOMAIN two = {OZ_OWNER_SLOT} /\ two[OZ_OWNER_SLOT] = Word(cfg.governance_owner)
      /\ DOMAIN three = {EIP1967_IMPLEMENTATION_SLOT}
      /\ DOMAIN four = {EIP1967_ADMIN_SLOT} /\ four[EIP1967_ADMIN_SLOT] = Word(cfg.proxy_admin)
  BY Single, Slots
<1>6. /\ OZ_OWNER_SLOT = Slot(51) /\ Slot(51) # Slot(0) /\ Slot(101) # Slot(0)
      /\ Slot(101) # Slot(51) /\ Tag(Slot(51)) = "slot" /\ Tag(Slot(0)) = "slot"
      /\ Tag(EIP1967_ADMIN_SLOT) = "eip1967" /\ Tag(EIP1967_IMPLEMENTATION_SLOT) = "eip1967"
      /\ EIP1967_ADMIN_SLOT # EIP1967_IMPLEMENTATION_SLOT /\ Tag(Slot(101)) = "slot"
  BY Slots
<1> HIDE DEF st, raw, vals, sys, one, two, three, four
<1> DEFINE f2 == one ++ two
           f3 == f2 ++ three
           f4 == f3 ++ four
           g2 == raw ++ vals
           g3 == g2 ++ sys
<1>7. st = g3 ++ f4
  BY <1>1
<1>8. DOMAIN f2 = DOMAIN one \cup DOMAIN two
  BY Joined
<1>9. DOMAIN g2 = DOMAIN raw \cup DOMAIN vals
  BY Joined
<1>10. \A s \in DOMAIN two : s \notin DOMAIN one => f2[s] = two[s]
  BY Joined
<1>11. \A s \in DOMAIN vals : s \notin DOMAIN raw => g2[s] = vals[s]
  BY Joined
<1> HIDE DEF f2, g2
<1>12. DOMAIN f3 = DOMAIN f2 \cup DOMAIN three /\ \A s \in DOMAIN f2 : f3[s] = f2[s]
  BY Joined
<1>13. DOMAIN g3 = DOMAIN g2 \cup DOMAIN sys /\ \A s \in DOMAIN g2 : g3[s] = g2[s]
  BY Joined
<1> HIDE DEF f3, g3
<1>14. DOMAIN f4 = DOMAIN f3 \cup DOMAIN four
  BY Joined
<1>15. \A s \in DOMAIN f3 : f4[s] = f3[s]
  BY Joined
<1>16. \A s \in DOMAIN four : s \notin DOMAIN f3 => f4[s] = four[s]
  BY Joined
<1> HIDE DEF f4
<1>17. DOMAIN st = DOMAIN g3 \cup DOMAIN f4
  <2>1. DOMAIN (g3 ++ f4) = DOMAIN g3 \cup DOMAIN f4
    BY Joined
  <2>2. QED
    BY <1>7, <2>1
<1>18. \A s \in DOMAIN g3 : st[s] = g3[s]
  <2>1. \A s \in DOMAIN g3 : (g3 ++ f4)[s] = g3[s]
    BY Joined
  <2>2. QED
    BY <1>7, <2>1
<1>19. \A s \in DOMAIN f4 : s \notin DOMAIN g3 => st[s] = f4[s]
  <2>1. \A s \in DOMAIN f4 : s \notin DOMAIN g3 => (g3 ++ f4)[s] = f4[s]
    BY Joined
  <2>2. QED
    BY <1>7, <2>1
<1>20. IsFiniteSet(DOMAIN st)
  <2>0. IsFiniteSet(DOMAIN one) /\ IsFiniteSet(DOMAIN two) /\ IsFiniteSet(DOMAIN three)
          /\ IsFiniteSet(DOMAIN four)
    BY <1>5, Finite
  <2>1. IsFiniteSet(DOMAIN f2)
    BY <1>8, <2>0, Finite
  <2>2. IsFiniteSet(DOMAIN f3)
    BY <1>12, <2>0, <2>1, Finite
  <2>3. IsFiniteSet(DOMAIN f4)
    BY <1>14, <2>0, <2>2, Finite
  <2>4. IsFiniteSet(DOMAIN g2)
    BY <1>2, <1>3, <1>9, FS_Union
  <2>5. IsFiniteSet(DOMAIN g3)
    BY <1>4, <1>13, <2>4, FS_Union
  <2>6. QED
    BY <1>17, <2>3, <2>5, FS_Union
<1>21. ASSUME OZ_OWNER_SLOT \notin DOMAIN p.storage
       PROVE  st[OZ_OWNER_SLOT] = Word(cfg.governance_owner)
  <2>1. OZ_OWNER_SLOT \notin DOMAIN vals /\ OZ_OWNER_SLOT \notin DOMAIN sys
    BY <1>3, <1>4, <1>6
  <2>2. OZ_OWNER_SLOT \notin DOMAIN g3
    BY <1>2, <1>9, <1>13, <1>21, <2>1
  <2>3. OZ_OWNER_SLOT \in DOMAIN f2 /\ f2[OZ_OWNER_SLOT] = two[OZ_OWNER_SLOT]
    BY <1>5, <1>6, <1>8, <1>10
  <2>4. OZ_OWNER_SLOT \in DOMAIN f4 /\ f4[OZ_OWNER_SLOT] = f2[OZ_OWNER_SLOT]
    BY <1>12, <1>14, <1>15, <2>3
  <2>5. QED
    BY <1>5, <1>19, <2>2, <2>3, <2>4
<1>22. ASSUME EIP1967_ADMIN_SLOT \notin DOMAIN p.storage
       PROVE  st[EIP1967_ADMIN_SLOT] = Word(cfg.proxy_admin)
  <2>1. EIP1967_ADMIN_SLOT \notin DOMAIN vals /\ EIP1967_ADMIN_SLOT \notin DOMAIN sys
    BY <1>3, <1>4, <1>6
  <2>2. EIP1967_ADMIN_SLOT \notin DOMAIN g3
    BY <1>2, <1>9, <1>13, <1>22, <2>1
  <2>3. EIP1967_ADMIN_SLOT \notin DOMAIN f3
    BY <1>5, <1>6, <1>8, <1>12
  <2>4. EIP1967_ADMIN_SLOT \in DOMAIN f4 /\ f4[EIP1967_ADMIN_SLOT] = four[EIP1967_ADMIN_SLOT]
    BY <1>5, <1>14, <1>16, <2>3
  <2>5. QED
    BY <1>5, <1>19, <2>2, <2>4
<1>23. ASSUME p.storage = <<>>
       PROVE  /\ \A s \in DOMAIN vals : s \in DOMAIN st /\ st[s] = vals[s]
              /\ \A s \in DOMAIN st : \/ s \in DOMAIN vals
                                      \/ s # Slot(101) /\ Tag(s) # "map"
  <2>1. DOMAIN raw = {}
    BY <1>2, <1>23
  <2>2. \A s \in DOMAIN vals : s \in DOMAIN st /\ st[s] = vals[s]
    BY <1>9, <1>11, <1>13, <1>17, <1>18, <2>1
  <2>3. DOMAIN f4 = {Slot(0), OZ_OWNER_SLOT, EIP1967_IMPLEMENTATION_SLOT, EIP1967_ADMIN_SLOT}
    BY <1>5, <1>8, <1>12, <1>14
  <2>4. \A s \in DOMAIN f4 : s # Slot(101) /\ Tag(s) # "map"
    BY <1>6, <2>3
  <2>5. \A s \in DOMAIN sys : s # Slot(101) /\ Tag(s) # "map"
    BY <1>4, <1>6
  <2>6. DOMAIN st = DOMAIN vals \cup DOMAIN sys \cup DOMAIN f4
    BY <1>9, <1>13, <1>17, <2>1
  <2>7. QED
    BY <2>2, <2>4, <2>5, <2>6
<1>24. QED
  BY <1>20, <1>21, <1>22, <1>23 DEF st, vals
\* The validators of a proxy without entries of its own are an EnumerableSet.
LEMMA SoundSet ==
  ASSUME NEW p, NEW cfg, Typed(p), AcceptsValidators(p.validators), p.storage = <<>>
  PROVE  SetSound(ProxyStorage(p, cfg))
<1> DEFINE st == ProxyStorage(p, cfg)
           vs == p.validators
           vals == validator_storage(vs)
           size == IF Slot(101) \in DOMAIN st THEN st[Slot(101)][2] ELSE 0
           members == {st[ValuesSlot(i)][2] : i \in 0..(size - 1)}
           keys == {s[3] : s \in {t \in DOMAIN st : t[1] = "map"}}
<1>1. /\ \A s \in DOMAIN vals : s \in DOMAIN st /\ st[s] = vals[s]
      /\ \A s \in DOMAIN st : \/ s \in DOMAIN vals
                              \/ s # Slot(101) /\ Tag(s) # "map"
  BY ProxySlots
<1>2. \A s \in DOMAIN vals : Tag(s) = "map" => \E i \in DOMAIN vs : s[3] = vs[i].address
  BY ValidatorSlots DEF Typed
<1>3. IsList(vs) /\ DOMAIN vs = 1..Len(vs) /\ Len(vs) \in Nat
  BY ListIsFunction DEF Typed
<1>4. keys = {s[3] : s \in {t \in DOMAIN st : Tag(t) = "map"}}
  BY DEF Tag
<1>5. \A n : Word(n)[2] = n
  BY DEF Word
<1> HIDE DEF st, vs, vals
<1>6. CASE vs = <<>>
  <2>1. DOMAIN vals = {}
    BY <1>6 DEF vals, validator_storage
  <2>2. size = 0
    BY <1>1, <2>1
  <2>3. 0..(size - 1) = {}
    BY <2>2
  <2>4. members = {}
    BY <2>3
  <2>5. keys = {}
    BY <1>1, <1>4, <2>1
  <2>6. QED
    BY <2>3, <2>4, <2>5 DEF SetSound, st
<1>7. CASE vs # <<>>
  <2>1. /\ Slot(101) \in DOMAIN vals /\ vals[Slot(101)] = Word(Len(vs))
        /\ \A i \in DOMAIN vs : DOMAIN AddValidator(vs[i], i) \subseteq DOMAIN vals
        /\ \A i \in DOMAIN vs :
             /\ vals[ValuesSlot(i - 1)] = Word(vs[i].address)
             /\ vals[MappingSlot(102, vs[i].address, 0)] = Word(i)
             /\ vals[MappingSlot(103, vs[i].address, 0)]
                  = <<"packed", ConfigWord(vs[i].voting_power), FeeAddress(vs[i])>>
    <3>1. AcceptsValidators(vs)
      BY DEF vs
    <3>2. DOMAIN vals = {Slot(101)} \cup UNION {DOMAIN AddValidator(vs[i], i) : i \in DOMAIN vs}
      BY <1>3, <1>7, <3>1, ValidatorStorage DEF vals
    <3>3. QED
      BY <1>3, <1>7, <3>1, <3>2, ValidatorStorage DEF vals
  <2>2. size = Len(vs)
    BY <1>1, <1>5, <2>1
  <2>3. ASSUME NEW i \in DOMAIN vs
        PROVE  /\ st[ValuesSlot(i - 1)] = Word(vs[i].address)
               /\ st[MappingSlot(102, vs[i].address, 0)] = Word(i)
               /\ st[MappingSlot(103, vs[i].address, 0)]
                    = <<"packed", ConfigWord(vs[i].voting_power), FeeAddress(vs[i])>>
               /\ MappingSlot(102, vs[i].address, 0) \in DOMAIN st
    <3>1. WrittenAt(vs[i], i)
      BY Written
    <3>2. /\ ValuesSlot(i - 1) \in DOMAIN AddValidator(vs[i], i)
          /\ MappingSlot(102, vs[i].address, 0) \in DOMAIN AddValidator(vs[i], i)
          /\ MappingSlot(103, vs[i].address, 0) \in DOMAIN AddValidator(vs[i], i)
      BY <3>1 DEF WrittenAt
    <3>3. /\ ValuesSlot(i - 1) \in DOMAIN vals
          /\ MappingSlot(102, vs[i].address, 0) \in DOMAIN vals
          /\ MappingSlot(103, vs[i].address, 0) \in DOMAIN vals
      BY <2>1, <3>2
    <3>4. QED
      BY <1>1, <2>1, <3>3
  <2>4. ASSUME NEW i \in 0..(size - 1)
        PROVE  i + 1 \in DOMAIN vs /\ st[ValuesSlot(i)] = Word(vs[i + 1].address)
    <3>1. i + 1 \in DOMAIN vs /\ (i + 1) - 1 = i
      BY <1>3, <2>2
    <3>2. QED
      BY <2>3, <3>1
  <2> HIDE DEF size
  <2>5. \A i \in 0..(size - 1) : st[ValuesSlot(i)][2] = vs[i + 1].address
    BY <1>5, <2>4
  <2>6. \A i \in 0..(size - 1) :
          st[MappingSlot(102, st[ValuesSlot(i)][2], 0)] = Word(i + 1)
    BY <2>3, <2>4, <2>5
  <2>7. \A a \in members : \E i \in DOMAIN vs : a = vs[i].address
    BY <2>4, <2>5
  <2>8. \A a \in members : st[MappingSlot(103, a, 0)][3] \notin {0, Dead}
    <3>1. SUFFICES ASSUME NEW i \in DOMAIN vs
                   PROVE  st[MappingSlot(103, vs[i].address, 0)][3] \notin {0, Dead}
      BY <2>7
    <3>2. st[MappingSlot(103, vs[i].address, 0)][3] = FeeAddress(vs[i])
      <4>1. \A x, y, t : t = <<"packed", x, y>> => t[3] = y
        OBVIOUS
      <4>2. st[MappingSlot(103, vs[i].address, 0)]
              = <<"packed", ConfigWord(vs[i].voting_power), FeeAddress(vs[i])>>
        BY <2>3
      <4>3. QED
        BY <4>1, <4>2
    <3>3. FeeAddress(vs[i]) \notin {0, Dead}
      BY DEF AcceptsValidators, vs
    <3>4. QED
      BY <3>2, <3>3
  <2>9. \A i \in DOMAIN vs : vs[i].address \in members
    <3>1. SUFFICES ASSUME NEW i \in DOMAIN vs PROVE vs[i].address \in members
      OBVIOUS
    <3>2. i - 1 \in 0..(size - 1) /\ (i - 1) + 1 = i
      BY <1>3, <2>2
    <3>3. st[ValuesSlot(i - 1)][2] = vs[i].address
      BY <2>5, <3>2
    <3>4. QED
      BY <3>2, <3>3
  <2>10. keys \subseteq members
    <3>1. ASSUME NEW s \in DOMAIN st, Tag(s) = "map"
          PROVE  s[3] \in members
      <4>1. s \in DOMAIN vals
        BY <1>1, <3>1
      <4>2. QED
        BY <1>2, <2>9, <3>1, <4>1
    <3>2. QED
      BY <1>4, <3>1
  <2>11. members \subseteq keys
    <3>1. SUFFICES ASSUME NEW i \in DOMAIN vs PROVE vs[i].address \in keys
      BY <2>7
    <3>2. MappingSlot(102, vs[i].address, 0) \in DOMAIN st
      BY <2>3
    <3>3. /\ Tag(MappingSlot(102, vs[i].address, 0)) = "map"
          /\ MappingSlot(102, vs[i].address, 0)[3] = vs[i].address
      BY Slots
    <3>4. QED
      BY <1>4, <3>2, <3>3
  <2>12. keys = members
    BY <2>10, <2>11
  <2>13. QED
    BY <2>6, <2>8, <2>12 DEF SetSound, size, st
<1>8. QED
  BY <1>6, <1>7

-----------------------------------------------------------------------------
(* The overlay of one predeploy.                                            *)

\* all is m and two accounts more.
Adds(p, cfg, b, m, all) ==
  /\ DOMAIN all = DOMAIN m \cup {p.address, p.implementation}
  /\ IsFiniteSet(DOMAIN all)
  /\ Cardinality(DOMAIN all) = Cardinality(DOMAIN m) + 2
  /\ \A a \in DOMAIN m : all[a] = m[a]
  /\ all[p.address] = ProxyAlloc(p, cfg, b)
  /\ all[p.implementation] = ImplementationAlloc(p)

LEMMA Overlaid ==
  ASSUME NEW p, NEW cfg, NEW b, NEW m, Overlays(p, cfg, b, m), IsFiniteSet(DOMAIN m)
  PROVE  Adds(p, cfg, b, m, Overlay(p, cfg, b, m))
<1> DEFINE x == p.address
           y == p.implementation
           proxy == Put(x, ProxyAlloc(p, cfg, b))
           code == Put(y, ImplementationAlloc(p))
           two == proxy ++ code
           all == Overlay(p, cfg, b, m)
<1>1. x # y /\ x \notin DOMAIN m /\ y \notin DOMAIN m
  BY DEF Overlays, Builds
<1>2. all = two ++ m
  BY DEF Overlay
<1>3. /\ DOMAIN proxy = {x} /\ proxy[x] = ProxyAlloc(p, cfg, b)
      /\ DOMAIN code = {y} /\ code[y] = ImplementationAlloc(p)
  BY Single
<1> HIDE DEF proxy, code, x, y, all
<1>4. DOMAIN two = DOMAIN proxy \cup DOMAIN code
  BY Joined
<1>5. \A k \in DOMAIN proxy : two[k] = proxy[k]
  BY Joined
<1>6. \A k \in DOMAIN code : k \notin DOMAIN proxy => two[k] = code[k]
  BY Joined
<1> HIDE DEF two
<1>7. DOMAIN (two ++ m) = DOMAIN two \cup DOMAIN m
  BY Joined
<1>8. \A k \in DOMAIN two : (two ++ m)[k] = two[k]
  BY Joined
<1>9. \A k \in DOMAIN m : k \notin DOMAIN two => (two ++ m)[k] = m[k]
  BY Joined
<1>10. DOMAIN two = {x, y} /\ two[x] = ProxyAlloc(p, cfg, b) /\ two[y] = ImplementationAlloc(p)
  BY <1>1, <1>3, <1>4, <1>5, <1>6
<1>11. DOMAIN all = DOMAIN m \cup {x, y}
  BY <1>2, <1>7, <1>10
<1>12. /\ \A a \in DOMAIN m : all[a] = m[a]
       /\ all[x] = ProxyAlloc(p, cfg, b) /\ all[y] = ImplementationAlloc(p)
  BY <1>1, <1>2, <1>8, <1>9, <1>10
<1>13. /\ IsFiniteSet(DOMAIN m \cup {x})
       /\ Cardinality(DOMAIN m \cup {x}) = Cardinality(DOMAIN m) + 1
  BY <1>1, FS_AddElement
<1>14. /\ IsFiniteSet((DOMAIN m \cup {x}) \cup {y})
       /\ Cardinality((DOMAIN m \cup {x}) \cup {y}) = Cardinality(DOMAIN m \cup {x}) + 1
  BY <1>1, <1>13, FS_AddElement
<1>15. DOMAIN all = (DOMAIN m \cup {x}) \cup {y}
  BY <1>11
<1>16. Cardinality(DOMAIN m) \in Nat
  BY FS_CardinalityType
<1>17. IsFiniteSet(DOMAIN all) /\ Cardinality(DOMAIN all) = Cardinality(DOMAIN m) + 2
  BY <1>13, <1>14, <1>15, <1>16
<1>18. QED
  BY <1>11, <1>12, <1>17 DEF Adds, all, x, y
-----------------------------------------------------------------------------
(* The invariant is inductive.                                              *)

\* What is assumed of the request that is built.
LEMMA Request ==
  ASSUME request \in Requests
  PROVE  /\ IsList(request.base) /\ IsList(request.cfg.predeploys)
         /\ \A i \in DOMAIN request.base :
              /\ request.base[i].address \in Nat /\ request.base[i].nonce \in Nat
              /\ IsFiniteSet(DOMAIN request.base[i].storage)
         /\ Len(request.cfg.predeploys) \in Nat
         /\ \A i \in 1..Len(request.cfg.predeploys) : Typed(request.cfg.predeploys[i])
<1>1. /\ IsList(request.base) /\ IsList(request.cfg.predeploys)
      /\ \A account \in ToSet(request.base) :
           /\ account.address \in Nat /\ account.nonce \in Nat
           /\ IsFiniteSet(DOMAIN account.storage)
      /\ \A p \in ToSet(request.cfg.predeploys) : Typed(p)
  BY RequestsAssumption DEF Typed
<1>2. /\ Len(request.cfg.predeploys) \in Nat
      /\ DOMAIN request.cfg.predeploys = 1..Len(request.cfg.predeploys)
  BY <1>1, ListIsFunction
<1>3. \A i \in DOMAIN request.base : request.base[i] \in ToSet(request.base)
  BY DEF ToSet
<1>4. \A i \in DOMAIN request.cfg.predeploys :
        request.cfg.predeploys[i] \in ToSet(request.cfg.predeploys)
  BY DEF ToSet
<1>5. QED
  BY <1>1, <1>2, <1>3, <1>4

\* Numbered accounts whose nonces fit, with finitely many slots.
Accounts(accounts) ==
  /\ \A a \in DOMAIN accounts : a \in Nat /\ accounts[a].nonce \in 0..(Pow64 - 1)
  /\ IsFiniteSet(DOMAIN accounts)
  /\ \A a \in DOMAIN accounts : IsFiniteSet(DOMAIN accounts[a].storage)

LEMMA NoAccounts == Accounts(<<>>) /\ DOMAIN <<>> = {}
BY FS_EmptySet DEF Accounts

LEMMA Loaded ==
  ASSUME request \in Requests, LoadsBase(request.base)
  PROVE  Accounts(load_base_allocs(request.base))
<1> DEFINE b == request.base
           addresses == [i \in DOMAIN b |-> b[i].address]
           all == load_base_allocs(b)
           at(a) == b[CHOOSE i \in DOMAIN b : b[i].address = a]
<1>1. /\ IsList(b)
      /\ \A i \in DOMAIN b : /\ b[i].address \in Nat /\ b[i].nonce \in Nat
                             /\ IsFiniteSet(DOMAIN b[i].storage)
  BY Request
<1>2. \A i \in DOMAIN b : b[i].nonce < Pow64
  BY DEF LoadsBase
<1>3. all = [a \in {b[i].address : i \in DOMAIN b} |->
              [nonce |-> at(a).nonce, code |-> at(a).code,
               storage |-> [s \in NonZero(at(a).storage) |-> at(a).storage[s]]]]
  BY DEF load_base_allocs
<1>4. IsFiniteSet({addresses[i] : i \in DOMAIN addresses})
  <2>1. IsFiniteSet(DOMAIN addresses) /\ addresses = [i \in DOMAIN addresses |-> addresses[i]]
    BY <1>1, ListIsFunction
  <2> HIDE DEF addresses
  <2>2. QED
    BY <2>1, FiniteRange
<1>5. DOMAIN all = {addresses[i] : i \in DOMAIN addresses}
  <2>1. DOMAIN all = {b[i].address : i \in DOMAIN b}
    BY <1>3
  <2> HIDE DEF all
  <2>2. QED
    BY <2>1
<1>6. ASSUME NEW a \in DOMAIN all
      PROVE  /\ a \in Nat /\ all[a].nonce \in 0..(Pow64 - 1)
             /\ IsFiniteSet(DOMAIN all[a].storage)
  <2>1. \E i \in DOMAIN b : b[i].address = a
    BY <1>3
  <2>2. PICK i \in DOMAIN b : b[i].address = a /\ at(a) = b[i]
    BY <2>1
  <2> HIDE DEF at
  <2>3. /\ all[a].nonce = b[i].nonce
        /\ DOMAIN all[a].storage = NonZero(b[i].storage)
    BY <1>3, <2>2
  <2>4. IsFiniteSet(NonZero(b[i].storage))
    BY <1>1, FS_Subset DEF NonZero
  <2>5. a \in Nat /\ all[a].nonce \in 0..(Pow64 - 1)
    BY <1>1, <1>2, <2>2, <2>3, BuildAssumption
  <2>6. QED
    BY <2>3, <2>4, <2>5
<1>7. IsFiniteSet(DOMAIN all)
  BY <1>4, <1>5
<1>8. QED
  BY <1>6, <1>7 DEF Accounts

LEMMA OverlaidAccounts ==
  ASSUME NEW p, NEW cfg, NEW b, NEW m, Overlays(p, cfg, b, m), Accounts(m), Typed(p)
  PROVE  Accounts(Overlay(p, cfg, b, m))
<1> DEFINE all == Overlay(p, cfg, b, m)
<1>1. IsFiniteSet(DOMAIN m) /\ AcceptsValidators(p.validators)
  BY DEF Accounts, Overlays, Builds
<1>2. /\ DOMAIN all = DOMAIN m \cup {p.address, p.implementation}
      /\ IsFiniteSet(DOMAIN all)
      /\ \A a \in DOMAIN m : all[a] = m[a]
      /\ all[p.address] = ProxyAlloc(p, cfg, b)
      /\ all[p.implementation] = ImplementationAlloc(p)
  <2>1. Adds(p, cfg, b, m, all)
    BY <1>1, Overlaid
  <2> HIDE DEF all
  <2>2. QED
    BY <2>1 DEF Adds
<1> HIDE DEF all
<1>3. 0 \in 0..(Pow64 - 1)
  BY BuildAssumption
<1>4. /\ all[p.address].nonce = 0 /\ all[p.implementation].nonce = 0
      /\ all[p.address].storage = ProxyStorage(p, cfg)
      /\ all[p.implementation].storage = Put(OZ_INITIALIZED_SLOT, Word(255))
  BY <1>2 DEF ProxyAlloc, ImplementationAlloc
<1>5. IsFiniteSet(DOMAIN ProxyStorage(p, cfg))
  BY <1>1, ProxySlots
<1>6. IsFiniteSet(DOMAIN Put(OZ_INITIALIZED_SLOT, Word(255)))
  <2>1. DOMAIN Put(OZ_INITIALIZED_SLOT, Word(255)) = {OZ_INITIALIZED_SLOT}
    BY Single
  <2>2. QED
    BY <2>1, Finite
<1>7. ASSUME NEW a \in DOMAIN all
      PROVE  /\ a \in Nat /\ all[a].nonce \in 0..(Pow64 - 1)
             /\ IsFiniteSet(DOMAIN all[a].storage)
  BY <1>2, <1>3, <1>4, <1>5, <1>6 DEF Accounts, Typed
<1>8. QED
  BY <1>2, <1>7 DEF all, Accounts
\* The accounts of the three places, as TypeOK and Merging speak of them.
LEMMA TypedAccounts ==
  TypeOK /\ Merging => Accounts(merged) /\ \A a \in DOMAIN base : a \in Nat /\ base[a].nonce \in Nat
BY BuildAssumption DEF TypeOK, Merging, Accounts

\* Steps that compare nothing.
LEMMA StillNothing ==
  ASSUME Compared, pc # "done", UNCHANGED verdict
  PROVE  Compared'
BY DEF Compared, DiffTellsApart

LEMMA SameMerge ==
  ASSUME Merging, UNCHANGED <<request, base, merged, todo>>
  PROVE  Merging'
BY DEF Merging

LEMMA Begin == Init => IInv
<1>1. SUFFICES ASSUME Init PROVE IInv
  OBVIOUS
<1>2. /\ request \in Requests \cup {None} /\ base = <<>> /\ merged = <<>> /\ todo = 1
      /\ file = <<>> /\ json = <<>> /\ header = <<>> /\ verdict = <<>>
      /\ pc = IF request = None THEN "file" ELSE "provenance"
  BY <1>1 DEF Init
<1>3. TypeOK
  <2>1. \A accounts \in {base, merged, json} : DOMAIN accounts = {}
    BY <1>2
  <2>2. request # None => todo \in 1..(Len(request.cfg.predeploys) + 1)
    BY <1>2, Request
  <2>3. DOMAIN file = {}
    BY <1>2
  <2>4. QED
    BY <1>2, <2>1, <2>2, <2>3 DEF TypeOK
<1>4. Order
  BY <1>2 DEF Order
<1>5. HandWritten
  <2>1. <<>> \in Seq(HandLines)
    OBVIOUS
  <2>2. QED
    BY <1>2, <2>1 DEF HandWritten
<1>6. Merging
  <2>1. DOMAIN base = {} /\ DOMAIN merged = {} /\ todo - 1 = 0 /\ 1..(todo - 1) = {}
    BY <1>2
  <2>2. Cardinality({}) = 0 /\ IsFiniteSet({})
    BY FS_EmptySet
  <2>3. QED
    BY <2>1, <2>2 DEF Merging
<1>7. Compared
  BY <1>2 DEF Compared, DiffTellsApart
<1>8. QED
  BY <1>3, <1>4, <1>5, <1>6, <1>7 DEF IInv

\* A step of main that only moves on, or fails.
LEMMA MoveOn ==
  ASSUME IInv, pc \in {"provenance", "expected"},
         pc' \in {"base", "overlay", "refused"},
         UNCHANGED <<request, base, merged, todo, file, json, header, verdict>>
  PROVE  IInv'
<1>1. request # None /\ todo = 1 /\ json = <<>> /\ header = <<>>
  BY DEF IInv, HandWritten, Order, TypeOK
<1>2. TypeOK'
  BY <1>1 DEF IInv, TypeOK
<1>3. Order' /\ HandWritten'
  BY <1>1 DEF Order, HandWritten
<1>4. Merging' /\ Compared'
  BY SameMerge, StillNothing DEF IInv
<1>5. QED
  BY <1>2, <1>3, <1>4 DEF IInv

LEMMA VerifyProvenanceKeeps == IInv /\ VerifyProvenance => IInv'
BY MoveOn DEF VerifyProvenance, Stage, build

LEMMA CheckExpectedKeeps == IInv /\ CheckExpected => IInv'
BY MoveOn DEF CheckExpected, Stage, build

LEMMA LoadBaseKeeps == IInv /\ LoadBase => IInv'
<1>1. SUFFICES ASSUME IInv, LoadBase PROVE IInv'
  OBVIOUS
<1>2. /\ pc = "base" /\ pc' \in {"expected", "refused"} /\ merged' = base'
      /\ base' = IF LoadsBase(request.base) THEN load_base_allocs(request.base) ELSE base
      /\ UNCHANGED <<request, todo, file, json, header, verdict>>
  BY <1>1 DEF LoadBase, Stage
<1>3. request # None /\ request \in Requests /\ todo = 1 /\ json = <<>> /\ header = <<>>
  BY <1>1, <1>2 DEF IInv, HandWritten, Order, TypeOK
<1>4. Accounts(base')
  <2>1. CASE LoadsBase(request.base)
    BY <1>2, <1>3, <2>1, Loaded
  <2>2. CASE ~LoadsBase(request.base)
    <3>1. \A a \in DOMAIN base : a \in DOMAIN merged /\ merged[a] = base[a]
      BY <1>1 DEF IInv, Merging
    <3>2. Accounts(merged) /\ IsFiniteSet(DOMAIN base)
      BY <1>1, TypedAccounts DEF IInv, Merging
    <3>3. Accounts(base)
      BY <3>1, <3>2 DEF Accounts
    <3>4. QED
      BY <1>2, <2>2, <3>3
  <2>3. QED
    BY <2>1, <2>2
<1>5. TypeOK'
  <2>1. DOMAIN json' = {}
    BY <1>2, <1>3
  <2>2. \A accounts \in {base', merged', json'} : \A a \in DOMAIN accounts :
          a \in Nat /\ accounts[a].nonce \in 0..(Pow64 - 1)
    BY <1>2, <1>4, <2>1 DEF Accounts
  <2>3. QED
    BY <1>1, <1>2, <1>3, <2>2 DEF IInv, TypeOK
<1>6. Order' /\ HandWritten'
  BY <1>2, <1>3 DEF Order, HandWritten
<1>7. Merging'
  <2>1. todo' - 1 = 0 /\ 1..(todo' - 1) = {}
    BY <1>2, <1>3
  <2>2. Cardinality(DOMAIN base') \in Nat
    BY <1>4, FS_CardinalityType DEF Accounts
  <2>3. Cardinality(DOMAIN merged') = Cardinality(DOMAIN base') + 2 * (todo' - 1)
    BY <1>2, <2>1, <2>2
  <2>4. QED
    BY <1>2, <1>4, <2>1, <2>3 DEF Merging, Accounts
<1>8. Compared'
  BY <1>1, <1>2, StillNothing DEF IInv
<1>9. QED
  BY <1>5, <1>6, <1>7, <1>8 DEF IInv

LEMMA OverlayPredeployKeeps == IInv /\ OverlayPredeploy => IInv'
<1> DEFINE ps == request.cfg.predeploys
           p == ps[todo]
           cfg == request.cfg
           ok == Overlays(p, cfg, base, merged)
<1>1. SUFFICES ASSUME IInv, OverlayPredeploy PROVE IInv'
  OBVIOUS
<1>2. /\ pc = "overlay" /\ todo <= Len(ps)
      /\ pc' = IF ok THEN "overlay" ELSE "refused"
      /\ merged' = IF ok THEN Overlay(p, cfg, base, merged) ELSE merged
      /\ todo' = IF ok THEN todo + 1 ELSE todo
      /\ UNCHANGED <<request, base, file, json, header, verdict>>
  BY <1>1 DEF OverlayPredeploy, Stage
<1>3. request # None /\ request \in Requests /\ json = <<>> /\ header = <<>>
  BY <1>1, <1>2 DEF IInv, HandWritten, Order, TypeOK
<1>4. todo \in 1..Len(ps) /\ Len(ps) \in Nat /\ Typed(p)
  BY <1>1, <1>2, <1>3, Request DEF IInv, TypeOK
<1>5. Accounts(merged) /\ IsFiniteSet(DOMAIN base)
  BY <1>1, TypedAccounts DEF IInv, Merging
<1>6. Order' /\ HandWritten'
  BY <1>2, <1>3 DEF Order, HandWritten
<1>7. Compared'
  BY <1>1, <1>2, StillNothing DEF IInv
<1>8. CASE ok
  <2>1. /\ merged' = Overlay(p, cfg, base, merged) /\ todo' = todo + 1 /\ pc' = "overlay"
    BY <1>2, <1>8
  <2>2. Accounts(merged')
    BY <1>4, <1>5, <1>8, <2>1, OverlaidAccounts
  <2>3. Adds(p, cfg, base, merged, merged')
    BY <1>5, <1>8, <2>1, Overlaid DEF Accounts
  <2>4. p.address \notin DOMAIN merged /\ p.implementation \notin DOMAIN merged
        /\ Builds(p, cfg, base)
    BY <1>8 DEF Overlays
  <2> HIDE DEF ok, p
  <2>5. TypeOK'
    <3>1. DOMAIN json' = {}
      BY <1>2, <1>3
    <3>2. \A a \in DOMAIN base : a \in Nat /\ base[a].nonce \in 0..(Pow64 - 1)
      BY <1>1 DEF IInv, TypeOK
    <3>3. \A accounts \in {base', merged', json'} : \A a \in DOMAIN accounts :
            a \in Nat /\ accounts[a].nonce \in 0..(Pow64 - 1)
      BY <1>2, <2>2, <3>1, <3>2 DEF Accounts
    <3>4. todo' \in 1..(Len(ps) + 1)
      BY <1>4, <2>1
    <3>5. QED
      BY <1>1, <1>2, <1>3, <2>1, <3>3, <3>4 DEF IInv, TypeOK
  <2>6. Merging'
    <3>1. \A a \in DOMAIN base : a \in DOMAIN merged' /\ merged'[a] = base[a]
      BY <1>1, <2>3 DEF IInv, Merging, Adds
    <3>2. Cardinality(DOMAIN merged') = Cardinality(DOMAIN base) + 2 * (todo' - 1)
      <4>1. /\ Cardinality(DOMAIN merged') = Cardinality(DOMAIN merged) + 2
            /\ Cardinality(DOMAIN merged) = Cardinality(DOMAIN base) + 2 * (todo - 1)
        BY <1>1, <2>3 DEF IInv, Merging, Adds
      <4>2. Cardinality(DOMAIN base) \in Nat
        BY <1>5, FS_CardinalityType
      <4>3. QED
        BY <1>4, <2>1, <4>1, <4>2
    <3>3. ASSUME NEW i \in 1..todo
          PROVE  /\ Builds(ps[i], cfg, base)
                 /\ ps[i].address \in DOMAIN merged'
                 /\ merged'[ps[i].address] = ProxyAlloc(ps[i], cfg, base)
      <4>1. CASE i = todo
        BY <2>3, <2>4, <4>1 DEF Adds, p
      <4>2. CASE i # todo
        <5>1. i \in 1..(todo - 1)
          BY <1>4, <4>2
        <5>2. /\ Builds(ps[i], cfg, base)
              /\ ps[i].address \in DOMAIN merged
              /\ merged[ps[i].address] = ProxyAlloc(ps[i], cfg, base)
          BY <1>1, <5>1 DEF IInv, Merging
        <5>3. QED
          BY <2>3, <5>2 DEF Adds
      <4>3. QED
        BY <4>1, <4>2
    <3>4. todo' - 1 = todo
      BY <1>4, <2>1
    <3>5. QED
      BY <1>2, <1>5, <2>2, <3>1, <3>2, <3>3, <3>4 DEF Merging, Accounts
  <2>7. QED
    BY <1>6, <1>7, <2>5, <2>6 DEF IInv
<1>9. CASE ~ok
  <2>1. UNCHANGED <<request, base, merged, todo, file, json, header, verdict>> /\ pc' = "refused"
    BY <1>2, <1>9
  <2>2. TypeOK'
    BY <1>1, <1>2, <1>3, <2>1 DEF IInv, TypeOK
  <2>3. Merging'
    BY <1>1, <2>1, SameMerge DEF IInv
  <2>4. QED
    BY <1>6, <1>7, <2>2, <2>3 DEF IInv
<1>10. QED
  BY <1>8, <1>9
LEMMA EmitKeeps == IInv /\ Emit => IInv'
<1>1. SUFFICES ASSUME IInv, Emit PROVE IInv'
  OBVIOUS
<1>2. /\ pc = "overlay" /\ todo > Len(request.cfg.predeploys) /\ pc' = "file"
      /\ file' = emit_ini(merged) /\ json' = merged
      /\ UNCHANGED <<request, base, merged, todo, header, verdict>>
  BY <1>1 DEF Emit, build, emit_alloc_json
<1>3. request # None /\ request \in Requests /\ header = <<>>
  BY <1>1, <1>2 DEF IInv, HandWritten, TypeOK
<1>4. todo = Len(request.cfg.predeploys) + 1
  BY <1>1, <1>2, <1>3, Request DEF IInv, TypeOK
<1>5. Accounts(merged)
  BY <1>1, TypedAccounts DEF IInv
<1>6. \A i \in DOMAIN file' : file'[i][1] \in LineKinds
  <2>1. DOMAIN merged \subseteq Nat
    BY <1>5 DEF Accounts
  <2>2. \A i \in DOMAIN emit_ini(merged) : emit_ini(merged)[i][1] \in LineKinds
    BY <1>5, <2>1, EmittedLemma DEF Accounts
  <2>3. QED
    BY <1>2, <2>2
<1>7. TypeOK'
  BY <1>1, <1>2, <1>3, <1>5, <1>6 DEF IInv, TypeOK, Accounts
<1>8. Order' /\ HandWritten'
  BY <1>2, <1>3, <1>4 DEF Order, HandWritten
<1>9. Merging' /\ Compared'
  BY <1>1, <1>2, SameMerge, StillNothing DEF IInv
<1>10. QED
  BY <1>7, <1>8, <1>9 DEF IInv

LEMMA WriteLineKeeps == ASSUME IInv, NEW line \in HandLines, WriteLine(line) PROVE IInv'
<1>1. /\ pc = "file" /\ request = None /\ file' = Append(file, line)
      /\ UNCHANGED <<request, pc, base, merged, todo, json, header, verdict>>
  BY DEF WriteLine, build
<1>2. file \in Seq(HandLines) /\ header = <<>>
  BY <1>1 DEF IInv, HandWritten, TypeOK
<1>3. file' \in Seq(HandLines)
  BY <1>1, <1>2
<1>4. \A i \in DOMAIN file' : file'[i] \in HandLines
  BY <1>3
<1>5. \A i \in DOMAIN file' : file'[i][1] \in LineKinds
  BY <1>4, HandAssumption
<1>6. TypeOK'
  BY <1>1, <1>2, <1>5 DEF IInv, TypeOK
<1>7. Order' /\ HandWritten'
  BY <1>1, <1>2, <1>3 DEF IInv, Order, HandWritten
<1>8. Merging' /\ Compared'
  BY <1>1, SameMerge, StillNothing DEF IInv
<1>9. QED
  BY <1>6, <1>7, <1>8 DEF IInv

\* A header has fields.
LEMMA HeaderIsThere == \A override, allocs : HeaderFields(override, allocs) # <<>>
<1>1. SUFFICES ASSUME NEW override, NEW allocs PROVE HeaderFields(override, allocs) # <<>>
  OBVIOUS
<1>2. DOMAIN DEFAULT_FIELDS = {"state_root", "withdrawals_root", "timestamp"}
  BY DEF DEFAULT_FIELDS
<1>3. DOMAIN (override ++ DEFAULT_FIELDS) = DOMAIN override \cup DOMAIN DEFAULT_FIELDS
  BY Joined
<1>4. DOMAIN HeaderFields(override, allocs) = DOMAIN (override ++ DEFAULT_FIELDS)
  BY DEF HeaderFields
<1>5. "state_root" \in DOMAIN HeaderFields(override, allocs)
  BY <1>2, <1>3, <1>4
<1>6. DOMAIN <<>> = {}
  BY NoAccounts
<1>7. QED
  BY <1>5, <1>6

LEMMA MakeHeaderKeeps == IInv /\ MakeHeader => IInv'
<1> DEFINE parsed == parse_allocs_ini(file)
           rooted == ~parsed.error /\ compute_state_root(parsed.allocs) # Raise
<1>1. SUFFICES ASSUME IInv, MakeHeader PROVE IInv'
  OBVIOUS
<1>2. /\ pc = "file"
      /\ UNCHANGED <<request, base, merged, todo, file, json, verdict>>
  BY <1>1 DEF MakeHeader, build
<1>3. header = <<>>
  BY <1>1, <1>2 DEF IInv, TypeOK
<1>4. \/ pc' \in {"unreadable", "unrootable"} /\ header' = header
      \/ pc' = "rollup" /\ header' # <<>> /\ ~parsed.error
  <2>1. CASE rooted
    <3>1. pc' = "rollup" /\ \E override \in Overrides : header' = HeaderFields(override, parsed.allocs)
      BY <1>1, <2>1 DEF MakeHeader
    <3>2. QED
      BY <2>1, <3>1, HeaderIsThere
  <2>2. CASE ~rooted
    BY <1>1, <2>2 DEF MakeHeader
  <2>3. QED
    BY <2>1, <2>2
<1> HIDE DEF parsed
<1>5. TypeOK'
  BY <1>1, <1>2, <1>3, <1>4 DEF IInv, TypeOK
<1>6. Order'
  BY <1>1, <1>2, <1>4 DEF IInv, Order
<1>7. HandWritten'
  BY <1>1, <1>2, <1>3, <1>4 DEF IInv, HandWritten, parsed
<1>8. Merging' /\ Compared'
  BY <1>1, <1>2, SameMerge, StillNothing DEF IInv
<1>9. QED
  BY <1>5, <1>6, <1>7, <1>8 DEF IInv

LEMMA WriteRollupKeeps == IInv /\ WriteRollup => IInv'
<1>1. SUFFICES ASSUME IInv, WriteRollup PROVE IInv'
  OBVIOUS
<1>2. /\ pc = "rollup" /\ request # None /\ pc' \in {"diff", "rejected"}
      /\ UNCHANGED <<request, base, merged, todo, file, json, header, verdict>>
  BY <1>1 DEF WriteRollup, build
<1>3. TypeOK'
  BY <1>1, <1>2 DEF IInv, TypeOK
<1>4. Order' /\ HandWritten'
  BY <1>1, <1>2 DEF IInv, Order, HandWritten
<1>5. Merging' /\ Compared'
  BY <1>1, <1>2, SameMerge, StillNothing DEF IInv
<1>6. QED
  BY <1>3, <1>4, <1>5 DEF IInv

\* Two answers for block 0 are compared field by field: if the first has the hash, they
\* agree only about one header; about one header, they agree if they leave out the same.
Agree(one, other, ra, rb) ==
  \A f \in FIELDS : normalize(Answer(one, ra), f) = normalize(Answer(other, rb), f)

ToldApart(one, other, ra, rb) ==
  /\ Agree(one, other, ra, rb) /\ "hash" \notin ra.missing => other = one
  /\ other = one /\ ra.missing = rb.missing => Agree(one, other, ra, rb)

LEMMA AnswersLemma ==
  ASSUME NEW one, NEW other, NEW ra, NEW rb
  PROVE  ToldApart(one, other, ra, rb)
<1> DEFINE a == Answer(one, ra)
           b == Answer(other, rb)
           value(fields, f) == IF f = "hash" THEN HeaderHash(fields) ELSE fields[f]
<1>1. DOMAIN a = FIELDS \ ra.missing /\ DOMAIN b = FIELDS \ rb.missing
  BY DEF Answer
<1>2. \A f \in FIELDS : f \notin ra.missing => a[f][1] = value(one, f)
  <2>1. \A f \in FIELDS : f \notin ra.missing => a[f] = <<value(one, f), ra.written>>
    BY DEF Answer
  <2> HIDE DEF a, value
  <2>2. QED
    BY <2>1
<1>3. \A f \in FIELDS : f \notin rb.missing => b[f][1] = value(other, f)
  <2>1. \A f \in FIELDS : f \notin rb.missing => b[f] = <<value(other, f), rb.written>>
    BY DEF Answer
  <2> HIDE DEF b, value
  <2>2. QED
    BY <2>1
<1> HIDE DEF a, b, value
<1>4. \A f \in FIELDS : normalize(a, f) = IF f \notin ra.missing THEN <<"is", value(one, f)>>
                                          ELSE <<"None">>
  BY <1>1, <1>2 DEF normalize
<1>5. \A f \in FIELDS : normalize(b, f) = IF f \notin rb.missing THEN <<"is", value(other, f)>>
                                          ELSE <<"None">>
  BY <1>1, <1>3 DEF normalize
<1>6. ASSUME \A f \in FIELDS : normalize(a, f) = normalize(b, f), "hash" \notin ra.missing
      PROVE  other = one
  <2>1. "hash" \in FIELDS
    BY DEF FIELDS
  <2>2. normalize(a, "hash") = <<"is", value(one, "hash")>>
    BY <1>4, <1>6, <2>1
  <2>3. "hash" \notin rb.missing
    <3>1. SUFFICES ASSUME "hash" \in rb.missing PROVE FALSE
      OBVIOUS
    <3>2. <<"is", value(one, "hash")>> = <<"None">>
      BY <1>5, <1>6, <2>1, <2>2, <3>1
    <3>3. <<"is", value(one, "hash")>>[1] = "is" /\ <<"None">>[1] = "None"
      OBVIOUS
    <3>4. QED
      BY <3>2, <3>3
  <2>4. <<"is", value(one, "hash")>> = <<"is", value(other, "hash")>>
    BY <1>5, <1>6, <2>1, <2>2, <2>3
  <2>5. value(one, "hash") = value(other, "hash")
    BY <2>4
  <2>6. QED
    BY <2>5 DEF value, HeaderHash
<1>7. ASSUME other = one, ra.missing = rb.missing
      PROVE  \A f \in FIELDS : normalize(a, f) = normalize(b, f)
  BY <1>4, <1>5, <1>7
<1>8. QED
  BY <1>6, <1>7 DEF a, b, ToldApart, Agree

LEMMA DiffKeeps == IInv /\ Diff => IInv'
<1>1. SUFFICES ASSUME IInv, Diff PROVE IInv'
  OBVIOUS
<1>2. /\ pc = "diff" /\ pc' = "done"
      /\ UNCHANGED <<request, base, merged, todo, file, json, header>>
  BY <1>1 DEF Diff, build
<1>3. TypeOK'
  BY <1>1, <1>2 DEF IInv, TypeOK
<1>4. Order' /\ HandWritten'
  BY <1>1, <1>2 DEF IInv, Order, HandWritten
<1>5. Merging'
  BY <1>1, <1>2, SameMerge DEF IInv
<1>6. Compared'
  <2> DEFINE other(accounts) == ReferenceHeader(accounts, header.timestamp)
             told(accounts, ra, rb) ==
               [other |-> other(accounts), missing |-> <<ra.missing, rb.missing>>,
                agree |-> Agree(header, other(accounts), ra, rb)]
  <2>1. \E accounts \in {json, base}, ra, rb \in Renderings :
          verdict' = told(accounts, ra, rb)
    BY <1>1 DEF Diff, Agree
  <2>2. PICK accounts \in {json, base}, ra \in Renderings, rb \in Renderings :
          verdict' = told(accounts, ra, rb)
    BY <2>1
  <2>3. ToldApart(header, other(accounts), ra, rb)
    BY AnswersLemma
  <2> HIDE DEF other
  <2>4. /\ verdict'.other = other(accounts)
        /\ verdict'.agree = Agree(header, other(accounts), ra, rb)
        /\ verdict'.missing[1] = ra.missing /\ verdict'.missing[2] = rb.missing
    BY <2>2
  <2>5. DiffTellsApart'
    BY <1>2, <2>3, <2>4 DEF ToldApart, DiffTellsApart
  <2>6. QED
    BY <1>2, <2>5 DEF Compared
<1>7. QED
  BY <1>3, <1>4, <1>5, <1>6 DEF IInv

LEMMA Step == IInv /\ [Next]_vars => IInv'
<1>1. SUFFICES ASSUME IInv, [Next]_vars PROVE IInv'
  OBVIOUS
<1>2. CASE UNCHANGED vars
  BY <1>1, <1>2, SameMerge
     DEF vars, build, IInv, TypeOK, Order, HandWritten, Compared, DiffTellsApart
<1>3. CASE Next
  BY <1>1, <1>3, VerifyProvenanceKeeps, LoadBaseKeeps, CheckExpectedKeeps,
     OverlayPredeployKeeps, EmitKeeps, WriteLineKeeps, MakeHeaderKeeps, WriteRollupKeeps,
     DiffKeeps DEF Next
<1>4. QED
  BY <1>1, <1>2, <1>3

LEMMA Invariance == Spec => []IInv
BY Begin, Step, PTL DEF Spec

-----------------------------------------------------------------------------
(* Reading a hand-written file line by line.                                 *)

Texts == {line[2] : line \in HandLines}
Values == {line[3] : line \in HandLines} \cup {Word(0), Code("")}

ReadAlloc == [address : Texts \cup Values, nonce : Values, code : Values,
              storage : Seq(Texts \X Values)]

Readable ==
  [allocs : Seq(ReadAlloc), current : BOOLEAN, storage : BOOLEAN, error : BOOLEAN]

\* A current alloc is the last of some, and only its storage is open.
Reading(ps) ==
  /\ ps \in Readable
  /\ ps.current => Len(ps.allocs) > 0
  /\ ps.storage => ps.current

\* The last alloc is replaced.
LEMMA OnLastLemma ==
  ASSUME NEW ps \in Readable, Len(ps.allocs) > 0, NEW alloc \in ReadAlloc
  PROVE  LET qs == OnLast(ps, alloc) IN
         /\ qs \in Readable
         /\ qs.current = ps.current /\ qs.storage = ps.storage /\ qs.error = ps.error
         /\ Len(qs.allocs) = Len(ps.allocs)
         /\ \A j \in 1..Len(ps.allocs) : j # Len(ps.allocs) => qs.allocs[j] = ps.allocs[j]
         /\ qs.allocs[Len(ps.allocs)] = alloc
<1> DEFINE as == ps.allocs
           bs == [as EXCEPT ![Len(as)] = alloc]
<1>1. as \in Seq(ReadAlloc) /\ Len(as) \in 1..Len(as) /\ DOMAIN as = 1..Len(as)
  BY DEF Readable
<1>2. /\ bs \in Seq(ReadAlloc) /\ Len(bs) = Len(as) /\ bs[Len(as)] = alloc
      /\ \A j \in 1..Len(as) : j # Len(as) => bs[j] = as[j]
  BY <1>1
<1>3. OnLast(ps, alloc) = [ps EXCEPT !.allocs = bs]
  BY DEF OnLast, Readable
<1> HIDE DEF bs
<1>4. QED
  BY <1>2, <1>3 DEF Readable

LEMMA LastLemma ==
  ASSUME NEW ps \in Readable, Len(ps.allocs) > 0
  PROVE  Last(ps.allocs) \in ReadAlloc /\ Last(ps.allocs) = ps.allocs[Len(ps.allocs)]
<1>1. ps.allocs \in Seq(ReadAlloc)
  BY DEF Readable
<1>2. QED
  BY <1>1 DEF Last

\* A section is a new alloc, after the others.
OpensAlloc(ps, qs) ==
  /\ qs.current /\ ~qs.storage
  /\ Len(qs.allocs) = Len(ps.allocs) + 1
  /\ \A j \in 1..Len(ps.allocs) : qs.allocs[j] = ps.allocs[j]

LEMMA SectionStep ==
  ASSUME NEW ps, Reading(ps), ~ps.error, NEW line \in HandLines, line[1] = "alloc",
         ~ReadLine(ps, line).error
  PROVE  Reading(ReadLine(ps, line)) /\ OpensAlloc(ps, ReadLine(ps, line))
<1> DEFINE new == [address |-> line[2], nonce |-> Word(0), code |-> Code(""), storage |-> <<>>]
           qs == ReadLine(ps, line)
           bs == Append(ps.allocs, new)
<1>1. line[2] \in Texts /\ Word(0) \in Values /\ Code("") \in Values
  BY DEF Texts, Values
<1>2. new \in ReadAlloc
  <2>1. <<>> \in Seq(Texts \X Values)
    OBVIOUS
  <2>2. QED
    BY <1>1, <2>1 DEF ReadAlloc
<1>3. qs = ReadSection(ps, line[2])
  BY DEF ReadLine
<1>4. ~(\E i \in DOMAIN ps.allocs : ps.allocs[i].address = line[2])
  <2>1. SUFFICES ASSUME \E i \in DOMAIN ps.allocs : ps.allocs[i].address = line[2]
                 PROVE  FALSE
    OBVIOUS
  <2>2. qs = [ps EXCEPT !.error = TRUE]
    BY <1>3, <2>1 DEF ReadSection
  <2>3. qs.error
    BY <2>2 DEF Reading, Readable
  <2>4. QED
    BY <2>3
<1>5. qs = [ps EXCEPT !.allocs = Append(@, new), !.current = TRUE, !.storage = FALSE]
  BY <1>3, <1>4 DEF ReadSection
<1>6. ps.allocs \in Seq(ReadAlloc)
  BY DEF Reading, Readable
<1> HIDE DEF new, qs
<1>7. /\ bs \in Seq(ReadAlloc) /\ Len(bs) = Len(ps.allocs) + 1
      /\ \A j \in 1..Len(ps.allocs) : bs[j] = ps.allocs[j]
  BY <1>2, <1>6
<1>8. qs \in Readable /\ qs.allocs = bs /\ qs.current = TRUE /\ qs.storage = FALSE
  BY <1>5, <1>7 DEF Reading, Readable
<1> HIDE DEF bs
<1>9. Len(qs.allocs) > 0
  BY <1>6, <1>7, <1>8
<1>10. QED
  BY <1>7, <1>8, <1>9 DEF Reading, OpensAlloc, qs

\* A storage section empties the storage of the last alloc.
OpensStorage(ps, qs) ==
  /\ ps.current /\ qs.current /\ qs.storage
  /\ Len(qs.allocs) = Len(ps.allocs)
  /\ \A j \in 1..Len(ps.allocs) : j # Len(ps.allocs) => qs.allocs[j] = ps.allocs[j]

LEMMA StorageStep ==
  ASSUME NEW ps, Reading(ps), ~ps.error, NEW line \in HandLines, line[1] = "storage",
         ~ReadLine(ps, line).error
  PROVE  Reading(ReadLine(ps, line)) /\ OpensStorage(ps, ReadLine(ps, line))
<1> DEFINE qs == ReadLine(ps, line)
           alloc == [Last(ps.allocs) EXCEPT !.storage = <<>>]
           rs == OnLast(ps, alloc)
<1>1. qs = ReadStorageSection(ps)
  BY DEF ReadLine
<1>2. ps.current
  <2>1. SUFFICES ASSUME ~ps.current PROVE FALSE
    OBVIOUS
  <2>2. qs = [ps EXCEPT !.error = TRUE]
    BY <1>1, <2>1 DEF ReadStorageSection
  <2>3. qs.error
    BY <2>2 DEF Reading, Readable
  <2>4. QED
    BY <2>3
<1>3. ps \in Readable /\ Len(ps.allocs) > 0
  BY <1>2 DEF Reading
<1>4. alloc \in ReadAlloc
  <2>1. <<>> \in Seq(Texts \X Values)
    OBVIOUS
  <2>2. QED
    BY <1>3, <2>1, LastLemma DEF ReadAlloc
<1>5. qs = [rs EXCEPT !.storage = TRUE]
  BY <1>1, <1>2 DEF ReadStorageSection
<1> HIDE DEF alloc, qs
<1>6. /\ rs \in Readable
      /\ rs.current = ps.current
      /\ Len(rs.allocs) = Len(ps.allocs)
      /\ \A j \in 1..Len(ps.allocs) : j # Len(ps.allocs) => rs.allocs[j] = ps.allocs[j]
  BY <1>3, <1>4, OnLastLemma
<1> HIDE DEF rs
<1>7. /\ qs \in Readable /\ qs.allocs = rs.allocs /\ qs.current = rs.current
      /\ qs.storage = TRUE
  BY <1>5, <1>6 DEF Readable
<1>8. QED
  BY <1>2, <1>3, <1>6, <1>7 DEF Reading, OpensStorage, qs

\* Another section closes the alloc.
ClosesAlloc(ps, qs) == ~qs.current /\ ~qs.storage /\ qs.allocs = ps.allocs

LEMMA OtherStep ==
  ASSUME NEW ps, Reading(ps), ~ps.error, NEW line \in HandLines, line[1] = "other"
  PROVE  Reading(ReadLine(ps, line)) /\ ClosesAlloc(ps, ReadLine(ps, line))
<1>1. ReadLine(ps, line) = [ps EXCEPT !.current = FALSE, !.storage = FALSE]
  BY DEF ReadLine
<1>2. QED
  BY <1>1 DEF Reading, Readable, ClosesAlloc

\* A key and its value are listed with the last alloc while its storage is open, and
\* take no pair away.
ListsEntry(ps, qs, pair) ==
  /\ qs.current = ps.current /\ qs.storage = ps.storage
  /\ Len(qs.allocs) = Len(ps.allocs)
  /\ \A j \in 1..Len(ps.allocs) :
       /\ ToSet(ps.allocs[j].storage) \subseteq ToSet(qs.allocs[j].storage)
       /\ ps.storage /\ j = Len(ps.allocs) => pair \in ToSet(qs.allocs[j].storage)

LEMMA EntryStep ==
  ASSUME NEW ps, Reading(ps), ~ps.error, NEW line \in HandLines, line[1] = "entry",
         ~ReadLine(ps, line).error
  PROVE  /\ Reading(ReadLine(ps, line))
         /\ ListsEntry(ps, ReadLine(ps, line), <<line[2], line[3]>>)
<1> DEFINE qs == ReadLine(ps, line)
           key == line[2]
           value == line[3]
           last == Last(ps.allocs)
<1>1. qs = ReadEntry(ps, key, value)
  BY DEF ReadLine
<1>2. key \in Texts /\ value \in Values
  BY DEF Texts, Values
<1>3. ASSUME qs = ps, ~ps.storage
      PROVE  Reading(qs) /\ ListsEntry(ps, qs, <<key, value>>)
  BY <1>3 DEF ListsEntry
<1>4. CASE ~ps.current
  <2>1. qs = ps
    BY <1>1, <1>4 DEF ReadEntry
  <2>2. QED
    BY <1>3, <1>4, <2>1 DEF Reading
<1>5. CASE ps.current /\ ~ps.storage
  <2>1. CASE key[1] # "field"
    <3>1. qs = ps
      BY <1>1, <1>5, <2>1 DEF ReadEntry
    <3>2. QED
      BY <1>3, <1>5, <3>1
  <2>2. CASE key[1] = "field"
    <3> DEFINE alloc == [last EXCEPT ![key[2]] = value]
    <3>1. qs = OnLast(ps, alloc)
      BY <1>1, <1>5, <2>2 DEF ReadEntry
    <3>2. ps \in Readable /\ Len(ps.allocs) > 0
      BY <1>5 DEF Reading
    <3>3. key[2] \in Fields
      BY <2>2, HandAssumption
    <3>4. last \in ReadAlloc /\ last = ps.allocs[Len(ps.allocs)]
      BY <3>2, LastLemma
    <3>5. alloc \in ReadAlloc /\ alloc.storage = last.storage
      BY <1>2, <3>3, <3>4 DEF ReadAlloc, Fields
    <3> HIDE DEF alloc, qs
    <3>6. /\ qs \in Readable
          /\ qs.current = ps.current /\ qs.storage = ps.storage
          /\ Len(qs.allocs) = Len(ps.allocs)
          /\ \A j \in 1..Len(ps.allocs) : j # Len(ps.allocs) => qs.allocs[j] = ps.allocs[j]
          /\ qs.allocs[Len(ps.allocs)] = alloc
      BY <3>1, <3>2, <3>5, OnLastLemma
    <3>7. \A j \in 1..Len(ps.allocs) : qs.allocs[j].storage = ps.allocs[j].storage
      BY <3>4, <3>5, <3>6
    <3>8. Reading(qs)
      BY <3>2, <3>6 DEF Reading
    <3>9. ListsEntry(ps, qs, <<key, value>>)
      BY <1>5, <3>6, <3>7 DEF ListsEntry
    <3>10. QED
      BY <3>8, <3>9 DEF qs
  <2>3. QED
    BY <2>1, <2>2
<1>6. CASE ps.current /\ ps.storage
  <2> DEFINE alloc == [last EXCEPT !.storage = Append(@, <<key, value>>)]
  <2>1. ~(\E i \in DOMAIN last.storage : last.storage[i][1] = key)
    <3>1. SUFFICES ASSUME \E i \in DOMAIN last.storage : last.storage[i][1] = key
                   PROVE  FALSE
      OBVIOUS
    <3>2. qs = [ps EXCEPT !.error = TRUE]
      BY <1>1, <1>6, <3>1 DEF ReadEntry
    <3>3. qs.error
      BY <3>2 DEF Reading, Readable
    <3>4. QED
      BY <3>3
  <2>2. qs = OnLast(ps, alloc)
    BY <1>1, <1>6, <2>1 DEF ReadEntry
  <2>3. ps \in Readable /\ Len(ps.allocs) > 0
    BY <1>6 DEF Reading
  <2>4. last \in ReadAlloc /\ last = ps.allocs[Len(ps.allocs)]
    BY <2>3, LastLemma
  <2>5. last.storage \in Seq(Texts \X Values) /\ <<key, value>> \in Texts \X Values
    BY <1>2, <2>4 DEF ReadAlloc
  <2> DEFINE longer == Append(last.storage, <<key, value>>)
  <2>6. /\ longer \in Seq(Texts \X Values)
        /\ \A i \in DOMAIN last.storage : i \in DOMAIN longer /\ longer[i] = last.storage[i]
        /\ \E i \in DOMAIN longer : longer[i] = <<key, value>>
    <3>1. /\ longer \in Seq(Texts \X Values)
          /\ Len(longer) = Len(last.storage) + 1
          /\ \A i \in 1..Len(last.storage) : longer[i] = last.storage[i]
          /\ longer[Len(last.storage) + 1] = <<key, value>>
      BY <2>5
    <3> HIDE DEF longer
    <3>2. DOMAIN longer = 1..(Len(last.storage) + 1) /\ DOMAIN last.storage = 1..Len(last.storage)
          /\ Len(last.storage) \in Nat
      BY <2>5, <3>1
    <3>3. \A i \in DOMAIN last.storage : i \in DOMAIN longer /\ longer[i] = last.storage[i]
      BY <3>1, <3>2
    <3>4. \E i \in DOMAIN longer : longer[i] = <<key, value>>
      BY <3>1, <3>2
    <3>5. QED
      BY <3>1, <3>3, <3>4
  <2>7. alloc \in ReadAlloc /\ alloc.storage = longer
    BY <2>4, <2>6 DEF ReadAlloc
  <2> HIDE DEF longer, alloc, last, qs
  <2>8. /\ qs \in Readable
        /\ qs.current = ps.current /\ qs.storage = ps.storage
        /\ Len(qs.allocs) = Len(ps.allocs)
        /\ \A j \in 1..Len(ps.allocs) : j # Len(ps.allocs) => qs.allocs[j] = ps.allocs[j]
        /\ qs.allocs[Len(ps.allocs)] = alloc
    BY <2>2, <2>3, <2>7, OnLastLemma
  <2>9. /\ ToSet(last.storage) \subseteq ToSet(longer)
        /\ <<key, value>> \in ToSet(longer)
    BY <2>6 DEF ToSet
  <2>10. ListsEntry(ps, qs, <<key, value>>)
    BY <2>4, <2>7, <2>8, <2>9 DEF ListsEntry
  <2>11. Reading(qs)
    BY <2>3, <2>8 DEF Reading
  <2>12. QED
    BY <2>10, <2>11 DEF qs
<1>7. QED
  BY <1>4, <1>5, <1>6 DEF Reading, Readable

\* What is known after each line is the reading of that line.
LEMMA ParseLemma ==
  ASSUME file \in Seq(HandLines)
  PROVE  \E after : /\ after[0] = Nothing
                    /\ \A k \in 1..Len(file) : after[k] = ReadLine(after[k - 1], file[k])
                    /\ parse_allocs_ini(file) = after[Len(file)]
<1> DEFINE n == Len(file)
           Up(g, k) == g = [i \in 0..k |-> IF i = 0 THEN Nothing
                                           ELSE ReadLine(g[i - 1], file[i])]
           Has(k) == \E g : Up(g, k)
           T == {k \in Nat : Has(k)}
<1>1. n \in Nat
  OBVIOUS
<1>2. 0 \in T
  <2> DEFINE g == [i \in 0..0 |-> Nothing]
  <2>1. Up(g, 0)
    OBVIOUS
  <2> HIDE DEF Up
  <2>2. QED
    BY <2>1
<1>3. ASSUME NEW k \in T \cap Nat
      PROVE  k + 1 \in T
  <2>1. PICK g : Up(g, k)
    OBVIOUS
  <2> DEFINE h == [i \in 0..(k + 1) |-> IF i = k + 1 THEN ReadLine(g[k], file[k + 1]) ELSE g[i]]
  <2>2. \A i \in 0..k : h[i] = g[i]
    OBVIOUS
  <2>3. ASSUME NEW i \in 0..(k + 1)
        PROVE  h[i] = IF i = 0 THEN Nothing ELSE ReadLine(h[i - 1], file[i])
    <3>1. CASE i = k + 1
      BY <2>2, <3>1
    <3>2. CASE i # k + 1
      <4>1. i \in 0..k /\ h[i] = g[i]
        BY <2>2, <3>2
      <4>2. g[i] = IF i = 0 THEN Nothing ELSE ReadLine(g[i - 1], file[i])
        BY <2>1, <4>1
      <4>3. i # 0 => h[i - 1] = g[i - 1]
        BY <2>2, <4>1
      <4>4. QED
        BY <4>1, <4>2, <4>3
    <3>3. QED
      BY <3>1, <3>2
  <2>4. Up(h, k + 1)
    BY <2>3
  <2> HIDE DEF Up
  <2>5. QED
    BY <2>4
<1> HIDE DEF Up, Has
<1>4. n \in T
  BY <1>1, <1>2, <1>3, AllNaturals
<1>5. \E g : Up(g, n)
  BY <1>4 DEF Has
<1> DEFINE after == CHOOSE g : Up(g, n)
<1>6. Up(after, n)
  BY <1>5
<1>7. parse_allocs_ini(file) = after[n]
  BY DEF parse_allocs_ini, Up
<1> HIDE DEF after
<1>8. \A k \in 0..n : after[k] = IF k = 0 THEN Nothing ELSE ReadLine(after[k - 1], file[k])
  BY <1>6 DEF Up
<1>9. after[0] = Nothing /\ \A k \in 1..n : after[k] = ReadLine(after[k - 1], file[k])
  BY <1>1, <1>8
<1>10. QED
  BY <1>7, <1>9

\* The section of a line is that of the line before, unless it opens one.
LEMMA SectionLemma ==
  ASSUME file \in Seq(HandLines)
  PROVE  /\ SectionOf(0) = 0
         /\ \A k \in Nat : IF file[k + 1][1] = "entry" THEN SectionOf(k + 1) = SectionOf(k)
                           ELSE SectionOf(k + 1) = k + 1
<1> DEFINE S(k) == {0} \cup {j \in 1..k : file[j][1] # "entry"}
<1>1. SectionOf(0) = 0
  <2>1. S(0) = {0}
    OBVIOUS
  <2>2. Max({0}) = 0
    BY DEF Max
  <2>3. QED
    BY <2>1, <2>2 DEF SectionOf
<1>2. ASSUME NEW k \in Nat, file[k + 1][1] = "entry"
      PROVE  SectionOf(k + 1) = SectionOf(k)
  <2>1. S(k + 1) = S(k)
    BY <1>2
  <2>2. QED
    BY <2>1 DEF SectionOf
<1>3. ASSUME NEW k \in Nat, file[k + 1][1] # "entry"
      PROVE  SectionOf(k + 1) = k + 1
  <2>1. k + 1 \in S(k + 1) /\ \A j \in S(k + 1) : j \in Int /\ k + 1 >= j
    BY <1>3
  <2>2. Max(S(k + 1)) = k + 1
    <3> HIDE DEF S
    <3>1. \A x \in S(k + 1) : (\A y \in S(k + 1) : x >= y) => x = k + 1
      BY <2>1
    <3>2. QED
      BY <2>1, <3>1 DEF Max
  <2>3. QED
    BY <2>2 DEF SectionOf
<1>4. QED
  BY <1>1, <1>2, <1>3

LEMMA SectionIsNumber ==
  ASSUME file \in Seq(HandLines), NEW k \in Nat
  PROVE  SectionOf(k) \in Nat
<1> DEFINE T == {n \in Nat : SectionOf(n) \in Nat}
<1>1. 0 \in T
  BY SectionLemma
<1>2. ASSUME NEW n \in T \cap Nat
      PROVE  n + 1 \in T
  <2>1. IF file[n + 1][1] = "entry" THEN SectionOf(n + 1) = SectionOf(n)
        ELSE SectionOf(n + 1) = n + 1
    BY SectionLemma
  <2>2. SectionOf(n + 1) \in Nat
    BY <2>1
  <2>3. QED
    BY <2>2
<1> HIDE DEF T
<1>3. k \in T
  BY <1>1, <1>2, AllNaturals
<1>4. QED
  BY <1>3 DEF T

\* The entries that the property is about, and what may become of one: it is reopened
\* within k lines, or it is listed with an alloc; with the current one, only if nothing
\* but entries and storage sections came since.
InStorage(i) ==
  file[i][1] = "entry" /\ SectionOf(i) > 0 /\ file[SectionOf(i)][1] = "storage"

Quiet(i, k) == \A m \in i..k : file[m][1] \in {"entry", "storage"}

ReopenedBy(i, k) == \E j \in 1..k : j > i /\ file[j][1] = "storage" /\ Quiet(i, j)

PairOf(i) == <<file[i][2], file[i][3]>>

ListedAt(ps, i, k) ==
  \E j \in 1..Len(ps.allocs) :
    /\ PairOf(i) \in ToSet(ps.allocs[j].storage)
    /\ j = Len(ps.allocs) /\ ps.current => Quiet(i, k)

ReadSoFar(ps, k) ==
  /\ Reading(ps)
  /\ SectionOf(k) \in 0..k
  /\ ps.storage <=> (SectionOf(k) > 0 /\ file[SectionOf(k)][1] = "storage")
  /\ \A i \in 1..k : InStorage(i) => ReopenedBy(i, k) \/ ListedAt(ps, i, k)

\* An entry that is listed stays listed, or is reopened by the line that follows.
LEMMA ListedStep ==
  ASSUME file \in Seq(HandLines), NEW k \in Nat, k + 1 \in 1..Len(file), NEW ps, Reading(ps),
         ~ps.error, ~ReadLine(ps, file[k + 1]).error, NEW i \in 1..k, ListedAt(ps, i, k)
  PROVE  \/ ReopenedBy(i, k + 1)
         \/ ListedAt(ReadLine(ps, file[k + 1]), i, k + 1)
<1> DEFINE line == file[k + 1]
           qs == ReadLine(ps, line)
<1>1. line \in HandLines /\ line[1] \in LineKinds
  BY HandAssumption
<1>2. PICK j \in 1..Len(ps.allocs) :
        /\ PairOf(i) \in ToSet(ps.allocs[j].storage)
        /\ j = Len(ps.allocs) /\ ps.current => Quiet(i, k)
  BY DEF ListedAt
<1>3. Len(ps.allocs) \in Nat
  BY DEF Reading, Readable
<1>4. CASE line[1] = "alloc"
  <2>1. OpensAlloc(ps, qs)
    BY <1>1, <1>4, SectionStep
  <2> HIDE DEF qs
  <2>2. j \in 1..Len(qs.allocs) /\ j # Len(qs.allocs) /\ qs.allocs[j] = ps.allocs[j]
    BY <1>2, <1>3, <2>1 DEF OpensAlloc
  <2>3. QED
    BY <1>2, <2>2 DEF ListedAt, qs
<1>5. CASE line[1] = "storage"
  <2>1. OpensStorage(ps, qs)
    BY <1>1, <1>5, StorageStep
  <2> HIDE DEF qs
  <2>2. CASE j = Len(ps.allocs)
    <3>1. Quiet(i, k)
      BY <1>2, <2>1, <2>2 DEF OpensStorage
    <3>2. Quiet(i, k + 1)
      BY <1>5, <3>1 DEF Quiet
    <3>3. ReopenedBy(i, k + 1)
      BY <1>5, <3>2 DEF ReopenedBy
    <3>4. QED
      BY <3>3
  <2>3. CASE j # Len(ps.allocs)
    <3>1. j \in 1..Len(qs.allocs) /\ j # Len(qs.allocs) /\ qs.allocs[j] = ps.allocs[j]
      BY <1>2, <2>1, <2>3 DEF OpensStorage
    <3>2. QED
      BY <1>2, <3>1 DEF ListedAt, qs
  <2>4. QED
    BY <2>2, <2>3
<1>6. CASE line[1] = "other"
  <2>1. ClosesAlloc(ps, qs)
    BY <1>1, <1>6, OtherStep
  <2> HIDE DEF qs
  <2>2. j \in 1..Len(qs.allocs) /\ ~qs.current /\ qs.allocs[j] = ps.allocs[j]
    BY <1>2, <2>1 DEF ClosesAlloc
  <2>3. QED
    BY <1>2, <2>2 DEF ListedAt, qs
<1>7. CASE line[1] = "entry"
  <2>1. ListsEntry(ps, qs, <<line[2], line[3]>>)
    BY <1>1, <1>7, EntryStep
  <2> HIDE DEF qs
  <2>2. /\ j \in 1..Len(qs.allocs)
        /\ PairOf(i) \in ToSet(qs.allocs[j].storage)
        /\ j = Len(qs.allocs) /\ qs.current => Quiet(i, k)
    BY <1>2, <2>1 DEF ListsEntry
  <2>3. Quiet(i, k) => Quiet(i, k + 1)
    BY <1>7 DEF Quiet
  <2>4. QED
    BY <2>2, <2>3 DEF ListedAt, qs
<1>8. QED
  BY <1>1, <1>4, <1>5, <1>6, <1>7 DEF LineKinds

LEMMA ReadStep ==
  ASSUME file \in Seq(HandLines), NEW k \in Nat, k + 1 \in 1..Len(file), NEW ps,
         ReadSoFar(ps, k), ~ps.error, ~ReadLine(ps, file[k + 1]).error
  PROVE  ReadSoFar(ReadLine(ps, file[k + 1]), k + 1)
<1> DEFINE line == file[k + 1]
           qs == ReadLine(ps, line)
           s == SectionOf(k)
           t == SectionOf(k + 1)
<1>1. line \in HandLines /\ line[1] \in LineKinds
  BY HandAssumption
<1>2. Reading(ps) /\ s \in 0..k /\ (ps.storage <=> (s > 0 /\ file[s][1] = "storage"))
  BY DEF ReadSoFar
<1>3. IF line[1] = "entry" THEN t = s ELSE t = k + 1
  BY SectionLemma
<1>4. t \in 0..(k + 1)
  BY <1>2, <1>3
<1>5. Reading(qs) /\ (qs.storage <=> (t > 0 /\ file[t][1] = "storage"))
  <2>1. CASE line[1] = "alloc"
    <3>1. Reading(qs) /\ ~qs.storage
      BY <1>1, <1>2, <2>1, SectionStep DEF OpensAlloc
    <3>2. QED
      BY <1>3, <2>1, <3>1
  <2>2. CASE line[1] = "storage"
    <3>1. Reading(qs) /\ qs.storage
      BY <1>1, <1>2, <2>2, StorageStep DEF OpensStorage
    <3>2. QED
      BY <1>3, <2>2, <3>1
  <2>3. CASE line[1] = "other"
    <3>1. Reading(qs) /\ ~qs.storage
      BY <1>1, <1>2, <2>3, OtherStep DEF ClosesAlloc
    <3>2. QED
      BY <1>3, <2>3, <3>1
  <2>4. CASE line[1] = "entry"
    <3>1. Reading(qs) /\ qs.storage = ps.storage
      BY <1>1, <1>2, <2>4, EntryStep DEF ListsEntry
    <3>2. t = s
      BY <1>3, <2>4
    <3>3. QED
      BY <1>2, <3>1, <3>2
  <2>5. QED
    BY <1>1, <2>1, <2>2, <2>3, <2>4 DEF LineKinds
<1>6. ASSUME NEW i \in 1..(k + 1), InStorage(i)
      PROVE  ReopenedBy(i, k + 1) \/ ListedAt(qs, i, k + 1)
  <2>1. CASE i \in 1..k
    <3>1. ReopenedBy(i, k) \/ ListedAt(ps, i, k)
      BY <1>6, <2>1 DEF ReadSoFar
    <3>2. ReopenedBy(i, k) => ReopenedBy(i, k + 1)
      BY DEF ReopenedBy
    <3>3. QED
      BY <1>2, <2>1, <3>1, <3>2, ListedStep
  <2>2. CASE i = k + 1
    <3>1. line[1] = "entry" /\ t > 0 /\ file[t][1] = "storage"
      BY <1>6, <2>2 DEF InStorage
    <3>2. t = s
      BY <1>3, <3>1
    <3>3. ps.storage /\ Len(ps.allocs) > 0 /\ Len(ps.allocs) \in Nat
      BY <1>2, <3>1, <3>2 DEF Reading, Readable
    <3>4. ListsEntry(ps, qs, <<line[2], line[3]>>)
      BY <1>1, <1>2, <3>1, EntryStep
    <3>5. PairOf(i) = <<line[2], line[3]>>
      BY <2>2 DEF PairOf
    <3>6. Quiet(i, k + 1)
      BY <2>2, <3>1 DEF Quiet
    <3> HIDE DEF qs
    <3>7. /\ Len(qs.allocs) = Len(ps.allocs)
          /\ PairOf(i) \in ToSet(qs.allocs[Len(ps.allocs)].storage)
      <4>1. Len(ps.allocs) \in 1..Len(ps.allocs)
        BY <3>3
      <4>2. QED
        BY <3>3, <3>4, <3>5, <4>1 DEF ListsEntry
    <3>8. ListedAt(qs, i, k + 1)
      BY <3>3, <3>6, <3>7 DEF ListedAt
    <3>9. QED
      BY <3>8
  <2>3. QED
    BY <2>1, <2>2
<1>7. QED
  BY <1>4, <1>5, <1>6 DEF ReadSoFar

\* After the last line.
LEMMA ReadAll ==
  ASSUME file \in Seq(HandLines), ~parse_allocs_ini(file).error
  PROVE  ReadSoFar(parse_allocs_ini(file), Len(file))
<1> DEFINE n == Len(file)
<1>1. PICK after : /\ after[0] = Nothing
                   /\ \A k \in 1..n : after[k] = ReadLine(after[k - 1], file[k])
                   /\ parse_allocs_ini(file) = after[n]
  BY ParseLemma
<1> DEFINE T == {k \in Nat : k <= n /\ ~after[k].error => ReadSoFar(after[k], k)}
<1>2. n \in Nat
  OBVIOUS
<1>3. 0 \in T
  <2>1. Nothing \in Readable /\ ~Nothing.current /\ ~Nothing.storage
    BY DEF Nothing, Readable
  <2>2. Reading(Nothing)
    BY <2>1 DEF Reading
  <2>3. SectionOf(0) = 0
    BY SectionLemma
  <2>4. ReadSoFar(Nothing, 0)
    BY <2>1, <2>2, <2>3 DEF ReadSoFar
  <2>5. QED
    BY <1>1, <2>4
<1>4. ASSUME NEW k \in T \cap Nat
      PROVE  k + 1 \in T
  <2>1. SUFFICES ASSUME k + 1 <= n, ~after[k + 1].error
                 PROVE  ReadSoFar(after[k + 1], k + 1)
    OBVIOUS
  <2>2. k + 1 \in 1..n /\ (k + 1) - 1 = k
    BY <1>2, <2>1
  <2>3. after[k + 1] = ReadLine(after[k], file[k + 1])
    BY <1>1, <2>2
  <2>4. ~after[k].error
    <3>1. after[k].error => ReadLine(after[k], file[k + 1]) = after[k]
      BY DEF ReadLine
    <3>2. QED
      BY <2>1, <2>3, <3>1
  <2>5. ReadSoFar(after[k], k)
    BY <1>2, <2>1, <2>4
  <2>6. QED
    BY <2>1, <2>2, <2>3, <2>4, <2>5, ReadStep
<1> HIDE DEF T
<1>5. n \in T
  BY <1>2, <1>3, <1>4, AllNaturals
<1>6. QED
  BY <1>1, <1>2, <1>5 DEF T

-----------------------------------------------------------------------------
(* Theorems.                                                                *)

\* Whatever is configured and written by hand: addresses and nonces stay in range from
\* the op-deployer's file to the JSON, the file that is rooted has lines that the parser
\* knows, and a header exists exactly after the step that makes it.
THEOREM TypeCorrect == Spec => []TypeOK
<1>1. IInv => TypeOK
  BY DEF IInv
<1>2. QED
  BY <1>1, Invariance, PTL

\* For any number of predeploys, the merge changes no account of the base and adds
\* exactly two accounts for each predeploy.
THEOREM BaseIsKept == Spec => []BaseKept
<1>1. IInv => BaseKept
  <2>1. SUFFICES ASSUME IInv, Emitted PROVE BaseKept
    BY DEF BaseKept
  <2>2. request # None /\ request \in Requests /\ todo = Len(request.cfg.predeploys) + 1
    BY <2>1 DEF IInv, Order, Emitted, TypeOK
  <2>3. todo - 1 = Len(request.cfg.predeploys)
    BY <2>2, Request
  <2>4. QED
    BY <2>1, <2>3 DEF IInv, Merging, BaseKept
<1>2. QED
  BY <1>1, Invariance, PTL

\* A predeploy of an emitted merge was built, and its account is there.
LEMMA BuiltPredeploy ==
  ASSUME IInv, Emitted, NEW p \in Predeploys
  PROVE  /\ Typed(p) /\ Builds(p, request.cfg, base)
         /\ p.address \in DOMAIN merged
         /\ merged[p.address].storage = ProxyStorage(p, request.cfg)
<1>1. request # None /\ request \in Requests /\ todo = Len(request.cfg.predeploys) + 1
  BY DEF IInv, Order, Emitted, TypeOK
<1>2. /\ Len(request.cfg.predeploys) \in Nat
      /\ DOMAIN request.cfg.predeploys = 1..Len(request.cfg.predeploys)
  BY <1>1, Request, ListIsFunction
<1>3. PICK i \in 1..(todo - 1) : p = request.cfg.predeploys[i]
  BY <1>1, <1>2 DEF Predeploys
<1>4. Typed(p)
  BY <1>1, <1>2, <1>3, Request
<1>5. /\ Builds(p, request.cfg, base)
      /\ p.address \in DOMAIN merged
      /\ merged[p.address] = ProxyAlloc(p, request.cfg, base)
  BY <1>3 DEF IInv, Merging
<1>6. ProxyAlloc(p, request.cfg, base).storage = ProxyStorage(p, request.cfg)
  BY DEF ProxyAlloc
<1>7. QED
  BY <1>4, <1>5, <1>6

\* Upgrading and writing stay apart in what is emitted, not only in what was checked:
\* for every predeploy that leaves the two slots alone, the contract its admin slot names
\* is still the base's, and its owner is neither governance nor nobody.
THEOREM AuthoritiesApart == Spec => []ApartUnlessOverwritten
<1>1. IInv => ApartUnlessOverwritten
  <2>1. SUFFICES ASSUME IInv, Emitted, NEW p \in Predeploys,
                        DOMAIN p.storage \cap {OZ_OWNER_SLOT, EIP1967_ADMIN_SLOT} = {}
                 PROVE  Apart(p)
    BY DEF ApartUnlessOverwritten
  <2> DEFINE cfg == request.cfg
             st == merged[p.address].storage
  <2>2. Typed(p) /\ Builds(p, cfg, base) /\ st = ProxyStorage(p, cfg)
    BY <2>1, BuiltPredeploy
  <2>3. AcceptsValidators(p.validators) /\ TwoAuthorities(cfg, base)
    BY <2>2 DEF Builds
  <2>4. st[OZ_OWNER_SLOT] = Word(cfg.governance_owner)
        /\ st[EIP1967_ADMIN_SLOT] = Word(cfg.proxy_admin)
    BY <2>1, <2>2, <2>3, ProxySlots
  <2>5. \A n : Word(n)[2] = n
    BY DEF Word
  <2>6. st[EIP1967_ADMIN_SLOT][2] = cfg.proxy_admin
    BY <2>4, <2>5
  <2>7. cfg.proxy_admin \in DOMAIN merged /\ merged[cfg.proxy_admin] = base[cfg.proxy_admin]
    BY <2>1, <2>3 DEF TwoAuthorities, Coded, IInv, Merging
  <2>8. /\ Owner(merged, cfg.proxy_admin) # Word(0)
        /\ Owner(merged, cfg.proxy_admin) # Word(cfg.governance_owner)
    BY <2>3, <2>7 DEF TwoAuthorities, Owner
  <2>9. Word(cfg.governance_owner) # Word(0)
    BY <2>3, <2>5 DEF TwoAuthorities
  <2> HIDE DEF cfg, st
  <2>10. Cardinality({Word(0), Owner(merged, cfg.proxy_admin), st[OZ_OWNER_SLOT]}) = 3
    <3> DEFINE A == {Word(0)}
               B == A \cup {Owner(merged, cfg.proxy_admin)}
               C == B \cup {st[OZ_OWNER_SLOT]}
    <3>1. IsFiniteSet(A) /\ Cardinality(A) = 1
      BY FS_Singleton
    <3>2. Owner(merged, cfg.proxy_admin) \notin A
      BY <2>8
    <3>3. st[OZ_OWNER_SLOT] \notin B
      BY <2>4, <2>8, <2>9
    <3>4. C = {Word(0), Owner(merged, cfg.proxy_admin), st[OZ_OWNER_SLOT]}
      OBVIOUS
    <3> HIDE DEF A
    <3>5. IsFiniteSet(B) /\ Cardinality(B) = 1 + 1
      BY <3>1, <3>2, FS_AddElement
    <3> HIDE DEF B
    <3>6. IsFiniteSet(C) /\ Cardinality(C) = 1 + 1 + 1
      BY <3>3, <3>5, FS_AddElement
    <3>7. QED
      BY <3>4, <3>6
  <2>11. QED
    BY <2>6, <2>7, <2>10 DEF Apart, st
<1>2. QED
  BY <1>1, Invariance, PTL

\* The validators that are emitted are a set that L2ValidatorSet can work on, however
\* many there are and whatever keys, fees and powers they have.
THEOREM ValidatorsAreSet == Spec => []ValidatorSetSound
<1>1. IInv => ValidatorSetSound
  <2>1. SUFFICES ASSUME IInv, Emitted, NEW p \in Predeploys, p.storage = <<>>
                 PROVE  SetSound(merged[p.address].storage)
    BY DEF ValidatorSetSound
  <2>2. Typed(p) /\ AcceptsValidators(p.validators)
    BY <2>1, BuiltPredeploy DEF Builds
  <2>3. SetSound(ProxyStorage(p, request.cfg))
    BY <2>1, <2>2, SoundSet
  <2>4. QED
    BY <2>1, <2>3, BuiltPredeploy
<1>2. QED
  BY <1>1, Invariance, PTL

\* Two block 0 answers agree exactly if the chains are equal, for any roots, any hash and
\* any renderings, provided that the first answers the hash and both the same fields.
THEOREM DiffIsExact == Spec => []DiffTellsApart
<1>1. IInv => DiffTellsApart
  BY DEF IInv, Compared
<1>2. QED
  BY <1>1, Invariance, PTL

\* However long a hand-written file is and however it alternates its sections: once it
\* has a root, the parser has taken every slot line under a storage section into an
\* alloc, or the same alloc has opened its storage again.
THEOREM OnlyReopenedAreLost == Spec => []OnlyReopenedLose
<1>1. IInv => OnlyReopenedLose
  <2> DEFINE allocs == parse_allocs_ini(file).allocs
  <2>1. SUFFICES ASSUME IInv, ByHand, NEW i \in DOMAIN file, file[i][1] = "entry",
                        SectionOf(i) > 0, file[Max({1, SectionOf(i)})][1] = "storage"
                 PROVE  \/ Reopened(i)
                        \/ \E j \in DOMAIN allocs :
                             <<file[i][2], file[i][3]>> \in ToSet(allocs[j].storage)
    BY DEF OnlyReopenedLose
  <2>2. file \in Seq(HandLines) /\ ~parse_allocs_ini(file).error
    BY <2>1 DEF IInv, HandWritten, ByHand
  <2>3. ReadSoFar(parse_allocs_ini(file), Len(file))
    BY <2>2, ReadAll
  <2>4. i \in 1..Len(file) /\ DOMAIN file = 1..Len(file)
    BY <2>1, <2>2
  <2>5. SectionOf(i) \in Nat
    BY <2>2, <2>4, SectionIsNumber
  <2>6. Max({1, SectionOf(i)}) = SectionOf(i)
    <3> DEFINE s == SectionOf(i)
    <3> HIDE DEF s
    <3>1. s \in Nat /\ s > 0
      BY <2>1, <2>5 DEF s
    <3>2. Max({1, s}) = s
      BY <3>1 DEF Max
    <3>3. QED
      BY <3>2 DEF s
  <2>7. InStorage(i)
    BY <2>1, <2>6 DEF InStorage
  <2>8. ReopenedBy(i, Len(file)) \/ ListedAt(parse_allocs_ini(file), i, Len(file))
    BY <2>3, <2>4, <2>7 DEF ReadSoFar
  <2>9. ReopenedBy(i, Len(file)) => Reopened(i)
    BY <2>4 DEF ReopenedBy, Reopened, Quiet
  <2>10. allocs \in Seq(ReadAlloc)
    BY <2>3 DEF ReadSoFar, Reading, Readable
  <2> HIDE DEF allocs
  <2>11. DOMAIN allocs = 1..Len(allocs)
    BY <2>10
  <2>12. QED
    BY <2>8, <2>9, <2>11 DEF ListedAt, PairOf, allocs
<1>2. QED
  BY <1>1, Invariance, PTL
=============================================================================
