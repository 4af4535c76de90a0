--------------------------- MODULE ScriptLaneProofs ---------------------------
(***************************************************************************)
(* Proofs about ScriptLane, for any number of empty blocks, any fees and fee *)
(* moves, any lag and any number of waits that run out.  The last sections   *)
(* say what steps of scripts and of the node do to what is sent and lands;   *)
(* ScriptLaneRedProofs builds on them.                                       *)
(***************************************************************************)
EXTENDS ScriptLane, FiniteSetTheorems, TLAPS

-----------------------------------------------------------------------------
(* What a body of instructions has to be for ScriptLane to run it.           *)

Ops ==
  Calls \cup {"retry", "table", "check", "steps", "spent", "order", "one", "price", "kill",
              "gone", "launch", "engine", "b3a_start"}

\* The instructions that set a register, those that restart the node, and the prices that
\* do not depend on a base fee read before.
Readers == {"head", "table", "fee", "tag", "count", "nonce", "seq", "root", "field", "advance",
            "later", "retry"}
RestartOps == {"kill", "gone", "launch"}
Prices == {"gwei", "quoted", "half", "under", "exact", "legacy", "double", "tipped"}
Unread == {"gwei", "quoted"}

\* Only a read of the base fee sets the register that prices are made of.
WellFormed(ins) ==
  /\ ins.op \in Ops
  /\ ins.op \in Readers => ins.into \in Regs /\ (ins.op = "fee" \/ ins.into # "bf")
  /\ ins.op = "root" => ins.at \in Regs
  /\ ins.op = "send" => ins.nonce \in Regs /\ ins.plus \in Int /\ ins.price \in Prices
  /\ ins.op = "await" => ins.timeout \in Nat \cup {Raise}
  /\ ins.op = "field" => ins.what \in {"block", "index", "price"}

Sequence(s) == s \in Seq({s[i] : i \in DOMAIN s})

\* A wait that runs out does not jump over the reading of a base fee, nor out of the body.
JumpsInside(s) ==
  \A i \in 1..Len(s) :
    s[i].op = "await" /\ s[i].timeout # Raise =>
      /\ i + s[i].timeout <= Len(s)
      /\ \A j \in (i + 1)..(i + s[i].timeout) : s[j].op # "fee"

\* The wait at q is passed with the receipt of what the instruction at p asks a field of:
\* when it runs out it leads past p, and no earlier wait leads past it.
SeenAt(s, q, p) ==
  /\ s[q].op = "await" /\ s[q].of = {s[p].of}
  /\ s[q].timeout = Raise \/ q + s[q].timeout >= p
  /\ \A r \in 1..(q - 1) :
       s[r].op = "await" => s[r].timeout = Raise \/ r + s[r].timeout < q

FieldsSeen(s) ==
  \A p \in 1..Len(s) : s[p].op = "field" => \E q \in 1..(p - 1) : SeenAt(s, q, p)

ReadsFee(ins) == ins.op = "fee" /\ ins.into = "bf"

PricesRead(s) ==
  \A p \in 1..Len(s) :
    s[p].op = "send" /\ s[p].price \notin Unread => \E q \in 1..(p - 1) : ReadsFee(s[q])

Body(s) ==
  /\ Sequence(s) /\ \A i \in 1..Len(s) : WellFormed(s[i])
  /\ JumpsInside(s) /\ FieldsSeen(s) /\ PricesRead(s)

\* It leaves the node alone.
Calm(s) == \A i \in 1..Len(s) : s[i].op \notin RestartOps

\* An instruction that needs none of the above.
Plain(ins) ==
  /\ WellFormed(ins)
  /\ ins.op \notin RestartOps \cup {"field"}
  /\ ins.op = "await" => ins.timeout = Raise
  /\ ins.op = "send" => ins.price \in Unread

PlainBody(s) == Sequence(s) /\ \A i \in 1..Len(s) : Plain(s[i])

-----------------------------------------------------------------------------
(* Sequences.                                                               *)

LEMMA SequenceLemma ==
  ASSUME NEW s, Sequence(s)
  PROVE  Len(s) \in Nat /\ DOMAIN s = 1..Len(s)
BY DEF Sequence

\* One after the other.
LEMMA Concatenated ==
  ASSUME NEW s, NEW t, Sequence(s), Sequence(t)
  PROVE  /\ Sequence(s \o t)
         /\ Len(s) \in Nat /\ Len(t) \in Nat /\ Len(s \o t) = Len(s) + Len(t)
         /\ \A i \in 1..Len(s) : (s \o t)[i] = s[i]
         /\ \A i \in 1..Len(t) : (s \o t)[Len(s) + i] = t[i]
<1> DEFINE S == {s[i] : i \in DOMAIN s} \cup {t[i] : i \in DOMAIN t}
           u == s \o t
<1>1. s \in Seq(S) /\ t \in Seq(S)
  BY DEF Sequence
<1> HIDE DEF S
<1>2. /\ u \in Seq(S)
      /\ Len(s) \in Nat /\ Len(t) \in Nat /\ Len(u) = Len(s) + Len(t)
      /\ \A i \in 1..Len(s) : u[i] = s[i]
      /\ \A i \in 1..Len(t) : u[Len(s) + i] = t[i]
  BY <1>1
<1> HIDE DEF u
<1>3. Sequence(u)
  <2>1. Len(u) \in Nat /\ DOMAIN u = 1..Len(u) /\ u = [i \in 1..Len(u) |-> u[i]]
    BY <1>2
  <2>2. \A i \in 1..Len(u) : u[i] \in {u[j] : j \in DOMAIN u}
    BY <2>1
  <2> DEFINE T == {u[j] : j \in DOMAIN u}
  <2> HIDE DEF T
  <2>3. u \in Seq(T)
    BY <2>1, <2>2 DEF T
  <2>4. QED
    BY <2>3 DEF Sequence, T
<1>4. QED
  BY <1>2, <1>3 DEF u

\* An index of s \o t is one of s or one of t.
LEMMA EitherPart ==
  ASSUME NEW m \in Nat, NEW n \in Nat, NEW i \in 1..(m + n)
  PROVE  i \in 1..m \/ (i - m \in 1..n /\ i = m + (i - m))
OBVIOUS

LEMMA PlainConcat ==
  ASSUME NEW s, NEW t, PlainBody(s), PlainBody(t)
  PROVE  PlainBody(s \o t)
<1>1. Sequence(s) /\ Sequence(t)
  BY DEF PlainBody
<1>2. /\ Sequence(s \o t)
      /\ Len(s) \in Nat /\ Len(t) \in Nat /\ Len(s \o t) = Len(s) + Len(t)
      /\ \A i \in 1..Len(s) : (s \o t)[i] = s[i]
      /\ \A i \in 1..Len(t) : (s \o t)[Len(s) + i] = t[i]
  BY <1>1, Concatenated
<1> DEFINE u == s \o t
<1> HIDE DEF u
<1>3. ASSUME NEW i \in 1..Len(u) PROVE Plain(u[i])
  <2>1. i \in 1..Len(s) \/ (i - Len(s) \in 1..Len(t) /\ i = Len(s) + (i - Len(s)))
    BY <1>2, EitherPart DEF u
  <2>2. CASE i \in 1..Len(s)
    BY <1>2, <2>2 DEF PlainBody, u
  <2>3. CASE i - Len(s) \in 1..Len(t) /\ i = Len(s) + (i - Len(s))
    <3>1. u[i] = t[i - Len(s)]
      BY <1>2, <2>3 DEF u
    <3>2. QED
      BY <2>3, <3>1 DEF PlainBody
  <2>4. QED
    BY <2>1, <2>2, <2>3
<1>4. QED
  BY <1>2, <1>3 DEF PlainBody, u

LEMMA PlainIsBody ==
  ASSUME NEW s, PlainBody(s)
  PROVE  Body(s) /\ Calm(s)
BY DEF PlainBody, Plain, Body, Calm, JumpsInside, FieldsSeen, PricesRead

\* Bodies one after the other are a body.
LEMMA BodyConcat ==
  ASSUME NEW s, NEW t, Body(s), Body(t)
  PROVE  Body(s \o t)
<1> DEFINE u == s \o t
           m == Len(s)
           n == Len(t)
<1>1. Sequence(s) /\ Sequence(t)
  BY DEF Body
<1>2. /\ Sequence(u)
      /\ m \in Nat /\ n \in Nat /\ Len(u) = m + n
      /\ \A i \in 1..m : u[i] = s[i]
      /\ \A i \in 1..n : u[m + i] = t[i]
  BY <1>1, Concatenated
<1> HIDE DEF u, m, n
<1>3. \A i \in 1..Len(u) : i \in 1..m \/ (i - m \in 1..n /\ i = m + (i - m) /\ u[i] = t[i - m])
  BY <1>2, EitherPart
<1>4. \A i \in 1..m : WellFormed(s[i])
  BY DEF Body, m
<1>5. \A i \in 1..n : WellFormed(t[i])
  BY DEF Body, n
<1>6. \A i \in 1..Len(u) : WellFormed(u[i])
  BY <1>2, <1>3, <1>4, <1>5
<1>7. JumpsInside(u)
  <2>1. SUFFICES ASSUME NEW i \in 1..Len(u), u[i].op = "await", u[i].timeout # Raise
                 PROVE  /\ i + u[i].timeout <= Len(u)
                        /\ \A j \in (i + 1)..(i + u[i].timeout) : u[j].op # "fee"
    BY DEF JumpsInside
  <2>2. u[i].timeout \in Nat
    BY <1>6, <2>1 DEF WellFormed
  <2>3. CASE i \in 1..m
    <3>1. u[i] = s[i]
      BY <1>2, <2>3
    <3>2. /\ i + u[i].timeout <= m
          /\ \A j \in (i + 1)..(i + u[i].timeout) : s[j].op # "fee"
      BY <2>1, <2>3, <3>1 DEF Body, JumpsInside, m
    <3>3. \A j \in (i + 1)..(i + u[i].timeout) : u[j] = s[j]
      BY <1>2, <2>2, <2>3, <3>2
    <3>4. QED
      BY <1>2, <2>2, <3>2, <3>3
  <2>4. CASE i - m \in 1..n /\ i = m + (i - m) /\ u[i] = t[i - m]
    <3>1. /\ (i - m) + u[i].timeout <= n
          /\ \A j \in ((i - m) + 1)..((i - m) + u[i].timeout) : t[j].op # "fee"
      BY <2>1, <2>4 DEF Body, JumpsInside, n
    <3>2. ASSUME NEW j \in (i + 1)..(i + u[i].timeout)
          PROVE  u[j].op # "fee"
      <4>1. /\ j - m \in ((i - m) + 1)..((i - m) + u[i].timeout)
            /\ j - m \in 1..n /\ j = m + (j - m)
        <5>1. PICK k \in Nat : k = u[i].timeout
          BY <2>2
        <5>2. j \in (i + 1)..(i + k) /\ (i - m) + k <= n
          BY <3>1, <5>1
        <5>3. i \in Int /\ i - m >= 1
          BY <1>2, <2>4
        <5>4. j - m \in ((i - m) + 1)..((i - m) + k) /\ j - m \in 1..n /\ j = m + (j - m)
          BY <1>2, <5>2, <5>3
        <5>5. QED
          BY <5>1, <5>4
      <4>2. u[j] = t[j - m]
        BY <1>2, <4>1
      <4>3. QED
        BY <3>1, <4>1, <4>2
    <3>3. QED
      BY <1>2, <2>2, <2>4, <3>1, <3>2
  <2>5. QED
    BY <1>3, <2>3, <2>4
<1>8. FieldsSeen(u)
  <2>1. SUFFICES ASSUME NEW p \in 1..Len(u), u[p].op = "field"
                 PROVE  \E q \in 1..(p - 1) : SeenAt(u, q, p)
    BY DEF FieldsSeen
  <2>2. CASE p \in 1..m
    <3>1. PICK q \in 1..(p - 1) : SeenAt(s, q, p)
      BY <1>2, <2>1, <2>2 DEF Body, FieldsSeen, m
    <3>2. u[q] = s[q] /\ u[p] = s[p] /\ \A r \in 1..(q - 1) : u[r] = s[r]
      BY <1>2, <2>2
    <3>3. SeenAt(u, q, p)
      BY <3>1, <3>2 DEF SeenAt
    <3>4. QED
      BY <3>3
  <2>3. CASE p - m \in 1..n /\ p = m + (p - m) /\ u[p] = t[p - m]
    <3>1. PICK q \in 1..((p - m) - 1) : SeenAt(t, q, p - m)
      BY <1>2, <2>1, <2>3 DEF Body, FieldsSeen, n
    <3>2. q \in 1..n /\ m + q \in 1..(p - 1) /\ u[m + q] = t[q]
      BY <1>2, <2>3
    <3>3. ASSUME NEW r \in 1..((m + q) - 1), u[r].op = "await", u[r].timeout # Raise
          PROVE  r + u[r].timeout < m + q
      <4>1. r \in 1..Len(u)
        BY <1>2, <3>2
      <4>2. u[r].timeout \in Nat
        BY <1>6, <3>3, <4>1 DEF WellFormed
      <4>3. CASE r \in 1..m
        <5>1. u[r] = s[r]
          BY <1>2, <4>3
        <5>2. r + u[r].timeout <= m
          BY <3>3, <4>3, <5>1 DEF Body, JumpsInside, m
        <5>3. QED
          BY <1>2, <3>2, <4>2, <5>2
      <4>4. CASE r - m \in 1..n /\ r = m + (r - m) /\ u[r] = t[r - m]
        <5>1. r - m \in 1..(q - 1)
          BY <1>2, <3>2, <4>4
        <5>2. (r - m) + u[r].timeout < q
          BY <3>1, <3>3, <4>4, <5>1 DEF SeenAt
        <5>3. QED
          BY <1>2, <3>2, <4>2, <4>4, <5>2
      <4>5. QED
        BY <1>3, <4>1, <4>3, <4>4
    <3>4. /\ u[m + q].op = "await" /\ u[m + q].of = {u[p].of}
          /\ u[m + q].timeout = Raise \/ (m + q) + u[m + q].timeout >= p
      <4>1. /\ t[q].op = "await" /\ t[q].of = {u[p].of}
            /\ t[q].timeout = Raise \/ q + t[q].timeout >= p - m
        BY <2>3, <3>1 DEF SeenAt
      <4>2. t[q].timeout # Raise => t[q].timeout \in Nat
        BY <1>5, <3>2, <4>1 DEF WellFormed
      <4>3. QED
        BY <1>2, <2>3, <3>2, <4>1, <4>2
    <3>5. SeenAt(u, m + q, p)
      BY <3>3, <3>4 DEF SeenAt
    <3>6. QED
      BY <3>2, <3>5
  <2>4. QED
    BY <1>3, <2>2, <2>3
<1>9. PricesRead(u)
  <2>1. SUFFICES ASSUME NEW p \in 1..Len(u), u[p].op = "send", u[p].price \notin Unread
                 PROVE  \E q \in 1..(p - 1) : ReadsFee(u[q])
    BY DEF PricesRead
  <2>2. CASE p \in 1..m
    <3>1. PICK q \in 1..(p - 1) : ReadsFee(s[q])
      BY <1>2, <2>1, <2>2 DEF Body, PricesRead, m
    <3>2. u[q] = s[q]
      BY <1>2, <2>2
    <3>3. QED
      BY <3>1, <3>2
  <2>3. CASE p - m \in 1..n /\ p = m + (p - m) /\ u[p] = t[p - m]
    <3>1. PICK q \in 1..((p - m) - 1) : ReadsFee(t[q])
      BY <1>2, <2>1, <2>3 DEF Body, PricesRead, n
    <3>2. m + q \in 1..(p - 1) /\ u[m + q] = t[q]
      BY <1>2, <2>3
    <3>3. QED
      BY <3>1, <3>2
  <2>4. QED
    BY <1>3, <2>2, <2>3
<1>10. QED
  BY <1>2, <1>6, <1>7, <1>8, <1>9 DEF Body, u

LEMMA CalmConcat ==
  ASSUME NEW s, NEW t, Sequence(s), Sequence(t), Calm(s), Calm(t)
  PROVE  Calm(s \o t)
<1> DEFINE u == s \o t
<1>1. /\ Len(s) \in Nat /\ Len(t) \in Nat /\ Len(u) = Len(s) + Len(t)
      /\ \A i \in 1..Len(s) : u[i] = s[i]
      /\ \A i \in 1..Len(t) : u[Len(s) + i] = t[i]
  BY Concatenated
<1> HIDE DEF u
<1>2. ASSUME NEW i \in 1..Len(u) PROVE u[i].op \notin RestartOps
  <2>1. i \in 1..Len(s) \/ (i - Len(s) \in 1..Len(t) /\ i = Len(s) + (i - Len(s)))
    BY <1>1, EitherPart
  <2>2. u[i] = s[i] \/ (i - Len(s) \in 1..Len(t) /\ u[i] = t[i - Len(s)])
    BY <1>1, <2>1
  <2>3. QED
    BY <1>1, <2>1, <2>2 DEF Calm
<1>3. QED
  BY <1>2 DEF Calm, u

-----------------------------------------------------------------------------
(* Tuples of instructions.                                                   *)

LEMMA Plain1 ==
  ASSUME NEW a,
         Plain(a)
  PROVE  PlainBody(<<a>>)
<1> DEFINE s == <<a>>
<1>1. Len(s) = 1 /\ DOMAIN s = 1..1
  OBVIOUS
<1>2. s[1] = a
  OBVIOUS
<1>3. \A i \in 1..1 : Plain(s[i])
  BY <1>2
<1>4. s \in Seq({s[i] : i \in DOMAIN s})
  OBVIOUS
<1>5. QED
  BY <1>1, <1>3, <1>4 DEF PlainBody, Sequence

LEMMA Plain2 ==
  ASSUME NEW a, NEW b,
         Plain(a), Plain(b)
  PROVE  PlainBody(<<a, b>>)
<1> DEFINE s == <<a, b>>
<1>1. Len(s) = 2 /\ DOMAIN s = 1..2
  OBVIOUS
<1>2. s[1] = a /\ s[2] = b
  OBVIOUS
<1>3. \A i \in 1..2 : Plain(s[i])
  BY <1>2
<1>4. s \in Seq({s[i] : i \in DOMAIN s})
  OBVIOUS
<1>5. QED
  BY <1>1, <1>3, <1>4 DEF PlainBody, Sequence

LEMMA Plain3 ==
  ASSUME NEW a, NEW b, NEW c,
         Plain(a), Plain(b), Plain(c)
  PROVE  PlainBody(<<a, b, c>>)
<1> DEFINE s == <<a, b, c>>
<1>1. Len(s) = 3 /\ DOMAIN s = 1..3
  OBVIOUS
<1>2. s[1] = a /\ s[2] = b /\ s[3] = c
  OBVIOUS
<1>3. \A i \in 1..3 : Plain(s[i])
  BY <1>2
<1>4. s \in Seq({s[i] : i \in DOMAIN s})
  OBVIOUS
<1>5. QED
  BY <1>1, <1>3, <1>4 DEF PlainBody, Sequence

LEMMA Plain4 ==
  ASSUME NEW a, NEW b, NEW c, NEW d,
         Plain(a), Plain(b), Plain(c), Plain(d)
  PROVE  PlainBody(<<a, b, c, d>>)
<1> DEFINE s == <<a, b, c, d>>
<1>1. Len(s) = 4 /\ DOMAIN s = 1..4
  OBVIOUS
<1>2. s[1] = a /\ s[2] = b /\ s[3] = c /\ s[4] = d
  OBVIOUS
<1>3. \A i \in 1..4 : Plain(s[i])
  BY <1>2
<1>4. s \in Seq({s[i] : i \in DOMAIN s})
  OBVIOUS
<1>5. QED
  BY <1>1, <1>3, <1>4 DEF PlainBody, Sequence

LEMMA Plain5 ==
  ASSUME NEW a, NEW b, NEW c, NEW d, NEW e,
         Plain(a), Plain(b), Plain(c), Plain(d), Plain(e)
  PROVE  PlainBody(<<a, b, c, d, e>>)
<1> DEFINE s == <<a, b, c, d, e>>
<1>1. Len(s) = 5 /\ DOMAIN s = 1..5
  OBVIOUS
<1>2. s[1] = a /\ s[2] = b /\ s[3] = c /\ s[4] = d /\ s[5] = e
  OBVIOUS
<1>3. \A i \in 1..5 : Plain(s[i])
  BY <1>2
<1>4. s \in Seq({s[i] : i \in DOMAIN s})
  OBVIOUS
<1>5. QED
  BY <1>1, <1>3, <1>4 DEF PlainBody, Sequence

LEMMA Plain6 ==
  ASSUME NEW a, NEW b, NEW c, NEW d, NEW e, NEW f,
         Plain(a), Plain(b), Plain(c), Plain(d), Plain(e), Plain(f)
  PROVE  PlainBody(<<a, b, c, d, e, f>>)
<1> DEFINE s == <<a, b, c, d, e, f>>
<1>1. Len(s) = 6 /\ DOMAIN s = 1..6
  OBVIOUS
<1>2. s[1] = a /\ s[2] = b /\ s[3] = c /\ s[4] = d /\ s[5] = e /\ s[6] = f
  OBVIOUS
<1>3. \A i \in 1..6 : Plain(s[i])
  BY <1>2
<1>4. s \in Seq({s[i] : i \in DOMAIN s})
  OBVIOUS
<1>5. QED
  BY <1>1, <1>3, <1>4 DEF PlainBody, Sequence

LEMMA Plain7 ==
  ASSUME NEW a, NEW b, NEW c, NEW d, NEW e, NEW f, NEW g,
         Plain(a), Plain(b), Plain(c), Plain(d), Plain(e), Plain(f), Plain(g)
  PROVE  PlainBody(<<a, b, c, d, e, f, g>>)
<1> DEFINE s == <<a, b, c, d, e, f, g>>
<1>1. Len(s) = 7 /\ DOMAIN s = 1..7
  OBVIOUS
<1>2. s[1] = a /\ s[2] = b /\ s[3] = c /\ s[4] = d /\ s[5] = e /\ s[6] = f /\ s[7] = g
  OBVIOUS
<1>3. \A i \in 1..7 : Plain(s[i])
  BY <1>2
<1>4. s \in Seq({s[i] : i \in DOMAIN s})
  OBVIOUS
<1>5. QED
  BY <1>1, <1>3, <1>4 DEF PlainBody, Sequence

LEMMA Plain9 ==
  ASSUME NEW a, NEW b, NEW c, NEW d, NEW e, NEW f, NEW g, NEW h, NEW j,
         Plain(a), Plain(b), Plain(c), Plain(d), Plain(e), Plain(f), Plain(g), Plain(h), Plain(j)
  PROVE  PlainBody(<<a, b, c, d, e, f, g, h, j>>)
<1> DEFINE s == <<a, b, c, d, e, f, g, h, j>>
<1>1. Len(s) = 9 /\ DOMAIN s = 1..9
  OBVIOUS
<1>2. s[1] = a /\ s[2] = b /\ s[3] = c /\ s[4] = d /\ s[5] = e /\ s[6] = f /\ s[7] = g /\ s[8] = h
      /\ s[9] = j
  OBVIOUS
<1>3. \A i \in 1..9 : Plain(s[i])
  BY <1>2
<1>4. s \in Seq({s[i] : i \in DOMAIN s})
  OBVIOUS
<1>5. QED
  BY <1>1, <1>3, <1>4 DEF PlainBody, Sequence
-----------------------------------------------------------------------------
(* The instructions of GateScripts.                                          *)

Free == Regs \ {"bf"}

LEMMA PlainReads ==
  /\ Plain(Ask)
  /\ \A r \in Regs : Plain(Fee(r))
  /\ \A r \in Free : Plain(BlockNumber(r)) /\ Plain(Nonce(r)) /\ Plain(Balance(r))
  /\ \A r \in Free : Plain(SequenceNumber(r)) /\ Plain(CurrentNumber(r))
  /\ \A r \in Free : \A window : Plain(Tag(r, window))
BY DEF Plain, WellFormed, Ask, Fee, BlockNumber, Tag, Nonce, Balance, SequenceNumber,
       CurrentNumber, Ops, Calls, Readers, RestartOps, Free

LEMMA PlainCounts ==
  /\ \A S : \A r \in Free : Plain(Count(S, r))
  /\ \A at \in Regs : \A r \in Free : Plain(Root(at, r))
BY DEF Plain, WellFormed, Count, Root, Ops, Calls, Readers, RestartOps, Free

LEMMA PlainSend ==
  ASSUME NEW id, NEW r \in Regs, NEW plus \in Int, NEW price \in Unread
  PROVE  Plain(Send(id, r, plus, price))
BY DEF Plain, WellFormed, Send, Ops, Calls, Readers, RestartOps, Prices, Unread

LEMMA PlainWaits ==
  /\ \A id : Plain(Await(id, Raise)) /\ Plain(Absent(id))
  /\ \A S : Plain(AwaitOne(S))
  /\ \A past : \A r \in Free : Plain(Advance(past, r)) /\ Plain(LaterBlock(past, r))
  /\ \A r \in Free : Plain(AnyHead(r))
BY DEF Plain, WellFormed, Await, Absent, AwaitOne, Advance, LaterBlock, AnyHead, Ops, Calls,
       Readers, RestartOps, Free

LEMMA PlainChecks ==
  /\ \A name, left, rel, right, plus : Plain(Check(name, left, rel, right, plus))
  /\ \A name, left, rel, right, plus :
       /\ Plain([Check(name, left, rel, right, plus) EXCEPT !.op = "spent"])
       /\ Plain([Check(name, left, rel, right, plus) EXCEPT !.op = "steps"])
  /\ \A x : Plain([op |-> "order", of |-> x]) /\ Plain([op |-> "one", of |-> x])
  /\ Plain([op |-> "engine"]) /\ Plain([op |-> "b3a_start"])
BY DEF Plain, WellFormed, Check, Ops, Calls, Readers, RestartOps

-----------------------------------------------------------------------------
(* The fragments whose waits are jumped from, or that ask a receipt or a base fee.     *)

LEMMA DrivenIsBody ==
  ASSUME NEW id, NEW n \in Int
  PROVE  Body(Driven(id, n)) /\ Calm(Driven(id, n))
<1> DEFINE s == Driven(id, n)
<1>1. /\ Len(s) = 5 /\ Sequence(s)
      /\ s[1] = Send(id, "nonce0", n, "gwei") /\ s[2] = Await(id, 3)
      /\ s[3] = Field(id, "index", "index")
      /\ s[4] = Check("index", "index", "=", "one", 0) /\ s[5] = Ask
  BY DEF Driven, Sequence
<1> HIDE DEF s
<1>2. Plain(s[1]) /\ Plain(s[4]) /\ Plain(s[5])
  <2>1. "nonce0" \in Regs /\ "gwei" \in Unread
    BY DEF Regs, Unread
  <2>2. QED
    BY <1>1, <2>1, PlainSend, PlainChecks, PlainReads
<1>3. s[1].op = "send" /\ s[2].op = "await" /\ s[3].op = "field" /\ s[4].op = "check"
      /\ s[5].op = "ask" /\ s[1].price = "gwei" /\ s[2].timeout = 3 /\ s[2].of = {id}
      /\ s[3].of = id
  BY <1>1 DEF Send, Await, Field, Check, Ask
<1>4. WellFormed(s[2]) /\ WellFormed(s[3])
  BY <1>1 DEF WellFormed, Await, Field, Ops, Calls, Readers, Regs
<1>5. \A i \in 1..Len(s) : WellFormed(s[i])
  BY <1>1, <1>2, <1>4 DEF Plain
<1>6. \A i \in 1..Len(s) : i = 1 \/ i = 2 \/ i = 3 \/ i = 4 \/ i = 5
  BY <1>1
<1>7. JumpsInside(s)
  <2>1. \A i \in 1..Len(s) : s[i].op = "await" => i = 2
    BY <1>3, <1>6
  <2>2. \A j \in 3..5 : s[j].op # "fee"
    BY <1>3
  <2>3. QED
    BY <1>1, <1>3, <2>1, <2>2 DEF JumpsInside
<1>8. FieldsSeen(s)
  <2>1. \A i \in 1..Len(s) : s[i].op = "field" => i = 3
    BY <1>3, <1>6
  <2>2. SeenAt(s, 2, 3)
    BY <1>3 DEF SeenAt
  <2>3. QED
    BY <2>1, <2>2 DEF FieldsSeen
<1>9. PricesRead(s)
  BY <1>3, <1>6 DEF PricesRead, Unread
<1>10. Calm(s)
  BY <1>3, <1>6 DEF Calm, RestartOps
<1>11. QED
  BY <1>1, <1>5, <1>7, <1>8, <1>9, <1>10 DEF Body, s

LEMMA DeployedIsBody ==
  ASSUME NEW id, NEW n \in Int
  PROVE  Body(Deployed(id, n)) /\ Calm(Deployed(id, n))
<1> DEFINE s == Deployed(id, n)
<1>1. /\ Len(s) = 4 /\ Sequence(s)
      /\ s[1] = Send(id, "nonce", n, "gwei") /\ s[2] = Await(id, 2)
      /\ s[3] = Count({id}, "code") /\ s[4] = Check("code", "code", "=", "one", 0)
  BY DEF Deployed, Sequence
<1> HIDE DEF s
<1>2. Plain(s[1]) /\ Plain(s[3]) /\ Plain(s[4])
  <2>1. "nonce" \in Regs /\ "gwei" \in Unread /\ "code" \in Free
    BY DEF Regs, Unread, Free
  <2>2. QED
    BY <1>1, <2>1, PlainSend, PlainChecks, PlainCounts
<1>3. s[1].op = "send" /\ s[2].op = "await" /\ s[3].op = "count" /\ s[4].op = "check"
      /\ s[1].price = "gwei" /\ s[2].timeout = 2
  BY <1>1 DEF Send, Await, Count, Check
<1>4. WellFormed(s[2])
  BY <1>1 DEF WellFormed, Await, Ops, Calls, Readers
<1>5. \A i \in 1..Len(s) : WellFormed(s[i])
  BY <1>1, <1>2, <1>4 DEF Plain
<1>6. \A i \in 1..Len(s) : i = 1 \/ i = 2 \/ i = 3 \/ i = 4
  BY <1>1
<1>7. JumpsInside(s)
  <2>1. \A i \in 1..Len(s) : s[i].op = "await" => i = 2
    BY <1>3, <1>6
  <2>2. \A j \in 3..4 : s[j].op # "fee"
    BY <1>3
  <2>3. QED
    BY <1>1, <1>3, <2>1, <2>2 DEF JumpsInside
<1>8. FieldsSeen(s) /\ PricesRead(s) /\ Calm(s)
  BY <1>3, <1>6 DEF FieldsSeen, PricesRead, Unread, Calm, RestartOps
<1>9. QED
  BY <1>1, <1>5, <1>7, <1>8 DEF Body, s

LEMMA EvictedIsBody ==
  ASSUME NEW past, NEW n \in Free, NEW id, NEW price \in Prices, NEW control
  PROVE  Body(Evicted(past, n, id, price, control)) /\ Calm(Evicted(past, n, id, price, control))
<1> DEFINE s == Evicted(past, n, id, price, control)
<1>1. /\ Len(s) = 6 /\ Sequence(s)
      /\ s[1] = Fee("bf") /\ s[2] = Advance(past, n) /\ s[3] = Send(id, n, 0, price)
      /\ s[4] = Absent(id) /\ s[5] = Send(control, n, 0, "quoted")
      /\ s[6] = Await(control, Raise)
  BY DEF Evicted, Sequence
<1> HIDE DEF s
<1>2. "bf" \in Regs /\ n \in Regs /\ "quoted" \in Unread
  BY DEF Regs, Unread, Free
<1>3. Plain(s[1]) /\ Plain(s[2]) /\ Plain(s[4]) /\ Plain(s[5]) /\ Plain(s[6])
  BY <1>1, <1>2, PlainSend, PlainReads, PlainWaits
<1>4. WellFormed(s[3]) /\ s[3].op = "send"
  BY <1>1, <1>2 DEF WellFormed, Send, Ops, Calls, Readers
<1>5. ReadsFee(s[1])
  BY <1>1 DEF ReadsFee, Fee
<1>6. \A i \in 1..Len(s) : i = 3 \/ Plain(s[i])
  BY <1>1, <1>3
<1>7. JumpsInside(s) /\ FieldsSeen(s) /\ Calm(s)
  BY <1>4, <1>6 DEF Plain, JumpsInside, FieldsSeen, Calm, RestartOps
<1>8. PricesRead(s)
  <2>1. \A p \in 1..Len(s) : s[p].op = "send" /\ s[p].price \notin Unread => p = 3
    BY <1>6 DEF Plain
  <2>2. QED
    BY <1>5, <2>1 DEF PricesRead
<1>9. \A i \in 1..Len(s) : WellFormed(s[i])
  BY <1>4, <1>6 DEF Plain
<1>10. QED
  BY <1>1, <1>7, <1>8, <1>9 DEF Body, s

LEMMA ChargedIsBody ==
  ASSUME NEW past, NEW n \in Free, NEW id, NEW price \in Prices
  PROVE  Body(Charged(past, n, id, price)) /\ Calm(Charged(past, n, id, price))
<1> DEFINE s == Charged(past, n, id, price)
<1>1. /\ Len(s) = 6 /\ Sequence(s)
      /\ s[1] = Fee("bf") /\ s[2] = Advance(past, n) /\ s[3] = Send(id, n, 0, price)
      /\ s[4] = Await(id, Raise) /\ s[5] = Field(id, "price", "effective")
      /\ s[6] = [op |-> "price", of |-> price, name |-> id]
  BY DEF Charged, Sequence
<1> HIDE DEF s
<1>2. "bf" \in Regs /\ n \in Regs /\ "effective" \in Free
  BY DEF Regs, Free
<1>3. Plain(s[1]) /\ Plain(s[2]) /\ Plain(s[4]) /\ Plain(s[6])
  <2>1. Plain(s[6])
    BY <1>1 DEF Plain, WellFormed, Ops, Calls, Readers, RestartOps
  <2>2. QED
    BY <1>1, <1>2, <2>1, PlainReads, PlainWaits
<1>4. WellFormed(s[3]) /\ s[3].op = "send"
  BY <1>1, <1>2 DEF WellFormed, Send, Ops, Calls, Readers
<1>5. WellFormed(s[5]) /\ s[5].op = "field" /\ s[5].of = id
  BY <1>1, <1>2 DEF WellFormed, Field, Ops, Calls, Readers, Free
<1>6. ReadsFee(s[1])
  BY <1>1 DEF ReadsFee, Fee
<1>7. \A i \in 1..Len(s) : i = 3 \/ i = 5 \/ Plain(s[i])
  BY <1>1, <1>3
<1>8. JumpsInside(s) /\ Calm(s)
  BY <1>4, <1>5, <1>7 DEF Plain, JumpsInside, Calm, RestartOps
<1>9. PricesRead(s)
  <2>1. \A p \in 1..Len(s) : s[p].op = "send" /\ s[p].price \notin Unread => p = 3
    BY <1>5, <1>7 DEF Plain
  <2>2. QED
    BY <1>6, <2>1 DEF PricesRead
<1>10. FieldsSeen(s)
  <2>1. \A p \in 1..Len(s) : s[p].op = "field" => p = 5
    BY <1>4, <1>7 DEF Plain, RestartOps
  <2>2. s[4].op = "await" /\ s[4].of = {id} /\ s[4].timeout = Raise
    BY <1>1 DEF Await
  <2>3. \A r \in 1..3 : s[r].op # "await"
    <3>1. s[1].op = "fee" /\ s[2].op = "advance"
      BY <1>1 DEF Fee, Advance
    <3>2. QED
      BY <1>4, <3>1
  <2>4. SeenAt(s, 4, 5)
    BY <1>5, <2>2, <2>3 DEF SeenAt
  <2>5. QED
    BY <2>1, <2>4 DEF FieldsSeen
<1>11. \A i \in 1..Len(s) : WellFormed(s[i])
  BY <1>4, <1>5, <1>7 DEF Plain
<1>12. QED
  BY <1>1, <1>8, <1>9, <1>10, <1>11 DEF Body, s

\* The message passer's group asks the block of a receipt that it has waited for three
\* instructions before.
LEMMA SentIsPlain ==
  ASSUME NEW id
  PROVE  PlainBody(Sent(id))
<1>1. "nonce" \in Free /\ "nonce" \in Regs /\ "gwei" \in Unread /\ 0 \in Int
  BY DEF Free, Regs, Unread
<1>2. Plain(Nonce("nonce")) /\ Plain(Send(id, "nonce", 0, "gwei")) /\ Plain(Await(id, Raise))
  BY <1>1, PlainReads, PlainSend, PlainWaits
<1>3. QED
  BY <1>2, Plain3 DEF Sent

LEMMA MessagePasserIsBody == Body(MessagePasserGroup) /\ Calm(MessagePasserGroup)
<1> DEFINE a == <<BlockNumber("head"), Root("head", "root_before")>>
           b == Sent("withdrawal")
           t == <<Count({"withdrawal"}, "sm"), Check("sentMessages", "sm", "=", "one", 0),
                  Field("withdrawal", "block", "n"), Root("n", "root_at"),
                  Check("rootChanges", "root_at", ">", "root_before", 0),
                  Count({"withdrawal"}, "sv"), Check("slot", "sv", "=", "one", 0),
                  LaterBlock("n", "later"), Root("later", "stable_root"),
                  Check("rootStable", "stable_root", "=", "root_at", 0), Ask>>
           ab == a \o b
           s == ab \o t
<1>1. /\ {"head", "root_before", "sm", "n", "root_at", "sv", "later", "stable_root"} \subseteq Free
      /\ Free \subseteq Regs
  BY DEF Free, Regs
<1>2. /\ Sequence(t) /\ Len(t) = 11
      /\ t[1] = Count({"withdrawal"}, "sm") /\ t[2] = Check("sentMessages", "sm", "=", "one", 0)
      /\ t[3] = Field("withdrawal", "block", "n") /\ t[4] = Root("n", "root_at")
      /\ t[5] = Check("rootChanges", "root_at", ">", "root_before", 0)
      /\ t[6] = Count({"withdrawal"}, "sv") /\ t[7] = Check("slot", "sv", "=", "one", 0)
      /\ t[8] = LaterBlock("n", "later") /\ t[9] = Root("later", "stable_root")
      /\ t[10] = Check("rootStable", "stable_root", "=", "root_at", 0) /\ t[11] = Ask
  BY DEF Sequence
<1>3. PlainBody(a)
  <2>1. Plain(BlockNumber("head")) /\ Plain(Root("head", "root_before"))
    BY <1>1, PlainReads, PlainCounts
  <2>2. QED
    BY <2>1, Plain2
<1>4. PlainBody(b) /\ Len(b) = 3 /\ b[3] = Await("withdrawal", Raise)
  BY SentIsPlain DEF Sent
<1>5. PlainBody(ab) /\ Len(ab) = 5 /\ ab[5] = Await("withdrawal", Raise)
  <2>1. Len(a) = 2
    OBVIOUS
  <2> HIDE DEF a, b
  <2>2. Sequence(a) /\ Sequence(b)
    BY <1>3, <1>4 DEF PlainBody
  <2>3. Len(ab) = Len(a) + Len(b) /\ \A i \in 1..Len(b) : ab[Len(a) + i] = b[i]
    BY <2>2, Concatenated
  <2>4. PlainBody(ab)
    BY <1>3, <1>4, PlainConcat
  <2> HIDE DEF ab
  <2>5. 3 \in 1..Len(b) /\ Len(ab) = 5
    BY <1>4, <2>1, <2>3
  <2>6. ab[5] = b[3]
    <3>1. ab[Len(a) + 3] = b[3]
      BY <2>3, <2>5
    <3>2. Len(a) + 3 = 5
      BY <2>1
    <3>3. QED
      BY <3>1, <3>2
  <2>7. QED
    BY <1>4, <2>4, <2>5, <2>6
<1> HIDE DEF a, b, t, ab
<1>6. \A i \in 1..11 : i = 3 \/ Plain(t[i])
  <2>1. Plain(t[1]) /\ Plain(t[4]) /\ Plain(t[6]) /\ Plain(t[9])
    BY <1>1, <1>2, PlainCounts
  <2>2. Plain(t[2]) /\ Plain(t[5]) /\ Plain(t[7]) /\ Plain(t[10])
    BY <1>2, PlainChecks
  <2>3. Plain(t[8]) /\ Plain(t[11])
    BY <1>1, <1>2, PlainWaits, PlainReads
  <2>4. \A i \in 1..11 : \/ i = 1 \/ i = 2 \/ i = 3 \/ i = 4 \/ i = 5 \/ i = 6
                         \/ i = 7 \/ i = 8 \/ i = 9 \/ i = 10 \/ i = 11
    OBVIOUS
  <2>5. QED
    BY <2>1, <2>2, <2>3, <2>4
<1>7. /\ Sequence(s) /\ Len(s) = 16
      /\ \A i \in 1..5 : s[i] = ab[i]
      /\ \A i \in 1..11 : s[5 + i] = t[i]
  <2>1. Sequence(ab) /\ Sequence(t)
    BY <1>2, <1>5 DEF PlainBody
  <2>2. /\ Sequence(s) /\ Len(s) = Len(ab) + Len(t)
        /\ \A i \in 1..Len(ab) : s[i] = ab[i]
        /\ \A i \in 1..Len(t) : s[Len(ab) + i] = t[i]
    BY <2>1, Concatenated
  <2> HIDE DEF s
  <2>3. QED
    BY <1>2, <1>5, <2>2
<1> HIDE DEF s
<1>8. s[5] = Await("withdrawal", Raise) /\ s[8] = Field("withdrawal", "block", "n")
  <2>1. 3 \in 1..11 /\ 5 \in 1..5 /\ 5 + 3 = 8
    OBVIOUS
  <2>2. s[5] = ab[5] /\ s[5 + 3] = t[3]
    BY <1>7, <2>1
  <2>3. s[8] = s[5 + 3]
    BY <2>1
  <2>4. QED
    BY <1>2, <1>5, <2>2, <2>3
<1>9. \A i \in 1..Len(s) : i = 8 \/ Plain(s[i])
  <2>1. SUFFICES ASSUME NEW i \in 1..16, i # 8 PROVE Plain(s[i])
    BY <1>7
  <2>2. CASE i \in 1..5
    BY <1>5, <1>7, <2>2 DEF PlainBody
  <2>3. CASE i - 5 \in 1..11
    <3>1. PICK j \in 1..11 : j = i - 5 /\ i = 5 + j /\ j # 3
      BY <2>1, <2>3
    <3>2. QED
      BY <1>6, <1>7, <3>1
  <2>4. QED
    BY <2>2, <2>3
<1>10. WellFormed(s[8]) /\ s[8].op = "field" /\ s[8].of = "withdrawal"
  BY <1>1, <1>8 DEF WellFormed, Field, Ops, Calls, Readers, Free
<1>11. JumpsInside(s) /\ PricesRead(s) /\ Calm(s)
  BY <1>9, <1>10 DEF Plain, JumpsInside, PricesRead, Calm, RestartOps
<1>12. FieldsSeen(s)
  <2>1. \A p \in 1..Len(s) : s[p].op = "field" => p = 8
    BY <1>9 DEF Plain
  <2>2. s[5].op = "await" /\ s[5].of = {"withdrawal"} /\ s[5].timeout = Raise
    BY <1>8 DEF Await
  <2>3. \A r \in 1..4 : s[r].op = "await" => s[r].timeout = Raise
    BY <1>7, <1>9 DEF Plain
  <2>4. SeenAt(s, 5, 8)
    BY <1>10, <2>2, <2>3 DEF SeenAt
  <2>5. QED
    BY <2>1, <2>4 DEF FieldsSeen
<1>13. \A i \in 1..Len(s) : WellFormed(s[i])
  BY <1>9, <1>10 DEF Plain
<1>14. Body(s) /\ Calm(s)
  BY <1>7, <1>11, <1>12, <1>13 DEF Body
<1>15. s = MessagePasserGroup
  BY DEF s, ab, a, b, t, MessagePasserGroup
<1>16. QED
  BY <1>14, <1>15

-----------------------------------------------------------------------------
(* The scripts.                                                              *)

\* A body that leaves the node alone.
Fragment(s) == Body(s) /\ Calm(s)

LEMMA FragmentConcat ==
  ASSUME NEW s, NEW t, Fragment(s), Fragment(t)
  PROVE  Fragment(s \o t)
<1>1. Sequence(s) /\ Sequence(t)
  BY DEF Fragment, Body
<1>2. QED
  BY <1>1, BodyConcat, CalmConcat DEF Fragment

LEMMA PlainFragment ==
  ASSUME NEW s, PlainBody(s)
  PROVE  Fragment(s)
BY PlainIsBody DEF Fragment

LEMMA Registers == Regs \ {"bf"} = Free /\ Free \subseteq Regs /\ "bf" \in Regs
BY DEF Free, Regs

LEMMA ReadsAreFragments ==
  /\ Fragment(a1_engine_surface) /\ Fragment(a2_chain) /\ Fragment(a2_blocks)
  /\ Fragment(a2_accounts) /\ Fragment(a2_exec) /\ Fragment(a3_web3_net) /\ Fragment(a4_scope)
  /\ Fragment(b1_table_consistency \o b2_header_chain)
<1>1. {"num", "safe", "finalized", "pending", "number", "cn", "head"} \subseteq Free
      /\ {"gasPrice", "baseFee"} \subseteq Regs
  BY DEF Free, Regs
<1>2. Plain(Ask) /\ Plain([op |-> "engine"])
  BY PlainReads, PlainChecks
<1>3. PlainBody(a1_engine_surface)
  BY <1>2, Plain1 DEF a1_engine_surface
<1>4. PlainBody(a2_chain)
  <2>1. Plain(Fee("gasPrice")) /\ Plain(Fee("baseFee"))
        /\ Plain(Check("gasPrice", "gasPrice", ">=", "baseFee", 0))
    BY <1>1, PlainReads, PlainChecks
  <2>2. QED
    BY <1>2, <2>1, Plain5 DEF a2_chain
<1>5. PlainBody(a2_blocks)
  <2>1. /\ Plain(BlockNumber("num")) /\ Plain(BlockNumber("pending"))
        /\ Plain(Check("pending", "pending", "=", "num", 0))
    BY <1>1, PlainReads, PlainChecks
  <2>2. ASSUME NEW tag \in Free, NEW window
        PROVE  PlainBody(Resolves(tag, window))
    <3>1. /\ Plain(Tag(tag, window)) /\ Plain(Check("pastGenesis", tag, ">", "zero", 0))
          /\ Plain(Check("behind", tag, ">=", "num", -window))
          /\ Plain(Check("ahead", tag, "<=", "num", 0))
      BY PlainReads, PlainChecks
    <3>2. QED
      BY <3>1, Plain4 DEF Resolves
  <2>3. /\ PlainBody(Resolves("safe", SafeWindow))
        /\ PlainBody(Resolves("finalized", FinalizedWindow))
    BY <1>1, <2>2
  <2>4. /\ PlainBody(<<BlockNumber("num"), Ask>>)
        /\ PlainBody(<<BlockNumber("pending"), Check("pending", "pending", "=", "num", 0), Ask>>)
    BY <1>2, <2>1, Plain2, Plain3
  <2>5. QED
    BY <2>3, <2>4, PlainConcat DEF a2_blocks
<1>6. PlainBody(<<Ask>>)
  BY <1>2, Plain1
<1>7. PlainBody(b1_table_consistency \o b2_header_chain)
  <2>1. /\ Plain(BlockNumber("number")) /\ Plain(CurrentNumber("cn"))
        /\ Plain(Check("currentNumber", "cn", ">=", "number", 0)) /\ Plain(BlockNumber("head"))
    BY <1>1, PlainReads, PlainChecks
  <2>2. PlainBody(b1_table_consistency) /\ PlainBody(b2_header_chain)
    BY <1>2, <2>1, Plain2, Plain3 DEF b1_table_consistency, b2_header_chain
  <2>3. QED
    BY <2>2, PlainConcat
<1>8. QED
  BY <1>3, <1>4, <1>5, <1>6, <1>7, PlainFragment
     DEF a2_accounts, a2_exec, a3_web3_net, a4_scope

LEMMA DriverIsFragment == Fragment(chain_driver)
<1> DEFINE a == <<Balance("bal0"), Nonce("nonce0"), BlockNumber("prev_head")>>
           z == <<Balance("bal1"), Nonce("nonce1"), Check("nonce", "nonce1", "=", "nonce0", 2),
                  [Check("balance", "bal1", "=", "bal0", 2) EXCEPT !.op = "spent"],
                  BlockNumber("head"), Check("head", "head", ">=", "prev_head", 0)>>
<1>1. {"bal0", "nonce0", "prev_head", "bal1", "nonce1", "head"} \subseteq Free
  BY DEF Free, Regs
<1>2. PlainBody(a)
  <2>1. Plain(Balance("bal0")) /\ Plain(Nonce("nonce0")) /\ Plain(BlockNumber("prev_head"))
    BY <1>1, PlainReads
  <2>2. QED
    BY <2>1, Plain3
<1>3. PlainBody(z)
  <2>1. Plain(Balance("bal1")) /\ Plain(Nonce("nonce1")) /\ Plain(BlockNumber("head"))
    BY <1>1, PlainReads
  <2>2. /\ Plain(Check("nonce", "nonce1", "=", "nonce0", 2))
        /\ Plain([Check("balance", "bal1", "=", "bal0", 2) EXCEPT !.op = "spent"])
        /\ Plain(Check("head", "head", ">=", "prev_head", 0))
    BY PlainChecks
  <2>3. QED
    BY <2>1, <2>2, Plain6
<1> HIDE DEF a, z
<1>4. Fragment(Driven("transfer0", 0)) /\ Fragment(Driven("transfer1", 1))
  BY DrivenIsBody DEF Fragment
<1>5. Fragment(((a \o Driven("transfer0", 0)) \o Driven("transfer1", 1)) \o z)
  BY <1>2, <1>3, <1>4, PlainFragment, FragmentConcat
<1>6. QED
  BY <1>5 DEF a, z, chain_driver

LEMMA ContractsAreFragment == Fragment(b3_contracts)
<1>1. PlainBody(<<Nonce("nonce")>>)
  <2>1. "nonce" \in Free
    BY DEF Free, Regs
  <2>2. QED
    BY <2>1, PlainReads, Plain1
<1>2. Fragment(Deployed("store", 0)) /\ Fragment(Deployed("revert", 1))
  BY DeployedIsBody DEF Fragment
<1>3. QED
  BY <1>1, <1>2, PlainFragment, FragmentConcat DEF b3_contracts

LEMMA PredeploysAreFragment == Fragment(predeploy_matrix)
<1>1. {"nonce", "nonce0", "nonce1", "bal0", "bal1", "bal2", "bal3"} \subseteq Free
      /\ "nonce" \in Regs /\ {"seq0", "seq1"} \subseteq Free
  BY DEF Free, Regs
<1>2. Fragment(<<Ask>>)
  BY PlainReads, Plain1, PlainFragment
<1>3. \A id : Fragment(Sent(id))
  BY SentIsPlain, PlainFragment
<1>4. Fragment(L1BlockGroup) /\ Fragment(SystemConfigGroup)
  <2> DEFINE a == <<Ask, SequenceNumber("seq0"), SequenceNumber("seq1"),
                    [Check("sequence", "seq1", "=", "seq0", 1) EXCEPT !.op = "steps"]>>
  <2>1. Fragment(a)
    <3>1. Plain(Ask) /\ Plain(SequenceNumber("seq0")) /\ Plain(SequenceNumber("seq1"))
      BY <1>1, PlainReads
    <3>2. Plain([Check("sequence", "seq1", "=", "seq0", 1) EXCEPT !.op = "steps"])
      BY PlainChecks
    <3>3. QED
      BY <3>1, <3>2, Plain4, PlainFragment
  <2> HIDE DEF a
  <2>2. Fragment(a \o Sent("reject_caller")) /\ Fragment(<<Ask>> \o Sent("setValue"))
    BY <1>2, <1>3, <2>1, FragmentConcat
  <2>3. Fragment((a \o Sent("reject_caller")) \o Sent("reject_length"))
    BY <1>3, <2>2, FragmentConcat
  <2>4. QED
    BY <2>2, <2>3 DEF a, L1BlockGroup, SystemConfigGroup
<1>5. Fragment(MessengerGroup)
  <2>1. "gwei" \in Unread /\ 0 \in Int
    BY DEF Unread
  <2>2. /\ Plain(Nonce("nonce")) /\ Plain(Count({"message"}, "nonce0"))
        /\ Plain(Count({"message"}, "nonce1")) /\ Plain(Await("message", Raise))
        /\ Plain(Check("messageNonce", "nonce1", "=", "nonce0", 1))
    BY <1>1, PlainReads, PlainCounts, PlainWaits, PlainChecks
  <2>3. Plain(Send("message", "nonce", 0, "gwei"))
    BY <1>1, <2>1, PlainSend
  <2>4. QED
    BY <2>2, <2>3, Plain7, PlainFragment DEF MessengerGroup
<1>6. ASSUME NEW id, NEW before \in Free, NEW after \in Free, NEW name
      PROVE  Fragment(Bridged(id, before, after, name))
  <2>1. Plain(Count({id}, before)) /\ Plain(Count({id}, after))
    BY PlainCounts
  <2>2. Plain(Unverified(name, after, before, 1))
    BY PlainChecks DEF Unverified
  <2>3. Fragment(<<Count({id}, before)>>)
    BY <2>1, Plain1, PlainFragment
  <2>4. Fragment(<<Count({id}, after), Unverified(name, after, before, 1)>>)
    BY <2>1, <2>2, Plain2, PlainFragment
  <2>5. Fragment(<<Count({id}, before)>> \o Sent(id))
    BY <1>3, <2>3, FragmentConcat
  <2>6. QED
    BY <2>4, <2>5, FragmentConcat DEF Bridged
<1>7. Fragment(BridgeGroup)
  <2>1. /\ Fragment(Bridged("deposit", "bal0", "bal1", "mint"))
        /\ Fragment(Bridged("withdraw", "bal2", "bal3", "burn"))
    BY <1>1, <1>6
  <2>2. QED
    BY <1>3, <2>1, FragmentConcat DEF BridgeGroup
<1>8. Fragment(MessagePasserGroup)
  BY MessagePasserIsBody DEF Fragment
<1>9. QED
  BY <1>4, <1>5, <1>7, <1>8, FragmentConcat DEF predeploy_matrix

LEMMA BoundariesAreFragment == Fragment(nonce_fee_boundaries)
<1>1. {"n0", "n1", "n2", "n3", "n4", "n5", "n6", "n7", "n8", "n9"} \subseteq Free
      /\ Free \subseteq Regs /\ "bf" \in Regs
  BY DEF Free, Regs
<1>2. "quoted" \in Unread
  BY DEF Unread
<1>3. \A id : \A r \in Free : \A plus \in Int : Plain(Send(id, r, plus, "quoted"))
  BY <1>1, <1>2, PlainSend
<1>4. Fragment(Section0)
  <2>1. Plain(Fee("bf")) /\ Plain(Advance("none", "n0")) /\ Plain(Await("c0", Raise))
    BY <1>1, PlainReads, PlainWaits
  <2>2. Plain(Send("c0", "n0", 0, "quoted"))
    BY <1>1, <1>3
  <2>3. QED
    BY <2>1, <2>2, Plain4, PlainFragment DEF Section0
<1>5. Fragment(Section1)
  <2>1. /\ Plain(Advance("n0", "n1")) /\ Plain(Absent("gap")) /\ Plain(Await("first", Raise))
        /\ Plain(Await("second", Raise)) /\ Plain(Await("gap", Raise))
        /\ Plain([op |-> "order", of |-> <<"first", "second", "gap">>])
    BY <1>1, PlainWaits, PlainChecks
  <2>2. /\ Plain(Send("gap", "n1", 2, "quoted")) /\ Plain(Send("first", "n1", 0, "quoted"))
        /\ Plain(Send("second", "n1", 1, "quoted"))
    BY <1>1, <1>3
  <2>3. QED
    BY <2>1, <2>2, Plain9, PlainFragment DEF Section1
<1>6. Fragment(Section2)
  <2>1. /\ Plain(Advance("n1", "n2")) /\ Plain(AwaitOne({"twin1", "twin2"}))
        /\ Plain([op |-> "one", of |-> {"twin1", "twin2"}])
    BY <1>1, PlainWaits, PlainChecks
  <2>2. Plain(Send("twin1", "n2", 0, "quoted")) /\ Plain(Send("twin2", "n2", 0, "quoted"))
    BY <1>1, <1>3
  <2>3. QED
    BY <2>1, <2>2, Plain5, PlainFragment DEF Section2
<1>7. Fragment(Section3)
  <2>1. Plain(Advance("n2", "n3")) /\ Plain(Absent("low")) /\ Plain(Await("c3", Raise))
    BY <1>1, PlainWaits
  <2>2. Plain(Send("low", "n3", -1, "quoted")) /\ Plain(Send("c3", "n3", 0, "quoted"))
    BY <1>1, <1>3
  <2>3. QED
    BY <2>1, <2>2, Plain5, PlainFragment DEF Section3
<1>8. {"half", "under", "exact", "legacy", "double", "tipped"} \subseteq Prices
  BY DEF Prices
<1>9. /\ Fragment(Evicted("n3", "n4", "half", "half", "c4"))
      /\ Fragment(Evicted("n4", "n5", "under", "under", "c5"))
  BY <1>1, <1>8, EvictedIsBody DEF Fragment
<1>10. /\ Fragment(Charged("n5", "n6", "exact", "exact"))
       /\ Fragment(Charged("n6", "n7", "legacy", "legacy"))
       /\ Fragment(Charged("n7", "n8", "double", "double"))
       /\ Fragment(Charged("n8", "n9", "tipped", "tipped"))
  BY <1>1, <1>8, ChargedIsBody DEF Fragment
<1>11. Fragment(Section0 \o Section1 \o Section2 \o Section3)
  BY <1>4, <1>5, <1>6, <1>7, FragmentConcat
<1>12. Fragment(Section0 \o Section1 \o Section2 \o Section3
                \o Evicted("n3", "n4", "half", "half", "c4")
                \o Evicted("n4", "n5", "under", "under", "c5"))
  BY <1>9, <1>11, FragmentConcat
<1>13. QED
  BY <1>10, <1>12, FragmentConcat DEF nonce_fee_boundaries

LEMMA ScenariosAreFragment == Fragment(l2_tx_scenarios)
<1>1. {"nonce", "code", "counter1", "counter2", "counter3"} \subseteq Free /\ "nonce" \in Regs
  BY DEF Free, Regs
<1>2. "quoted" \in Unread /\ 0 \in Int
  BY DEF Unread
<1>3. \A id : Fragment(Cast(id))
  <2>1. SUFFICES ASSUME NEW id PROVE Fragment(Cast(id))
    OBVIOUS
  <2>2. Plain(Nonce("nonce")) /\ Plain(Await(id, Raise))
    BY <1>1, PlainReads, PlainWaits
  <2>3. Plain(Send(id, "nonce", 0, "quoted"))
    BY <1>1, <1>2, PlainSend
  <2>4. QED
    BY <2>2, <2>3, Plain3, PlainFragment DEF Cast
<1> DEFINE z1 == <<Count({"create"}, "code"), Check("code", "code", "=", "one", 0)>>
           z2 == <<Check("counter", "counter1", "=", "one", 0),
                   Check("counter", "counter2", "=", "one", 1)>>
           z3 == <<Counter("counter3"), Check("counter", "counter3", "=", "one", 1)>>
<1>4. \A r \in Free : Plain(Counter(r))
  BY PlainCounts DEF Counter
<1>5. Fragment(z1) /\ Fragment(z3)
  <2>1. Plain(Count({"create"}, "code")) /\ Plain(Check("code", "code", "=", "one", 0))
        /\ Plain(Counter("counter3")) /\ Plain(Check("counter", "counter3", "=", "one", 1))
    BY <1>1, <1>4, PlainCounts, PlainChecks
  <2>2. QED
    BY <2>1, Plain2, PlainFragment
<1>6. Fragment(z2) /\ \A r \in Free : Fragment(<<Counter(r)>>)
  <2>1. /\ Plain(Check("counter", "counter1", "=", "one", 0))
        /\ Plain(Check("counter", "counter2", "=", "one", 1))
    BY PlainChecks
  <2>2. QED
    BY <1>4, <2>1, Plain1, Plain2, PlainFragment
<1> HIDE DEF z1, z2, z3
<1>7. Fragment(Cast("create") \o z1 \o Cast("inc1") \o <<Counter("counter1")>>)
  BY <1>1, <1>3, <1>5, <1>6, FragmentConcat
<1>8. Fragment(Cast("create") \o z1 \o Cast("inc1") \o <<Counter("counter1")>>
               \o Cast("inc2") \o <<Counter("counter2")>>)
  BY <1>1, <1>3, <1>6, <1>7, FragmentConcat
<1>9. Fragment(Cast("create") \o z1 \o Cast("inc1") \o <<Counter("counter1")>>
               \o Cast("inc2") \o <<Counter("counter2")>> \o z2 \o Cast("boom") \o z3)
  BY <1>3, <1>5, <1>6, <1>8, FragmentConcat
<1>10. QED
  BY <1>9 DEF z1, z2, z3, l2_tx_scenarios

-----------------------------------------------------------------------------
(* The restart, and the plans.                                               *)

LEMMA RestartIsBody ==
  /\ Body(restart_b3)
  /\ Len(restart_b3) = 3
  /\ restart_b3[1].op = "kill" /\ restart_b3[2].op = "gone" /\ restart_b3[3].op = "launch"
<1> DEFINE s == restart_b3
<1>1. /\ Len(s) = 3 /\ Sequence(s)
      /\ s[1] = [op |-> "kill"] /\ s[2] = [op |-> "gone"] /\ s[3] = [op |-> "launch"]
  BY DEF restart_b3, Sequence
<1> HIDE DEF s
<1>2. s[1].op = "kill" /\ s[2].op = "gone" /\ s[3].op = "launch"
  BY <1>1
<1>3. \A i \in 1..Len(s) : s[i].op \in RestartOps
  BY <1>1, <1>2 DEF RestartOps
<1>4. \A i \in 1..Len(s) : WellFormed(s[i])
  BY <1>3 DEF RestartOps, WellFormed, Ops, Readers
<1>5. Body(s)
  BY <1>1, <1>3, <1>4 DEF Body, JumpsInside, FieldsSeen, PricesRead, RestartOps
<1>6. QED
  BY <1>1, <1>2, <1>5 DEF s

LEMMA PersistIsBody ==
  /\ Body(b4_persist) /\ Len(b4_persist) = 8
  /\ \A i \in 1..8 : b4_persist[i].op \in RestartOps => i \in 2..4
  /\ \A i \in 1..8 : b4_persist[i].op # "field"
  /\ b4_persist[2].op = "kill" /\ b4_persist[3].op = "gone" /\ b4_persist[4].op = "launch"
  /\ b4_persist[5].op = "retry"
<1> DEFINE a == <<BlockNumber("h1")>>
           t == <<AnyHead("h2"), Check("headKept", "h2", ">=", "h1", 0), LaterBlock("h2", "h3"),
                  Check("resumes", "h3", ">", "h2", 0)>>
           b == a \o restart_b3
           s == b \o t
<1>1. {"h1", "h2", "h3"} \subseteq Free
  BY DEF Free, Regs
<1>2. PlainBody(a) /\ Len(a) = 1
  BY <1>1, PlainReads, Plain1
<1>3. PlainBody(t) /\ Len(t) = 4 /\ t[1] = AnyHead("h2")
  <2>1. /\ Plain(AnyHead("h2")) /\ Plain(LaterBlock("h2", "h3"))
        /\ Plain(Check("headKept", "h2", ">=", "h1", 0)) /\ Plain(Check("resumes", "h3", ">", "h2", 0))
    BY <1>1, PlainWaits, PlainChecks
  <2>2. QED
    BY <2>1, Plain4
<1> HIDE DEF a, t
<1>4. Sequence(a) /\ Sequence(restart_b3) /\ Sequence(t)
  BY <1>2, <1>3, RestartIsBody DEF PlainBody, Body
<1>5. Body(b) /\ Body(s)
  BY <1>2, <1>3, PlainIsBody, RestartIsBody, BodyConcat
<1>6. /\ Sequence(b) /\ Len(b) = Len(a) + Len(restart_b3)
      /\ \A i \in 1..Len(a) : b[i] = a[i]
      /\ \A i \in 1..Len(restart_b3) : b[Len(a) + i] = restart_b3[i]
  BY <1>4, Concatenated
<1> HIDE DEF b
<1>7. /\ Len(s) = Len(b) + Len(t)
      /\ \A i \in 1..Len(b) : s[i] = b[i]
      /\ \A i \in 1..Len(t) : s[Len(b) + i] = t[i]
  BY <1>4, <1>6, Concatenated
<1> HIDE DEF s
<1>8. Len(b) = 4 /\ Len(s) = 8
  BY <1>2, <1>3, <1>6, <1>7, RestartIsBody
<1>9. s[1] = a[1] /\ \A i \in 1..3 : s[1 + i] = restart_b3[i]
  BY <1>2, <1>6, <1>7, <1>8, RestartIsBody
<1>10. \A i \in 1..4 : s[4 + i] = t[i]
  BY <1>3, <1>7, <1>8
<1>11. s[2] = restart_b3[1] /\ s[3] = restart_b3[2] /\ s[4] = restart_b3[3]
  <2>1. 1 + 1 = 2 /\ 1 + 2 = 3 /\ 1 + 3 = 4 /\ {1, 2, 3} \subseteq 1..3
    OBVIOUS
  <2>2. s[1 + 1] = restart_b3[1] /\ s[1 + 2] = restart_b3[2] /\ s[1 + 3] = restart_b3[3]
    BY <1>9, <2>1
  <2>3. QED
    BY <2>1, <2>2
<1>12. s[5].op = "retry"
  <2>1. s[4 + 1] = t[1] /\ 4 + 1 = 5
    BY <1>10
  <2>2. QED
    BY <1>3, <2>1 DEF AnyHead
<1>13. \A i \in 1..8 : i \notin 2..4 => Plain(s[i])
  <2>1. Plain(s[1])
    BY <1>2, <1>9 DEF PlainBody
  <2>2. ASSUME NEW i \in 5..8 PROVE Plain(s[i])
    <3>1. PICK j \in 1..4 : i = 4 + j
      <4>1. i - 4 \in 1..4 /\ i = 4 + (i - 4)
        OBVIOUS
      <4>2. QED
        BY <4>1
    <3>2. QED
      BY <1>3, <1>10, <3>1 DEF PlainBody
  <2>3. QED
    BY <2>1, <2>2
<1>14. \A i \in 1..8 : s[i].op # "field" /\ (s[i].op \in RestartOps => i \in 2..4)
  <2>1. \A i \in 2..4 : i = 2 \/ i = 3 \/ i = 4
    OBVIOUS
  <2>2. \A i \in 2..4 : s[i].op # "field"
    BY <1>11, <2>1, RestartIsBody
  <2>3. QED
    BY <1>13, <2>2 DEF Plain
<1>15. s = b4_persist
  BY DEF s, b, a, t, b4_persist
<1>16. QED
  BY <1>5, <1>8, <1>11, <1>12, <1>14, <1>15, RestartIsBody

\* What every plan is.
WellMadeUnit(u) ==
  /\ Body(u.body) /\ u.exits \in BOOLEAN
  /\ u.name = "b4_persist" => \A i \in 1..Len(u.body) : u.body[i].op # "field"

WellMade(units) ==
  /\ Len(units) \in Nat /\ DOMAIN units = 1..Len(units)
  /\ \A i \in 1..Len(units) : WellMadeUnit(units[i])

LEMMA UnitLemma ==
  ASSUME NEW name, NEW body
  PROVE  /\ Unit(name, body).body = body /\ Unit(name, body).name = name
         /\ Body(body) /\ name # "b4_persist" => WellMadeUnit(Unit(name, body))
BY DEF Unit, WellMadeUnit

\* The restart is at u, from its k-th instruction on, and the instruction at v, w comes later
\* and needs a node that answers.
Restarting(units, u, k, v, w) ==
  /\ u \in 1..Len(units) /\ v \in 1..Len(units)
  /\ k \in Nat \ {0} /\ k + 2 <= Len(units[u].body) /\ w \in 1..Len(units[v].body)
  /\ \A i \in 1..Len(units) : \A j \in 1..Len(units[i].body) :
       units[i].body[j].op \in RestartOps => i = u /\ j \in k..(k + 2)
  /\ units[u].body[k].op = "kill" /\ units[u].body[k + 1].op = "gone"
  /\ units[u].body[k + 2].op = "launch"
  /\ units[v].body[w].op \in Calls \cup {"retry"}
  /\ v > u \/ (v = u /\ w > k + 2)

LEMMA ReadsPlan == WellMade(reads) /\ Restarting(reads, 1, 1, 3, 1)
<1> DEFINE s == reads
<1>1. /\ Len(s) = 9 /\ DOMAIN s = 1..9
      /\ s[1] = Unit("restart_b3", restart_b3) /\ s[2] = Unit("a1_engine_surface", a1_engine_surface)
      /\ s[3] = Unit("a2_chain", a2_chain) /\ s[4] = Unit("a2_blocks", a2_blocks)
      /\ s[5] = Unit("a2_accounts", a2_accounts) /\ s[6] = Unit("a2_exec", a2_exec)
      /\ s[7] = Unit("a3_web3_net", a3_web3_net) /\ s[8] = Unit("a4_scope", a4_scope)
      /\ s[9] = Unit("state_verify", b1_table_consistency \o b2_header_chain)
  BY DEF reads
<1> HIDE DEF s
<1>2. \A i \in 1..9 : \/ i = 1 \/ i = 2 \/ i = 3 \/ i = 4 \/ i = 5 \/ i = 6 \/ i = 7 \/ i = 8
                      \/ i = 9
  OBVIOUS
<1>3. s[1].body = restart_b3 /\ WellMadeUnit(s[1])
  BY <1>1, UnitLemma, RestartIsBody
<1>4. \A i \in 2..9 : Calm(s[i].body) /\ WellMadeUnit(s[i])
  <2>1. \A name, body : Fragment(body) /\ name # "b4_persist" =>
          Calm(Unit(name, body).body) /\ WellMadeUnit(Unit(name, body))
    BY UnitLemma DEF Fragment
  <2>2. QED
    BY <1>1, <1>2, <2>1, ReadsAreFragments
<1>5. WellMade(s)
  BY <1>1, <1>3, <1>4 DEF WellMade
<1>6. s[3].body = a2_chain /\ Len(a2_chain) = 5 /\ a2_chain[1].op = "ask"
  BY <1>1, UnitLemma DEF a2_chain, Ask
<1>7. ASSUME NEW i \in 1..9, NEW j \in 1..Len(s[i].body), s[i].body[j].op \in RestartOps
      PROVE  i = 1 /\ j \in 1..3
  BY <1>3, <1>4, <1>7, RestartIsBody DEF Calm
<1>8. Restarting(s, 1, 1, 3, 1)
  <2>1. 1 \in 1..Len(s) /\ 3 \in 1..Len(s) /\ Len(s[1].body) = 3 /\ Len(s[3].body) = 5
    BY <1>1, <1>3, <1>6, RestartIsBody
  <2>2. /\ s[1].body[1].op = "kill" /\ s[1].body[1 + 1].op = "gone"
        /\ s[1].body[1 + 2].op = "launch"
    BY <1>3, RestartIsBody
  <2>3. s[3].body[1].op \in Calls \cup {"retry"}
    BY <1>6 DEF Calls
  <2>4. \A i \in 1..Len(s) : \A j \in 1..Len(s[i].body) :
          s[i].body[j].op \in RestartOps => i = 1 /\ j \in 1..(1 + 2)
    BY <1>1, <1>7
  <2>5. QED
    BY <2>1, <2>2, <2>3, <2>4 DEF Restarting
<1>9. QED
  BY <1>5, <1>8 DEF s

LEMMA TransactionsPlan == WellMade(transactions) /\ Restarting(transactions, 2, 2, 2, 5)
<1> DEFINE s == transactions
<1>1. /\ Len(s) = 3 /\ DOMAIN s = 1..3
      /\ s[1] = Unit("chain_driver", chain_driver) /\ s[2] = Unit("b4_persist", b4_persist)
      /\ s[3] = Unit("b3_contracts", b3_contracts)
  BY DEF transactions
<1> HIDE DEF s
<1>2. \A i \in 1..3 : i = 1 \/ i = 2 \/ i = 3
  OBVIOUS
<1>3. s[1].body = chain_driver /\ s[2].body = b4_persist /\ s[3].body = b3_contracts
  BY <1>1, UnitLemma
<1>4. WellMadeUnit(s[1]) /\ WellMadeUnit(s[3]) /\ Calm(chain_driver) /\ Calm(b3_contracts)
  BY <1>1, UnitLemma, DriverIsFragment, ContractsAreFragment DEF Fragment
<1>5. WellMadeUnit(s[2])
  <2>1. s[2].exits = FALSE /\ s[2].body = b4_persist
    BY <1>1 DEF Unit
  <2>2. QED
    BY <2>1, PersistIsBody DEF WellMadeUnit
<1>6. WellMade(s)
  BY <1>1, <1>2, <1>4, <1>5 DEF WellMade
<1>7. ASSUME NEW i \in 1..3, NEW j \in 1..Len(s[i].body), s[i].body[j].op \in RestartOps
      PROVE  i = 2 /\ j \in 2..4
  BY <1>2, <1>3, <1>4, <1>7, PersistIsBody DEF Calm
<1>8. Restarting(s, 2, 2, 2, 5)
  <2>1. 2 \in 1..Len(s) /\ Len(s[2].body) = 8
    BY <1>1, <1>3, PersistIsBody
  <2>2. /\ s[2].body[2].op = "kill" /\ s[2].body[2 + 1].op = "gone"
        /\ s[2].body[2 + 2].op = "launch"
    BY <1>3, PersistIsBody
  <2>3. s[2].body[5].op \in Calls \cup {"retry"}
    BY <1>3, PersistIsBody
  <2>4. \A i \in 1..Len(s) : \A j \in 1..Len(s[i].body) :
          s[i].body[j].op \in RestartOps => i = 2 /\ j \in 2..(2 + 2)
    BY <1>1, <1>7
  <2>5. QED
    BY <2>1, <2>2, <2>3, <2>4 DEF Restarting
<1>9. QED
  BY <1>6, <1>8 DEF s

LEMMA OtherPlans ==
  /\ WellMade(predeploys)
  /\ WellMade(<<[Unit("boundaries", nonce_fee_boundaries) EXCEPT !.exits = TRUE]>>)
  /\ WellMade(<<[Unit("scenarios", l2_tx_scenarios) EXCEPT !.exits = TRUE]>>)
<1>1. Fragment(<<[op |-> "b3a_start"], [op |-> "engine"]>>)
  BY PlainChecks, Plain2, PlainFragment
<1>2. WellMade(predeploys)
  <2> DEFINE s == predeploys
  <2>1. /\ Len(s) = 2 /\ DOMAIN s = 1..2
        /\ s[1] = Unit("predeploy_matrix", predeploy_matrix)
        /\ s[2] = Unit("a1_active", <<[op |-> "b3a_start"], [op |-> "engine"]>>)
    BY DEF predeploys
  <2> HIDE DEF s
  <2>2. WellMadeUnit(s[1]) /\ WellMadeUnit(s[2])
    BY <1>1, <2>1, UnitLemma, PredeploysAreFragment DEF Fragment
  <2>3. \A i \in 1..2 : i = 1 \/ i = 2
    OBVIOUS
  <2>4. WellMade(s)
    BY <2>1, <2>2, <2>3 DEF WellMade
  <2>5. QED
    BY <2>4 DEF s
<1>3. ASSUME NEW name, NEW body, Fragment(body), name # "b4_persist"
      PROVE  WellMade(<<[Unit(name, body) EXCEPT !.exits = TRUE]>>)
  <2> DEFINE u == [Unit(name, body) EXCEPT !.exits = TRUE]
             s == <<u>>
  <2>1. WellMadeUnit(u)
    BY <1>3 DEF Fragment, WellMadeUnit, Unit
  <2> HIDE DEF u
  <2>2. Len(s) = 1 /\ DOMAIN s = 1..1 /\ s[1] = u
    OBVIOUS
  <2> HIDE DEF s
  <2>3. WellMade(s)
    BY <2>1, <2>2 DEF WellMade
  <2>4. QED
    BY <2>3 DEF s, u
<1>4. QED
  BY <1>2, <1>3, BoundariesAreFragment, ScenariosAreFragment

LEMMA PlansAreWellMade ==
  ASSUME NEW p \in Plans
  PROVE  /\ WellMade(PlanOf[p])
         /\ p = "reads" => Restarting(PlanOf[p], 1, 1, 3, 1)
         /\ p = "transactions" => Restarting(PlanOf[p], 2, 2, 2, 5)
<1>1. p \in {"reads", "transactions", "predeploys", "boundaries", "scenarios"}
  BY GateAssumption DEF PlanOf
<1>2. CASE p = "reads"
  BY <1>2, ReadsPlan DEF PlanOf
<1>3. CASE p = "transactions"
  BY <1>3, TransactionsPlan DEF PlanOf
<1>4. CASE p \in {"predeploys", "boundaries", "scenarios"}
  <2>1. /\ PlanOf["predeploys"] = predeploys
        /\ PlanOf["boundaries"] = <<[Unit("boundaries", nonce_fee_boundaries) EXCEPT !.exits = TRUE]>>
        /\ PlanOf["scenarios"] = <<[Unit("scenarios", l2_tx_scenarios) EXCEPT !.exits = TRUE]>>
    BY DEF PlanOf
  <2>2. p # "reads" /\ p # "transactions"
    BY <1>4
  <2>3. WellMade(PlanOf[p])
    BY <1>4, <2>1, OtherPlans
  <2>4. QED
    BY <2>2, <2>3
<1>5. QED
  BY <1>1, <1>2, <1>3, <1>4

-----------------------------------------------------------------------------
(* The inductive invariant.                                                 *)

\* There are finitely many transactions, and none is placed above the head; the unit is
\* one of the plan's, or all are done and the last one's failures are counted.
Shape ==
  /\ plan \in Plans /\ unit \in 1..(Len(PlanOf[plan]) + 1)
  /\ pidFile \in Nat \ {0}
  /\ IsFiniteSet(pool) /\ IsFiniteSet(DOMAIN mined)
  /\ \A i \in DOMAIN mined : mined[i].block <= height
  /\ Finished => failed = {}

\* Between a wait for a receipt and a field of it the transaction is in the chain.
Seen ==
  ~Finished =>
    \A p \in 1..Len(Running.body) : \A q \in 1..(p - 1) :
      /\ q < pc /\ pc <= p
      /\ Running.body[p].op = "field" /\ SeenAt(Running.body, q, p)
      => Running.body[p].of \in DOMAIN mined

\* Behind a read of the base fee the register holds one.
FeeRead ==
  ~Finished /\ pc # End =>
    \A q \in 1..(pc - 1) : ReadsFee(Running.body[q]) => regs["bf"] \in Fees

\* Which processes there are before the kill, after it, after the wait and after the
\* launch; and an answered call after that was answered by the new one.
Past(u, q) == unit > u \/ (unit = u /\ pc > q)

Unharmed == ~fail /\ failed = {} /\ "lingered" \notin trouble

Replaced(u, k, v, w) ==
  Unharmed =>
    /\ ~Past(u, k) => pidFile = 1 /\ doomed = {} /\ live \subseteq {1}
    /\ Past(u, k) /\ ~Past(u, k + 1) => pidFile = 1 /\ doomed = {1} /\ live \subseteq {1}
    /\ Past(u, k + 1) /\ ~Past(u, k + 2) => pidFile = 1 /\ doomed = {1} /\ live = {}
    /\ Past(u, k + 2) => pidFile = 2 /\ doomed = {1} /\ live = {2}
    /\ Past(v, w) => holder = 2

Restarted ==
  /\ plan = "reads" => Replaced(1, 1, 3, 1)
  /\ plan = "transactions" => Replaced(2, 2, 2, 5)

IInv == TypeOK /\ Shape /\ Seen /\ FeeRead /\ Restarted

-----------------------------------------------------------------------------
(* What one step of a script does to the script.                             *)

\* The unit in progress.
LEMMA Here ==
  ASSUME IInv, ~Finished
  PROVE  /\ WellMadeUnit(Running) /\ Body(Running.body)
         /\ unit \in 1..Len(PlanOf[plan]) /\ unit \in DOMAIN PlanOf[plan]
         /\ Len(Running.body) \in Nat /\ DOMAIN Running.body = 1..Len(Running.body)
         /\ End = Len(Running.body) + 1 /\ pc \in 1..End
<1>1. plan \in Plans /\ unit \in 1..(Len(PlanOf[plan]) + 1) /\ ~(unit > Len(PlanOf[plan]))
  BY DEF IInv, Shape, Finished
<1>2. WellMade(PlanOf[plan])
  BY <1>1, PlansAreWellMade
<1>3. unit \in 1..Len(PlanOf[plan]) /\ unit \in DOMAIN PlanOf[plan]
  BY <1>1, <1>2 DEF WellMade
<1>4. WellMadeUnit(Running)
  BY <1>2, <1>3 DEF WellMade, Running
<1>5. Body(Running.body)
  BY <1>4 DEF WellMadeUnit
<1>6. Len(Running.body) \in Nat /\ DOMAIN Running.body = 1..Len(Running.body)
  BY <1>5, SequenceLemma DEF Body
<1>7. End = Len(Running.body) + 1 /\ pc \in 1..End
  BY DEF End, IInv, TypeOK
<1>8. QED
  BY <1>3, <1>4, <1>5, <1>6, <1>7

\* The instruction that is next.
LEMMA Current ==
  ASSUME IInv, NEW ops, At(ops)
  PROVE  /\ ~Finished /\ pc # End /\ pc \in 1..Len(Running.body)
         /\ WellFormed(Ins) /\ Ins.op \in ops
<1>1. ~Finished /\ pc # End /\ Ins.op \in ops
  BY DEF At
<1>2. pc \in 1..Len(Running.body)
  BY <1>1, Here
<1>3. WellFormed(Ins)
  BY <1>1, <1>2, Here DEF Body, Ins
<1>4. QED
  BY <1>1, <1>2, <1>3

\* It goes on, or ends the unit or skips instructions with a failed check.
Skips == Ins.op = "await" /\ Ins.timeout # Raise /\ pc' = pc + 1 + Ins.timeout

Goes ==
  /\ ~Finished /\ pc # End
  /\ UNCHANGED <<plan, bridge, unit, fail>>
  /\ trouble \subseteq trouble' /\ trouble' \subseteq Troubles
  /\ failed \subseteq failed'
  /\ pc' = pc + 1 \/ (failed' # {} /\ (pc' = End \/ Skips))
  /\ Ins.op = "await" => Found \/ pc' = End \/ Skips

Sets ==
  /\ regs' \in [Regs -> Int]
  /\ regs'["bf"] = regs["bf"] \/ regs'["bf"] \in Fees
  /\ ReadsFee(Ins) => pc' = End \/ regs'["bf"] \in Fees

LEMMA GoToLemma ==
  ASSUME IInv, ~Finished, pc # End, NEW p, NEW ts \in SUBSET Troubles, NEW fs, GoTo(p, ts, fs)
  PROVE  /\ UNCHANGED <<plan, pidFile, bridge, unit, fail>>
         /\ trouble \subseteq trouble' /\ trouble' \subseteq Troubles
         /\ failed \subseteq failed' /\ failed' = failed \cup fs
         /\ trouble' = trouble \cup ts
         /\ pc' = p \/ (fs # {} /\ pc' = End)
BY DEF GoTo, settings, IInv, TypeOK

LEMMA RegsLemma ==
  ASSUME IInv, WellFormed(Ins), Ins.op \in Readers, NEW v \in Int,
         Ins.op = "fee" => v \in Fees,
         regs' = [regs EXCEPT ![Ins.into] = v]
  PROVE  Sets
<1>1. regs \in [Regs -> Int] /\ Ins.into \in Regs /\ "bf" \in Regs
  BY DEF IInv, TypeOK, WellFormed, Regs
<1>2. Ins.into = "bf" => Ins.op = "fee"
  BY DEF WellFormed
<1>3. QED
  BY <1>1, <1>2 DEF Sets, ReadsFee

LEMMA IntoLemma ==
  ASSUME IInv, NEW ops, At(ops), ops \subseteq Readers, NEW v \in Int,
         Ins.op = "fee" => v \in Fees,
         NEW ts \in SUBSET Troubles, Into(v, ts)
  PROVE  Goes /\ Sets /\ UNCHANGED pidFile /\ pc' = pc + 1
<1>1. ~Finished /\ pc # End /\ WellFormed(Ins) /\ Ins.op \in ops
  BY Current
<1>2. Ins.op # "await"
  BY <1>1 DEF Readers
<1>3. GoTo(pc + 1, ts, {}) /\ regs' = [regs EXCEPT ![Ins.into] = v]
  BY DEF Into
<1>4. Sets
  BY <1>1, <1>3, RegsLemma
<1>5. QED
  BY <1>1, <1>2, <1>3, <1>4, GoToLemma DEF Goes

LEMMA SameRegs ==
  ASSUME IInv, UNCHANGED regs, ~ReadsFee(Ins) \/ pc' = End
  PROVE  Sets
BY DEF Sets, IInv, TypeOK

LEMMA PassLemma ==
  ASSUME IInv, NEW ops, At(ops), NEW ts \in SUBSET Troubles, NEW fs, Pass(ts, fs),
         Ins.op \notin {"fee", "await"} \/ (Ins.op = "await" /\ Found)
  PROVE  /\ Goes /\ Sets /\ UNCHANGED pidFile
         /\ trouble' = trouble \cup ts /\ failed' = failed \cup fs
<1>1. ~Finished /\ pc # End
  BY Current
<1>2. GoTo(pc + 1, ts, fs) /\ UNCHANGED regs
  BY DEF Pass
<1>3. Sets
  BY <1>2, SameRegs DEF ReadsFee
<1>4. /\ UNCHANGED <<plan, pidFile, bridge, unit, fail>>
      /\ trouble \subseteq trouble' /\ trouble' \subseteq Troubles
      /\ failed \subseteq failed' /\ failed' = failed \cup fs /\ trouble' = trouble \cup ts
      /\ pc' = pc + 1 \/ (fs # {} /\ pc' = End)
  BY <1>1, <1>2, GoToLemma
<1>5. Ins.op = "await" => Found
  OBVIOUS
<1>6. pc' = pc + 1 \/ (failed' # {} /\ pc' = End)
  BY <1>4
<1>7. Goes
  BY <1>1, <1>4, <1>5, <1>6 DEF Goes
<1>8. QED
  BY <1>3, <1>4, <1>7

LEMMA LeaveLemma ==
  ASSUME IInv, NEW ops, At(ops), NEW ts \in SUBSET Troubles, NEW fs, fs # {}, Leave(ts, fs)
  PROVE  Goes /\ Sets /\ UNCHANGED pidFile /\ failed' # {}
<1>1. ~Finished /\ pc # End
  BY Current
<1>2. GoTo(End, ts, fs) /\ UNCHANGED regs
  BY DEF Leave
<1>3. pc' = End
  BY <1>1, <1>2, GoToLemma
<1>4. Sets
  BY <1>2, <1>3, SameRegs
<1>5. QED
  BY <1>1, <1>2, <1>3, <1>4, GoToLemma DEF Goes

LEMMA JudgeLemma ==
  ASSUME IInv, NEW ops, At(ops), Ins.op \notin {"fee", "await"}, NEW name, NEW ok, Judge(name, ok)
  PROVE  Goes /\ Sets /\ UNCHANGED pidFile
<1>1. {} \in SUBSET Troubles
  OBVIOUS
<1>2. PICK fs \in {{}, {name}} : Pass({}, fs)
  BY DEF Judge
<1>3. QED
  BY <1>1, <1>2, PassLemma

-----------------------------------------------------------------------------
(* Every step of a script but the launch goes on from its instruction, and    *)
(* sets a register to a number.                                             *)

chainKept == <<height, ledger, fee, moves, mined>>
Steps == Goes /\ Sets /\ UNCHANGED chainKept

LEMMA CountLemma ==
  ASSUME IInv, NEW S, NEW b
  PROVE  /\ Cardinality(MinedBy(S, b)) \in Nat /\ Effects(S, b) \in Nat
         /\ PasserRoot(b) \in Nat /\ NonceAt(b) \in Nat
<1>1. ASSUME NEW T PROVE Cardinality(MinedBy(T, b)) \in Nat
  <2>1. IsFiniteSet(DOMAIN mined) /\ MinedBy(T, b) \subseteq DOMAIN mined
    BY DEF IInv, Shape, MinedBy
  <2>2. QED
    BY <2>1, FS_Subset, FS_CardinalityType
<1>2. \A T : Effects(T, b) \in Nat
  BY <1>1 DEF Effects
<1>3. QED
  BY <1>1, <1>2 DEF PasserRoot, NonceAt

LEMMA OriginLemma == ASSUME NEW b \in Nat PROVE InOrigin(b) \in Nat
<1>1. OriginBlocks \in Nat \ {0}
  BY GateAssumption
<1>2. QED
  BY <1>1 DEF InOrigin

LEMMA LatestLemma ==
  ASSUME IInv
  PROVE  height \in Nat /\ ledger \in Nat /\ Latest(ledger) \in Nat /\ Latest(height) \in Nat
<1>1. height \in Nat /\ ledger \in Nat
  BY DEF IInv, TypeOK
<1>2. \A b \in {ledger, height} :
        InOrigin(b) \in Nat /\ Effects(Ins.of, b) \in Nat /\ NonceAt(b) \in Nat
  BY <1>1, OriginLemma, CountLemma
<1>3. QED
  BY <1>1, <1>2 DEF Latest

LEMMA RaisedSteps == ASSUME IInv, Raised PROVE Steps /\ UNCHANGED <<pidFile, nodeVars>>
<1>1. At(Calls) /\ Leave({"down"}, {"raised"}) /\ UNCHANGED nodeVars
  BY DEF Raised
<1>2. {"down"} \in SUBSET Troubles
  BY DEF Troubles
<1>3. Goes /\ Sets /\ UNCHANGED pidFile
  BY <1>1, <1>2, LeaveLemma
<1>4. QED
  BY <1>1, <1>3 DEF Steps, chainKept, nodeVars, chainVars

LEMMA ReadBlockSteps ==
  ASSUME IInv, ReadBlock PROVE Steps /\ UNCHANGED <<pidFile, nodeVars>>
<1> DEFINE ops == {"ask", "head", "fee", "root", "field", "table"}
<1>1. At(ops) /\ UNCHANGED nodeVars
  BY DEF ReadBlock, Answering, At
<1>2. ~Finished /\ pc # End /\ pc \in 1..Len(Running.body) /\ WellFormed(Ins) /\ Ins.op \in ops
  BY <1>1, Current
<1>3. {} \in SUBSET Troubles
  OBVIOUS
<1>4. At({Ins.op})
  BY <1>2 DEF At
<1>5. CASE Ins.op = "ask"
  <2>1. Pass({}, {})
    BY <1>5 DEF ReadBlock
  <2>2. QED
    BY <1>1, <1>3, <1>5, <2>1, PassLemma DEF Steps, chainKept, nodeVars, chainVars
<1>6. ASSUME NEW v \in Int, Into(v, {}), Ins.op # "ask", Ins.op = "fee" => v \in Fees
      PROVE  Steps /\ UNCHANGED <<pidFile, nodeVars>>
  <2>1. {Ins.op} \subseteq Readers
    BY <1>2, <1>6 DEF Readers
  <2>2. Goes /\ Sets /\ UNCHANGED pidFile
    BY <1>3, <1>4, <1>6, <2>1, IntoLemma
  <2>3. QED
    BY <1>1, <2>2 DEF Steps, chainKept, nodeVars, chainVars
<1>7. CASE Ins.op \in {"head", "table"}
  <2>1. Into(height, {})
    <3>1. Ins.op \notin {"ask", "fee", "root", "field"}
      BY <1>7
    <3>2. QED
      BY <1>7, <3>1 DEF ReadBlock
  <2>2. height \in Int /\ Ins.op # "ask" /\ Ins.op # "fee"
    BY <1>7 DEF IInv, TypeOK
  <2>3. QED
    BY <1>6, <2>1, <2>2
<1>8. CASE Ins.op = "fee"
  <2>1. Into(fee, {}) /\ fee \in Fees /\ fee \in Int
    BY <1>8, L2NodeAssumption DEF ReadBlock, IInv, TypeOK
  <2>2. QED
    BY <1>6, <1>8, <2>1
<1>9. CASE Ins.op = "root"
  <2> DEFINE v == IF regs[Ins.at] = -1 THEN -1 ELSE PasserRoot(regs[Ins.at])
  <2>1. Into(v, {})
    BY <1>9 DEF ReadBlock
  <2>2. v \in Int
    BY CountLemma
  <2> HIDE DEF v
  <2>3. QED
    BY <1>6, <1>9, <2>1, <2>2
<1>10. CASE Ins.op = "field"
  <2>1. Into(mined[Ins.of][Ins.what], {})
    BY <1>10 DEF ReadBlock
  <2>2. Ins.of \in DOMAIN mined
    <3>1. Ins = Running.body[pc]
      BY DEF Ins
    <3>2. PICK q \in 1..(pc - 1) : SeenAt(Running.body, q, pc)
      BY <1>2, <1>10, <3>1, Here DEF Body, FieldsSeen
    <3>3. q < pc /\ pc <= pc
      BY <1>2, <3>2
    <3>4. QED
      BY <1>2, <1>10, <3>1, <3>2, <3>3 DEF IInv, Seen
  <2>3. mined[Ins.of] \in Place /\ Ins.what \in {"block", "index", "price"}
    BY <1>2, <1>10, <2>2 DEF IInv, TypeOK, WellFormed
  <2>4. mined[Ins.of][Ins.what] \in Int
    BY <2>3 DEF Place
  <2>5. QED
    BY <1>6, <1>10, <2>1, <2>4
<1>11. QED
  BY <1>2, <1>5, <1>7, <1>8, <1>9, <1>10

LEMMA ReadTagSteps == ASSUME IInv, ReadTag PROVE Steps /\ UNCHANGED <<pidFile, nodeVars>>
<1>1. At({"tag"}) /\ UNCHANGED nodeVars
  BY DEF ReadTag, Answering
<1>2. PICK b \in -1..height, ts \in SUBSET {"unsafe", "behind"} : Into(b, ts)
  BY DEF ReadTag
<1>3. ts \in SUBSET Troubles
  BY DEF Troubles
<1>4. b \in Int /\ {"tag"} \subseteq Readers /\ Ins.op # "fee"
  BY <1>1, Current DEF Readers, IInv, TypeOK
<1>5. Goes /\ Sets /\ UNCHANGED pidFile
  BY <1>1, <1>2, <1>3, <1>4, IntoLemma
<1>6. QED
  BY <1>1, <1>5 DEF Steps, chainKept, nodeVars, chainVars

LEMMA ReadStateSteps == ASSUME IInv, ReadState PROVE Steps /\ UNCHANGED <<pidFile, nodeVars>>
<1>1. At({"count", "nonce", "seq"}) /\ Into(Latest(ledger), Lag \cup Written) /\ UNCHANGED nodeVars
  BY DEF ReadState, Answering
<1>2. Lag \cup Written \in SUBSET Troubles
  BY DEF Lag, Written, Troubles
<1>3. Latest(ledger) \in Int /\ {"count", "nonce", "seq"} \subseteq Readers /\ Ins.op # "fee"
  BY <1>1, Current, LatestLemma DEF Readers
<1>4. Goes /\ Sets /\ UNCHANGED pidFile
  BY <1>1, <1>2, <1>3, IntoLemma
<1>5. QED
  BY <1>1, <1>4 DEF Steps, chainKept, nodeVars, chainVars

LEMMA SendSteps ==
  ASSUME IInv, SendTx
  PROVE  /\ Steps /\ UNCHANGED <<pidFile, live, doomed, holder, cut>>
         /\ pool' \subseteq Tx /\ IsFiniteSet(pool')
<1> DEFINE bf == regs["bf"]
           p == Priced(Ins.price, bf)
           t == [id |-> Ins.id, nonce |-> NonceOf(Ins), cap |-> p.cap, tip |-> p.tip]
<1>1. At({"send"}) /\ Pass({}, {}) /\ Admit(t)
  BY DEF SendTx, Answering
<1>2. UNCHANGED <<height, ledger, fee, moves, mined, live, doomed, holder, cut>>
  BY DEF SendTx
<1>3. /\ ~Finished /\ pc # End /\ pc \in 1..Len(Running.body) /\ WellFormed(Ins)
      /\ Ins.op = "send" /\ Ins = Running.body[pc]
  BY <1>1, Current DEF Ins
<1>4. Goes /\ Sets /\ UNCHANGED pidFile
  BY <1>1, <1>3, PassLemma
<1>5. Ins.id \in TxIds
  BY <1>3, Here, GateAssumption DEF IInv, Shape, Running
<1>6. NonceOf(Ins) \in Int
  BY <1>3 DEF NonceOf, WellFormed, IInv, TypeOK
<1>7. Ins.price \in Prices
  BY <1>3 DEF WellFormed
<1>8. p.cap \in Nat /\ p.tip \in Nat
  <2>1. Ample \in Nat /\ fee \in Nat
    BY L2NodeAssumption DEF IInv, TypeOK
  <2>2. CASE Ins.price \in Unread
    BY <2>1, <2>2 DEF Unread, Priced
  <2>3. CASE Ins.price \notin Unread
    <3>1. PICK q \in 1..(pc - 1) : ReadsFee(Running.body[q])
      BY <1>3, <2>3, Here DEF Body, PricesRead
    <3>2. bf \in Fees
      BY <1>3, <3>1 DEF IInv, FeeRead
    <3>3. bf \in Nat \ {0}
      BY <3>2, L2NodeAssumption
    <3>4. bf - 1 \in Nat /\ 2 * bf \in Nat /\ bf \div 2 \in Nat /\ bf \in Nat
      BY <3>3
    <3>5. Ins.price \in {"half", "under", "exact", "legacy", "double", "tipped"}
      BY <1>7, <2>3 DEF Prices, Unread
    <3> HIDE DEF bf
    <3>6. QED
      BY <3>4, <3>5 DEF Priced
  <2>4. QED
    BY <2>2, <2>3
<1> HIDE DEF p
<1>9. t \in Tx
  BY <1>5, <1>6, <1>8 DEF Tx
<1> HIDE DEF t
<1>10. pool' = {u \in pool : u.nonce # t.nonce} \cup {t}
  BY <1>1 DEF Admit
<1>11. pool' \subseteq Tx
  BY <1>9, <1>10 DEF IInv, TypeOK
<1>12. IsFiniteSet(pool')
  <2>1. IsFiniteSet(pool) /\ pool' \subseteq pool \cup {t}
    BY <1>10 DEF IInv, Shape
  <2>2. QED
    BY <2>1, FS_AddElement, FS_Subset
<1>13. QED
  BY <1>2, <1>4, <1>11, <1>12 DEF Steps, chainKept

LEMMA SeeReceiptSteps ==
  ASSUME IInv, SeeReceipt PROVE Steps /\ UNCHANGED <<pidFile, nodeVars>>
<1>1. At({"await"}) /\ Found /\ Pass({}, {}) /\ UNCHANGED nodeVars
  BY DEF SeeReceipt, Answering
<1>2. Ins.op = "await"
  BY <1>1, Current
<1>3. Goes /\ Sets /\ UNCHANGED pidFile
  BY <1>1, <1>2, PassLemma
<1>4. QED
  BY <1>1, <1>3 DEF Steps, chainKept, nodeVars, chainVars

LEMMA RunOutSteps == ASSUME IInv, RunOut PROVE Steps /\ UNCHANGED <<pidFile, nodeVars>>
<1> DEFINE late == \E i \in Ins.of : Sealable(i)
           ts == IF late THEN {"late"} ELSE {}
           to == IF Ins.timeout = Raise THEN End ELSE pc + 1 + Ins.timeout
<1>1. /\ At({"await"}) /\ ~Found /\ UNCHANGED regs /\ GoTo(to, ts, {"receipt"})
      /\ UNCHANGED nodeVars
  BY DEF RunOut, Answering
<1>2. ts \in SUBSET Troubles
  BY DEF Troubles
<1> HIDE DEF ts
<1>3. ~Finished /\ pc # End /\ Ins.op = "await" /\ WellFormed(Ins)
  BY <1>1, Current
<1>4. /\ UNCHANGED <<plan, pidFile, bridge, unit, fail>>
      /\ trouble \subseteq trouble' /\ trouble' \subseteq Troubles
      /\ failed \subseteq failed' /\ failed' = failed \cup {"receipt"}
      /\ pc' = to \/ pc' = End
  BY <1>1, <1>2, <1>3, GoToLemma
<1>5. pc' = End \/ Skips
  BY <1>3, <1>4 DEF Skips
<1>6. Goes
  BY <1>3, <1>4, <1>5 DEF Goes
<1>7. Sets
  BY <1>1, <1>3, SameRegs DEF ReadsFee
<1>8. QED
  BY <1>1, <1>4, <1>6, <1>7 DEF Steps, chainKept, nodeVars, chainVars

LEMMA AbsentSteps == ASSUME IInv, StaysAbsent PROVE Steps /\ UNCHANGED <<pidFile, nodeVars>>
<1>1. /\ At({"absent"}) /\ Judge("absent", Ins.of \notin DOMAIN mined)
      /\ UNCHANGED nodeVars
  BY DEF StaysAbsent, Answering
<1>2. Ins.op = "absent"
  BY <1>1, Current
<1>3. Goes /\ Sets /\ UNCHANGED pidFile
  BY <1>1, <1>2, JudgeLemma
<1>4. QED
  BY <1>1, <1>3 DEF Steps, chainKept, nodeVars, chainVars

LEMMA AdvanceSteps == ASSUME IInv, AdvanceNonce PROVE Steps /\ UNCHANGED <<pidFile, nodeVars>>
<1>1. At({"advance"}) /\ UNCHANGED nodeVars
  BY DEF AdvanceNonce, Answering
<1>2. Into(NonceAt(ledger), Lag) \/ Leave(Lag, {"stall"})
  BY DEF AdvanceNonce
<1>3. Lag \in SUBSET Troubles
  BY DEF Lag, Troubles
<1>4. NonceAt(ledger) \in Int /\ {"advance"} \subseteq Readers /\ Ins.op # "fee"
  BY <1>1, Current, CountLemma DEF Readers
<1>5. CASE Into(NonceAt(ledger), Lag)
  <2>1. Goes /\ Sets /\ UNCHANGED pidFile
    BY <1>1, <1>3, <1>4, <1>5, IntoLemma
  <2>2. QED
    BY <1>1, <2>1 DEF Steps, chainKept, nodeVars, chainVars
<1>6. CASE Leave(Lag, {"stall"})
  <2>1. Goes /\ Sets /\ UNCHANGED pidFile
    BY <1>1, <1>3, <1>6, LeaveLemma
  <2>2. QED
    BY <1>1, <2>1 DEF Steps, chainKept, nodeVars, chainVars
<1>7. QED
  BY <1>2, <1>5, <1>6

LEMMA LaterSteps == ASSUME IInv, SeeLaterBlock PROVE Steps /\ UNCHANGED <<pidFile, nodeVars>>
<1>1. At({"later"}) /\ UNCHANGED nodeVars
  BY DEF SeeLaterBlock, Answering
<1>2. Into(height, {}) \/ Pass({"idle"}, {})
  BY DEF SeeLaterBlock
<1>3. {} \in SUBSET Troubles /\ {"idle"} \in SUBSET Troubles
  BY DEF Troubles
<1>4. height \in Int /\ {"later"} \subseteq Readers /\ Ins.op = "later"
  BY <1>1, Current DEF Readers, IInv, TypeOK
<1>5. CASE Into(height, {})
  <2>1. Goes /\ Sets /\ UNCHANGED pidFile
    BY <1>1, <1>3, <1>4, <1>5, IntoLemma
  <2>2. QED
    BY <1>1, <2>1 DEF Steps, chainKept, nodeVars, chainVars
<1>6. CASE Pass({"idle"}, {})
  <2>1. Goes /\ Sets /\ UNCHANGED pidFile
    BY <1>1, <1>3, <1>4, <1>6, PassLemma
  <2>2. QED
    BY <1>1, <2>1 DEF Steps, chainKept, nodeVars, chainVars
<1>7. QED
  BY <1>2, <1>5, <1>6

\* The first read after b4's restart is passed only when something answered.
LEMMA AgainSteps ==
  ASSUME IInv, ReadHeadAgain
  PROVE  /\ Steps /\ UNCHANGED <<pidFile, live, doomed, holder, pool>>
         /\ cut' \in {"none", "fresh", "regrown", "seen"}
         /\ holder # 0 \/ failed' # {}
<1>1. At({"retry"}) /\ UNCHANGED <<chainVars, live, doomed, holder>>
  BY DEF ReadHeadAgain
<1>2. UNCHANGED <<chainKept, live, doomed, holder, pool>>
  BY <1>1 DEF chainKept, chainVars
<1>3. cut' \in {"none", "fresh", "regrown", "seen"}
  BY DEF ReadHeadAgain, IInv, TypeOK
<1>4. {} \in SUBSET Troubles /\ {"down"} \in SUBSET Troubles
  BY DEF Troubles
<1>5. height \in Int /\ {"retry"} \subseteq Readers /\ Ins.op = "retry"
  BY <1>1, Current DEF Readers, IInv, TypeOK
<1>6. CASE holder # 0
  <2>1. Into(height, {})
    BY <1>6 DEF ReadHeadAgain
  <2>2. Goes /\ Sets /\ UNCHANGED pidFile
    BY <1>1, <1>4, <1>5, <2>1, IntoLemma
  <2>3. QED
    BY <1>2, <1>3, <1>6, <2>2 DEF Steps
<1>7. CASE holder = 0
  <2>1. Leave({"down"}, {"backUp"})
    BY <1>7 DEF ReadHeadAgain
  <2>2. Goes /\ Sets /\ UNCHANGED pidFile /\ failed' # {}
    BY <1>1, <1>4, <2>1, LeaveLemma
  <2>3. QED
    BY <1>2, <1>3, <2>2 DEF Steps
<1>8. QED
  BY <1>6, <1>7

LEMMA CheckSteps == ASSUME IInv, CheckNow PROVE Steps /\ UNCHANGED <<pidFile, nodeVars>>
<1> DEFINE ops == {"check", "steps", "spent", "order", "one", "price"}
<1>1. At(ops) /\ UNCHANGED nodeVars
  BY DEF CheckNow
<1>2. Ins.op \in ops
  BY <1>1, Current
<1>3. PICK name, ok : Judge(name, ok)
  <2>1. CASE Ins.op = "check"
    BY <2>1 DEF CheckNow
  <2>2. CASE Ins.op = "spent"
    BY <2>2 DEF CheckNow
  <2>3. CASE Ins.op = "order"
    BY <2>3 DEF CheckNow
  <2>4. CASE Ins.op = "one"
    BY <2>4 DEF CheckNow
  <2>5. CASE Ins.op = "price"
    BY <2>5 DEF CheckNow
  <2>6. CASE Ins.op = "steps"
    BY <2>6 DEF CheckNow
  <2>7. QED
    BY <1>2, <2>1, <2>2, <2>3, <2>4, <2>5, <2>6
<1>4. Goes /\ Sets /\ UNCHANGED pidFile
  <2>1. Ins.op \notin {"fee", "await"}
    BY <1>2
  <2> HIDE DEF ops
  <2>2. QED
    BY <1>1, <1>3, <2>1, JudgeLemma
<1>5. QED
  BY <1>1, <1>4 DEF Steps, chainKept, nodeVars, chainVars

LEMMA KillSteps ==
  ASSUME IInv, Kill
  PROVE  /\ Steps /\ UNCHANGED <<pidFile, live, holder, cut, pool>>
         /\ doomed' = doomed \cup {pidFile} /\ UNCHANGED failed
<1>1. /\ At({"kill"}) /\ Pass({}, {}) /\ doomed' = doomed \cup {pidFile}
      /\ UNCHANGED <<chainKept, pool, live, holder, cut>>
  BY DEF Kill, chainKept, chainVars
<1>2. {} \in SUBSET Troubles /\ Ins.op = "kill"
  BY <1>1, Current
<1>3. Goes /\ Sets /\ UNCHANGED pidFile /\ failed' = failed \cup {}
  BY <1>1, <1>2, PassLemma
<1>4. QED
  BY <1>1, <1>3 DEF Steps

LEMMA GoneSteps ==
  ASSUME IInv, WaitGone
  PROVE  /\ Steps /\ UNCHANGED <<pidFile, nodeVars>>
         /\ pidFile \in live => "lingered" \in trouble'
<1> DEFINE ts == IF pidFile \in live THEN {"lingered"} ELSE {}
<1>1. At({"gone"}) /\ Pass(ts, {}) /\ UNCHANGED nodeVars
  BY DEF WaitGone
<1>2. ts \in SUBSET Troubles /\ Ins.op = "gone"
  BY <1>1, Current DEF Troubles
<1>3. pidFile \in live => "lingered" \in ts
  OBVIOUS
<1> HIDE DEF ts
<1>4. Goes /\ Sets /\ UNCHANGED pidFile /\ trouble' = trouble \cup ts
  BY <1>1, <1>2, PassLemma
<1>5. QED
  BY <1>1, <1>3, <1>4 DEF Steps, chainKept, nodeVars, chainVars

LEMMA LaunchSteps ==
  ASSUME IInv, Launch
  PROVE  /\ Steps /\ UNCHANGED <<doomed, holder, cut, pool, failed>>
         /\ live' = live \cup {pidFile + 1} /\ pidFile' = pidFile + 1
<1>1. At({"launch"})
  BY DEF Launch
<1>2. /\ UNCHANGED <<chainKept, pool, doomed, holder, cut, failed>>
      /\ UNCHANGED <<plan, bridge, unit, fail, trouble, regs>>
      /\ pc' = pc + 1 /\ live' = live \cup {pidFile + 1} /\ pidFile' = pidFile + 1
  BY DEF Launch, chainKept, chainVars
<1>3. ~Finished /\ pc # End /\ Ins.op = "launch"
  BY <1>1, Current
<1>4. Sets
  BY <1>2, <1>3, SameRegs DEF ReadsFee
<1>5. trouble \subseteq trouble' /\ trouble' \subseteq Troubles /\ failed \subseteq failed'
  BY <1>2 DEF IInv, TypeOK
<1>6. Goes
  BY <1>2, <1>3, <1>5 DEF Goes
<1>7. QED
  BY <1>2, <1>4, <1>6 DEF Steps

LEMMA EngineSteps == ASSUME IInv, DriveEngine PROVE Steps /\ UNCHANGED <<pidFile, nodeVars>>
<1>1. At({"engine"}) /\ UNCHANGED nodeVars
  BY DEF DriveEngine
<1>2. Pass({}, {}) \/ Leave({"b3a"}, {"raised"})
  BY DEF DriveEngine
<1>3. {} \in SUBSET Troubles /\ {"b3a"} \in SUBSET Troubles
  BY DEF Troubles
<1>4. Ins.op = "engine"
  BY <1>1, Current
<1>5. CASE Pass({}, {})
  <2>1. Goes /\ Sets /\ UNCHANGED pidFile
    BY <1>1, <1>3, <1>4, <1>5, PassLemma
  <2>2. QED
    BY <1>1, <2>1 DEF Steps, chainKept, nodeVars, chainVars
<1>6. CASE Leave({"b3a"}, {"raised"})
  <2>1. Goes /\ Sets /\ UNCHANGED pidFile
    BY <1>1, <1>3, <1>6, LeaveLemma
  <2>2. QED
    BY <1>1, <2>1 DEF Steps, chainKept, nodeVars, chainVars
<1>7. QED
  BY <1>2, <1>5, <1>6

LEMMA StartSteps == ASSUME IInv, StartB3a PROVE Steps /\ UNCHANGED <<pidFile, nodeVars>>
<1>1. At({"b3a_start"}) /\ UNCHANGED nodeVars
  BY DEF StartB3a
<1>2. PICK ts \in {{}, {"b3a"}}, fs \in {{}, {"raised"}} : Pass(ts, fs)
  BY DEF StartB3a
<1>3. ts \in SUBSET Troubles /\ Ins.op = "b3a_start"
  BY <1>1, Current DEF Troubles
<1>4. Goes /\ Sets /\ UNCHANGED pidFile
  BY <1>1, <1>2, <1>3, PassLemma
<1>5. QED
  BY <1>1, <1>4 DEF Steps, chainKept, nodeVars, chainVars

-----------------------------------------------------------------------------
(* What such a step keeps.                                                  *)

\* The unit in progress goes on within its body.
LEMMA StaysInUnit ==
  ASSUME IInv, Steps
  PROVE  /\ Running' = Running /\ End' = End /\ Finished' = Finished
         /\ pc' \in 1..End
         /\ \A q \in (pc + 1)..(pc' - 1) : pc' # End => Running.body[q].op # "fee"
<1>1. ~Finished /\ pc # End /\ UNCHANGED <<plan, unit>>
  BY DEF Steps, Goes
<1>2. /\ Body(Running.body) /\ Len(Running.body) \in Nat /\ End = Len(Running.body) + 1
      /\ pc \in 1..Len(Running.body)
  BY <1>1, Here
<1>3. pc' = pc + 1 \/ pc' = End \/ Skips
  BY DEF Steps, Goes
<1>4. CASE Skips
  <2>1. /\ Ins = Running.body[pc] /\ Ins.op = "await" /\ Ins.timeout # Raise
        /\ pc' = pc + 1 + Ins.timeout
    BY <1>4 DEF Skips, Ins
  <2>2. Ins.timeout \in Nat
    BY <1>2, <2>1 DEF Body, WellFormed
  <2>3. pc + Ins.timeout <= Len(Running.body)
    BY <1>2, <2>1 DEF Body, JumpsInside
  <2>4. \A q \in (pc + 1)..(pc + Ins.timeout) : Running.body[q].op # "fee"
    BY <1>2, <2>1 DEF Body, JumpsInside
  <2>5. pc' - 1 = pc + Ins.timeout /\ pc' \in 1..End
    BY <1>2, <2>1, <2>2, <2>3
  <2>6. QED
    BY <1>1, <2>4, <2>5 DEF Running, End, Finished
<1>5. CASE ~Skips
  <2>1. pc' \in 1..End /\ (pc' # End => (pc + 1)..(pc' - 1) = {})
    BY <1>2, <1>3, <1>5
  <2>2. QED
    BY <1>1, <2>1 DEF Running, End, Finished
<1>6. QED
  BY <1>4, <1>5

\* A receipt waited for is there when a field of it is asked.
LEMMA StepSeen == ASSUME IInv, Steps PROVE Seen'
<1>1. /\ ~Finished /\ pc # End /\ Ins = Running.body[pc] /\ UNCHANGED mined
      /\ Running' = Running
  BY StaysInUnit DEF Steps, Goes, Ins, chainKept
<1>2. /\ Body(Running.body) /\ Len(Running.body) \in Nat /\ End = Len(Running.body) + 1
      /\ pc \in 1..Len(Running.body)
  BY <1>1, Here
<1>3. SUFFICES ASSUME NEW p \in 1..Len(Running.body), NEW q \in 1..(p - 1), q < pc', pc' <= p,
                      Running.body[p].op = "field", SeenAt(Running.body, q, p)
               PROVE  Running.body[p].of \in DOMAIN mined
  BY <1>1 DEF Seen
<1>4. pc' # End
  BY <1>2, <1>3
<1>5. pc' = pc + 1 \/ Skips
  BY <1>4 DEF Steps, Goes
<1>6. CASE q < pc
  <2>1. pc <= p
    <3>1. CASE pc' = pc + 1
      BY <1>2, <1>3, <3>1
    <3>2. CASE Skips
      <4>1. Ins.timeout \in Nat /\ pc' = pc + 1 + Ins.timeout
        BY <1>1, <1>2, <3>2 DEF Skips, Body, WellFormed
      <4>2. QED
        BY <1>2, <1>3, <4>1
    <3>3. QED
      BY <1>5, <3>1, <3>2
  <2>2. QED
    BY <1>1, <1>3, <1>6, <2>1 DEF IInv, Seen
<1>7. CASE q = pc
  <2>1. Ins.op = "await" /\ Ins.of = {Running.body[p].of}
    BY <1>1, <1>3, <1>7 DEF SeenAt
  <2>2. ~Skips
    <3>1. SUFFICES ASSUME Skips PROVE FALSE
      OBVIOUS
    <3>2. Ins.timeout # Raise /\ Ins.timeout \in Nat /\ pc' = pc + 1 + Ins.timeout
      BY <1>1, <1>2, <3>1 DEF Skips, Body, WellFormed
    <3>3. q + Ins.timeout >= p
      BY <1>1, <1>3, <1>7, <3>2 DEF SeenAt
    <3>4. QED
      BY <1>2, <1>3, <1>7, <3>2, <3>3
  <2>3. Found
    BY <1>4, <2>1, <2>2 DEF Steps, Goes
  <2>4. QED
    BY <2>1, <2>3 DEF Found
<1>8. CASE q > pc
  <2>1. Skips
    BY <1>2, <1>3, <1>5, <1>8
  <2>2. Ins.timeout # Raise /\ Ins.timeout \in Nat /\ pc' = pc + 1 + Ins.timeout
    BY <1>1, <1>2, <2>1 DEF Skips, Body, WellFormed
  <2>3. Ins.op = "await" /\ pc \in 1..(q - 1)
    BY <1>2, <1>8, <2>1 DEF Skips
  <2>4. pc + Ins.timeout < q
    BY <1>1, <1>3, <2>2, <2>3 DEF SeenAt
  <2>5. QED
    BY <1>2, <1>3, <2>2, <2>4
<1>9. QED
  BY <1>2, <1>6, <1>7, <1>8

\* The register of the base fee holds one once it was read.
LEMMA StepFeeRead == ASSUME IInv, Steps PROVE FeeRead'
<1>1. ~Finished /\ pc # End /\ Ins = Running.body[pc] /\ Running' = Running /\ End' = End
  BY StaysInUnit DEF Steps, Goes, Ins
<1>2. pc \in 1..Len(Running.body) /\ Len(Running.body) \in Nat /\ pc' \in 1..End
  BY <1>1, Here, StaysInUnit
<1>3. SUFFICES ASSUME pc' # End, NEW q \in Nat \ {0}, q < pc', ReadsFee(Running.body[q])
               PROVE  regs'["bf"] \in Fees
  <2>1. pc' \in Nat
    BY <1>2, <1>1, Here
  <2>2. \A m \in Nat : \A q \in 1..(m - 1) : q \in Nat \ {0} /\ q < m
    OBVIOUS
  <2>3. \A q \in 1..(pc' - 1) : q \in Nat \ {0} /\ q < pc'
    BY <2>1, <2>2
  <2>4. QED
    BY <1>1, <2>3 DEF FeeRead
<1>4. /\ regs'["bf"] = regs["bf"] \/ regs'["bf"] \in Fees
      /\ ReadsFee(Ins) => regs'["bf"] \in Fees
  BY <1>3 DEF Steps, Sets
<1>5. CASE q < pc
  <2>1. q \in 1..(pc - 1)
    BY <1>2, <1>3, <1>5
  <2>2. regs["bf"] \in Fees
    BY <1>1, <1>3, <2>1 DEF IInv, FeeRead
  <2>3. QED
    BY <1>4, <2>2
<1>6. CASE q = pc
  BY <1>1, <1>3, <1>4, <1>6
<1>7. CASE q > pc
  <2>1. q \in (pc + 1)..(pc' - 1)
    <3>1. pc \in Nat /\ pc' \in Nat
      BY <1>2
    <3>2. QED
      BY <1>3, <1>7, <3>1
  <2>2. QED
    BY <1>3, <2>1, StaysInUnit DEF ReadsFee
<1>8. QED
  BY <1>2, <1>5, <1>6, <1>7 DEF End

\* The pool and the processes a step leaves are such as there may be.
Sound ==
  /\ pool' \subseteq Tx /\ IsFiniteSet(pool')
  /\ pidFile' \in Nat \ {0} /\ live' \subseteq 1..pidFile' /\ doomed' \subseteq 1..pidFile'
  /\ holder' \in live' \cup {0} /\ cut' \in {"none", "fresh", "regrown", "seen"}

LEMMA ScriptKeeps ==
  ASSUME IInv, Steps, Sound
  PROVE  TypeOK' /\ Shape' /\ Seen' /\ FeeRead'
<1>1. UNCHANGED <<height, ledger, fee, moves, mined, plan, unit, fail, bridge>> /\ ~Finished
  BY DEF Steps, Goes, chainKept
<1>2. pc' \in 1..End' /\ Finished' = Finished
  BY StaysInUnit
<1>3. regs' \in [Regs -> Int] /\ trouble' \subseteq Troubles
  BY DEF Steps, Sets, Goes
<1>4. TypeOK'
  BY <1>1, <1>2, <1>3 DEF TypeOK, IInv, Sound
<1>5. Shape'
  BY <1>1, <1>2 DEF Shape, IInv, Sound
<1>6. QED
  BY <1>4, <1>5, StepSeen, StepFeeRead

LEMMA SoundWhenSame ==
  ASSUME IInv, UNCHANGED <<pidFile, nodeVars>>
  PROVE  Sound
BY DEF Sound, IInv, TypeOK, Shape, nodeVars, chainVars

-----------------------------------------------------------------------------
(* Which process answers.                                                   *)

\* The restart of this plan; PlansAreWellMade says where it is.
RestartIs(u, k, v, w) ==
  /\ plan \in Plans /\ Restarting(PlanOf[plan], u, k, v, w) /\ Replaced(u, k, v, w)
  /\ u \in Nat \ {0} /\ k \in Nat \ {0} /\ v \in Nat \ {0} /\ w \in Nat \ {0}

LEMMA RestartHere ==
  ASSUME IInv, NEW u \in Nat \ {0}, NEW k \in Nat \ {0}, NEW v \in Nat \ {0}, NEW w \in Nat \ {0},
         RestartIs(u, k, v, w), ~Finished, pc # End
  PROVE  /\ unit \in Nat /\ pc \in Nat
         /\ unit = u => /\ pc = k <=> Ins.op = "kill"
                        /\ pc = k + 1 <=> Ins.op = "gone"
                        /\ pc = k + 2 <=> Ins.op = "launch"
         /\ Ins.op \in RestartOps => unit = u
         /\ unit = v /\ pc = w => Ins.op \in Calls \cup {"retry"}
<1> DEFINE units == PlanOf[plan]
<1>1. /\ unit \in 1..Len(units) /\ pc \in 1..Len(units[unit].body) /\ Len(units) \in Nat
      /\ Len(units[unit].body) \in Nat
  <2>1. Running = units[unit]
    BY DEF Running
  <2>2. WellMade(units)
    BY PlansAreWellMade DEF RestartIs
  <2>3. Len(units) \in Nat
    BY <2>2 DEF WellMade
  <2> HIDE DEF units
  <2>4. QED
    BY <2>1, <2>3, Here DEF units
<1>2. Ins = units[unit].body[pc]
  BY DEF Ins, Running
<1>3. Restarting(units, u, k, v, w)
  BY DEF RestartIs
<1> HIDE DEF units
<1>4. Ins.op \in RestartOps => unit = u /\ pc \in k..(k + 2)
  BY <1>1, <1>2, <1>3 DEF Restarting
<1>5. unit = u => /\ pc = k => Ins.op = "kill"
                  /\ pc = k + 1 => Ins.op = "gone"
                  /\ pc = k + 2 => Ins.op = "launch"
  BY <1>2, <1>3 DEF Restarting
<1>6. \A i \in k..(k + 2) : i = k \/ i = k + 1 \/ i = k + 2
  OBVIOUS
<1>7. unit = u => /\ pc = k <=> Ins.op = "kill"
                  /\ pc = k + 1 <=> Ins.op = "gone"
                  /\ pc = k + 2 <=> Ins.op = "launch"
  BY <1>4, <1>5, <1>6 DEF RestartOps
<1>8. unit = v /\ pc = w => Ins.op \in Calls \cup {"retry"}
  BY <1>2, <1>3 DEF Restarting
<1>9. QED
  BY <1>1, <1>4, <1>7, <1>8

\* What holds of every place a restart may have holds of the plans that have one.
LEMMA BothPlans ==
  ASSUME IInv, plan' = plan,
         \A u, k, v, w \in Nat \ {0} : RestartIs(u, k, v, w) => Replaced(u, k, v, w)'
  PROVE  Restarted'
<1>1. plan \in Plans /\ {1, 2, 3, 5} \subseteq Nat \ {0}
  BY DEF IInv, Shape
<1>2. CASE plan = "reads"
  <2>1. RestartIs(1, 1, 3, 1)
    BY <1>1, <1>2, PlansAreWellMade DEF RestartIs, IInv, Restarted
  <2>2. Replaced(1, 1, 3, 1)'
    BY <1>1, <2>1
  <2>3. QED
    BY <1>2, <2>2 DEF Restarted
<1>3. CASE plan = "transactions"
  <2>1. RestartIs(2, 2, 2, 5)
    BY <1>1, <1>3, PlansAreWellMade DEF RestartIs, IInv, Restarted
  <2>2. Replaced(2, 2, 2, 5)'
    BY <1>1, <2>1
  <2>3. QED
    BY <1>3, <2>2 DEF Restarted
<1>4. QED
  BY <1>1, <1>2, <1>3 DEF Restarted

\* How a step moves the processes on: one of an instruction that leaves them alone, and, if it
\* is a call, finds one answering or fails; or one of the restart.
Leaves ==
  /\ Ins.op \notin RestartOps
  /\ UNCHANGED <<pidFile, live, doomed, holder>>
  /\ Ins.op \in Calls \cup {"retry"} => holder # 0 \/ failed' # {}
Kills ==
  Ins.op = "kill" /\ doomed' = doomed \cup {pidFile} /\ UNCHANGED <<pidFile, live, holder>>
Waits ==
  /\ Ins.op = "gone" /\ UNCHANGED <<pidFile, live, doomed, holder>>
  /\ pidFile \in live => "lingered" \in trouble'
Launches ==
  /\ Ins.op = "launch" /\ live' = live \cup {pidFile + 1} /\ pidFile' = pidFile + 1
  /\ UNCHANGED <<doomed, holder>>

LEMMA ReplacedStep ==
  ASSUME IInv, Steps, Leaves \/ Kills \/ Waits \/ Launches,
         NEW u \in Nat \ {0}, NEW k \in Nat \ {0}, NEW v \in Nat \ {0}, NEW w \in Nat \ {0},
         RestartIs(u, k, v, w)
  PROVE  Replaced(u, k, v, w)'
<1>1. SUFFICES ASSUME Unharmed'
               PROVE  /\ ~Past(u, k)' => pidFile' = 1 /\ doomed' = {} /\ live' \subseteq {1}
                      /\ Past(u, k)' /\ ~Past(u, k + 1)' =>
                           pidFile' = 1 /\ doomed' = {1} /\ live' \subseteq {1}
                      /\ Past(u, k + 1)' /\ ~Past(u, k + 2)' =>
                           pidFile' = 1 /\ doomed' = {1} /\ live' = {}
                      /\ Past(u, k + 2)' => pidFile' = 2 /\ doomed' = {1} /\ live' = {2}
                      /\ Past(v, w)' => holder' = 2
  BY DEF Replaced
<1>2. ~Finished /\ pc # End /\ unit' = unit /\ failed' = {}
  BY <1>1 DEF Steps, Goes, Unharmed
<1>3. Unharmed
  BY <1>1 DEF Unharmed, Steps, Goes
<1>4. pc' = pc + 1
  BY <1>2 DEF Steps, Goes
<1>5. /\ ~Past(u, k) => pidFile = 1 /\ doomed = {} /\ live \subseteq {1}
      /\ Past(u, k) /\ ~Past(u, k + 1) => pidFile = 1 /\ doomed = {1} /\ live \subseteq {1}
      /\ Past(u, k + 1) /\ ~Past(u, k + 2) => pidFile = 1 /\ doomed = {1} /\ live = {}
      /\ Past(u, k + 2) => pidFile = 2 /\ doomed = {1} /\ live = {2}
      /\ Past(v, w) => holder = 2
  BY <1>3 DEF Replaced, RestartIs
<1>6. /\ unit \in Nat /\ pc \in Nat
      /\ unit = u => /\ pc = k <=> Ins.op = "kill"
                     /\ pc = k + 1 <=> Ins.op = "gone"
                     /\ pc = k + 2 <=> Ins.op = "launch"
      /\ Ins.op \in RestartOps => unit = u
      /\ unit = v /\ pc = w => Ins.op \in Calls \cup {"retry"}
  BY <1>2, RestartHere
<1>7. /\ Past(u, k)' <=> Past(u, k) \/ (unit = u /\ pc = k)
      /\ Past(u, k + 1)' <=> Past(u, k + 1) \/ (unit = u /\ pc = k + 1)
      /\ Past(u, k + 2)' <=> Past(u, k + 2) \/ (unit = u /\ pc = k + 2)
      /\ Past(v, w)' <=> Past(v, w) \/ (unit = v /\ pc = w)
  BY <1>2, <1>4, <1>6 DEF Past
<1>8. v > u \/ (v = u /\ w > k + 2)
  BY DEF RestartIs, Restarting
<1>9. /\ Past(u, k + 1) => Past(u, k)
      /\ Past(u, k + 2) => Past(u, k + 1)
      /\ unit = u /\ pc = k => ~Past(u, k)
      /\ unit = u /\ pc = k + 1 => Past(u, k) /\ ~Past(u, k + 1)
      /\ unit = u /\ pc = k + 2 => Past(u, k + 1) /\ ~Past(u, k + 2)
      /\ Past(v, w) => Past(u, k + 2)
      /\ unit = v /\ pc = w => Past(u, k + 2)
  BY <1>6, <1>8 DEF Past
<1>10. CASE Leaves
  <2>1. UNCHANGED <<pidFile, live, doomed, holder>> /\ Ins.op \notin RestartOps
    BY <1>10 DEF Leaves
  <2>2. Past(u, k)' = Past(u, k) /\ Past(u, k + 1)' = Past(u, k + 1) /\ Past(u, k + 2)' = Past(u, k + 2)
    BY <1>6, <1>7, <2>1 DEF RestartOps, Past
  <2>3. ASSUME unit = v, pc = w PROVE holder = 2
    <3>1. holder # 0
      BY <1>2, <1>6, <1>10, <2>3 DEF Leaves
    <3>2. live = {2}
      BY <1>5, <1>9, <2>3
    <3>3. QED
      BY <3>1, <3>2 DEF IInv, TypeOK
  <2>4. QED
    BY <1>5, <1>7, <2>1, <2>2, <2>3
<1>11. CASE Kills
  <2>1. Ins.op = "kill" /\ unit = u /\ pc = k
    BY <1>6, <1>11 DEF Kills, RestartOps
  <2>2. ~Past(u, k) /\ ~Past(u, k + 1) /\ ~Past(u, k + 2) /\ ~Past(v, w) /\ ~(unit = v /\ pc = w)
    BY <1>9, <2>1
  <2>3. Past(u, k)' /\ ~Past(u, k + 1)' /\ ~Past(u, k + 2)' /\ ~Past(v, w)'
    BY <1>6, <1>7, <2>1, <2>2
  <2>4. pidFile' = 1 /\ doomed' = {1} /\ live' \subseteq {1}
    BY <1>5, <1>11, <2>2 DEF Kills
  <2>5. QED
    BY <2>3, <2>4
<1>12. CASE Waits
  <2>1. Ins.op = "gone" /\ unit = u /\ pc = k + 1
    BY <1>6, <1>12 DEF Waits, RestartOps
  <2>2. Past(u, k) /\ ~Past(u, k + 1) /\ ~Past(u, k + 2) /\ ~Past(v, w) /\ ~(unit = v /\ pc = w)
    BY <1>9, <2>1
  <2>3. Past(u, k + 1)' /\ Past(u, k)' /\ ~Past(u, k + 2)' /\ ~Past(v, w)'
    BY <1>6, <1>7, <2>1, <2>2
  <2>4. pidFile \notin live
    BY <1>1, <1>12 DEF Waits, Unharmed
  <2>5. pidFile' = 1 /\ doomed' = {1} /\ live' = {}
    BY <1>5, <1>12, <2>2, <2>4 DEF Waits
  <2>6. QED
    BY <2>3, <2>5
<1>13. CASE Launches
  <2>1. Ins.op = "launch" /\ unit = u /\ pc = k + 2
    BY <1>6, <1>13 DEF Launches, RestartOps
  <2>2. Past(u, k + 1) /\ Past(u, k) /\ ~Past(u, k + 2) /\ ~Past(v, w) /\ ~(unit = v /\ pc = w)
    BY <1>9, <2>1
  <2>3. Past(u, k + 2)' /\ Past(u, k + 1)' /\ Past(u, k)' /\ ~Past(v, w)'
    BY <1>7, <2>1, <2>2
  <2>4. pidFile = 1 /\ doomed = {1} /\ live = {}
    BY <1>5, <2>2
  <2>5. pidFile' = 2 /\ doomed' = {1} /\ live' = {2}
    BY <1>13, <2>4 DEF Launches
  <2>6. QED
    BY <2>3, <2>5
<1>14. QED
  BY <1>10, <1>11, <1>12, <1>13

\* So does a step of a script.
LEMMA RestartedStep ==
  ASSUME IInv, Steps, Leaves \/ Kills \/ Waits \/ Launches
  PROVE  Restarted'
BY ReplacedStep, BothPlans DEF Steps, Goes

-----------------------------------------------------------------------------
(* Every action keeps the invariant.                                        *)

LEMMA KeptBySteps ==
  ASSUME IInv, Steps, Sound, Leaves \/ Kills \/ Waits \/ Launches
  PROVE  IInv'
BY ScriptKeeps, RestartedStep DEF IInv

\* A step of a script that leaves the processes alone.
LEMMA KeptByReading ==
  ASSUME IInv, NEW ops, At(ops), ops \cap RestartOps = {}, Steps,
         UNCHANGED <<pidFile, live, doomed, holder>>, Sound,
         Ins.op \in Calls \cup {"retry"} => holder # 0 \/ failed' # {}
  PROVE  IInv'
<1>1. Ins.op \notin RestartOps
  BY Current
<1>2. Leaves
  BY <1>1 DEF Leaves
<1>3. QED
  BY <1>2, KeptBySteps

LEMMA KeptWhenSame ==
  ASSUME IInv, NEW ops, At(ops), ops \cap RestartOps = {}, Steps, UNCHANGED <<pidFile, nodeVars>>,
         holder # 0 \/ failed' # {} \/ ops \cap (Calls \cup {"retry"}) = {}
  PROVE  IInv'
<1>1. Sound /\ UNCHANGED <<pidFile, live, doomed, holder>>
  BY SoundWhenSame DEF nodeVars
<1>2. Ins.op \in ops
  BY Current
<1>3. QED
  BY <1>1, <1>2, KeptByReading

LEMMA ScriptStep ==
  ASSUME IInv,
         \/ Raised \/ ReadBlock \/ ReadTag \/ ReadState \/ SendTx \/ SeeReceipt \/ RunOut
         \/ StaysAbsent \/ AdvanceNonce \/ SeeLaterBlock \/ ReadHeadAgain \/ CheckNow
         \/ Kill \/ WaitGone \/ Launch \/ DriveEngine \/ StartB3a
  PROVE  IInv'
<1>1. ASSUME Raised PROVE IInv'
  <2>1. At(Calls) /\ Calls \cap RestartOps = {}
    BY <1>1 DEF Raised, Calls, RestartOps
  <2>2. {"down"} \in SUBSET Troubles /\ Leave({"down"}, {"raised"})
    BY <1>1 DEF Raised, Troubles
  <2>3. failed' # {}
    BY <2>1, <2>2, LeaveLemma
  <2>4. QED
    BY <1>1, <2>1, <2>3, RaisedSteps, KeptWhenSame
<1>2. ASSUME NEW ops, Answering(ops), ops \cap RestartOps = {}, Steps,
             UNCHANGED <<pidFile, nodeVars>>
      PROVE  IInv'
  <2>1. At(ops) /\ holder # 0
    BY <1>2 DEF Answering
  <2>2. QED
    BY <1>2, <2>1, KeptWhenSame
<1>3. ASSUME ReadBlock PROVE IInv'
  <2>1. CASE Answering({"ask", "head", "fee", "root", "field"})
    BY <1>2, <1>3, <2>1, ReadBlockSteps DEF RestartOps
  <2>2. CASE At({"table"})
    <3>1. {"table"} \cap RestartOps = {} /\ {"table"} \cap (Calls \cup {"retry"}) = {}
      BY DEF RestartOps, Calls
    <3>2. QED
      BY <1>3, <2>2, <3>1, ReadBlockSteps, KeptWhenSame
  <2>3. QED
    BY <1>3, <2>1, <2>2 DEF ReadBlock
<1>4. ASSUME ReadTag PROVE IInv'
  BY <1>2, <1>4, ReadTagSteps DEF ReadTag, RestartOps
<1>5. ASSUME ReadState PROVE IInv'
  BY <1>2, <1>5, ReadStateSteps DEF ReadState, RestartOps
<1>6. ASSUME SendTx PROVE IInv'
  <2>1. /\ Steps /\ UNCHANGED <<pidFile, live, doomed, holder, cut>>
        /\ pool' \subseteq Tx /\ IsFiniteSet(pool')
    BY <1>6, SendSteps
  <2>2. At({"send"}) /\ holder # 0 /\ {"send"} \cap RestartOps = {}
    BY <1>6 DEF SendTx, Answering, RestartOps
  <2>3. Sound
    BY <2>1 DEF Sound, IInv, TypeOK, Shape
  <2>4. QED
    BY <2>1, <2>2, <2>3, KeptByReading
<1>7. ASSUME SeeReceipt PROVE IInv'
  BY <1>2, <1>7, SeeReceiptSteps DEF SeeReceipt, RestartOps
<1>8. ASSUME RunOut PROVE IInv'
  BY <1>2, <1>8, RunOutSteps DEF RunOut, RestartOps
<1>9. ASSUME StaysAbsent PROVE IInv'
  BY <1>2, <1>9, AbsentSteps DEF StaysAbsent, RestartOps
<1>10. ASSUME AdvanceNonce PROVE IInv'
  BY <1>2, <1>10, AdvanceSteps DEF AdvanceNonce, RestartOps
<1>11. ASSUME SeeLaterBlock PROVE IInv'
  BY <1>2, <1>11, LaterSteps DEF SeeLaterBlock, RestartOps
<1>12. ASSUME ReadHeadAgain PROVE IInv'
  <2>1. /\ Steps /\ UNCHANGED <<pidFile, live, doomed, holder, pool>>
        /\ cut' \in {"none", "fresh", "regrown", "seen"}
        /\ holder # 0 \/ failed' # {}
    BY <1>12, AgainSteps
  <2>2. At({"retry"}) /\ {"retry"} \cap RestartOps = {}
    BY <1>12 DEF ReadHeadAgain, RestartOps
  <2>3. Sound
    BY <2>1 DEF Sound, IInv, TypeOK, Shape
  <2>4. QED
    BY <2>1, <2>2, <2>3, KeptByReading
<1>13. ASSUME NEW ops, At(ops), ops \subseteq {"check", "steps", "spent", "order", "one", "price",
                                              "engine", "b3a_start"},
              Steps, UNCHANGED <<pidFile, nodeVars>>
       PROVE  IInv'
  <2>1. ops \cap RestartOps = {} /\ ops \cap (Calls \cup {"retry"}) = {}
    BY <1>13 DEF RestartOps, Calls
  <2>2. QED
    BY <1>13, <2>1, KeptWhenSame
<1>14. ASSUME CheckNow PROVE IInv'
  BY <1>13, <1>14, CheckSteps DEF CheckNow
<1>15. ASSUME DriveEngine PROVE IInv'
  BY <1>13, <1>15, EngineSteps DEF DriveEngine
<1>16. ASSUME StartB3a PROVE IInv'
  BY <1>13, <1>16, StartSteps DEF StartB3a
<1>17. ASSUME Kill PROVE IInv'
  <2>1. /\ Steps /\ UNCHANGED <<pidFile, live, holder, cut, pool>>
        /\ doomed' = doomed \cup {pidFile}
    BY <1>17, KillSteps
  <2>2. Ins.op = "kill"
    BY <1>17, Current DEF Kill
  <2>3. pidFile \in 1..pidFile
    BY DEF IInv, Shape
  <2>4. Sound
    BY <2>1, <2>3 DEF Sound, IInv, TypeOK, Shape
  <2>5. QED
    BY <2>1, <2>2, <2>4, KeptBySteps DEF Kills
<1>18. ASSUME WaitGone PROVE IInv'
  <2>1. /\ Steps /\ UNCHANGED <<pidFile, nodeVars>>
        /\ pidFile \in live => "lingered" \in trouble'
    BY <1>18, GoneSteps
  <2>2. Ins.op = "gone"
    BY <1>18, Current DEF WaitGone
  <2>3. Waits
    BY <2>1, <2>2 DEF Waits, nodeVars
  <2>4. QED
    BY <2>1, <2>3, KeptBySteps, SoundWhenSame
<1>19. ASSUME Launch PROVE IInv'
  <2>1. /\ Steps /\ UNCHANGED <<doomed, holder, cut, pool, failed>>
        /\ live' = live \cup {pidFile + 1} /\ pidFile' = pidFile + 1
    BY <1>19, LaunchSteps
  <2>2. Ins.op = "launch"
    BY <1>19, Current DEF Launch
  <2>3. pidFile' \in Nat \ {0} /\ 1..pidFile \subseteq 1..pidFile' /\ pidFile + 1 \in 1..pidFile'
    BY <2>1 DEF IInv, Shape
  <2>4. Sound
    BY <2>1, <2>3 DEF Sound, IInv, TypeOK, Shape
  <2>5. QED
    BY <2>1, <2>2, <2>4, KeptBySteps DEF Launches
<1>20. QED
  BY <1>1, <1>3, <1>4, <1>5, <1>6, <1>7, <1>8, <1>9, <1>10, <1>11, <1>12, <1>14, <1>15, <1>16,
     <1>17, <1>18, <1>19

\* The registers are the script's own, and the next unit finds the processes as they are.
LEMMA NextUnitStep == ASSUME IInv, NextUnit PROVE IInv'
<1>1. /\ ~Finished /\ pc = End /\ unit' = unit + 1 /\ pc' = 1 /\ regs' = Fresh /\ failed' = {}
      /\ fail' = (fail \/ failed # {}) /\ trouble' = trouble \cap Lasting
      /\ UNCHANGED <<plan, pidFile, bridge>>
      /\ UNCHANGED <<height, ledger, fee, moves, pool, mined, live, doomed, holder, cut>>
  BY DEF NextUnit, settings, nodeVars, chainVars
<1>2. /\ unit \in 1..Len(PlanOf[plan]) /\ Len(Running.body) \in Nat
      /\ End = Len(Running.body) + 1 /\ WellMade(PlanOf[plan]) /\ Len(PlanOf[plan]) \in Nat
  BY <1>1, Here, PlansAreWellMade DEF IInv, Shape, WellMade
<1>3. unit' \in 1..(Len(PlanOf[plan]') + 1)
  BY <1>1, <1>2
<1>4. ASSUME ~Finished'
      PROVE  /\ Body(Running'.body) /\ Len(Running'.body) \in Nat /\ pc' \in 1..End'
  <2>1. unit' \in 1..Len(PlanOf[plan])
    BY <1>1, <1>2, <1>3, <1>4 DEF Finished
  <2>2. Running' = PlanOf[plan][unit']
    BY <1>1 DEF Running
  <2>3. Body(Running'.body)
    BY <1>2, <2>1, <2>2 DEF WellMade, WellMadeUnit
  <2>4. Len(Running'.body) \in Nat
    BY <2>3, SequenceLemma DEF Body
  <2>5. QED
    BY <1>1, <2>3, <2>4 DEF End
<1>5. Fresh \in [Regs -> Int]
  BY DEF Fresh
<1>6. TypeOK'
  <2>1. fail' \in BOOLEAN /\ trouble' \subseteq Troubles
    BY <1>1 DEF IInv, TypeOK
  <2>2. QED
    BY <1>1, <1>4, <1>5, <2>1 DEF IInv, TypeOK
<1>7. Shape'
  BY <1>1, <1>3 DEF IInv, Shape
<1>8. Seen'
  <2>1. SUFFICES ASSUME ~Finished', NEW p \in 1..Len(Running'.body), NEW q \in 1..(p - 1), q < pc'
                 PROVE  FALSE
    BY DEF Seen
  <2>2. Len(Running'.body) \in Nat /\ pc' = 1
    BY <1>1, <1>4, <2>1
  <2>3. QED
    BY <2>1, <2>2
<1>9. FeeRead'
  <2>1. 1..(pc' - 1) = {}
    BY <1>1
  <2>2. QED
    BY <2>1 DEF FeeRead
<1>10. ASSUME NEW u \in Nat \ {0}, NEW k \in Nat \ {0}, NEW v \in Nat \ {0}, NEW w \in Nat \ {0},
              RestartIs(u, k, v, w)
       PROVE  Replaced(u, k, v, w)'
  <2>1. SUFFICES ASSUME Unharmed' PROVE Replaced(u, k, v, w)'
    BY DEF Replaced
  <2>2. Unharmed
    BY <1>1, <2>1 DEF Unharmed, IInv, TypeOK, Lasting
  <2>3. ASSUME NEW x \in Nat \ {0}, NEW q \in Nat \ {0}, unit = x => q <= Len(Running.body)
        PROVE  Past(x, q)' <=> Past(x, q)
    BY <1>1, <1>2, <2>3 DEF Past
  <2>4. Restarting(PlanOf[plan], u, k, v, w)
    BY <1>10 DEF RestartIs
  <2>5. /\ unit = u => k + 2 <= Len(Running.body)
        /\ unit = v => w <= Len(Running.body)
    BY <1>2, <2>4 DEF Restarting, Running
  <2>6. /\ Past(u, k)' <=> Past(u, k)
        /\ Past(u, k + 1)' <=> Past(u, k + 1)
        /\ Past(u, k + 2)' <=> Past(u, k + 2)
        /\ Past(v, w)' <=> Past(v, w)
    BY <1>2, <2>3, <2>5
  <2>7. QED
    BY <1>1, <1>10, <2>2, <2>6 DEF Replaced, RestartIs
<1>11. Restarted'
  BY <1>1, <1>10, BothPlans
<1>12. QED
  BY <1>6, <1>7, <1>8, <1>9, <1>11 DEF IInv

-----------------------------------------------------------------------------
(* Steps of the node.                                                       *)

\* The script waits meanwhile.
LEMMA KeptByNode ==
  ASSUME IInv, ~Finished, UNCHANGED <<plan, pidFile, bridge, unit, pc, regs, failed, fail>>,
         trouble \subseteq trouble', trouble' \subseteq Troubles,
         height' \in Nat, ledger' \in 0..height', fee' \in Fees, moves' \in 0..FeeMoves[plan],
         pool' \subseteq Tx, IsFiniteSet(pool'),
         mined' \in [DOMAIN mined' -> Place], DOMAIN mined' \subseteq TxIds,
         IsFiniteSet(DOMAIN mined'), \A i \in DOMAIN mined' : mined'[i].block <= height',
         DOMAIN mined \subseteq DOMAIN mined' \/ Running.name = "b4_persist",
         live' \subseteq live, UNCHANGED doomed, holder' \in live' \cup {0},
         cut' \in {"none", "fresh", "regrown", "seen"},
         \* a process ends when it was told to or found the database locked
         \A p \in live \ live' : p \in doomed \/ (holder # 0 /\ p # holder),
         holder' = holder \/ holder = 0 \/ holder \in live \ live'
  PROVE  IInv'
<1>1. Running' = Running /\ End' = End /\ Finished' = Finished
  BY DEF Running, End, Finished
<1>2. TypeOK'
  BY <1>1 DEF IInv, TypeOK
<1>3. Shape'
  BY <1>1 DEF IInv, Shape
<1>4. Seen'
  <2>1. CASE DOMAIN mined \subseteq DOMAIN mined'
    BY <1>1, <2>1 DEF IInv, Seen
  <2>2. CASE Running.name = "b4_persist"
    BY <1>1, <2>2, Here DEF Seen, WellMadeUnit
  <2>3. QED
    BY <2>1, <2>2
<1>5. FeeRead'
  BY <1>1 DEF IInv, FeeRead
<1>6. ASSUME NEW u \in Nat \ {0}, NEW k \in Nat \ {0}, NEW v \in Nat \ {0}, NEW w \in Nat \ {0},
             RestartIs(u, k, v, w)
      PROVE  Replaced(u, k, v, w)'
  <2>1. SUFFICES ASSUME Unharmed' PROVE Replaced(u, k, v, w)'
    BY DEF Replaced
  <2>2. Unharmed
    BY <2>1 DEF Unharmed
  <2>3. \A x, q : Past(x, q)' <=> Past(x, q)
    BY DEF Past
  <2>4. /\ ~Past(u, k) => pidFile = 1 /\ doomed = {} /\ live \subseteq {1}
        /\ Past(u, k) /\ ~Past(u, k + 1) => pidFile = 1 /\ doomed = {1} /\ live \subseteq {1}
        /\ Past(u, k + 1) /\ ~Past(u, k + 2) => pidFile = 1 /\ doomed = {1} /\ live = {}
        /\ Past(u, k + 2) => pidFile = 2 /\ doomed = {1} /\ live = {2}
        /\ Past(v, w) => holder = 2
    BY <1>6, <2>2 DEF Replaced, RestartIs
  <2>5. holder \in live \cup {0}
    BY DEF IInv, TypeOK
  <2>6. Past(u, k + 2) => live' = {2}
    BY <2>4, <2>5
  <2>7. Past(v, w) => Past(u, k + 2)
    <3>1. v > u \/ (v = u /\ w > k + 2)
      BY <1>6 DEF RestartIs, Restarting
    <3>2. unit \in Nat /\ pc \in Nat
      BY Here
    <3>3. QED
      BY <3>1, <3>2 DEF Past
  <2>8. Past(v, w) => holder' = 2
    BY <2>4, <2>6, <2>7
  <2>9. QED
    BY <2>3, <2>4, <2>6, <2>8 DEF Replaced
<1>7. Restarted'
  BY <1>6, BothPlans
<1>8. QED
  BY <1>2, <1>3, <1>4, <1>5, <1>7 DEF IInv

LEMMA SealsStep == ASSUME IInv, NodeSeals PROVE IInv'
<1>1. PICK f \in {fee} \cup (IF moves < FeeMoves[plan] THEN {fee - 1, fee + 1} \cap Fees ELSE {}),
           n \in NonceAt(height)..(NonceAt(height) + Cardinality(pool)) :
        LET taken == {t \in GaplessRun(f) : t.nonce < n}
            placed == {t.id : t \in taken}
            place == [i \in placed |->
                        LET t == CHOOSE t \in taken : t.id = i
                        IN  [block |-> height + 1, index |-> t.nonce - NonceAt(height) + 1,
                             price |-> EffectivePrice(t, f)]]
        IN  /\ n = NonceAt(height) + Cardinality(taken)
            /\ fee' = f
            /\ moves' = IF f = fee THEN moves ELSE moves + 1
            /\ mined' = [i \in DOMAIN mined \cup placed |->
                           IF i \in placed THEN place[i] ELSE mined[i]]
            /\ pool' = {t \in Payable(f) : t.nonce >= n}
            /\ taken = {} => Cardinality(EmptyBlocks) < MaxEmpty[plan]
  BY Zenon DEF NodeSeals, Seal
<1>2. /\ height' = height + 1 /\ UNCHANGED <<ledger, live, doomed, holder>>
      /\ cut' = IF cut = "fresh" THEN "regrown" ELSE cut
      /\ UNCHANGED <<plan, pidFile, bridge, unit, pc, regs, failed, fail>> /\ ~Finished
      /\ trouble' = trouble \cup (IF Running.name = "a2_blocks" /\ pc > 1 THEN {"sealed"} ELSE {})
                            \cup (IF fee' # fee THEN {"fee"} ELSE {})
  BY Zenon DEF NodeSeals, Seal, scriptSame, settings, Between, At
<1> DEFINE taken == {t \in GaplessRun(f) : t.nonce < n}
           placed == {t.id : t \in taken}
           place == [i \in placed |->
                       LET t == CHOOSE t \in taken : t.id = i
                       IN  [block |-> height + 1, index |-> t.nonce - NonceAt(height) + 1,
                            price |-> EffectivePrice(t, f)]]
<1>3. /\ fee' = f /\ moves' = IF f = fee THEN moves ELSE moves + 1
      /\ mined' = [i \in DOMAIN mined \cup placed |->
                     IF i \in placed THEN place[i] ELSE mined[i]]
      /\ pool' = {t \in Payable(f) : t.nonce >= n}
  BY <1>1, Zenon
<1>4. /\ height \in Nat /\ ledger \in 0..height /\ fee \in Fees /\ moves \in 0..FeeMoves[plan]
      /\ pool \subseteq Tx /\ mined \in [DOMAIN mined -> Place] /\ DOMAIN mined \subseteq TxIds
      /\ IsFiniteSet(pool) /\ IsFiniteSet(DOMAIN mined) /\ plan \in Plans
      /\ \A i \in DOMAIN mined : mined[i].block <= height
      /\ NonceAt(height) \in Nat
  BY CountLemma DEF IInv, TypeOK, Shape
<1>5. f \in Fees /\ f \in Nat /\ FeeMoves[plan] \in Nat
  BY <1>1, <1>4, L2NodeAssumption, GateAssumption, Zenon
<1>6. moves' \in 0..FeeMoves[plan]
  <2>1. CASE f = fee
    BY <1>3, <1>4, <2>1
  <2>2. CASE f # fee
    <3>1. moves < FeeMoves[plan]
      BY <2>2
    <3>2. moves' = moves + 1
      BY <1>3, <2>2
    <3>3. QED
      BY <1>4, <1>5, <3>1, <3>2
  <2>3. QED
    BY <2>1, <2>2
<1>7. pool' \subseteq Tx /\ IsFiniteSet(pool')
  <2>1. pool' \subseteq pool
    BY <1>3 DEF Payable
  <2>2. QED
    BY <1>4, <2>1, FS_Subset
<1>8. taken \subseteq pool /\ \A t \in taken : t.nonce >= NonceAt(height)
  BY DEF GaplessRun, Payable
<1>9. placed \subseteq TxIds
  BY <1>4, <1>8 DEF Tx
<1>10. IsFiniteSet(placed)
  <2> DEFINE g == [t \in taken |-> t.id]
  <2>1. IsFiniteSet(taken)
    BY <1>4, <1>8, FS_Subset
  <2>2. g \in Surjection(taken, placed)
    BY DEF Surjection
  <2> HIDE DEF g, taken, placed
  <2>3. QED
    BY <2>1, <2>2, FS_Surjection
<1>11. ASSUME NEW i \in placed
       PROVE  place[i] \in Place /\ place[i].block = height + 1
  <2> DEFINE t == CHOOSE t \in taken : t.id = i
  <2>1. t \in taken
    BY <1>11
  <2>2. place[i] = [block |-> height + 1, index |-> t.nonce - NonceAt(height) + 1,
                    price |-> EffectivePrice(t, f)]
    BY <1>11
  <2>3. t \in Tx /\ t.nonce >= NonceAt(height)
    BY <1>4, <1>8, <2>1
  <2> HIDE DEF t, taken, place, placed
  <2>4. t.nonce - NonceAt(height) + 1 \in Nat
    BY <1>4, <2>3 DEF Tx
  <2>5. EffectivePrice(t, f) \in Nat
    BY <1>5, <2>3 DEF Tx, EffectivePrice, Lesser
  <2>6. QED
    BY <1>4, <2>2, <2>4, <2>5 DEF Place
<1> HIDE DEF taken, placed, place
<1>12. /\ DOMAIN mined' = DOMAIN mined \cup placed
       /\ mined' \in [DOMAIN mined' -> Place]
       /\ \A i \in DOMAIN mined' : mined'[i].block <= height'
  <2>1. DOMAIN mined' = DOMAIN mined \cup placed
    BY <1>3
  <2>2. ASSUME NEW i \in DOMAIN mined'
        PROVE  mined'[i] \in Place /\ mined'[i].block <= height'
    <3>1. CASE i \in placed
      <4>1. mined'[i] = place[i]
        BY <1>3, <2>1, <3>1
      <4>2. QED
        BY <1>2, <1>4, <1>11, <3>1, <4>1
    <3>2. CASE i \notin placed
      <4>1. i \in DOMAIN mined /\ mined'[i] = mined[i]
        BY <1>3, <2>1, <2>2, <3>2
      <4>2. mined[i].block \in Nat
        BY <1>4, <4>1 DEF Place
      <4>3. QED
        BY <1>2, <1>4, <4>1, <4>2
    <3>3. QED
      BY <3>1, <3>2
  <2>3. mined' = [i \in DOMAIN mined' |-> mined'[i]]
    BY <1>3
  <2>4. QED
    BY <2>1, <2>2, <2>3
<1>13. IsFiniteSet(DOMAIN mined') /\ DOMAIN mined' \subseteq TxIds
  <2>1. DOMAIN mined' = DOMAIN mined \cup placed
    BY <1>12
  <2>2. IsFiniteSet(DOMAIN mined \cup placed)
    BY <1>4, <1>10, FS_Union
  <2>3. QED
    BY <1>4, <1>9, <2>1, <2>2
<1>14. trouble \subseteq trouble' /\ trouble' \subseteq Troubles
  BY <1>2 DEF IInv, TypeOK, Troubles
<1>15. /\ height' \in Nat /\ ledger' \in 0..height' /\ fee' \in Fees
       /\ live' \subseteq live /\ holder' \in live' \cup {0} /\ live \ live' = {}
       /\ cut' \in {"none", "fresh", "regrown", "seen"} /\ DOMAIN mined \subseteq DOMAIN mined'
       /\ holder' = holder /\ UNCHANGED doomed
  BY <1>2, <1>3, <1>4, <1>5, <1>12 DEF IInv, TypeOK
<1>16. QED
  BY <1>2, <1>6, <1>7, <1>12, <1>13, <1>14, <1>15, KeptByNode

LEMMA CatchesUpStep == ASSUME IInv, NodeCatchesUp PROVE IInv'
<1>1. /\ ledger < height /\ ledger' = ledger + 1 /\ ~Finished
      /\ UNCHANGED <<height, fee, moves, pool, mined, live, doomed, holder, cut>>
      /\ UNCHANGED <<plan, unit, pc, regs, failed, fail, pidFile, bridge, trouble>>
  BY DEF NodeCatchesUp, CatchUp, Between, At, laneVars
<1>2. ledger' \in 0..height'
  BY <1>1 DEF IInv, TypeOK
<1>3. QED
  BY <1>1, <1>2, KeptByNode DEF IInv, TypeOK, Shape

LEMMA ExitsStep == ASSUME IInv, ProcessExits PROVE IInv'
<1>1. PICK p \in doomed \cap live :
        /\ live' = live \ {p} /\ holder' = IF holder = p THEN 0 ELSE holder
        /\ UNCHANGED <<chainVars, doomed, cut>>
  BY DEF ProcessExits, Exit
<1>2. ~Finished /\ UNCHANGED <<plan, unit, pc, regs, failed, fail, pidFile, bridge, trouble>>
  BY DEF ProcessExits, Between, At, laneVars
<1>3. UNCHANGED <<height, ledger, fee, moves, pool, mined, doomed, cut>>
  BY <1>1 DEF chainVars
<1>4. /\ live' \subseteq live /\ holder' \in live' \cup {0} /\ live \ live' = {p}
      /\ holder' = holder \/ holder \in live \ live'
  BY <1>1 DEF IInv, TypeOK
<1>5. QED
  BY <1>1, <1>2, <1>3, <1>4, KeptByNode DEF IInv, TypeOK, Shape

LEMMA OpensStep == ASSUME IInv, ProcessOpens PROVE IInv'
<1> DEFINE mayCut == MayCut /\ Running.name = "b4_persist"
<1>1. /\ ~Finished /\ UNCHANGED <<plan, pidFile, bridge, unit, pc, regs, failed, fail>>
      /\ trouble' = trouble \cup (IF height' < height THEN {"cut"} ELSE {})
  BY DEF ProcessOpens, Between, At, scriptSame, settings
<1>2. PICK p \in live \ {holder} :
        IF holder # 0
        THEN live' = live \ {p} /\ UNCHANGED <<chainVars, doomed, holder, cut>>
        ELSE /\ holder' = p
             /\ pool' \in {pool, {}}
             /\ \E h \in (IF mayCut THEN 0..height ELSE {height}) :
                  /\ height' = h
                  /\ ledger' = Lesser(ledger, h)
                  /\ mined' = [i \in MinedBy(TxIds, h) |-> mined[i]]
                  /\ cut' = IF h < height THEN "fresh" ELSE cut
             /\ UNCHANGED <<fee, moves, live, doomed>>
  BY DEF ProcessOpens, Open
<1> HIDE DEF mayCut
<1>3. trouble \subseteq trouble' /\ trouble' \subseteq Troubles
  BY <1>1 DEF IInv, TypeOK, Troubles
<1>4. CASE holder # 0
  <2>1. /\ live' = live \ {p} /\ UNCHANGED <<doomed, holder, cut>>
        /\ UNCHANGED <<height, ledger, fee, moves, pool, mined>>
    BY <1>2, <1>4 DEF chainVars
  <2>2. live' \subseteq live /\ holder' \in live' \cup {0} /\ live \ live' = {p} /\ p # holder
    BY <1>2, <2>1 DEF IInv, TypeOK
  <2>3. QED
    BY <1>1, <1>3, <1>4, <2>1, <2>2, KeptByNode DEF IInv, TypeOK, Shape
<1>5. CASE holder = 0
  <2>1. PICK h \in (IF mayCut THEN 0..height ELSE {height}) :
          /\ height' = h /\ ledger' = Lesser(ledger, h)
          /\ mined' = [i \in MinedBy(TxIds, h) |-> mined[i]]
          /\ cut' = IF h < height THEN "fresh" ELSE cut
    BY <1>2, <1>5
  <2>2. /\ holder' = p /\ pool' \in {pool, {}} /\ UNCHANGED <<fee, moves, live, doomed>>
    BY <1>2, <1>5
  <2>3. /\ height \in Nat /\ ledger \in 0..height /\ mined \in [DOMAIN mined -> Place]
        /\ DOMAIN mined \subseteq TxIds /\ IsFiniteSet(DOMAIN mined)
        /\ \A i \in DOMAIN mined : mined[i].block <= height
    BY DEF IInv, TypeOK, Shape
  <2>4. h \in Nat /\ ledger' \in 0..height'
    BY <2>1, <2>3 DEF Lesser
  <2>5. /\ DOMAIN mined' = MinedBy(TxIds, h) /\ DOMAIN mined' \subseteq DOMAIN mined
        /\ \A i \in DOMAIN mined' : mined'[i] = mined[i] /\ mined[i].block <= h
    BY <2>1 DEF MinedBy
  <2>6. /\ mined' \in [DOMAIN mined' -> Place] /\ DOMAIN mined' \subseteq TxIds
        /\ \A i \in DOMAIN mined' : mined'[i].block <= height'
    BY <2>1, <2>3, <2>5
  <2>7. IsFiniteSet(DOMAIN mined')
    BY <2>3, <2>5, FS_Subset
  <2>8. DOMAIN mined \subseteq DOMAIN mined' \/ Running.name = "b4_persist"
    <3>1. CASE mayCut
      BY <3>1 DEF mayCut
    <3>2. CASE ~mayCut
      <4>1. h = height
        BY <2>1, <3>2
      <4>2. DOMAIN mined \subseteq MinedBy(TxIds, h)
        BY <2>3, <4>1 DEF MinedBy
      <4>3. QED
        BY <2>5, <4>2
    <3>3. QED
      BY <3>1, <3>2
  <2>9. pool' \subseteq Tx /\ IsFiniteSet(pool')
    BY <2>2, FS_EmptySet DEF IInv, TypeOK, Shape
  <2>10. /\ fee' \in Fees /\ moves' \in 0..FeeMoves[plan] /\ live' \subseteq live
         /\ holder' \in live' \cup {0} /\ live \ live' = {} /\ UNCHANGED doomed
         /\ cut' \in {"none", "fresh", "regrown", "seen"} /\ height' \in Nat
    BY <1>2, <2>1, <2>2, <2>4 DEF IInv, TypeOK
  <2>11. QED
    BY <1>1, <1>3, <1>5, <2>4, <2>6, <2>7, <2>8, <2>9, <2>10, KeptByNode
<1>6. QED
  BY <1>4, <1>5

-----------------------------------------------------------------------------
(* The invariant and what follows from it.                                  *)

LEMMA InitHolds == ASSUME Init PROVE IInv
<1>1. /\ plan \in Plans /\ height = 1 /\ ledger = 1 /\ moves = 0 /\ fee \in Fees
      /\ mined = [i \in {} |-> 0] /\ cut = "none" /\ bridge \in BOOLEAN
      /\ pool \in {{}, {[id |-> "stray", nonce |-> 0, cap |-> Ample, tip |-> Ample]}}
      /\ live \in {{1}, {}} /\ doomed \in SUBSET live
      /\ holder = (IF live = {} THEN 0 ELSE 1)
      /\ pidFile = (IF doomed = {} THEN 1 ELSE 2)
      /\ unit = 1 /\ pc = 1 /\ regs = Fresh /\ failed = {} /\ fail = FALSE
  BY DEF Init
<1>2. trouble = {t \in {"stray", "bridge", "lingered"} : CASE t = "stray" -> pool # {}
                                                           [] t = "bridge" -> ~bridge
                                                           [] t = "lingered" -> doomed # {}}
  BY DEF Init
<1>3. trouble \subseteq Troubles /\ (doomed # {} => "lingered" \in trouble)
  BY <1>2 DEF Troubles
<1>4. WellMade(PlanOf[plan]) /\ FeeMoves[plan] \in Nat
  BY <1>1, PlansAreWellMade, GateAssumption
<1>5. Len(PlanOf[plan]) \in Nat /\ 1 \in 1..(Len(PlanOf[plan]) + 1)
  BY <1>4 DEF WellMade
<1>6. ASSUME ~Finished PROVE Body(Running.body) /\ Len(Running.body) \in Nat /\ pc \in 1..End
  <2>1. unit \in 1..Len(PlanOf[plan])
    BY <1>1, <1>5, <1>6 DEF Finished
  <2>2. Body(Running.body)
    BY <1>4, <2>1 DEF WellMade, WellMadeUnit, Running
  <2>3. QED
    BY <1>1, <2>2, SequenceLemma DEF Body, End
<1>7. pool \subseteq Tx /\ IsFiniteSet(pool)
  <2>1. [id |-> "stray", nonce |-> 0, cap |-> Ample, tip |-> Ample] \in Tx
    BY L2NodeAssumption DEF Tx
  <2>2. IsFiniteSet({}) /\ \A t : IsFiniteSet({t})
    BY FS_EmptySet, FS_Singleton
  <2>3. CASE pool = {}
    BY <2>2, <2>3
  <2>4. CASE pool = {[id |-> "stray", nonce |-> 0, cap |-> Ample, tip |-> Ample]}
    BY <2>1, <2>2, <2>4
  <2>5. QED
    BY <1>1, <2>3, <2>4
<1>8. DOMAIN mined = {} /\ IsFiniteSet(DOMAIN mined)
  BY <1>1, FS_EmptySet
<1>9. TypeOK
  <2>1. mined \in [DOMAIN mined -> Place]
    BY <1>1
  <2>2. regs \in [Regs -> Int]
    BY <1>1 DEF Fresh
  <2>3. live \subseteq 1..pidFile /\ doomed \subseteq 1..pidFile /\ holder \in live \cup {0}
    <3>1. 1 \in 1..1 /\ 1 \in 1..2
      OBVIOUS
    <3>2. QED
      BY <1>1, <3>1
  <2>4. height \in Nat /\ ledger \in 0..height /\ fee \in Fees /\ moves \in 0..FeeMoves[plan]
    BY <1>1, <1>4
  <2>5. QED
    BY <1>1, <1>3, <1>6, <1>7, <1>8, <2>1, <2>2, <2>3, <2>4 DEF TypeOK
<1>10. Shape
  BY <1>1, <1>5, <1>7, <1>8 DEF Shape
<1>11. Seen
  <2>1. SUFFICES ASSUME ~Finished, NEW p \in 1..Len(Running.body), NEW q \in 1..(p - 1), q < pc
                 PROVE  FALSE
    BY DEF Seen
  <2>2. Len(Running.body) \in Nat /\ pc = 1
    BY <1>1, <1>6, <2>1
  <2>3. QED
    BY <2>1, <2>2
<1>12. FeeRead
  <2>1. 1..(pc - 1) = {}
    BY <1>1
  <2>2. QED
    BY <2>1 DEF FeeRead
<1>13. ASSUME NEW u \in Nat \ {0}, NEW k \in Nat \ {0}, NEW v \in Nat \ {0}, NEW w \in Nat \ {0}
       PROVE  Replaced(u, k, v, w)
  <2>1. ~Past(u, k) /\ ~Past(u, k + 1) /\ ~Past(u, k + 2) /\ ~Past(v, w)
    BY <1>1 DEF Past
  <2>2. Unharmed => pidFile = 1 /\ doomed = {} /\ live \subseteq {1}
    BY <1>1, <1>3 DEF Unharmed
  <2>3. QED
    BY <2>1, <2>2 DEF Replaced
<1>14. Restarted
  BY <1>13 DEF Restarted
<1>15. QED
  BY <1>9, <1>10, <1>11, <1>12, <1>14 DEF IInv

LEMMA SameHolds == ASSUME IInv, UNCHANGED vars PROVE IInv'
<1>1. /\ UNCHANGED <<height, ledger, fee, moves, pool, mined, live, doomed, holder, cut>>
      /\ UNCHANGED <<plan, unit, pc, regs, failed, fail, pidFile, bridge, trouble>>
  BY DEF vars, nodeVars, chainVars, laneVars
<1>2. Finished' = Finished /\ Running' = Running /\ End' = End
  BY <1>1 DEF Finished, Running, End
<1>3. TypeOK' /\ Shape' /\ Seen' /\ FeeRead'
  BY <1>1, <1>2 DEF IInv, TypeOK, Shape, Seen, FeeRead
<1>4. \A x, q : Past(x, q)' <=> Past(x, q)
  BY <1>1 DEF Past
<1>5. \A u, k, v, w : Replaced(u, k, v, w) => Replaced(u, k, v, w)'
  BY <1>1, <1>4 DEF Replaced, Unharmed
<1>6. Restarted'
  BY <1>1, <1>5 DEF IInv, Restarted
<1>7. QED
  BY <1>3, <1>6 DEF IInv

LEMMA NextHolds == ASSUME IInv, [Next]_vars PROVE IInv'
<1>1. CASE Script
  BY <1>1, ScriptStep, NextUnitStep DEF Script
<1>2. CASE Node
  BY <1>2, SealsStep, CatchesUpStep, ExitsStep, OpensStep DEF Node
<1>3. CASE Stop
  BY <1>3, SameHolds DEF Stop
<1>4. CASE UNCHANGED vars
  BY <1>4, SameHolds
<1>5. QED
  BY <1>1, <1>2, <1>3, <1>4 DEF Next

THEOREM Inductive == Spec => []IInv
<1>1. Init => IInv
  BY InitHolds
<1>2. IInv /\ [Next]_vars => IInv'
  BY NextHolds
<1>3. QED
  BY <1>1, <1>2, PTL DEF Spec

\* The node and the script keep to their types in every order of seals, reads and restarts: every
\* register holds a number and every transaction a fee that is one, because a field is asked only
\* of a receipt that was waited for (Seen; the Python would index None) and a price is made only
\* of a base fee that was read (FeeRead).
THEOREM TypeCorrect == Spec => []TypeOK
<1>1. IInv => TypeOK
  BY DEF IInv
<1>2. QED
  BY <1>1, Inductive, PTL

\* When run_all.sh's read gates, or the transaction gates with b4's restart, come out green, the
\* node that answers is the one that restart_b3.sh started, unless the old one outlived the ten
\* seconds it was given: with any number of blocks, fees and lost or late reads in between.
THEOREM GreenIsRestarted == Spec => []GreenMeansRestarted
<1>1. IInv => GreenMeansRestarted
  <2>1. SUFFICES ASSUME IInv, Green, plan \in {"reads", "transactions"}, "lingered" \notin trouble
                 PROVE  holder = pidFile
    BY DEF GreenMeansRestarted
  <2>2. unit > Len(PlanOf[plan]) /\ failed = {} /\ ~fail /\ plan \in Plans /\ unit \in Nat
    <3>1. Finished /\ failed = {} /\ ~fail /\ plan \in Plans
      BY <2>1 DEF Green, IInv, Shape
    <3>2. Len(PlanOf[plan]) \in Nat
      BY <3>1, PlansAreWellMade DEF WellMade
    <3>3. QED
      BY <2>1, <3>1, <3>2 DEF Finished, IInv, Shape
  <2>3. ASSUME NEW u \in Nat \ {0}, NEW k \in Nat \ {0}, NEW v \in Nat \ {0}, NEW w \in Nat \ {0},
               Restarting(PlanOf[plan], u, k, v, w), Replaced(u, k, v, w)
        PROVE  holder = pidFile
    <3>1. u \in 1..Len(PlanOf[plan]) /\ v \in 1..Len(PlanOf[plan]) /\ Len(PlanOf[plan]) \in Nat
      BY <2>2, <2>3, PlansAreWellMade DEF Restarting, WellMade
    <3>2. Past(u, k + 2) /\ Past(v, w)
      BY <2>2, <3>1 DEF Past
    <3>3. Unharmed
      BY <2>1, <2>2 DEF Unharmed
    <3>4. QED
      BY <2>3, <3>2, <3>3 DEF Replaced
  <2>4. {1, 2, 3, 5} \subseteq Nat \ {0}
    OBVIOUS
  <2>5. CASE plan = "reads"
    <3>1. Restarting(PlanOf[plan], 1, 1, 3, 1) /\ Replaced(1, 1, 3, 1)
      BY <2>1, <2>2, <2>5, PlansAreWellMade DEF IInv, Restarted
    <3>2. QED
      BY <2>3, <2>4, <3>1
  <2>6. CASE plan = "transactions"
    <3>1. Restarting(PlanOf[plan], 2, 2, 2, 5) /\ Replaced(2, 2, 2, 5)
      BY <2>1, <2>2, <2>6, PlansAreWellMade DEF IInv, Restarted
    <3>2. QED
      BY <2>3, <2>4, <3>1
  <2>7. QED
    BY <2>1, <2>5, <2>6
<1>2. QED
  BY <1>1, Inductive, PTL

-----------------------------------------------------------------------------
(* What lands: the instructions of a script, one by one.                    *)

LEMMA Tuple1 ==
  ASSUME NEW a
  PROVE  LET s == <<a>> IN
         /\ Sequence(s) /\ Len(s) = 1
         /\ s[1] = a
         /\ \A q \in 1..1 : q = 1
BY DEF Sequence

LEMMA Tuple2 ==
  ASSUME NEW a, NEW b
  PROVE  LET s == <<a, b>> IN
         /\ Sequence(s) /\ Len(s) = 2
         /\ s[1] = a /\ s[2] = b
         /\ \A q \in 1..2 : q = 1 \/ q = 2
BY DEF Sequence

LEMMA Tuple3 ==
  ASSUME NEW a, NEW b, NEW c
  PROVE  LET s == <<a, b, c>> IN
         /\ Sequence(s) /\ Len(s) = 3
         /\ s[1] = a /\ s[2] = b /\ s[3] = c
         /\ \A q \in 1..3 : q = 1 \/ q = 2 \/ q = 3
BY DEF Sequence

LEMMA Tuple4 ==
  ASSUME NEW a, NEW b, NEW c, NEW d
  PROVE  LET s == <<a, b, c, d>> IN
         /\ Sequence(s) /\ Len(s) = 4
         /\ s[1] = a /\ s[2] = b /\ s[3] = c /\ s[4] = d
         /\ \A q \in 1..4 : q = 1 \/ q = 2 \/ q = 3 \/ q = 4
BY DEF Sequence

LEMMA Tuple5 ==
  ASSUME NEW a, NEW b, NEW c, NEW d, NEW e
  PROVE  LET s == <<a, b, c, d, e>> IN
         /\ Sequence(s) /\ Len(s) = 5
         /\ s[1] = a /\ s[2] = b /\ s[3] = c /\ s[4] = d /\ s[5] = e
         /\ \A q \in 1..5 : q = 1 \/ q = 2 \/ q = 3 \/ q = 4 \/ q = 5
BY DEF Sequence

LEMMA Tuple6 ==
  ASSUME NEW a, NEW b, NEW c, NEW d, NEW e, NEW f
  PROVE  LET s == <<a, b, c, d, e, f>> IN
         /\ Sequence(s) /\ Len(s) = 6
         /\ s[1] = a /\ s[2] = b /\ s[3] = c /\ s[4] = d /\ s[5] = e /\ s[6] = f
         /\ \A q \in 1..6 : q = 1 \/ q = 2 \/ q = 3 \/ q = 4 \/ q = 5 \/ q = 6
BY DEF Sequence

LEMMA Tuple7 ==
  ASSUME NEW a, NEW b, NEW c, NEW d, NEW e, NEW f, NEW g
  PROVE  LET s == <<a, b, c, d, e, f, g>> IN
         /\ Sequence(s) /\ Len(s) = 7
         /\ s[1] = a /\ s[2] = b /\ s[3] = c /\ s[4] = d /\ s[5] = e /\ s[6] = f
         /\ s[7] = g
         /\ \A q \in 1..7 : q = 1 \/ q = 2 \/ q = 3 \/ q = 4 \/ q = 5 \/ q = 6 \/ q = 7
BY DEF Sequence

LEMMA Tuple9 ==
  ASSUME NEW a, NEW b, NEW c, NEW d, NEW e, NEW f, NEW g, NEW h, NEW i
  PROVE  LET s == <<a, b, c, d, e, f, g, h, i>> IN
         /\ Sequence(s) /\ Len(s) = 9
         /\ s[1] = a /\ s[2] = b /\ s[3] = c /\ s[4] = d /\ s[5] = e /\ s[6] = f
         /\ s[7] = g /\ s[8] = h /\ s[9] = i
         /\ \A q \in 1..9 : q = 1 \/ q = 2 \/ q = 3 \/ q = 4 \/ q = 5 \/ q = 6 \/ q = 7 \/ q = 8 \/ q = 9
BY DEF Sequence

LEMMA Tuple11 ==
  ASSUME NEW a, NEW b, NEW c, NEW d, NEW e, NEW f, NEW g, NEW h, NEW i, NEW j, NEW k
  PROVE  LET s == <<a, b, c, d, e, f, g, h, i, j, k>> IN
         /\ Sequence(s) /\ Len(s) = 11
         /\ s[1] = a /\ s[2] = b /\ s[3] = c /\ s[4] = d /\ s[5] = e /\ s[6] = f
         /\ s[7] = g /\ s[8] = h /\ s[9] = i /\ s[10] = j /\ s[11] = k
         /\ \A q \in 1..11 : q = 1 \/ q = 2 \/ q = 3 \/ q = 4 \/ q = 5 \/ q = 6 \/ q = 7 \/ q = 8 \/ q = 9 \/ q = 10 \/ q = 11
BY DEF Sequence
-----------------------------------------------------------------------------
(* The instructions that name something, in the order of the scripts.        *)

\* A send names its transaction, a wait for the account's nonce the register it fills.
Event(ins) == ins.op \in {"send", "advance"}
Name(ins) == IF ins.op = "send" THEN ins.id ELSE ins.into

Rank ==
  [transfer0 |-> 1, transfer1 |-> 2, store |-> 3, revert |-> 4,
   n0 |-> 1, c0 |-> 2, n1 |-> 3, gap |-> 4, first |-> 5, second |-> 6, n2 |-> 7, twin1 |-> 8,
   twin2 |-> 9, n3 |-> 10, low |-> 11, c3 |-> 12, n4 |-> 13, half |-> 14, c4 |-> 15, n5 |-> 16,
   under |-> 17, c5 |-> 18, n6 |-> 19, exact |-> 20, n7 |-> 21, legacy |-> 22, n8 |-> 23,
   double |-> 24, n9 |-> 25, tipped |-> 26]

\* Which nonces the refused transactions and their rivals are sent with.
Keyed(ins) ==
  /\ ins.op = "send" =>
       /\ ins.id # "stray"
       /\ ins.id = "low" => ins.nonce = "n3" /\ ins.plus = -1
       /\ ins.id \in {"half", "c4"} => ins.nonce = "n4" /\ ins.plus = 0
       /\ ins.id \in {"under", "c5"} => ins.nonce = "n5" /\ ins.plus = 0
  /\ ins.op \in Readers /\ ins.into \in {"n3", "n4", "n5"} => ins.op = "advance"

\* The names of a fragment come in order, between lo and hi.
Tidy(s, lo, hi) ==
  /\ Sequence(s)
  /\ \A i \in 1..Len(s) : Keyed(s[i]) /\ (Event(s[i]) => Rank[Name(s[i])] \in lo..hi)
  /\ \A j \in 1..Len(s) : \A i \in 1..(j - 1) :
       Event(s[i]) /\ Event(s[j]) => Rank[Name(s[i])] < Rank[Name(s[j])]

\* A fragment waits for every transaction of S, and sends none of N.
Lands(s, S, N) ==
  /\ Sequence(s)
  /\ \A i \in 1..Len(s) : s[i].op = "send" => s[i].id \notin N
  /\ \A id \in S : \E i \in 1..Len(s) : s[i].op = "await" /\ s[i].of = {id}
\* A stretch that names nothing.
LEMMA NothingNamed ==
  ASSUME NEW s, Sequence(s), NEW lo, NEW hi,
         \A i \in 1..Len(s) : Keyed(s[i]) /\ ~Event(s[i])
  PROVE  Tidy(s, lo, hi)
<1>1. \A j \in 1..Len(s) : \A i \in 1..(j - 1) : i \in 1..Len(s)
  BY SequenceLemma
<1>2. QED
  BY <1>1 DEF Tidy

\* Names that follow one another.
LEMMA TidyConcat ==
  ASSUME NEW s, NEW t, NEW lo \in Int, NEW m \in Int, NEW hi \in Int, lo <= m + 1, m <= hi,
         Tidy(s, lo, m), Tidy(t, m + 1, hi)
  PROVE  Tidy(s \o t, lo, hi)
<1> DEFINE u == s \o t
           r(ins) == Rank[Name(ins)]
<1>1. Sequence(s) /\ Sequence(t)
  BY DEF Tidy
<1>2. /\ Sequence(u)
      /\ Len(s) \in Nat /\ Len(t) \in Nat /\ Len(u) = Len(s) + Len(t)
      /\ \A i \in 1..Len(s) : u[i] = s[i]
      /\ \A i \in 1..Len(t) : u[Len(s) + i] = t[i]
  BY <1>1, Concatenated
<1> HIDE DEF u
<1>3. /\ \A i \in 1..Len(s) : Keyed(s[i]) /\ (Event(s[i]) => r(s[i]) \in lo..m)
      /\ \A i \in 1..Len(t) : Keyed(t[i]) /\ (Event(t[i]) => r(t[i]) \in (m + 1)..hi)
      /\ \A j \in 1..Len(s) : \A i \in 1..(j - 1) :
           Event(s[i]) /\ Event(s[j]) => r(s[i]) < r(s[j])
      /\ \A j \in 1..Len(t) : \A i \in 1..(j - 1) :
           Event(t[i]) /\ Event(t[j]) => r(t[i]) < r(t[j])
  BY DEF Tidy
<1> HIDE DEF r
<1>4. \A i \in 1..Len(u) : \/ i \in 1..Len(s) /\ u[i] = s[i]
                           \/ i - Len(s) \in 1..Len(t) /\ u[i] = t[i - Len(s)]
  <2>1. SUFFICES ASSUME NEW i \in 1..Len(u)
                 PROVE  \/ i \in 1..Len(s) /\ u[i] = s[i]
                        \/ i - Len(s) \in 1..Len(t) /\ u[i] = t[i - Len(s)]
    OBVIOUS
  <2>2. i \in 1..Len(s) \/ (i - Len(s) \in 1..Len(t) /\ i = Len(s) + (i - Len(s)))
    BY <1>2, EitherPart
  <2>3. QED
    BY <1>2, <2>2
<1>5. \A i \in 1..Len(u) : Keyed(u[i]) /\ (Event(u[i]) => r(u[i]) \in lo..hi)
  BY <1>3, <1>4
<1>6. ASSUME NEW j \in 1..Len(u), NEW i \in 1..(j - 1), Event(u[i]), Event(u[j])
      PROVE  r(u[i]) < r(u[j])
  <2>1. i \in 1..Len(u)
    BY <1>2
  <2>2. CASE j \in 1..Len(s)
    <3>1. u[j] = s[j] /\ u[i] = s[i]
      BY <1>2, <2>2
    <3>2. QED
      BY <1>3, <1>6, <2>2, <3>1
  <2>3. CASE i \in 1..Len(s) /\ j \notin 1..Len(s)
    <3>1. j - Len(s) \in 1..Len(t) /\ u[j] = t[j - Len(s)] /\ u[i] = s[i]
      BY <1>2, <1>4, <2>3
    <3>2. r(s[i]) \in lo..m /\ r(t[j - Len(s)]) \in (m + 1)..hi
      BY <1>3, <1>6, <2>3, <3>1
    <3>3. QED
      BY <3>1, <3>2
  <2>4. CASE i \notin 1..Len(s)
    <3>1. /\ j - Len(s) \in 1..Len(t) /\ u[j] = t[j - Len(s)]
          /\ i - Len(s) \in 1..((j - Len(s)) - 1) /\ u[i] = t[i - Len(s)]
      BY <1>2, <1>4, <2>1, <2>4
    <3>2. QED
      BY <1>3, <1>6, <3>1
  <2>5. QED
    BY <2>2, <2>3, <2>4
<1>7. QED
  BY <1>2, <1>5, <1>6 DEF Tidy, u, r

LEMMA LandsConcat ==
  ASSUME NEW s, NEW t, NEW S, NEW T, NEW N, Lands(s, S, N), Lands(t, T, N)
  PROVE  Lands(s \o t, S \cup T, N)
<1> DEFINE u == s \o t
<1>1. Sequence(s) /\ Sequence(t)
  BY DEF Lands
<1>2. /\ Sequence(u)
      /\ Len(s) \in Nat /\ Len(t) \in Nat /\ Len(u) = Len(s) + Len(t)
      /\ \A i \in 1..Len(s) : u[i] = s[i]
      /\ \A i \in 1..Len(t) : u[Len(s) + i] = t[i]
  BY <1>1, Concatenated
<1> HIDE DEF u
<1>3. ASSUME NEW i \in 1..Len(u), u[i].op = "send"
      PROVE  u[i].id \notin N
  <2>1. i \in 1..Len(s) \/ (i - Len(s) \in 1..Len(t) /\ i = Len(s) + (i - Len(s)))
    BY <1>2, EitherPart
  <2>2. (i \in 1..Len(s) /\ u[i] = s[i]) \/ (i - Len(s) \in 1..Len(t) /\ u[i] = t[i - Len(s)])
    BY <1>2, <2>1
  <2>3. QED
    BY <1>3, <2>2 DEF Lands
<1>4. ASSUME NEW id \in S
      PROVE  \E i \in 1..Len(u) : u[i].op = "await" /\ u[i].of = {id}
  <2>1. PICK i \in 1..Len(s) : s[i].op = "await" /\ s[i].of = {id}
    BY DEF Lands
  <2>2. i \in 1..Len(u) /\ u[i] = s[i]
    BY <1>2
  <2>3. QED
    BY <2>1, <2>2
<1>5. ASSUME NEW id \in T
      PROVE  \E i \in 1..Len(u) : u[i].op = "await" /\ u[i].of = {id}
  <2>1. PICK i \in 1..Len(t) : t[i].op = "await" /\ t[i].of = {id}
    BY DEF Lands
  <2>2. Len(s) + i \in 1..Len(u) /\ u[Len(s) + i] = t[i]
    BY <1>2
  <2>3. QED
    BY <2>1, <2>2
<1>6. QED
  BY <1>2, <1>3, <1>4, <1>5 DEF Lands, u

LEMMA NothingSent ==
  ASSUME NEW s, NEW N, Sequence(s), \A i \in 1..Len(s) : s[i].op # "send"
  PROVE  Lands(s, {}, N)
BY DEF Lands

-----------------------------------------------------------------------------
(* The transaction scripts.                                                  *)

LEMMA DrivenNames ==
  ASSUME NEW id, NEW i, NEW r \in Nat, Rank[id] = r, id \notin Never \cup {"stray", "c4", "c5"}
  PROVE  Tidy(Driven(id, i), r, r) /\ Lands(Driven(id, i), {id}, Never)
<1> DEFINE s == Driven(id, i)
<1>1. /\ Sequence(s) /\ Len(s) = 5
      /\ s[1] = Send(id, "nonce0", i, "gwei") /\ s[2] = Await(id, 3)
      /\ s[3] = Field(id, "index", "index") /\ s[4] = Check("index", "index", "=", "one", 0)
      /\ s[5] = Ask
      /\ \A q \in 1..5 : q = 1 \/ q = 2 \/ q = 3 \/ q = 4 \/ q = 5
  BY Tuple5 DEF Driven
<1> HIDE DEF s
<1>2. Name(s[1]) = id /\ \A q \in 2..5 : ~Event(s[q])
  BY <1>1 DEF Event, Name, Send, Await, Field, Check, Ask
<1>3. \A q \in 1..5 : Keyed(s[q])
  BY <1>1 DEF Keyed, Never, Readers, Send, Await, Field, Check, Ask
<1>4. \A q \in 1..5 : Event(s[q]) => q = 1 /\ Rank[Name(s[q])] \in r..r
  BY <1>1, <1>2
<1>5. Tidy(s, r, r)
  BY <1>1, <1>3, <1>4 DEF Tidy
<1>6. Lands(s, {id}, Never)
  BY <1>1 DEF Lands, Send, Await, Field, Check, Ask
<1>7. QED
  BY <1>5, <1>6 DEF s

LEMMA DeployedNames ==
  ASSUME NEW id, NEW i, NEW r \in Nat, Rank[id] = r, id \notin Never \cup {"stray", "c4", "c5"}
  PROVE  Tidy(Deployed(id, i), r, r) /\ Lands(Deployed(id, i), {id}, Never)
<1> DEFINE s == Deployed(id, i)
<1>1. /\ Sequence(s) /\ Len(s) = 4
      /\ s[1] = Send(id, "nonce", i, "gwei") /\ s[2] = Await(id, 2)
      /\ s[3] = Count({id}, "code") /\ s[4] = Check("code", "code", "=", "one", 0)
      /\ \A q \in 1..4 : q = 1 \/ q = 2 \/ q = 3 \/ q = 4
  BY Tuple4 DEF Deployed
<1> HIDE DEF s
<1>2. Name(s[1]) = id /\ \A q \in 2..4 : ~Event(s[q])
  BY <1>1 DEF Event, Name, Send, Await, Count, Check
<1>3. \A q \in 1..4 : Keyed(s[q])
  BY <1>1 DEF Keyed, Never, Readers, Send, Await, Count, Check
<1>4. \A q \in 1..4 : Event(s[q]) => q = 1 /\ Rank[Name(s[q])] \in r..r
  BY <1>1, <1>2
<1>5. Tidy(s, r, r)
  BY <1>1, <1>3, <1>4 DEF Tidy
<1>6. Lands(s, {id}, Never)
  BY <1>1 DEF Lands, Send, Await, Count, Check
<1>7. QED
  BY <1>5, <1>6 DEF s

LEMMA DriverNames ==
  Tidy(chain_driver, 1, 2) /\ Lands(chain_driver, {"transfer0", "transfer1"}, Never)
<1> DEFINE a == <<Balance("bal0"), Nonce("nonce0"), BlockNumber("prev_head")>>
           d0 == Driven("transfer0", 0)
           d1 == Driven("transfer1", 1)
           z == <<Balance("bal1"), Nonce("nonce1"), Check("nonce", "nonce1", "=", "nonce0", 2),
                  [Check("balance", "bal1", "=", "bal0", 2) EXCEPT !.op = "spent"],
                  BlockNumber("head"), Check("head", "head", ">=", "prev_head", 0)>>
<1>1. Tidy(a, 1, 0) /\ Lands(a, {}, Never)
  <2>1. /\ Sequence(a) /\ Len(a) = 3 /\ a[1] = Balance("bal0") /\ a[2] = Nonce("nonce0")
        /\ a[3] = BlockNumber("prev_head") /\ \A q \in 1..3 : q = 1 \/ q = 2 \/ q = 3
    BY Tuple3
  <2> HIDE DEF a
  <2>2. \A q \in 1..3 : Keyed(a[q]) /\ ~Event(a[q]) /\ a[q].op # "send"
    BY <2>1 DEF Keyed, Event, Readers, Balance, Nonce, BlockNumber
  <2>3. QED
    BY <2>1, <2>2, NothingNamed, NothingSent
<1>2. Tidy(z, 3, 2) /\ Lands(z, {}, Never)
  <2>1. /\ Sequence(z) /\ Len(z) = 6 /\ z[1] = Balance("bal1") /\ z[2] = Nonce("nonce1")
        /\ z[3] = Check("nonce", "nonce1", "=", "nonce0", 2)
        /\ z[4] = [Check("balance", "bal1", "=", "bal0", 2) EXCEPT !.op = "spent"]
        /\ z[5] = BlockNumber("head") /\ z[6] = Check("head", "head", ">=", "prev_head", 0)
        /\ \A q \in 1..6 : q = 1 \/ q = 2 \/ q = 3 \/ q = 4 \/ q = 5 \/ q = 6
    BY Tuple6
  <2> HIDE DEF z
  <2>2. \A q \in 1..6 : Keyed(z[q]) /\ ~Event(z[q]) /\ z[q].op # "send"
    BY <2>1 DEF Keyed, Event, Readers, Balance, Nonce, BlockNumber, Check
  <2>3. QED
    BY <2>1, <2>2, NothingNamed, NothingSent
<1>3. /\ Tidy(d0, 1, 1) /\ Lands(d0, {"transfer0"}, Never)
      /\ Tidy(d1, 2, 2) /\ Lands(d1, {"transfer1"}, Never)
  <2>1. Rank["transfer0"] = 1 /\ Rank["transfer1"] = 2
    BY DEF Rank
  <2>2. {"transfer0", "transfer1"} \cap (Never \cup {"stray", "c4", "c5"}) = {}
    BY DEF Never
  <2>3. QED
    BY <2>1, <2>2, DrivenNames
<1> HIDE DEF a, d0, d1, z
<1>4. Tidy(((a \o d0) \o d1) \o z, 1, 2)
  <2>1. Tidy(a \o d0, 1, 1)
    BY <1>1, <1>3, TidyConcat
  <2>2. Tidy((a \o d0) \o d1, 1, 2)
    BY <1>3, <2>1, TidyConcat
  <2>3. QED
    BY <1>2, <2>2, TidyConcat
<1>5. Lands(((a \o d0) \o d1) \o z, (({} \cup {"transfer0"}) \cup {"transfer1"}) \cup {}, Never)
  BY <1>1, <1>2, <1>3, LandsConcat
<1>6. QED
  BY <1>4, <1>5 DEF a, d0, d1, z, chain_driver
LEMMA ContractsNames ==
  Tidy(b3_contracts, 3, 4) /\ Lands(b3_contracts, {"store", "revert"}, Never)
<1> DEFINE a == <<Nonce("nonce")>>
           d0 == Deployed("store", 0)
           d1 == Deployed("revert", 1)
<1>1. Tidy(a, 3, 2) /\ Lands(a, {}, Never)
  <2>1. Sequence(a) /\ Len(a) = 1 /\ a[1] = Nonce("nonce") /\ \A q \in 1..1 : q = 1
    BY Tuple1
  <2> HIDE DEF a
  <2>2. \A q \in 1..1 : Keyed(a[q]) /\ ~Event(a[q]) /\ a[q].op # "send"
    BY <2>1 DEF Keyed, Event, Readers, Nonce
  <2>3. QED
    BY <2>1, <2>2, NothingNamed, NothingSent
<1>2. /\ Tidy(d0, 3, 3) /\ Lands(d0, {"store"}, Never)
      /\ Tidy(d1, 4, 4) /\ Lands(d1, {"revert"}, Never)
  <2>1. Rank["store"] = 3 /\ Rank["revert"] = 4
    BY DEF Rank
  <2>2. {"store", "revert"} \cap (Never \cup {"stray", "c4", "c5"}) = {}
    BY DEF Never
  <2>3. QED
    BY <2>1, <2>2, DeployedNames
<1> HIDE DEF a, d0, d1
<1>3. Tidy((a \o d0) \o d1, 3, 4)
  <2>1. Tidy(a \o d0, 3, 3)
    BY <1>1, <1>2, TidyConcat
  <2>2. QED
    BY <1>2, <2>1, TidyConcat
<1>4. Lands((a \o d0) \o d1, ({} \cup {"store"}) \cup {"revert"}, Never)
  BY <1>1, <1>2, LandsConcat
<1>5. QED
  BY <1>3, <1>4 DEF a, d0, d1, b3_contracts

\* b4_persist, instruction by instruction.
LEMMA PersistItems ==
  /\ Len(b4_persist) = 8 /\ Sequence(b4_persist)
  /\ b4_persist[1] = BlockNumber("h1")
  /\ b4_persist[2].op = "kill" /\ b4_persist[3].op = "gone" /\ b4_persist[4].op = "launch"
  /\ b4_persist[5] = AnyHead("h2") /\ b4_persist[6] = Check("headKept", "h2", ">=", "h1", 0)
  /\ b4_persist[7] = LaterBlock("h2", "h3") /\ b4_persist[8] = Check("resumes", "h3", ">", "h2", 0)
<1> DEFINE a == <<BlockNumber("h1")>>
           t == <<AnyHead("h2"), Check("headKept", "h2", ">=", "h1", 0), LaterBlock("h2", "h3"),
                  Check("resumes", "h3", ">", "h2", 0)>>
           b == a \o restart_b3
           s == b \o t
<1>1. Sequence(a) /\ Len(a) = 1 /\ a[1] = BlockNumber("h1")
  BY Tuple1
<1>2. /\ Sequence(t) /\ Len(t) = 4
      /\ t[1] = AnyHead("h2") /\ t[2] = Check("headKept", "h2", ">=", "h1", 0)
      /\ t[3] = LaterBlock("h2", "h3") /\ t[4] = Check("resumes", "h3", ">", "h2", 0)
  BY Tuple4
<1>3. Sequence(restart_b3) /\ Len(restart_b3) = 3
  BY RestartIsBody DEF Body
<1> HIDE DEF a, t
<1>4. /\ Sequence(b) /\ Len(b) = Len(a) + Len(restart_b3)
      /\ \A i \in 1..Len(a) : b[i] = a[i]
  BY <1>1, <1>3, Concatenated
<1> HIDE DEF b
<1>5. /\ Sequence(s) /\ Len(s) = Len(b) + Len(t)
      /\ \A i \in 1..Len(b) : s[i] = b[i]
      /\ \A i \in 1..Len(t) : s[Len(b) + i] = t[i]
  <2>1. Sequence(b) /\ Sequence(t)
    BY <1>2, <1>4
  <2>2. QED
    BY <2>1, Concatenated
<1> HIDE DEF s
<1>6. s[1] = b[1] /\ s[5] = t[1] /\ s[6] = t[2] /\ s[7] = t[3] /\ s[8] = t[4]
  <2>1. Len(a) = 1 /\ Len(b) = 4 /\ Len(t) = 4
    BY <1>1, <1>2, <1>3, <1>4
  <2>2. s[4 + 1] = t[1] /\ s[4 + 2] = t[2] /\ s[4 + 3] = t[3] /\ s[4 + 4] = t[4] /\ s[1] = b[1]
    BY <1>5, <2>1
  <2>3. 4 + 1 = 5 /\ 4 + 2 = 6 /\ 4 + 3 = 7 /\ 4 + 4 = 8
    OBVIOUS
  <2>4. QED
    BY <2>2, <2>3
<1>7. b[1] = a[1]
  BY <1>1, <1>4
<1>8. s = b4_persist
  BY DEF s, b, a, t, b4_persist
<1>9. QED
  BY <1>1, <1>2, <1>5, <1>6, <1>7, <1>8, PersistIsBody

LEMMA PersistNames == Tidy(b4_persist, 3, 2) /\ Lands(b4_persist, {}, Never)
<1>1. \A q \in 1..8 : q = 1 \/ q = 2 \/ q = 3 \/ q = 4 \/ q = 5 \/ q = 6 \/ q = 7 \/ q = 8
  OBVIOUS
<1>2. /\ b4_persist[1].op = "head" /\ b4_persist[1].into = "h1"
      /\ b4_persist[5].op = "retry" /\ b4_persist[5].into = "h2"
      /\ b4_persist[6].op = "check" /\ b4_persist[8].op = "check"
      /\ b4_persist[7].op = "later" /\ b4_persist[7].into = "h3"
  BY PersistItems DEF BlockNumber, AnyHead, Check, LaterBlock
<1>3. \A q \in 1..8 : /\ b4_persist[q].op \notin {"send", "advance"}
                      /\ b4_persist[q].op \in Readers => b4_persist[q].into \notin {"n3", "n4", "n5"}
  BY <1>1, <1>2, PersistItems DEF Readers
<1>4. \A q \in 1..8 : Keyed(b4_persist[q]) /\ ~Event(b4_persist[q]) /\ b4_persist[q].op # "send"
  BY <1>3 DEF Keyed, Event
<1>5. QED
  BY <1>4, PersistItems, NothingNamed, NothingSent
-----------------------------------------------------------------------------
(* The account's script, section by section.                                 *)

LEMMA Section0Names ==
  Tidy(Section0, 1, 2) /\ Lands(Section0, {"c0"}, {})
<1> DEFINE s == Section0
<1>1. /\ Sequence(s) /\ Len(s) = 4
      /\ s[1] = Fee("bf") /\ s[2] = Advance("none", "n0") /\ s[3] = Send("c0", "n0", 0, "quoted")
      /\ s[4] = Await("c0", Raise)
      /\ \A q \in 1..4 : q = 1 \/ q = 2 \/ q = 3 \/ q = 4
  BY Tuple4 DEF Section0
<1> HIDE DEF s
<1>2. /\ Name(s[2]) = "n0" /\ Name(s[3]) = "c0"
      /\ \A q \in 1..4 : Event(s[q]) => q \in {2, 3}
  BY <1>1 DEF Event, Name, Send, Await, AwaitOne, Absent, Advance, Fee, Field
<1>3. \A q \in 1..4 : Keyed(s[q])
  BY <1>1 DEF Keyed, Readers, Send, Await, AwaitOne, Absent, Advance, Fee, Field
<1>4. Rank["n0"] = 1 /\ Rank["c0"] = 2
  BY DEF Rank
<1>5. \A q \in 1..4 : Event(s[q]) => Rank[Name(s[q])] \in 1..2
  BY <1>2, <1>4
<1>6. \A j \in {2, 3} : \A i \in {2, 3} : i < j => Rank[Name(s[i])] < Rank[Name(s[j])]
  BY <1>2, <1>4
<1>7. Tidy(s, 1, 2)
  <2>1. \A j \in 1..4 : \A i \in 1..(j - 1) : i \in 1..4 /\ i < j
    OBVIOUS
  <2>2. QED
    BY <1>1, <1>2, <1>3, <1>5, <1>6, <2>1 DEF Tidy
<1>8. Lands(s, {"c0"}, {})
  <2>1. s[4].op = "await" /\ s[4].of = {"c0"}
    BY <1>1 DEF Await
  <2>2. QED
    BY <1>1, <2>1 DEF Lands
<1>9. QED
  BY <1>7, <1>8 DEF s

LEMMA Section1Names ==
  Tidy(Section1, 3, 6) /\ Lands(Section1, {"first", "second", "gap"}, {})
<1> DEFINE s == Section1
<1>1. /\ Sequence(s) /\ Len(s) = 9
      /\ s[1] = Advance("n0", "n1") /\ s[2] = Send("gap", "n1", 2, "quoted")
      /\ s[3] = Absent("gap") /\ s[4] = Send("first", "n1", 0, "quoted")
      /\ s[5] = Send("second", "n1", 1, "quoted") /\ s[6] = Await("first", Raise)
      /\ s[7] = Await("second", Raise) /\ s[8] = Await("gap", Raise)
      /\ s[9] = [op |-> "order", of |-> <<"first", "second", "gap">>]
      /\ \A q \in 1..9 : q = 1 \/ q = 2 \/ q = 3 \/ q = 4 \/ q = 5 \/ q = 6 \/ q = 7 \/ q = 8 \/ q = 9
  BY Tuple9 DEF Section1
<1> HIDE DEF s
<1>2. /\ Name(s[1]) = "n1" /\ Name(s[2]) = "gap" /\ Name(s[4]) = "first" /\ Name(s[5]) = "second"
      /\ \A q \in 1..9 : Event(s[q]) => q \in {1, 2, 4, 5}
  BY <1>1 DEF Event, Name, Send, Await, AwaitOne, Absent, Advance, Fee, Field
<1>3. \A q \in 1..9 : Keyed(s[q])
  BY <1>1 DEF Keyed, Readers, Send, Await, AwaitOne, Absent, Advance, Fee, Field
<1>4. Rank["n1"] = 3 /\ Rank["gap"] = 4 /\ Rank["first"] = 5 /\ Rank["second"] = 6
  BY DEF Rank
<1>5. \A q \in 1..9 : Event(s[q]) => Rank[Name(s[q])] \in 3..6
  BY <1>2, <1>4
<1>6. \A j \in {1, 2, 4, 5} : \A i \in {1, 2, 4, 5} : i < j => Rank[Name(s[i])] < Rank[Name(s[j])]
  BY <1>2, <1>4
<1>7. Tidy(s, 3, 6)
  <2>1. \A j \in 1..9 : \A i \in 1..(j - 1) : i \in 1..9 /\ i < j
    OBVIOUS
  <2>2. QED
    BY <1>1, <1>2, <1>3, <1>5, <1>6, <2>1 DEF Tidy
<1>8. Lands(s, {"first", "second", "gap"}, {})
  <2>1. s[6].op = "await" /\ s[6].of = {"first"} /\ s[7].op = "await" /\ s[7].of = {"second"} /\ s[8].op = "await" /\ s[8].of = {"gap"}
    BY <1>1 DEF Await
  <2>2. QED
    BY <1>1, <2>1 DEF Lands
<1>9. QED
  BY <1>7, <1>8 DEF s

LEMMA Section2Names ==
  Tidy(Section2, 7, 9) /\ Lands(Section2, {}, {})
<1> DEFINE s == Section2
<1>1. /\ Sequence(s) /\ Len(s) = 5
      /\ s[1] = Advance("n1", "n2") /\ s[2] = Send("twin1", "n2", 0, "quoted")
      /\ s[3] = Send("twin2", "n2", 0, "quoted") /\ s[4] = AwaitOne({"twin1", "twin2"})
      /\ s[5] = [op |-> "one", of |-> {"twin1", "twin2"}]
      /\ \A q \in 1..5 : q = 1 \/ q = 2 \/ q = 3 \/ q = 4 \/ q = 5
  BY Tuple5 DEF Section2
<1> HIDE DEF s
<1>2. /\ Name(s[1]) = "n2" /\ Name(s[2]) = "twin1" /\ Name(s[3]) = "twin2"
      /\ \A q \in 1..5 : Event(s[q]) => q \in {1, 2, 3}
  BY <1>1 DEF Event, Name, Send, Await, AwaitOne, Absent, Advance, Fee, Field
<1>3. \A q \in 1..5 : Keyed(s[q])
  BY <1>1 DEF Keyed, Readers, Send, Await, AwaitOne, Absent, Advance, Fee, Field
<1>4. Rank["n2"] = 7 /\ Rank["twin1"] = 8 /\ Rank["twin2"] = 9
  BY DEF Rank
<1>5. \A q \in 1..5 : Event(s[q]) => Rank[Name(s[q])] \in 7..9
  BY <1>2, <1>4
<1>6. \A j \in {1, 2, 3} : \A i \in {1, 2, 3} : i < j => Rank[Name(s[i])] < Rank[Name(s[j])]
  BY <1>2, <1>4
<1>7. Tidy(s, 7, 9)
  <2>1. \A j \in 1..5 : \A i \in 1..(j - 1) : i \in 1..5 /\ i < j
    OBVIOUS
  <2>2. QED
    BY <1>1, <1>2, <1>3, <1>5, <1>6, <2>1 DEF Tidy
<1>8. Lands(s, {}, {})
  BY <1>1 DEF Lands
<1>9. QED
  BY <1>7, <1>8 DEF s

LEMMA Section3Names ==
  Tidy(Section3, 10, 12) /\ Lands(Section3, {"c3"}, {})
<1> DEFINE s == Section3
<1>1. /\ Sequence(s) /\ Len(s) = 5
      /\ s[1] = Advance("n2", "n3") /\ s[2] = Send("low", "n3", -1, "quoted")
      /\ s[3] = Absent("low") /\ s[4] = Send("c3", "n3", 0, "quoted")
      /\ s[5] = Await("c3", Raise)
      /\ \A q \in 1..5 : q = 1 \/ q = 2 \/ q = 3 \/ q = 4 \/ q = 5
  BY Tuple5 DEF Section3
<1> HIDE DEF s
<1>2. /\ Name(s[1]) = "n3" /\ Name(s[2]) = "low" /\ Name(s[4]) = "c3"
      /\ \A q \in 1..5 : Event(s[q]) => q \in {1, 2, 4}
  BY <1>1 DEF Event, Name, Send, Await, AwaitOne, Absent, Advance, Fee, Field
<1>3. \A q \in 1..5 : Keyed(s[q])
  BY <1>1 DEF Keyed, Readers, Send, Await, AwaitOne, Absent, Advance, Fee, Field
<1>4. Rank["n3"] = 10 /\ Rank["low"] = 11 /\ Rank["c3"] = 12
  BY DEF Rank
<1>5. \A q \in 1..5 : Event(s[q]) => Rank[Name(s[q])] \in 10..12
  BY <1>2, <1>4
<1>6. \A j \in {1, 2, 4} : \A i \in {1, 2, 4} : i < j => Rank[Name(s[i])] < Rank[Name(s[j])]
  BY <1>2, <1>4
<1>7. Tidy(s, 10, 12)
  <2>1. \A j \in 1..5 : \A i \in 1..(j - 1) : i \in 1..5 /\ i < j
    OBVIOUS
  <2>2. QED
    BY <1>1, <1>2, <1>3, <1>5, <1>6, <2>1 DEF Tidy
<1>8. Lands(s, {"c3"}, {})
  <2>1. s[5].op = "await" /\ s[5].of = {"c3"}
    BY <1>1 DEF Await
  <2>2. QED
    BY <1>1, <2>1 DEF Lands
<1>9. QED
  BY <1>7, <1>8 DEF s

(* Evicted, Charged *)
LEMMA EvictedNames ==
  ASSUME NEW past, NEW n, NEW id, NEW price, NEW control, NEW r \in Nat,
         Rank[n] = r, Rank[id] = r + 1, Rank[control] = r + 2,
         \/ n = "n4" /\ id = "half" /\ control = "c4"
         \/ n = "n5" /\ id = "under" /\ control = "c5"
  PROVE  Tidy(Evicted(past, n, id, price, control), r, r + 2) /\ Lands(Evicted(past, n, id, price, control), {control}, {})
<1> DEFINE s == Evicted(past, n, id, price, control)
<1>1. /\ Sequence(s) /\ Len(s) = 6
      /\ s[1] = Fee("bf") /\ s[2] = Advance(past, n) /\ s[3] = Send(id, n, 0, price)
      /\ s[4] = Absent(id) /\ s[5] = Send(control, n, 0, "quoted")
      /\ s[6] = Await(control, Raise)
      /\ \A q \in 1..6 : q = 1 \/ q = 2 \/ q = 3 \/ q = 4 \/ q = 5 \/ q = 6
  BY Tuple6 DEF Evicted
<1> HIDE DEF s
<1>2. /\ Name(s[2]) = n /\ Name(s[3]) = id /\ Name(s[5]) = control
      /\ \A q \in 1..6 : Event(s[q]) => q \in {2, 3, 5}
  BY <1>1 DEF Event, Name, Send, Await, AwaitOne, Absent, Advance, Fee, Field
<1>3. \A q \in 1..6 : Keyed(s[q])
  BY <1>1 DEF Keyed, Readers, Send, Await, AwaitOne, Absent, Advance, Fee, Field
<1>4. \A q \in 1..6 : Event(s[q]) => Rank[Name(s[q])] \in r..r + 2
  BY <1>2
<1>5. \A j \in {2, 3, 5} : \A i \in {2, 3, 5} : i < j => Rank[Name(s[i])] < Rank[Name(s[j])]
  BY <1>2
<1>6. Tidy(s, r, r + 2)
  <2>1. \A j \in 1..6 : \A i \in 1..(j - 1) : i \in 1..6 /\ i < j
    OBVIOUS
  <2>2. QED
    BY <1>1, <1>2, <1>3, <1>4, <1>5, <2>1 DEF Tidy
<1>7. Lands(s, {control}, {})
  <2>1. s[6].op = "await" /\ s[6].of = {control}
    BY <1>1 DEF Await
  <2>2. QED
    BY <1>1, <2>1 DEF Lands
<1>8. QED
  BY <1>6, <1>7 DEF s

LEMMA ChargedNames ==
  ASSUME NEW past, NEW n, NEW id, NEW price, NEW r \in Nat, Rank[n] = r, Rank[id] = r + 1,
         id \notin {"stray", "low", "half", "c4", "under", "c5"}
  PROVE  Tidy(Charged(past, n, id, price), r, r + 1) /\ Lands(Charged(past, n, id, price), {id}, {})
<1> DEFINE s == Charged(past, n, id, price)
<1>1. /\ Sequence(s) /\ Len(s) = 6
      /\ s[1] = Fee("bf") /\ s[2] = Advance(past, n) /\ s[3] = Send(id, n, 0, price)
      /\ s[4] = Await(id, Raise) /\ s[5] = Field(id, "price", "effective")
      /\ s[6] = [op |-> "price", of |-> price, name |-> id]
      /\ \A q \in 1..6 : q = 1 \/ q = 2 \/ q = 3 \/ q = 4 \/ q = 5 \/ q = 6
  BY Tuple6 DEF Charged
<1> HIDE DEF s
<1>2. /\ Name(s[2]) = n /\ Name(s[3]) = id
      /\ \A q \in 1..6 : Event(s[q]) => q \in {2, 3}
  BY <1>1 DEF Event, Name, Send, Await, AwaitOne, Absent, Advance, Fee, Field
<1>3. \A q \in 1..6 : Keyed(s[q])
  BY <1>1 DEF Keyed, Readers, Send, Await, AwaitOne, Absent, Advance, Fee, Field
<1>4. \A q \in 1..6 : Event(s[q]) => Rank[Name(s[q])] \in r..r + 1
  BY <1>2
<1>5. \A j \in {2, 3} : \A i \in {2, 3} : i < j => Rank[Name(s[i])] < Rank[Name(s[j])]
  BY <1>2
<1>6. Tidy(s, r, r + 1)
  <2>1. \A j \in 1..6 : \A i \in 1..(j - 1) : i \in 1..6 /\ i < j
    OBVIOUS
  <2>2. QED
    BY <1>1, <1>2, <1>3, <1>4, <1>5, <2>1 DEF Tidy
<1>7. Lands(s, {id}, {})
  <2>1. s[4].op = "await" /\ s[4].of = {id}
    BY <1>1 DEF Await
  <2>2. QED
    BY <1>1, <2>1 DEF Lands
<1>8. QED
  BY <1>6, <1>7 DEF s
LEMMA BoundariesNames ==
  /\ Tidy(nonce_fee_boundaries, 1, 26)
  /\ Lands(nonce_fee_boundaries, Intended["boundaries"], {})
<1> DEFINE e0 == Evicted("n3", "n4", "half", "half", "c4")
           e1 == Evicted("n4", "n5", "under", "under", "c5")
           p0 == Charged("n5", "n6", "exact", "exact")
           p1 == Charged("n6", "n7", "legacy", "legacy")
           p2 == Charged("n7", "n8", "double", "double")
           p3 == Charged("n8", "n9", "tipped", "tipped")
           s1 == Section0 \o Section1
           s2 == s1 \o Section2
           s3 == s2 \o Section3
           s4 == s3 \o e0
           s5 == s4 \o e1
           s6 == s5 \o p0
           s7 == s6 \o p1
           s8 == s7 \o p2
           s9 == s8 \o p3
<1>1. /\ Rank["n4"] = 13 /\ Rank["half"] = 14 /\ Rank["c4"] = 15
      /\ Rank["n5"] = 16 /\ Rank["under"] = 17 /\ Rank["c5"] = 18
      /\ Rank["n6"] = 19 /\ Rank["exact"] = 20 /\ Rank["n7"] = 21 /\ Rank["legacy"] = 22
      /\ Rank["n8"] = 23 /\ Rank["double"] = 24 /\ Rank["n9"] = 25 /\ Rank["tipped"] = 26
  BY DEF Rank
<1>2. /\ Tidy(e0, 13, 15) /\ Lands(e0, {"c4"}, {})
      /\ Tidy(e1, 16, 18) /\ Lands(e1, {"c5"}, {})
  <2>1. Tidy(e0, 13, 13 + 2) /\ Lands(e0, {"c4"}, {})
    BY <1>1, EvictedNames
  <2>2. Tidy(e1, 16, 16 + 2) /\ Lands(e1, {"c5"}, {})
    <3>1. 16 \in Nat /\ Rank["n5"] = 16 /\ Rank["under"] = 16 + 1 /\ Rank["c5"] = 16 + 2
      BY <1>1
    <3>2. QED
      BY <3>1, EvictedNames
  <2> HIDE DEF e0, e1
  <2>3. QED
    BY <2>1, <2>2
<1>3. /\ Tidy(p0, 19, 20) /\ Lands(p0, {"exact"}, {})
      /\ Tidy(p1, 21, 22) /\ Lands(p1, {"legacy"}, {})
      /\ Tidy(p2, 23, 24) /\ Lands(p2, {"double"}, {})
      /\ Tidy(p3, 25, 26) /\ Lands(p3, {"tipped"}, {})
  <2>1. Tidy(p0, 19, 19 + 1) /\ Lands(p0, {"exact"}, {})
    BY <1>1, ChargedNames
  <2>2. Tidy(p1, 21, 21 + 1) /\ Lands(p1, {"legacy"}, {})
    BY <1>1, ChargedNames
  <2>3. Tidy(p2, 23, 23 + 1) /\ Lands(p2, {"double"}, {})
    BY <1>1, ChargedNames
  <2>4. Tidy(p3, 25, 25 + 1) /\ Lands(p3, {"tipped"}, {})
    BY <1>1, ChargedNames
  <2> HIDE DEF p0, p1, p2, p3
  <2>5. QED
    BY <2>1, <2>2, <2>3, <2>4
<1> HIDE DEF e0, e1, p0, p1, p2, p3
<1>4. Tidy(s3, 1, 12)
  <2>1. Tidy(s1, 1, 6)
    BY Section0Names, Section1Names, TidyConcat
  <2>2. Tidy(s2, 1, 9)
    <3> HIDE DEF s1
    <3>1. QED
      BY <2>1, Section2Names, TidyConcat
  <2>3. QED
    <3> HIDE DEF s2
    <3>1. QED
      BY <2>2, Section3Names, TidyConcat
<1>5. Tidy(s9, 1, 26)
  <2> HIDE DEF s3
  <2>1. Tidy(s4, 1, 15)
    BY <1>2, <1>4, TidyConcat
  <2> HIDE DEF s4
  <2>2. Tidy(s5, 1, 18)
    BY <1>2, <2>1, TidyConcat
  <2> HIDE DEF s5
  <2>3. Tidy(s6, 1, 20)
    BY <1>3, <2>2, TidyConcat
  <2> HIDE DEF s6
  <2>4. Tidy(s7, 1, 22)
    BY <1>3, <2>3, TidyConcat
  <2> HIDE DEF s7
  <2>5. Tidy(s8, 1, 24)
    BY <1>3, <2>4, TidyConcat
  <2> HIDE DEF s8
  <2>6. QED
    BY <1>3, <2>5, TidyConcat
<1>6. Lands(s3, (({"c0"} \cup {"first", "second", "gap"}) \cup {}) \cup {"c3"}, {})
  BY Section0Names, Section1Names, Section2Names, Section3Names, LandsConcat
<1>7. Lands(s9, (((((((({"c0"} \cup {"first", "second", "gap"}) \cup {}) \cup {"c3"}) \cup {"c4"})
                  \cup {"c5"}) \cup {"exact"}) \cup {"legacy"}) \cup {"double"}) \cup {"tipped"}, {})
  <2> HIDE DEF s3
  <2>1. QED
    BY <1>2, <1>3, <1>6, LandsConcat
<1>8. ((((((((({"c0"} \cup {"first", "second", "gap"}) \cup {}) \cup {"c3"}) \cup {"c4"})
           \cup {"c5"}) \cup {"exact"}) \cup {"legacy"}) \cup {"double"}) \cup {"tipped"})
      = Intended["boundaries"]
  BY DEF Intended
<1>9. s9 = nonce_fee_boundaries
  BY DEF nonce_fee_boundaries, e0, e1, p0, p1, p2, p3
<1>10. QED
  BY <1>5, <1>7, <1>8, <1>9

-----------------------------------------------------------------------------
(* The other scripts.                                                        *)

\* A stretch in which nothing is sent.
Quiet(s) == Sequence(s) /\ \A i \in 1..Len(s) : s[i].op # "send"

LEMMA QuietLands == ASSUME NEW s, Quiet(s), NEW N PROVE Lands(s, {}, N)
BY DEF Quiet, Lands

LEMMA QuietConcat ==
  ASSUME NEW s, NEW t, Quiet(s), Quiet(t)
  PROVE  Quiet(s \o t)
<1> DEFINE u == s \o t
<1>1. Sequence(s) /\ Sequence(t)
  BY DEF Quiet
<1>2. /\ Sequence(u)
      /\ Len(s) \in Nat /\ Len(t) \in Nat /\ Len(u) = Len(s) + Len(t)
      /\ \A i \in 1..Len(s) : u[i] = s[i]
      /\ \A i \in 1..Len(t) : u[Len(s) + i] = t[i]
  BY <1>1, Concatenated
<1> HIDE DEF u
<1>3. ASSUME NEW i \in 1..Len(u) PROVE u[i].op # "send"
  <2>1. i \in 1..Len(s) \/ (i - Len(s) \in 1..Len(t) /\ i = Len(s) + (i - Len(s)))
    BY <1>2, EitherPart
  <2>2. u[i] = s[i] \/ (i - Len(s) \in 1..Len(t) /\ u[i] = t[i - Len(s)])
    BY <1>2, <2>1
  <2>3. QED
    BY <1>2, <2>1, <2>2 DEF Quiet
<1>4. QED
  BY <1>2, <1>3 DEF Quiet, u

LEMMA SentLands == ASSUME NEW id, id \notin Never PROVE Lands(Sent(id), {id}, Never)
<1> DEFINE s == Sent(id)
<1>1. /\ Sequence(s) /\ Len(s) = 3
      /\ s[1] = Nonce("nonce") /\ s[2] = Send(id, "nonce", 0, "gwei") /\ s[3] = Await(id, Raise)
      /\ \A q \in 1..3 : q = 1 \/ q = 2 \/ q = 3
  BY Tuple3 DEF Sent
<1> HIDE DEF s
<1>2. QED
  <2>1. Lands(s, {id}, Never)
    BY <1>1 DEF Lands, Nonce, Send, Await
  <2>2. QED
    BY <2>1 DEF s

LEMMA CastLands == ASSUME NEW id, id \notin Never PROVE Lands(Cast(id), {id}, Never)
<1> DEFINE s == Cast(id)
<1>1. /\ Sequence(s) /\ Len(s) = 3
      /\ s[1] = Nonce("nonce") /\ s[2] = Send(id, "nonce", 0, "quoted") /\ s[3] = Await(id, Raise)
      /\ \A q \in 1..3 : q = 1 \/ q = 2 \/ q = 3
  BY Tuple3 DEF Cast
<1> HIDE DEF s
<1>2. QED
  <2>1. Lands(s, {id}, Never)
    BY <1>1 DEF Lands, Nonce, Send, Await
  <2>2. QED
    BY <2>1 DEF s

LEMMA PredeploysLand == Lands(predeploy_matrix, Intended["predeploys"], Never)
<1>1. Never = {"low", "half", "under"}
  BY DEF Never
<1>2. Lands(L1BlockGroup, {"reject_caller", "reject_length"}, Never)
  <2> DEFINE x == [Check("sequence", "seq1", "=", "seq0", 1) EXCEPT !.op = "steps"]
             a == <<Ask, SequenceNumber("seq0"), SequenceNumber("seq1"), x>>
             b == Sent("reject_caller")
             c == Sent("reject_length")
  <2>1. Lands(a, {}, Never)
    <3>1. /\ Sequence(a) /\ Len(a) = 4 /\ a[1] = Ask /\ a[2] = SequenceNumber("seq0")
          /\ a[3] = SequenceNumber("seq1") /\ a[4] = x
          /\ \A q \in 1..4 : q = 1 \/ q = 2 \/ q = 3 \/ q = 4
      BY Tuple4
    <3>2. x.op = "steps"
      BY DEF Check
    <3> HIDE DEF a, x
    <3>3. Quiet(a)
      BY <3>1, <3>2 DEF Quiet, Ask, SequenceNumber
    <3>4. QED
      BY <3>3, QuietLands
  <2>2. Lands(b, {"reject_caller"}, Never) /\ Lands(c, {"reject_length"}, Never)
    BY <1>1, SentLands
  <2> HIDE DEF a, b, c
  <2>3. Lands((a \o b) \o c, ({} \cup {"reject_caller"}) \cup {"reject_length"}, Never)
    BY <2>1, <2>2, LandsConcat
  <2>4. QED
    BY <2>3 DEF a, b, c, L1BlockGroup
<1>3. Lands(MessagePasserGroup, {"withdrawal"}, Never)
  <2> DEFINE a == <<BlockNumber("head"), Root("head", "root_before")>>
             b == Sent("withdrawal")
             t == <<Count({"withdrawal"}, "sm"), Check("sentMessages", "sm", "=", "one", 0),
                    Field("withdrawal", "block", "n"), Root("n", "root_at"),
                    Check("rootChanges", "root_at", ">", "root_before", 0),
                    Count({"withdrawal"}, "sv"), Check("slot", "sv", "=", "one", 0),
                    LaterBlock("n", "later"), Root("later", "stable_root"),
                    Check("rootStable", "stable_root", "=", "root_at", 0), Ask>>
  <2>1. Lands(a, {}, Never)
    <3>1. /\ Sequence(a) /\ Len(a) = 2 /\ a[1] = BlockNumber("head")
          /\ a[2] = Root("head", "root_before") /\ \A q \in 1..2 : q = 1 \/ q = 2
      BY Tuple2
    <3> HIDE DEF a
    <3>2. Quiet(a)
      BY <3>1 DEF Quiet, BlockNumber, Root
    <3>3. QED
      BY <3>2, QuietLands
  <2>2. Lands(t, {}, Never)
    <3>1. /\ Sequence(t) /\ Len(t) = 11
          /\ t[1] = Count({"withdrawal"}, "sm") /\ t[2] = Check("sentMessages", "sm", "=", "one", 0)
          /\ t[3] = Field("withdrawal", "block", "n") /\ t[4] = Root("n", "root_at")
          /\ t[5] = Check("rootChanges", "root_at", ">", "root_before", 0)
          /\ t[6] = Count({"withdrawal"}, "sv") /\ t[7] = Check("slot", "sv", "=", "one", 0)
          /\ t[8] = LaterBlock("n", "later") /\ t[9] = Root("later", "stable_root")
          /\ t[10] = Check("rootStable", "stable_root", "=", "root_at", 0) /\ t[11] = Ask
          /\ \A q \in 1..11 : \/ q = 1 \/ q = 2 \/ q = 3 \/ q = 4 \/ q = 5 \/ q = 6 \/ q = 7
                              \/ q = 8 \/ q = 9 \/ q = 10 \/ q = 11
      BY Tuple11
    <3> HIDE DEF t
    <3>2. Quiet(t)
      BY <3>1 DEF Quiet, Count, Check, Field, Root, LaterBlock, Ask
    <3>3. QED
      BY <3>2, QuietLands
  <2>3. Lands(b, {"withdrawal"}, Never)
    BY <1>1, SentLands
  <2> HIDE DEF a, b, t
  <2>4. Lands((a \o b) \o t, ({} \cup {"withdrawal"}) \cup {}, Never)
    BY <2>1, <2>2, <2>3, LandsConcat
  <2>5. QED
    BY <2>4 DEF a, b, t, MessagePasserGroup
<1>4. Lands(MessengerGroup, {"message"}, Never)
  <2> DEFINE s == MessengerGroup
  <2>1. /\ Sequence(s) /\ Len(s) = 7
        /\ s[1] = Nonce("nonce") /\ s[2] = Count({"message"}, "nonce0")
        /\ s[3] = Send("message", "nonce", 0, "gwei") /\ s[4] = Await("message", Raise)
        /\ s[5] = Nonce("nonce") /\ s[6] = Count({"message"}, "nonce1")
        /\ s[7] = Check("messageNonce", "nonce1", "=", "nonce0", 1)
        /\ \A q \in 1..7 : q = 1 \/ q = 2 \/ q = 3 \/ q = 4 \/ q = 5 \/ q = 6 \/ q = 7
    BY Tuple7 DEF MessengerGroup
  <2> HIDE DEF s
  <2>2. Lands(s, {"message"}, Never)
    BY <1>1, <2>1 DEF Lands, Nonce, Count, Send, Await, Check
  <2>3. QED
    BY <2>2 DEF s
<1>5. ASSUME NEW id, id \notin Never, NEW before, NEW after, NEW name
      PROVE  Lands(Bridged(id, before, after, name), {id}, Never)
  <2> DEFINE a == <<Count({id}, before)>>
             b == Sent(id)
             t == <<Count({id}, after), Unverified(name, after, before, 1)>>
  <2>1. Lands(a, {}, Never)
    <3>1. Sequence(a) /\ Len(a) = 1 /\ a[1] = Count({id}, before) /\ \A q \in 1..1 : q = 1
      BY Tuple1
    <3> HIDE DEF a
    <3>2. Quiet(a)
      BY <3>1 DEF Quiet, Count
    <3>3. QED
      BY <3>2, QuietLands
  <2>2. Lands(t, {}, Never)
    <3>1. /\ Sequence(t) /\ Len(t) = 2 /\ t[1] = Count({id}, after)
          /\ t[2] = Unverified(name, after, before, 1) /\ \A q \in 1..2 : q = 1 \/ q = 2
      BY Tuple2
    <3> HIDE DEF t
    <3>2. Quiet(t)
      BY <3>1 DEF Quiet, Count, Unverified, Check
    <3>3. QED
      BY <3>2, QuietLands
  <2>3. Lands(b, {id}, Never)
    BY <1>5, SentLands
  <2> HIDE DEF a, b, t
  <2>4. Lands((a \o b) \o t, ({} \cup {id}) \cup {}, Never)
    BY <2>1, <2>2, <2>3, LandsConcat
  <2>5. QED
    BY <2>4 DEF a, b, t, Bridged
<1>6. Lands(BridgeGroup, {"token", "deposit", "withdraw"}, Never)
  <2> DEFINE a == Sent("token")
             b == Bridged("deposit", "bal0", "bal1", "mint")
             c == Bridged("withdraw", "bal2", "bal3", "burn")
  <2>1. Lands(a, {"token"}, Never) /\ Lands(b, {"deposit"}, Never) /\ Lands(c, {"withdraw"}, Never)
    BY <1>1, <1>5, SentLands
  <2> HIDE DEF a, b, c
  <2>2. Lands((a \o b) \o c, ({"token"} \cup {"deposit"}) \cup {"withdraw"}, Never)
    BY <2>1, LandsConcat
  <2>3. ({"token"} \cup {"deposit"}) \cup {"withdraw"} = {"token", "deposit", "withdraw"}
    OBVIOUS
  <2>4. QED
    BY <2>2, <2>3 DEF a, b, c, BridgeGroup
<1>7. Lands(SystemConfigGroup, {"setValue"}, Never)
  <2> DEFINE a == <<Ask>>
             b == Sent("setValue")
  <2>1. Lands(a, {}, Never)
    <3>1. Sequence(a) /\ Len(a) = 1 /\ a[1] = Ask /\ \A q \in 1..1 : q = 1
      BY Tuple1
    <3>2. Quiet(a)
      BY <3>1 DEF Quiet, Ask
    <3>3. QED
      BY <3>2, QuietLands
  <2>2. Lands(b, {"setValue"}, Never)
    BY <1>1, SentLands
  <2> HIDE DEF a, b
  <2>3. Lands(a \o b, {} \cup {"setValue"}, Never)
    BY <2>1, <2>2, LandsConcat
  <2>4. QED
    BY <2>3 DEF a, b, SystemConfigGroup
<1>8. Lands((((L1BlockGroup \o MessagePasserGroup) \o MessengerGroup) \o BridgeGroup)
            \o SystemConfigGroup,
            ((({"reject_caller", "reject_length"} \cup {"withdrawal"}) \cup {"message"})
             \cup {"token", "deposit", "withdraw"}) \cup {"setValue"}, Never)
  BY <1>2, <1>3, <1>4, <1>6, <1>7, LandsConcat
<1>9. ((({"reject_caller", "reject_length"} \cup {"withdrawal"}) \cup {"message"})
             \cup {"token", "deposit", "withdraw"}) \cup {"setValue"} = Intended["predeploys"]
  BY DEF Intended
<1>10. QED
  BY <1>8, <1>9 DEF predeploy_matrix

LEMMA ScenariosLand == Lands(l2_tx_scenarios, Intended["scenarios"], Never)
<1> DEFINE c0 == Cast("create")
           c1 == Cast("inc1")
           c2 == Cast("inc2")
           c3 == Cast("boom")
           a == <<Count({"create"}, "code"), Check("code", "code", "=", "one", 0)>>
           b1 == <<Counter("counter1")>>
           b2 == <<Counter("counter2")>>
           d == <<Check("counter", "counter1", "=", "one", 0),
                  Check("counter", "counter2", "=", "one", 1)>>
           e == <<Counter("counter3"), Check("counter", "counter3", "=", "one", 1)>>
<1>1. /\ Lands(c0, {"create"}, Never) /\ Lands(c1, {"inc1"}, Never)
      /\ Lands(c2, {"inc2"}, Never) /\ Lands(c3, {"boom"}, Never)
  <2>1. Never = {"low", "half", "under"}
    BY DEF Never
  <2>2. QED
    BY <2>1, CastLands
<1>2. ASSUME NEW x, x.op # "send" PROVE Lands(<<x>>, {}, Never)
  <2> DEFINE s == <<x>>
  <2>1. Sequence(s) /\ Len(s) = 1 /\ s[1] = x /\ \A q \in 1..1 : q = 1
    BY Tuple1
  <2> HIDE DEF s
  <2>2. Quiet(s)
    BY <1>2, <2>1 DEF Quiet
  <2>3. QED
    BY <2>2, QuietLands DEF s
<1>3. ASSUME NEW x, x.op # "send", NEW y, y.op # "send" PROVE Lands(<<x, y>>, {}, Never)
  <2> DEFINE s == <<x, y>>
  <2>1. Sequence(s) /\ Len(s) = 2 /\ s[1] = x /\ s[2] = y /\ \A q \in 1..2 : q = 1 \/ q = 2
    BY Tuple2
  <2> HIDE DEF s
  <2>2. Quiet(s)
    BY <1>3, <2>1 DEF Quiet
  <2>3. QED
    BY <2>2, QuietLands DEF s
<1>4. /\ \A S, r : Count(S, r).op # "send"
      /\ \A n, l, r, x, y : Check(n, l, r, x, y).op # "send"
      /\ \A r : Counter(r).op # "send"
  BY DEF Count, Check, Counter
<1>5. /\ Lands(a, {}, Never) /\ Lands(b1, {}, Never) /\ Lands(b2, {}, Never)
      /\ Lands(d, {}, Never) /\ Lands(e, {}, Never)
  BY <1>2, <1>3, <1>4
<1> HIDE DEF c0, c1, c2, c3, a, b1, b2, d, e
<1>6. Lands((((((((c0 \o a) \o c1) \o b1) \o c2) \o b2) \o d) \o c3) \o e,
            (((((((({"create"} \cup {}) \cup {"inc1"}) \cup {}) \cup {"inc2"}) \cup {}) \cup {})
              \cup {"boom"}) \cup {}), Never)
  BY <1>1, <1>5, LandsConcat
<1>7. (((((((({"create"} \cup {}) \cup {"inc1"}) \cup {}) \cup {"inc2"}) \cup {}) \cup {})
              \cup {"boom"}) \cup {}) = Intended["scenarios"]
  BY DEF Intended
<1>8. QED
  BY <1>6, <1>7 DEF l2_tx_scenarios, c0, c1, c2, c3, a, b1, b2, d, e
LEMMA ReadsLand == \A u \in 1..Len(reads) : Lands(reads[u].body, {}, Never)
<1>1. Quiet(restart_b3)
  <2>1. \A q \in 1..3 : q = 1 \/ q = 2 \/ q = 3
    OBVIOUS
  <2>2. QED
    BY <2>1, RestartIsBody DEF Quiet, Body
<1>2. Quiet(a1_engine_surface)
  <2>1. Sequence(a1_engine_surface) /\ Len(a1_engine_surface) = 1
        /\ a1_engine_surface[1] = [op |-> "engine"] /\ \A q \in 1..1 : q = 1
    BY Tuple1 DEF a1_engine_surface
  <2>2. QED
    BY <2>1 DEF Quiet
<1>3. Quiet(a2_chain)
  <2> DEFINE s == a2_chain
  <2>1. /\ Sequence(s) /\ Len(s) = 5 /\ s[1] = Ask /\ s[2] = Fee("gasPrice")
        /\ s[3] = Fee("baseFee") /\ s[4] = Check("gasPrice", "gasPrice", ">=", "baseFee", 0)
        /\ s[5] = Ask /\ \A q \in 1..5 : q = 1 \/ q = 2 \/ q = 3 \/ q = 4 \/ q = 5
    BY Tuple5 DEF a2_chain
  <2> HIDE DEF s
  <2>2. Quiet(s)
    BY <2>1 DEF Quiet, Ask, Fee, Check
  <2>3. QED
    BY <2>2 DEF s
<1>4. Quiet(a2_blocks)
  <2>1. ASSUME NEW tag, NEW window PROVE Quiet(Resolves(tag, window))
    <3> DEFINE s == Resolves(tag, window)
    <3>1. /\ Sequence(s) /\ Len(s) = 4 /\ s[1] = Tag(tag, window)
          /\ s[2] = Check("pastGenesis", tag, ">", "zero", 0)
          /\ s[3] = Check("behind", tag, ">=", "num", -window)
          /\ s[4] = Check("ahead", tag, "<=", "num", 0)
          /\ \A q \in 1..4 : q = 1 \/ q = 2 \/ q = 3 \/ q = 4
      BY Tuple4 DEF Resolves
    <3> HIDE DEF s
    <3>2. Quiet(s)
      BY <3>1 DEF Quiet, Tag, Check
    <3>3. QED
      BY <3>2 DEF s
  <2> DEFINE a == <<BlockNumber("num"), Ask>>
             z == <<BlockNumber("pending"), Check("pending", "pending", "=", "num", 0), Ask>>
  <2>2. /\ Sequence(a) /\ Len(a) = 2 /\ a[1] = BlockNumber("num") /\ a[2] = Ask
        /\ \A q \in 1..2 : q = 1 \/ q = 2
    BY Tuple2
  <2>3. /\ Sequence(z) /\ Len(z) = 3 /\ z[1] = BlockNumber("pending")
        /\ z[2] = Check("pending", "pending", "=", "num", 0) /\ z[3] = Ask
        /\ \A q \in 1..3 : q = 1 \/ q = 2 \/ q = 3
    BY Tuple3
  <2> HIDE DEF a, z
  <2>4. Quiet(a) /\ Quiet(z)
    BY <2>2, <2>3 DEF Quiet, Ask, BlockNumber, Check
  <2>5. Quiet(((a \o Resolves("safe", SafeWindow)) \o Resolves("finalized", FinalizedWindow)) \o z)
    BY <2>1, <2>4, QuietConcat
  <2>6. QED
    BY <2>5 DEF a, z, a2_blocks
<1>5. Quiet(<<Ask>>)
  <2> DEFINE s == <<Ask>>
  <2>1. Sequence(s) /\ Len(s) = 1 /\ s[1] = Ask /\ \A q \in 1..1 : q = 1
    BY Tuple1
  <2> HIDE DEF s
  <2>2. Quiet(s)
    BY <2>1 DEF Quiet, Ask
  <2>3. QED
    BY <2>2 DEF s
<1>6. Lands(b1_table_consistency \o b2_header_chain, {} \cup {}, Never)
  <2> DEFINE s == b1_table_consistency
             t == b2_header_chain
  <2>1. /\ Sequence(s) /\ Len(s) = 3 /\ s[1] = BlockNumber("number") /\ s[2] = CurrentNumber("cn")
        /\ s[3] = Check("currentNumber", "cn", ">=", "number", 0)
        /\ \A q \in 1..3 : q = 1 \/ q = 2 \/ q = 3
    BY Tuple3 DEF b1_table_consistency
  <2>2. /\ Sequence(t) /\ Len(t) = 2 /\ t[1] = BlockNumber("head") /\ t[2] = Ask
        /\ \A q \in 1..2 : q = 1 \/ q = 2
    BY Tuple2 DEF b2_header_chain
  <2> HIDE DEF s, t
  <2>3. Quiet(s) /\ Quiet(t)
    BY <2>1, <2>2 DEF Quiet, BlockNumber, CurrentNumber, Check, Ask
  <2>4. Lands(s, {}, Never) /\ Lands(t, {}, Never)
    BY <2>3, QuietLands
  <2>5. Lands(s \o t, {} \cup {}, Never)
    BY <2>4, LandsConcat
  <2>6. QED
    BY <2>5 DEF s, t
<1>7. Lands(b1_table_consistency \o b2_header_chain, {}, Never)
  <2>1. {} \cup {} = {}
    OBVIOUS
  <2>2. QED
    BY <1>6, <2>1
<1>8. \A name, body : Unit(name, body).body = body
  BY DEF Unit
<1>9. /\ Len(reads) = 9
      /\ reads[1].body = restart_b3 /\ reads[2].body = a1_engine_surface
      /\ reads[3].body = a2_chain /\ reads[4].body = a2_blocks
      /\ reads[5].body = <<Ask>> /\ reads[6].body = <<Ask>> /\ reads[7].body = <<Ask>>
      /\ reads[8].body = <<Ask>> /\ reads[9].body = b1_table_consistency \o b2_header_chain
  BY <1>8 DEF reads, a2_accounts, a2_exec, a3_web3_net, a4_scope
<1>10. \A u \in 1..8 : u = 1 \/ u = 2 \/ u = 3 \/ u = 4 \/ u = 5 \/ u = 6 \/ u = 7 \/ u = 8
  OBVIOUS
<1>11. \A u \in 1..8 : Quiet(reads[u].body)
  BY <1>1, <1>2, <1>3, <1>4, <1>5, <1>9, <1>10
<1>12. \A u \in 1..8 : Lands(reads[u].body, {}, Never)
  BY <1>11, QuietLands
<1>13. \A u \in 1..9 : u \in 1..8 \/ u = 9
  OBVIOUS
<1>14. QED
  BY <1>7, <1>9, <1>12, <1>13

-----------------------------------------------------------------------------
(* The plans.                                                                *)

\* The names of a plan follow one another, across its units.
Ordered(units) ==
  /\ \A u \in 1..Len(units) : \A j \in 1..Len(units[u].body) :
       /\ Keyed(units[u].body[j])
       /\ Event(units[u].body[j]) => Rank[Name(units[u].body[j])] \in Int
  /\ \A u, v \in 1..Len(units) :
       \A i \in 1..Len(units[u].body) : \A j \in 1..Len(units[v].body) :
         /\ u < v \/ (u = v /\ i < j)
         /\ Event(units[u].body[i]) /\ Event(units[v].body[j])
         => Rank[Name(units[u].body[i])] < Rank[Name(units[v].body[j])]

\* What a plan means to land it waits for, and what it must not land it does not send.
Awaits(units, S) ==
  \A id \in S : \E u \in 1..Len(units) : \E j \in 1..Len(units[u].body) :
    units[u].body[j].op = "await" /\ units[u].body[j].of = {id}
Avoids(units, N) ==
  \A u \in 1..Len(units) : \A j \in 1..Len(units[u].body) :
    units[u].body[j].op = "send" => units[u].body[j].id \notin N

LEMMA TransactionsUnits ==
  /\ Len(transactions) = 3
  /\ transactions[1].body = chain_driver /\ transactions[2].body = b4_persist
  /\ transactions[3].body = b3_contracts
  /\ transactions[1].name = "chain_driver" /\ transactions[2].name = "b4_persist"
  /\ transactions[3].name = "b3_contracts"
BY UnitLemma DEF transactions

LEMMA TransactionsData ==
  /\ Ordered(transactions)
  /\ Awaits(transactions, Intended["transactions"]) /\ Avoids(transactions, Never)
<1> DEFINE s == transactions
<1>1. /\ Len(s) = 3 /\ s[1].body = chain_driver /\ s[2].body = b4_persist
      /\ s[3].body = b3_contracts
  BY TransactionsUnits
<1> HIDE DEF s
<1>2. \A u \in 1..3 : u = 1 \/ u = 2 \/ u = 3
  OBVIOUS
<1>3. /\ \A u \in 1..3 : \A j \in 1..Len(s[u].body) : Keyed(s[u].body[j])
      /\ \A u \in 1..3 : \A j \in 1..Len(s[u].body) : \A i \in 1..(j - 1) :
           Event(s[u].body[i]) /\ Event(s[u].body[j])
           => Rank[Name(s[u].body[i])] < Rank[Name(s[u].body[j])]
      /\ \A j \in 1..Len(s[1].body) : Event(s[1].body[j]) => Rank[Name(s[1].body[j])] \in 1..2
      /\ \A j \in 1..Len(s[2].body) : ~Event(s[2].body[j])
      /\ \A j \in 1..Len(s[3].body) : Event(s[3].body[j]) => Rank[Name(s[3].body[j])] \in 3..4
  <2>1. Tidy(s[1].body, 1, 2) /\ Tidy(s[2].body, 3, 2) /\ Tidy(s[3].body, 3, 4)
    BY <1>1, DriverNames, PersistNames, ContractsNames
  <2>2. 3..2 = {}
    OBVIOUS
  <2>3. QED
    BY <1>2, <2>1, <2>2 DEF Tidy
<1>4. Ordered(s)
  <2>1. ASSUME NEW u \in 1..3, NEW v \in 1..3, NEW i \in 1..Len(s[u].body),
               NEW j \in 1..Len(s[v].body), u < v \/ (u = v /\ i < j),
               Event(s[u].body[i]), Event(s[v].body[j])
        PROVE  Rank[Name(s[u].body[i])] < Rank[Name(s[v].body[j])]
    <3>1. CASE u = v
      <4>1. i \in 1..(j - 1)
        BY <2>1, <3>1
      <4>2. QED
        BY <1>3, <2>1, <3>1, <4>1
    <3>2. CASE u < v
      <4>1. u = 1 /\ v = 3
        BY <1>2, <1>3, <2>1, <3>2
      <4>2. Rank[Name(s[u].body[i])] \in 1..2 /\ Rank[Name(s[v].body[j])] \in 3..4
        BY <1>3, <2>1, <4>1
      <4>3. QED
        BY <4>2
    <3>3. QED
      BY <2>1, <3>1, <3>2
  <2>2. \A u \in 1..3 : \A j \in 1..Len(s[u].body) :
          Event(s[u].body[j]) => Rank[Name(s[u].body[j])] \in Int
    BY <1>2, <1>3
  <2>3. QED
    BY <1>1, <1>3, <2>1, <2>2 DEF Ordered
<1>5. /\ Lands(s[1].body, {"transfer0", "transfer1"}, Never) /\ Lands(s[2].body, {}, Never)
      /\ Lands(s[3].body, {"store", "revert"}, Never)
  BY <1>1, DriverNames, PersistNames, ContractsNames
<1>6. Avoids(s, Never)
  BY <1>1, <1>2, <1>5 DEF Avoids, Lands
<1>7. Awaits(s, Intended["transactions"])
  <2>1. Intended["transactions"] = {"transfer0", "transfer1"} \cup {"store", "revert"}
    BY DEF Intended
  <2>2. 1 \in 1..Len(s) /\ 3 \in 1..Len(s)
    BY <1>1
  <2>3. QED
    BY <1>5, <2>1, <2>2 DEF Awaits, Lands
<1>8. QED
  BY <1>4, <1>6, <1>7 DEF s

\* Of a plan of one script.
LEMMA SingleData ==
  ASSUME NEW units, Len(units) = 1, NEW S, NEW N, Lands(units[1].body, S, N)
  PROVE  Awaits(units, S) /\ Avoids(units, N)
<1>1. \A u \in 1..1 : u = 1
  OBVIOUS
<1>2. 1 \in 1..Len(units)
  OBVIOUS
<1>3. QED
  BY <1>1, <1>2 DEF Awaits, Avoids, Lands

LEMMA PlanData ==
  ASSUME NEW p \in Plans
  PROVE  /\ p \in {"transactions", "boundaries"} => Ordered(PlanOf[p])
         /\ Awaits(PlanOf[p], Intended[p])
         /\ p # "boundaries" => Avoids(PlanOf[p], Never)
         /\ p = "boundaries" => Len(PlanOf[p]) = 1
         /\ \A u \in 1..Len(PlanOf[p]) :
              PlanOf[p][u].name = "b4_persist" => p = "transactions" /\ u = 2
<1>1. p \in {"reads", "transactions", "predeploys", "boundaries", "scenarios"}
  BY GateAssumption DEF PlanOf
<1>2. /\ PlanOf["reads"] = reads /\ PlanOf["transactions"] = transactions
      /\ PlanOf["predeploys"] = predeploys
      /\ PlanOf["boundaries"] = <<[Unit("boundaries", nonce_fee_boundaries) EXCEPT !.exits = TRUE]>>
      /\ PlanOf["scenarios"] = <<[Unit("scenarios", l2_tx_scenarios) EXCEPT !.exits = TRUE]>>
  BY DEF PlanOf
<1>3. CASE p = "reads"
  <2>1. Intended["reads"] = {}
    BY DEF Intended
  <2>2. Awaits(reads, Intended["reads"]) /\ Avoids(reads, Never)
    BY <2>1, ReadsLand DEF Awaits, Avoids, Lands
  <2>3. \A u \in 1..Len(reads) : reads[u].name # "b4_persist"
    <3>1. /\ Len(reads) = 9
          /\ reads[1].name = "restart_b3" /\ reads[2].name = "a1_engine_surface"
          /\ reads[3].name = "a2_chain" /\ reads[4].name = "a2_blocks"
          /\ reads[5].name = "a2_accounts" /\ reads[6].name = "a2_exec"
          /\ reads[7].name = "a3_web3_net" /\ reads[8].name = "a4_scope"
          /\ reads[9].name = "state_verify"
      BY UnitLemma DEF reads
    <3>2. \A u \in 1..9 : \/ u = 1 \/ u = 2 \/ u = 3 \/ u = 4 \/ u = 5 \/ u = 6 \/ u = 7
                          \/ u = 8 \/ u = 9
      OBVIOUS
    <3>3. QED
      BY <3>1, <3>2
  <2>4. QED
    BY <1>2, <1>3, <2>2, <2>3
<1>4. CASE p = "transactions"
  <2>1. \A u \in 1..3 : u = 1 \/ u = 2 \/ u = 3
    OBVIOUS
  <2>2. \A u \in 1..Len(transactions) : transactions[u].name = "b4_persist" => u = 2
    BY <2>1, TransactionsUnits
  <2>3. QED
    BY <1>2, <1>4, <2>2, TransactionsData
<1>5. CASE p = "predeploys"
  <2>1. /\ Len(predeploys) = 2 /\ predeploys[1].body = predeploy_matrix
        /\ predeploys[1].name = "predeploy_matrix" /\ predeploys[2].name = "a1_active"
        /\ predeploys[2].body = <<[op |-> "b3a_start"], [op |-> "engine"]>>
    BY UnitLemma DEF predeploys
  <2>2. \A u \in 1..2 : u = 1 \/ u = 2
    OBVIOUS
  <2>3. Lands(predeploys[2].body, {}, Never)
    <3> DEFINE s == <<[op |-> "b3a_start"], [op |-> "engine"]>>
    <3>1. /\ Sequence(s) /\ Len(s) = 2 /\ s[1] = [op |-> "b3a_start"] /\ s[2] = [op |-> "engine"]
          /\ \A q \in 1..2 : q = 1 \/ q = 2
      BY Tuple2
    <3> HIDE DEF s
    <3>2. Quiet(s)
      BY <3>1 DEF Quiet
    <3>3. QED
      BY <2>1, <3>2, QuietLands DEF s
  <2>4. Lands(predeploys[1].body, Intended["predeploys"], Never)
    BY <2>1, PredeploysLand
  <2>5. 1 \in 1..Len(predeploys)
    BY <2>1
  <2>6. Awaits(predeploys, Intended["predeploys"])
    BY <2>4, <2>5 DEF Awaits, Lands
  <2>7. Avoids(predeploys, Never)
    BY <2>1, <2>2, <2>3, <2>4 DEF Avoids, Lands
  <2>8. \A u \in 1..Len(predeploys) : predeploys[u].name # "b4_persist"
    BY <2>1, <2>2
  <2>9. QED
    BY <1>2, <1>5, <2>6, <2>7, <2>8
<1>6. ASSUME NEW name, NEW body, name # "b4_persist", NEW S, NEW N, Lands(body, S, N)
      PROVE  LET units == <<[Unit(name, body) EXCEPT !.exits = TRUE]>>
             IN  /\ Len(units) = 1 /\ units[1].body = body
                 /\ Awaits(units, S) /\ Avoids(units, N)
                 /\ \A u \in 1..Len(units) : units[u].name # "b4_persist"
  <2> DEFINE w == [Unit(name, body) EXCEPT !.exits = TRUE]
             units == <<w>>
  <2>1. w.body = body /\ w.name = name
    BY DEF Unit
  <2> HIDE DEF w
  <2>2. Len(units) = 1 /\ units[1] = w
    OBVIOUS
  <2> HIDE DEF units
  <2>3. Awaits(units, S) /\ Avoids(units, N)
    BY <1>6, <2>1, <2>2, SingleData
  <2>4. \A u \in 1..Len(units) : units[u].name # "b4_persist"
    <3>1. \A u \in 1..1 : u = 1
      OBVIOUS
    <3>2. QED
      BY <1>6, <2>1, <2>2, <3>1
  <2>5. QED
    BY <2>1, <2>2, <2>3, <2>4 DEF units, w
<1>7. CASE p = "boundaries"
  <2> DEFINE units == <<[Unit("boundaries", nonce_fee_boundaries) EXCEPT !.exits = TRUE]>>
  <2>1. /\ Len(units) = 1 /\ units[1].body = nonce_fee_boundaries
        /\ Awaits(units, Intended["boundaries"])
        /\ \A u \in 1..Len(units) : units[u].name # "b4_persist"
    BY <1>6, BoundariesNames
  <2>2. PlanOf[p] = units
    BY <1>2, <1>7
  <2> HIDE DEF units
  <2>3. Ordered(units)
    <3>1. \A u \in 1..1 : u = 1
      OBVIOUS
    <3>2. Tidy(units[1].body, 1, 26)
      BY <2>1, BoundariesNames
    <3>3. \A m \in Nat : \A j \in 1..m : \A i \in 1..m : i < j => i \in 1..(j - 1)
      OBVIOUS
    <3>4. Len(units[1].body) \in Nat
      BY <3>2, SequenceLemma DEF Tidy
    <3>5. \A j \in 1..Len(units[1].body) : \A i \in 1..Len(units[1].body) : i < j => i \in 1..(j - 1)
      BY <3>3, <3>4
    <3>6. \A u, v \in 1..1 : ~(u < v)
      OBVIOUS
    <3>7. \A j \in 1..Len(units[1].body) :
            /\ Keyed(units[1].body[j])
            /\ Event(units[1].body[j]) => Rank[Name(units[1].body[j])] \in Int
      <4>1. \A x \in 1..26 : x \in Int
        OBVIOUS
      <4>2. \A j \in 1..Len(units[1].body) :
              /\ Keyed(units[1].body[j])
              /\ Event(units[1].body[j]) => Rank[Name(units[1].body[j])] \in 1..26
        BY <3>2 DEF Tidy
      <4>3. QED
        BY <4>1, <4>2
    <3>8. \A i \in 1..Len(units[1].body) : \A j \in 1..Len(units[1].body) :
            i < j /\ Event(units[1].body[i]) /\ Event(units[1].body[j])
            => Rank[Name(units[1].body[i])] < Rank[Name(units[1].body[j])]
      BY <3>2, <3>5 DEF Tidy
    <3>9. QED
      BY <2>1, <3>1, <3>6, <3>7, <3>8 DEF Ordered
  <2>4. QED
    BY <1>7, <2>1, <2>2, <2>3
<1>8. CASE p = "scenarios"
  <2> DEFINE units == <<[Unit("scenarios", l2_tx_scenarios) EXCEPT !.exits = TRUE]>>
  <2>1. /\ Awaits(units, Intended["scenarios"]) /\ Avoids(units, Never)
        /\ \A u \in 1..Len(units) : units[u].name # "b4_persist"
    BY <1>6, ScenariosLand
  <2>2. PlanOf[p] = units
    BY <1>2, <1>8
  <2> HIDE DEF units
  <2>3. QED
    BY <1>8, <2>1, <2>2
<1>9. QED
  BY <1>1, <1>3, <1>4, <1>5, <1>7, <1>8
-----------------------------------------------------------------------------
(* What a step of a script tells of the chain and leaves in it.              *)

\* The registers, the pool and the cut change by the instruction's kind; without a failure a call
\* was answered, a wait found what it waited for, and a check held.
Told ==
  /\ \A r \in Regs : regs'[r] # regs[r] => Ins.op \in Readers /\ Ins.into = r
  /\ Ins.op = "advance" =>
       \A r \in Regs : regs'[r] # regs[r] => regs'[r] = NonceAt(ledger)
  /\ Ins.op # "send" => pool' = pool
  /\ Ins.op = "send" =>
       \/ pool' = pool
       \/ \E t \in Tx : t.id = Ins.id /\ t.nonce = NonceOf(Ins) /\ Admit(t)
  /\ cut' = IF Ins.op = "retry" /\ cut = "fresh" THEN "seen" ELSE cut
  /\ failed' = {} =>
       /\ Ins.op = "await" => Found
       /\ Ins.op \in {"head", "retry"} => regs' = [regs EXCEPT ![Ins.into] = height]
       /\ Ins.op = "later" =>
            regs' = IF height > regs[Ins.past] THEN [regs EXCEPT ![Ins.into] = height] ELSE regs
       /\ Ins.op = "check" => Holds(Ins)
       /\ Ins.op \in Calls \cup {"retry"} => holder # 0

\* One that tells nothing.
LEMMA ToldNothing ==
  ASSUME IInv, NEW ops, At(ops), "retry" \notin ops, UNCHANGED <<regs, pool, cut>>,
         failed' # {} \/ ops \cap {"await", "head", "later", "check"} = {},
         holder # 0 \/ failed' # {} \/ ops \cap Calls = {}
  PROVE  Told
<1>1. Ins.op \in ops
  BY Current
<1>2. QED
  BY <1>1 DEF Told

\* One that sets its register.
LEMMA ToldNumber ==
  ASSUME IInv, NEW ops, At(ops), ops \subseteq Readers, "retry" \notin ops, NEW v,
         regs' = [regs EXCEPT ![Ins.into] = v], UNCHANGED <<pool, cut>>,
         holder # 0 \/ Ins.op = "table",
         Ins.op = "head" => v = height,
         Ins.op = "advance" => v = NonceAt(ledger),
         Ins.op = "later" => v = height /\ height > regs[Ins.past]
  PROVE  Told
<1>1. Ins.op \in ops /\ Ins.op \notin {"send", "await", "check"}
  BY Current DEF Readers
<1>2. regs \in [Regs -> Int]
  BY DEF IInv, TypeOK
<1>3. \A r \in Regs : regs'[r] # regs[r] => Ins.into = r /\ regs'[r] = v
  BY <1>2
<1>4. Ins.op \in Calls \cup {"retry"} => holder # 0
  BY <1>1 DEF Calls
<1>5. QED
  BY <1>1, <1>3, <1>4 DEF Told

LEMMA RaisedTells == ASSUME IInv, Raised PROVE Told
<1>1. At(Calls) /\ Leave({"down"}, {"raised"}) /\ UNCHANGED <<regs, pool, cut>>
  BY DEF Raised, Leave, nodeVars, chainVars
<1>2. {"down"} \in SUBSET Troubles
  BY DEF Troubles
<1>3. failed' # {}
  BY <1>1, <1>2, LeaveLemma
<1>4. "retry" \notin Calls
  BY DEF Calls
<1>5. QED
  BY <1>1, <1>3, <1>4, ToldNothing

LEMMA ReadBlockTells == ASSUME IInv, ReadBlock PROVE Told
<1> DEFINE ops == {"ask", "head", "fee", "root", "field", "table"}
<1>1. At(ops) /\ UNCHANGED <<pool, cut>>
  BY DEF ReadBlock, Answering, At, nodeVars, chainVars
<1>2. Ins.op \in ops /\ (holder # 0 \/ Ins.op = "table")
  BY <1>1, Current DEF ReadBlock, Answering, At
<1>3. CASE Ins.op = "ask"
  <2>1. At({"ask"}) /\ UNCHANGED regs
    BY <1>1, <1>3 DEF ReadBlock, Pass, At
  <2>2. QED
    BY <1>1, <1>2, <1>3, <2>1, ToldNothing
<1>4. CASE Ins.op # "ask"
  <2>1. PICK v : Into(v, {}) /\ (Ins.op = "head" => v = height)
    <3>1. CASE Ins.op \in {"head", "table"}
      BY <3>1 DEF ReadBlock
    <3>2. CASE Ins.op = "fee"
      BY <3>2 DEF ReadBlock
    <3>3. CASE Ins.op = "root"
      BY <3>3 DEF ReadBlock
    <3>4. CASE Ins.op = "field"
      BY <3>4 DEF ReadBlock
    <3>5. QED
      BY <1>2, <1>4, <3>1, <3>2, <3>3, <3>4
  <2>2. At({Ins.op}) /\ {Ins.op} \subseteq Readers /\ Ins.op \notin {"retry", "advance", "later"}
    BY <1>1, <1>2, <1>4 DEF At, Readers
  <2>3. regs' = [regs EXCEPT ![Ins.into] = v]
    BY <2>1 DEF Into
  <2>4. QED
    BY <1>1, <1>2, <2>1, <2>2, <2>3, ToldNumber
<1>5. QED
  BY <1>3, <1>4

LEMMA ReadTagTells == ASSUME IInv, ReadTag PROVE Told
<1>1. At({"tag"}) /\ holder # 0 /\ UNCHANGED <<pool, cut>>
  BY DEF ReadTag, Answering, nodeVars, chainVars
<1>2. PICK b \in -1..height : regs' = [regs EXCEPT ![Ins.into] = b]
  BY DEF ReadTag, Into
<1>3. Ins.op = "tag" /\ {"tag"} \subseteq Readers
  BY <1>1, Current DEF Readers
<1>4. QED
  BY <1>1, <1>2, <1>3, ToldNumber

LEMMA ReadStateTells == ASSUME IInv, ReadState PROVE Told
<1>1. /\ At({"count", "nonce", "seq"}) /\ holder # 0 /\ UNCHANGED <<pool, cut>>
      /\ regs' = [regs EXCEPT ![Ins.into] = Latest(ledger)]
  BY DEF ReadState, Answering, nodeVars, chainVars, Into
<1>2. Ins.op \in {"count", "nonce", "seq"} /\ {"count", "nonce", "seq"} \subseteq Readers
  BY <1>1, Current DEF Readers
<1>3. QED
  BY <1>1, <1>2, ToldNumber

LEMMA SendTells == ASSUME IInv, SendTx PROVE Told
<1> DEFINE p == Priced(Ins.price, regs["bf"])
           t == [id |-> Ins.id, nonce |-> NonceOf(Ins), cap |-> p.cap, tip |-> p.tip]
<1>1. At({"send"}) /\ holder # 0 /\ UNCHANGED <<regs, cut>> /\ Admit(t)
  BY DEF SendTx, Answering, Pass
<1>2. Ins.op = "send"
  BY <1>1, Current
<1>3. t \in pool'
  BY <1>1 DEF Admit
<1>4. t \in Tx
  BY <1>3, SendSteps
<1>5. t.id = Ins.id /\ t.nonce = NonceOf(Ins)
  OBVIOUS
<1> HIDE DEF t
<1>6. QED
  BY <1>1, <1>2, <1>4, <1>5 DEF Told

LEMMA SeeReceiptTells == ASSUME IInv, SeeReceipt PROVE Told
<1>1. At({"await"}) /\ holder # 0 /\ Found /\ UNCHANGED <<regs, pool, cut>>
  BY DEF SeeReceipt, Answering, Pass, nodeVars, chainVars
<1>2. Ins.op = "await"
  BY <1>1, Current
<1>3. QED
  BY <1>1, <1>2 DEF Told

LEMMA RunOutTells == ASSUME IInv, RunOut PROVE Told
<1>1. At({"await"}) /\ UNCHANGED <<regs, pool, cut>>
  BY DEF RunOut, Answering, nodeVars, chainVars
<1>2. failed' # {}
  BY DEF RunOut, GoTo
<1>3. QED
  BY <1>1, <1>2, ToldNothing

LEMMA AbsentTells == ASSUME IInv, StaysAbsent PROVE Told
<1>1. At({"absent"}) /\ holder # 0 /\ UNCHANGED <<regs, pool, cut>>
  BY DEF StaysAbsent, Answering, Judge, Pass, nodeVars, chainVars
<1>2. QED
  BY <1>1, ToldNothing

LEMMA AdvanceTells == ASSUME IInv, AdvanceNonce PROVE Told
<1>1. At({"advance"}) /\ holder # 0 /\ UNCHANGED <<pool, cut>>
  BY DEF AdvanceNonce, Answering, nodeVars, chainVars
<1>2. Into(NonceAt(ledger), Lag) \/ Leave(Lag, {"stall"})
  BY DEF AdvanceNonce
<1>3. Ins.op = "advance" /\ {"advance"} \subseteq Readers
  BY <1>1, Current DEF Readers
<1>4. CASE Into(NonceAt(ledger), Lag)
  <2>1. regs' = [regs EXCEPT ![Ins.into] = NonceAt(ledger)]
    BY <1>4 DEF Into
  <2>2. QED
    BY <1>1, <1>3, <2>1, ToldNumber
<1>5. CASE Leave(Lag, {"stall"})
  <2>1. UNCHANGED regs
    BY <1>5 DEF Leave
  <2>2. QED
    BY <1>1, <2>1, ToldNothing
<1>6. QED
  BY <1>2, <1>4, <1>5

LEMMA LaterTells == ASSUME IInv, SeeLaterBlock PROVE Told
<1>1. At({"later"}) /\ holder # 0 /\ UNCHANGED <<pool, cut>>
  BY DEF SeeLaterBlock, Answering, nodeVars, chainVars
<1>2. Ins.op = "later" /\ {"later"} \subseteq Readers
  BY <1>1, Current DEF Readers
<1>3. CASE height > regs[Ins.past]
  <2>1. regs' = [regs EXCEPT ![Ins.into] = height]
    BY <1>3 DEF SeeLaterBlock, Into
  <2>2. QED
    BY <1>1, <1>2, <1>3, <2>1, ToldNumber
<1>4. CASE ~(height > regs[Ins.past])
  <2>1. UNCHANGED regs
    BY <1>4 DEF SeeLaterBlock, Pass
  <2>2. QED
    BY <1>1, <1>2, <1>4, <2>1 DEF Told
<1>5. QED
  BY <1>3, <1>4

LEMMA AgainTells == ASSUME IInv, ReadHeadAgain PROVE Told
<1>1. At({"retry"}) /\ UNCHANGED pool /\ cut' = IF cut = "fresh" THEN "seen" ELSE cut
  BY DEF ReadHeadAgain, chainVars
<1>2. Ins.op = "retry" /\ Ins.into \in Regs
  BY <1>1, Current DEF WellFormed, Readers
<1>3. CASE holder # 0
  <2>1. regs' = [regs EXCEPT ![Ins.into] = height]
    BY <1>3 DEF ReadHeadAgain, Into
  <2>2. \A r \in Regs : regs'[r] # regs[r] => Ins.into = r
    BY <2>1 DEF IInv, TypeOK
  <2>3. QED
    BY <1>1, <1>2, <1>3, <2>1, <2>2 DEF Told, Readers
<1>4. CASE holder = 0
  <2>1. UNCHANGED regs /\ failed' # {}
    BY <1>4 DEF ReadHeadAgain, Leave, GoTo
  <2>2. QED
    BY <1>1, <1>2, <2>1 DEF Told
<1>5. QED
  BY <1>3, <1>4

LEMMA CheckTells == ASSUME IInv, CheckNow PROVE Told
<1> DEFINE ops == {"check", "steps", "spent", "order", "one", "price"}
<1>1. At(ops) /\ UNCHANGED <<pool, cut>>
  BY DEF CheckNow, nodeVars, chainVars
<1>2. Ins.op \in ops
  BY <1>1, Current
<1>3. CASE Ins.op = "check"
  <2>1. Judge(Ins.name, Holds(Ins))
    BY <1>3 DEF CheckNow
  <2>2. UNCHANGED regs /\ failed' = failed \cup (IF Holds(Ins) THEN {} ELSE {Ins.name})
    BY <2>1 DEF Judge, Pass, GoTo
  <2>3. failed' = {} => Holds(Ins)
    BY <2>2
  <2>4. QED
    BY <1>1, <1>3, <2>2, <2>3 DEF Told, Calls
<1>4. CASE Ins.op # "check"
  <2>1. UNCHANGED regs
    <3>1. CASE Ins.op = "spent"
      BY <3>1 DEF CheckNow, Judge, Pass
    <3>2. CASE Ins.op = "order"
      BY <3>2 DEF CheckNow, Judge, Pass
    <3>3. CASE Ins.op = "one"
      BY <3>3 DEF CheckNow, Judge, Pass
    <3>4. CASE Ins.op = "price"
      BY <3>4 DEF CheckNow, Judge, Pass
    <3>5. CASE Ins.op = "steps"
      BY <3>5 DEF CheckNow, Judge, Pass
    <3>6. QED
      BY <1>2, <1>4, <3>1, <3>2, <3>3, <3>4, <3>5
  <2>2. At({"steps", "spent", "order", "one", "price"})
    BY <1>1, <1>2, <1>4 DEF At
  <2>3. {"steps", "spent", "order", "one", "price"} \cap Calls = {}
    BY DEF Calls
  <2>4. QED
    BY <1>1, <2>1, <2>2, <2>3, ToldNothing
<1>5. QED
  BY <1>3, <1>4

LEMMA RestartTells == ASSUME IInv, Kill \/ WaitGone \/ Launch PROVE Told
<1>1. At(RestartOps) /\ UNCHANGED <<regs, pool, cut>>
  BY DEF Kill, WaitGone, Launch, Pass, At, RestartOps, nodeVars, chainVars
<1>2. "retry" \notin RestartOps /\ RestartOps \cap Calls = {}
      /\ RestartOps \cap {"await", "head", "later", "check"} = {}
  BY DEF RestartOps, Calls
<1>3. QED
  BY <1>1, <1>2, ToldNothing

LEMMA EngineTells == ASSUME IInv, DriveEngine \/ StartB3a PROVE Told
<1>1. At({"engine", "b3a_start"}) /\ UNCHANGED <<regs, pool, cut>>
  BY DEF DriveEngine, StartB3a, Pass, Leave, At, nodeVars, chainVars
<1>2. {"engine", "b3a_start"} \cap Calls = {}
  BY DEF Calls
<1>3. QED
  BY <1>1, <1>2, ToldNothing

\* A step of a script, within its unit.
Runs ==
  \/ Raised \/ ReadBlock \/ ReadTag \/ ReadState \/ SendTx \/ SeeReceipt \/ RunOut
  \/ StaysAbsent \/ AdvanceNonce \/ SeeLaterBlock \/ ReadHeadAgain \/ CheckNow
  \/ Kill \/ WaitGone \/ Launch \/ DriveEngine \/ StartB3a

LEMMA RunsTells == ASSUME IInv, Runs PROVE Steps /\ Told
<1>1. Told
  BY RaisedTells, ReadBlockTells, ReadTagTells, ReadStateTells, SendTells, SeeReceiptTells,
     RunOutTells, AbsentTells, AdvanceTells, LaterTells, AgainTells, CheckTells, RestartTells,
     EngineTells DEF Runs
<1>2. Steps
  BY RaisedSteps, ReadBlockSteps, ReadTagSteps, ReadStateSteps, SendSteps, SeeReceiptSteps,
     RunOutSteps, AbsentSteps, AdvanceSteps, LaterSteps, AgainSteps, CheckSteps, KillSteps,
     GoneSteps, LaunchSteps, EngineSteps, StartSteps DEF Runs
<1>3. QED
  BY <1>1, <1>2

\* The processes it leaves.
LEMMA RunsMoves ==
  ASSUME IInv, Runs
  PROVE  \/ UNCHANGED <<pidFile, live, doomed, holder>>
         \/ Ins.op = "kill" /\ doomed' = doomed \cup {pidFile} /\ UNCHANGED <<pidFile, live, holder>>
         \/ Launches
<1>1. CASE Kill
  BY <1>1, Current, KillSteps DEF Kill
<1>2. CASE Launch
  BY <1>2, Current, LaunchSteps DEF Launch, Launches
<1>3. CASE ~Kill /\ ~Launch
  <2>1. SendTx \/ ReadHeadAgain => UNCHANGED <<pidFile, live, doomed, holder>>
    BY SendSteps, AgainSteps
  <2>2. ~(SendTx \/ ReadHeadAgain) => UNCHANGED <<pidFile, nodeVars>>
    BY <1>3, RaisedSteps, ReadBlockSteps, ReadTagSteps, ReadStateSteps, SeeReceiptSteps,
       RunOutSteps, AbsentSteps, AdvanceSteps, LaterSteps, CheckSteps,
       GoneSteps, EngineSteps, StartSteps DEF Runs
  <2>3. QED
    BY <2>1, <2>2 DEF nodeVars
<1>4. QED
  BY <1>1, <1>2, <1>3
-----------------------------------------------------------------------------
(* The inductive invariant of what lands.                                   *)

Item(u, j) == PlanOf[plan][u].body[j]
Pooled == {t.id : t \in pool}
Clean == ~fail /\ failed = {}

\* Every transaction is sent once: what is in the pool or in the chain was named before
\* everything that is still to come.
InOrder ==
  plan \in {"transactions", "boundaries"} =>
    /\ Pooled \cap DOMAIN mined = {}
    /\ \A s, t \in pool : s.id = t.id => s = t
    /\ \A id \in (Pooled \cup DOMAIN mined) \ {"stray"} :
         \A u \in 1..Len(PlanOf[plan]) : \A j \in 1..Len(PlanOf[plan][u].body) :
           ~Past(u, j) /\ Event(Item(u, j)) => Rank[id] < Rank[Name(Item(u, j))]

\* b4's successor opens the database once, and is the only one that can: the chain is cut
\* once at most, and only there.
OneOpen ==
  IF plan = "transactions"
  THEN Clean =>
         /\ ~Past(2, 4) => live \subseteq {holder} /\ cut = "none"
         /\ Past(2, 4) => /\ live \subseteq {holder, pidFile} /\ pidFile \notin doomed
                          /\ holder = pidFile \/ cut = "none"
  ELSE cut = "none"

\* b4_persist's heads.
InPersist == plan = "transactions" /\ unit = 2 /\ Clean
Heads ==
  InPersist => /\ pc > 5 => regs["h2"] >= 0
               /\ pc > 6 => regs["h1"] <= regs["h2"]
               /\ pc <= 7 => regs["h3"] = -1

\* The chain is shorter than b4 remembers it, and b4 has yet to notice.
Short ==
  /\ plan = "transactions" /\ unit = 2
  /\ \/ pc = 5 /\ cut = "fresh" /\ height < regs["h1"]
     \/ pc = 6 /\ regs["h2"] < regs["h1"]
     \/ pc = 7 /\ cut = "fresh" /\ height < regs["h1"]
     \/ pc = 8 /\ regs["h3"] <= regs["h2"]

\* What was waited for without a failure is in the chain.
Met(u, j) == Item(u, j).of \cap DOMAIN mined # {}
Landed ==
  Clean => \/ cut = "regrown"
           \/ Short
           \/ \A u \in 1..Len(PlanOf[plan]) : \A j \in 1..Len(PlanOf[plan][u].body) :
                Item(u, j).op = "await" /\ Past(u, j) => Met(u, j)

\* It was there when b4 read its first head.
Early ==
  InPersist /\ pc > 1 /\ cut = "none" =>
    \A u \in 1..Len(PlanOf[plan]) : \A j \in 1..Len(PlanOf[plan][u].body) :
      Item(u, j).op = "await" /\ Past(u, j) =>
        \E i \in Item(u, j).of \cap DOMAIN mined : mined[i].block <= regs["h1"]

\* A nonce below the account's is never sealed.
LowRefused ==
  plan = "boundaries" => /\ \A t \in pool : t.id = "low" => t.nonce < NonceAt(height)
                         /\ "low" \notin DOMAIN mined
                         /\ regs["n3"] <= NonceAt(height)

\* Of two transactions with the nonce held in n one is sealed at most: the second drives the
\* first out of the pool, and comes too late when the first is in the chain.
Superseded(bad, good, n) ==
  plan = "boundaries" =>
    /\ ~Finished => /\ \A t \in pool : t.id \in {bad, good} => t.nonce = regs[n]
                    /\ bad \in DOMAIN mined => NonceAt(height) > regs[n]
                    /\ good \in Pooled \cup DOMAIN mined => bad \notin Pooled
    /\ ~(bad \in DOMAIN mined /\ good \in DOMAIN mined)

NeverSent == plan # "boundaries" => Never \cap (Pooled \cup DOMAIN mined) = {}

LInv ==
  /\ InOrder /\ OneOpen /\ Heads /\ Landed /\ Early
  /\ LowRefused /\ Superseded("half", "c4", "n4") /\ Superseded("under", "c5", "n5") /\ NeverSent

-----------------------------------------------------------------------------
(* Places in a plan.                                                        *)

LEMMA PlanHere ==
  ASSUME IInv
  PROVE  /\ plan \in Plans /\ WellMade(PlanOf[plan]) /\ Len(PlanOf[plan]) \in Nat
         /\ unit \in 1..(Len(PlanOf[plan]) + 1)
         /\ \A u \in 1..Len(PlanOf[plan]) : Len(PlanOf[plan][u].body) \in Nat
         /\ ~Finished => /\ unit \in 1..Len(PlanOf[plan]) /\ unit <= Len(PlanOf[plan])
                         /\ Running = PlanOf[plan][unit]
                         /\ pc \in 1..End /\ End = Len(PlanOf[plan][unit].body) + 1
<1>1. plan \in Plans /\ unit \in 1..(Len(PlanOf[plan]) + 1)
  BY DEF IInv, Shape
<1>2. WellMade(PlanOf[plan])
  BY <1>1, PlansAreWellMade
<1>3. ASSUME NEW u \in 1..Len(PlanOf[plan]) PROVE Len(PlanOf[plan][u].body) \in Nat
  BY <1>2, SequenceLemma DEF WellMade, WellMadeUnit, Body
<1>4. ~Finished => /\ unit \in 1..Len(PlanOf[plan]) /\ Running = PlanOf[plan][unit]
                   /\ pc \in 1..End /\ End = Len(PlanOf[plan][unit].body) + 1
  BY Here DEF Running
<1>5. Len(PlanOf[plan]) \in Nat
  BY <1>2 DEF WellMade
<1>6. QED
  BY <1>1, <1>2, <1>3, <1>4, <1>5

\* A step of a script passes its instruction.
LEMMA RunsHere ==
  ASSUME IInv, Runs
  PROVE  /\ ~Finished /\ ~Finished' /\ UNCHANGED <<plan, unit, fail>>
         /\ unit \in 1..Len(PlanOf[plan]) /\ pc \in 1..Len(PlanOf[plan][unit].body)
         /\ Ins = Item(unit, pc)
         /\ Clean' => Clean /\ pc' = pc + 1
         /\ pc' \in Nat /\ pc' > pc
         /\ \A u, j : Item(u, j)' = Item(u, j)
         /\ \A u \in Nat : \A j \in Nat : Past(u, j) => Past(u, j)'
         /\ Clean' => \A u \in Nat : \A j \in Nat :
                        Past(u, j)' <=> Past(u, j) \/ (u = unit /\ j = pc)
<1>1. Steps /\ ~Finished /\ pc # End /\ UNCHANGED <<plan, unit, fail>> /\ failed \subseteq failed'
  BY RunsTells DEF Steps, Goes
<1>2. /\ unit \in 1..Len(PlanOf[plan]) /\ Running = PlanOf[plan][unit]
      /\ pc \in 1..Len(PlanOf[plan][unit].body) /\ Len(PlanOf[plan][unit].body) \in Nat
      /\ End = Len(PlanOf[plan][unit].body) + 1
  <2>1. unit \in 1..Len(PlanOf[plan]) /\ Running = PlanOf[plan][unit]
    BY <1>1, PlanHere
  <2>2. Len(Running.body) \in Nat /\ End = Len(Running.body) + 1 /\ pc \in 1..End
    BY <1>1, Here
  <2>3. pc \in 1..Len(Running.body)
    BY <1>1, <2>2
  <2>4. QED
    BY <2>1, <2>2, <2>3
<1>3. Ins = Item(unit, pc)
  BY <1>2 DEF Ins, Item
<1>4. Clean' => Clean /\ pc' = pc + 1
  BY <1>1 DEF Clean, Steps, Goes
<1>5. pc' \in Nat /\ pc' > pc
  <2>1. CASE pc' = pc + 1 \/ pc' = End
    BY <1>2, <2>1
  <2>2. CASE Skips
    <3>1. Ins.timeout # Raise /\ Ins.op = "await" /\ pc' = pc + 1 + Ins.timeout
      BY <2>2 DEF Skips
    <3>2. WellFormed(Ins)
      BY <1>1, <1>2, Here DEF Body, Ins
    <3>3. Ins.timeout \in Nat
      BY <3>1, <3>2 DEF WellFormed
    <3>4. QED
      BY <1>2, <3>1, <3>3
  <2>3. QED
    BY <1>1, <2>1, <2>2 DEF Steps, Goes
<1>6. \A u, j : Item(u, j)' = Item(u, j)
  BY <1>1 DEF Item
<1>7. unit \in Nat /\ pc \in Nat
  BY <1>2, PlanHere
<1>8. \A u \in Nat : \A j \in Nat : Past(u, j) => Past(u, j)'
  BY <1>1, <1>5, <1>7 DEF Past
<1>9. Clean' => \A u \in Nat : \A j \in Nat :
        Past(u, j)' <=> Past(u, j) \/ (u = unit /\ j = pc)
  BY <1>1, <1>4, <1>7 DEF Past
<1>10. ~Finished'
  BY <1>1, StaysInUnit
<1>11. QED
  BY <1>1, <1>2, <1>3, <1>4, <1>5, <1>6, <1>8, <1>9, <1>10

\* The next unit has nothing behind it that was not.
LEMMA NextHere ==
  ASSUME IInv, NextUnit
  PROVE  /\ ~Finished /\ UNCHANGED <<plan, nodeVars, pidFile>> /\ unit' = unit + 1 /\ pc' = 1
         /\ regs' = Fresh
         /\ Clean' => Clean
         /\ unit \in 1..Len(PlanOf[plan]) /\ pc = Len(PlanOf[plan][unit].body) + 1
         /\ \A u, j : Item(u, j)' = Item(u, j)
         /\ \A u \in 1..Len(PlanOf[plan]) : \A j \in 1..Len(PlanOf[plan][u].body) :
              Past(u, j)' <=> Past(u, j)
<1>1. /\ ~Finished /\ pc = End /\ unit' = unit + 1 /\ pc' = 1 /\ regs' = Fresh /\ failed' = {}
      /\ fail' = (fail \/ failed # {}) /\ UNCHANGED <<plan, nodeVars, pidFile>>
  BY DEF NextUnit, settings
<1>2. /\ unit \in 1..Len(PlanOf[plan]) /\ Len(PlanOf[plan]) \in Nat
      /\ pc = Len(PlanOf[plan][unit].body) + 1
      /\ \A u \in 1..Len(PlanOf[plan]) : Len(PlanOf[plan][u].body) \in Nat
  BY <1>1, PlanHere
<1>3. Clean' => Clean
  BY <1>1 DEF Clean, IInv, TypeOK
<1>4. \A u, j : Item(u, j)' = Item(u, j)
  BY <1>1 DEF Item
<1>5. ASSUME NEW u \in 1..Len(PlanOf[plan]), NEW j \in 1..Len(PlanOf[plan][u].body)
      PROVE  Past(u, j)' <=> Past(u, j)
  <2>1. u \in Nat /\ j \in Nat /\ j >= 1 /\ unit \in Nat
    BY <1>2
  <2>2. u = unit => j < pc
    BY <1>2, <2>1
  <2>3. QED
    BY <1>1, <1>2, <2>1, <2>2 DEF Past
<1>6. QED
  BY <1>1, <1>2, <1>3, <1>4, <1>5

-----------------------------------------------------------------------------
(* What the node does to the chain.                                         *)

\* The account's nonce is the number of its transactions in the chain.
LEMMA NonceLemma ==
  ASSUME IInv
  PROVE  /\ NonceAt(height) = Cardinality(DOMAIN mined) /\ NonceAt(height) \in Nat
         /\ NonceAt(ledger) \in Nat /\ NonceAt(ledger) <= NonceAt(height)
<1>1. /\ DOMAIN mined \subseteq TxIds /\ IsFiniteSet(DOMAIN mined)
      /\ \A i \in DOMAIN mined : mined[i].block <= height
      /\ height \in Nat /\ ledger \in 0..height /\ \A i \in DOMAIN mined : mined[i].block \in Nat
  BY DEF IInv, TypeOK, Shape, Place
<1>2. MinedBy(TxIds, height) = DOMAIN mined
  BY <1>1 DEF MinedBy
<1>3. MinedBy(TxIds, ledger) \subseteq DOMAIN mined
  BY DEF MinedBy
<1>4. QED
  BY <1>1, <1>2, <1>3, FS_Subset, FS_CardinalityType DEF NonceAt

\* A block takes transactions from the account's nonce on, up to some nonce; the pool keeps
\* none below that.
Seals(taken, n) ==
  /\ taken \subseteq pool /\ n \in Int
  /\ \A t \in taken : NonceAt(height) <= t.nonce /\ t.nonce < n
  /\ n = NonceAt(height) + Cardinality(taken)
  /\ pool' \subseteq pool /\ \A t \in pool' : t.nonce >= n
  /\ DOMAIN mined' = DOMAIN mined \cup {t.id : t \in taken}
  /\ \A i \in DOMAIN mined \ {t.id : t \in taken} : mined'[i] = mined[i]
  /\ height' = height + 1 /\ cut' = IF cut = "fresh" THEN "regrown" ELSE cut
  /\ UNCHANGED <<live, holder>>

\* The chain goes on as it is; a process may end, and another is the one that answers.
Rests ==
  /\ UNCHANGED <<height, pool, mined, cut>>
  /\ \/ UNCHANGED <<live, holder>>
     \/ \E p \in live : /\ live' = live \ {p} /\ p \in doomed
                        /\ holder' = IF holder = p THEN 0 ELSE holder
     \/ \E p \in live \ {holder} : live' = live \ {p} /\ UNCHANGED holder

\* A process opens the database, on the chain as it was or, in b4, on a part of it.
Opens ==
  \E p \in live \ {holder} :
    /\ holder = 0 /\ holder' = p /\ UNCHANGED live
    /\ pool' \subseteq pool
    /\ height' \in 0..height
    /\ DOMAIN mined' = MinedBy(TxIds, height') /\ \A i \in DOMAIN mined' : mined'[i] = mined[i]
    /\ cut' = IF height' < height THEN "fresh" ELSE cut
    /\ height' = height \/ Running.name = "b4_persist"

LEMMA SealsLemma ==
  ASSUME IInv, NodeSeals
  PROVE  \E taken, n : Seals(taken, n)
<1>1. PICK f \in {fee} \cup (IF moves < FeeMoves[plan] THEN {fee - 1, fee + 1} \cap Fees ELSE {}),
           n \in NonceAt(height)..(NonceAt(height) + Cardinality(pool)) :
        LET taken == {t \in GaplessRun(f) : t.nonce < n}
            placed == {t.id : t \in taken}
            place == [i \in placed |->
                        LET t == CHOOSE t \in taken : t.id = i
                        IN  [block |-> height + 1, index |-> t.nonce - NonceAt(height) + 1,
                             price |-> EffectivePrice(t, f)]]
        IN  /\ n = NonceAt(height) + Cardinality(taken)
            /\ fee' = f
            /\ moves' = IF f = fee THEN moves ELSE moves + 1
            /\ mined' = [i \in DOMAIN mined \cup placed |->
                           IF i \in placed THEN place[i] ELSE mined[i]]
            /\ pool' = {t \in Payable(f) : t.nonce >= n}
            /\ taken = {} => Cardinality(EmptyBlocks) < MaxEmpty[plan]
  BY Zenon DEF NodeSeals, Seal
<1> DEFINE taken == {t \in GaplessRun(f) : t.nonce < n}
           placed == {t.id : t \in taken}
           place == [i \in placed |->
                       LET t == CHOOSE t \in taken : t.id = i
                       IN  [block |-> height + 1, index |-> t.nonce - NonceAt(height) + 1,
                            price |-> EffectivePrice(t, f)]]
<1>2. /\ n = NonceAt(height) + Cardinality(taken)
      /\ mined' = [i \in DOMAIN mined \cup placed |-> IF i \in placed THEN place[i] ELSE mined[i]]
      /\ pool' = {t \in Payable(f) : t.nonce >= n}
  BY <1>1, Zenon
<1>3. taken \subseteq pool /\ \A t \in taken : t.nonce >= NonceAt(height) /\ t.nonce < n
  BY DEF GaplessRun, Payable
<1>4. NonceAt(height) \in Nat /\ pool \subseteq Tx
  BY NonceLemma DEF IInv, TypeOK
<1>5. n \in Int
  BY <1>4
<1>6. \A t \in taken : NonceAt(height) <= t.nonce /\ t.nonce < n
  BY <1>3, <1>4 DEF Tx
<1>7. pool' \subseteq pool /\ \A t \in pool' : t.nonce >= n
  BY <1>2, Zenon DEF Payable
<1> HIDE DEF taken, place
<1>8. DOMAIN mined' = DOMAIN mined \cup placed /\ \A i \in DOMAIN mined \ placed : mined'[i] = mined[i]
  BY <1>2
<1>9. /\ height' = height + 1 /\ cut' = IF cut = "fresh" THEN "regrown" ELSE cut
      /\ UNCHANGED <<live, holder>>
  BY Zenon DEF NodeSeals, Seal
<1>10. Seals(taken, n)
  BY <1>2, <1>3, <1>5, <1>6, <1>7, <1>8, <1>9 DEF Seals
<1>11. QED
  BY <1>10

LEMMA OpensLemma ==
  ASSUME IInv, ProcessOpens
  PROVE  Rests \/ Opens
<1>1. PICK p \in live \ {holder} :
        IF holder # 0
        THEN /\ live' = live \ {p}
             /\ UNCHANGED <<chainVars, doomed, holder, cut>>
        ELSE /\ holder' = p
             /\ pool' \in {pool, {}}
             /\ \E h \in (IF MayCut /\ Running.name = "b4_persist" THEN 0..height ELSE {height}) :
                  /\ height' = h
                  /\ ledger' = Lesser(ledger, h)
                  /\ mined' = [i \in MinedBy(TxIds, h) |-> mined[i]]
                  /\ cut' = IF h < height THEN "fresh" ELSE cut
             /\ UNCHANGED <<fee, moves, live, doomed>>
  BY DEF ProcessOpens, Open
<1>2. CASE holder # 0
  BY <1>1, <1>2 DEF Rests, chainVars
<1>3. CASE holder = 0
  <2>1. PICK h \in (IF MayCut /\ Running.name = "b4_persist" THEN 0..height ELSE {height}) :
          /\ height' = h
          /\ mined' = [i \in MinedBy(TxIds, h) |-> mined[i]]
          /\ cut' = IF h < height THEN "fresh" ELSE cut
    BY <1>1, <1>3
  <2>2. h \in 0..height /\ (h = height \/ Running.name = "b4_persist")
    BY <2>1 DEF IInv, TypeOK
  <2>3. DOMAIN mined' = MinedBy(TxIds, height') /\ \A i \in DOMAIN mined' : mined'[i] = mined[i]
    BY <2>1
  <2>4. pool' \subseteq pool /\ holder' = p /\ UNCHANGED live
    BY <1>1, <1>3
  <2>5. QED
    BY <1>3, <2>1, <2>2, <2>3, <2>4 DEF Opens
<1>4. QED
  BY <1>2, <1>3

\* A step of the node, and what it finds the script doing.
LEMMA NodeHere ==
  ASSUME IInv, Node
  PROVE  /\ ~Finished /\ UNCHANGED <<plan, unit, pc, regs, failed, fail, pidFile, doomed>>
         /\ ~Finished' /\ Clean' = Clean /\ Running' = Running
         /\ \A u, j : Item(u, j)' = Item(u, j) /\ Past(u, j)' = Past(u, j)
         /\ pc # End /\ Ins.op \in Calls \cup {"gone", "retry", "table"}
         /\ unit \in 1..Len(PlanOf[plan]) /\ pc \in 1..Len(PlanOf[plan][unit].body)
         /\ Ins = Item(unit, pc) /\ Running = PlanOf[plan][unit]
         /\ (\E taken, n : Seals(taken, n)) \/ Rests \/ Opens
<1>1. At(Calls \cup {"gone", "retry", "table"}) /\ UNCHANGED <<plan, unit, pc, regs, failed, fail, pidFile>>
  BY DEF Node, NodeSeals, NodeCatchesUp, ProcessExits, ProcessOpens, Between, scriptSame, settings,
         laneVars
<1>2. UNCHANGED doomed
  BY DEF Node, NodeSeals, Seal, NodeCatchesUp, CatchUp, ProcessExits, Exit, ProcessOpens, Open
<1>3. ~Finished /\ pc # End /\ Ins.op \in Calls \cup {"gone", "retry", "table"}
  BY <1>1, Current
<1>4. /\ unit \in 1..Len(PlanOf[plan]) /\ pc \in 1..Len(PlanOf[plan][unit].body)
      /\ Ins = Item(unit, pc) /\ Running = PlanOf[plan][unit]
  BY <1>1, Current, PlanHere DEF Ins, Item, Running
<1>5. ~Finished' /\ Clean' = Clean /\ Running' = Running
      /\ \A u, j : Item(u, j)' = Item(u, j) /\ Past(u, j)' = Past(u, j)
  BY <1>1, <1>3 DEF Finished, Clean, Running, Item, Past
<1>6. (\E taken, n : Seals(taken, n)) \/ Rests \/ Opens
  <2>1. CASE NodeSeals
    BY <2>1, SealsLemma
  <2>2. CASE NodeCatchesUp
    BY <2>2 DEF NodeCatchesUp, CatchUp, Rests
  <2>3. CASE ProcessExits
    BY <2>3 DEF ProcessExits, Exit, Rests, chainVars
  <2>4. CASE ProcessOpens
    BY <2>4, OpensLemma
  <2>5. QED
    BY <2>1, <2>2, <2>3, <2>4 DEF Node
<1>7. QED
  BY <1>1, <1>2, <1>3, <1>4, <1>5, <1>6
-----------------------------------------------------------------------------
(* Every transaction is sent once.                                          *)

LEMMA InitInOrder == ASSUME Init PROVE InOrder
<1>1. pool \in {{}, {[id |-> "stray", nonce |-> 0, cap |-> Ample, tip |-> Ample]}} /\ DOMAIN mined = {}
  BY DEF Init
<1>2. \A t \in pool : t.id = "stray"
  BY <1>1
<1>3. Pooled \subseteq {"stray"} /\ \A s, t \in pool : s = t
  BY <1>1, <1>2 DEF Pooled
<1>4. QED
  BY <1>1, <1>3 DEF InOrder

\* Of what a plan still names nothing has been sent.
LEMMA Unsent ==
  ASSUME IInv, InOrder, plan \in {"transactions", "boundaries"},
         NEW u \in 1..Len(PlanOf[plan]), NEW j \in 1..Len(PlanOf[plan][u].body),
         ~Past(u, j), Event(Item(u, j)),
         NEW id \in (Pooled \cup DOMAIN mined) \ {"stray"}
  PROVE  Rank[id] < Rank[Name(Item(u, j))] /\ Rank[Name(Item(u, j))] \in Int
<1>1. Ordered(PlanOf[plan])
  BY PlanHere, PlanData
<1>2. Rank[Name(Item(u, j))] \in Int
  BY <1>1 DEF Ordered, Item
<1>3. QED
  BY <1>2 DEF InOrder

LEMMA RunsInOrder == ASSUME IInv, InOrder, Runs PROVE InOrder'
<1>1. Told /\ UNCHANGED mined
  BY RunsTells DEF Steps, chainKept
<1>2. SUFFICES ASSUME plan \in {"transactions", "boundaries"}
               PROVE  /\ Pooled' \cap DOMAIN mined = {}
                      /\ \A s, t \in pool' : s.id = t.id => s = t
                      /\ \A id \in (Pooled' \cup DOMAIN mined) \ {"stray"} :
                           \A u \in 1..Len(PlanOf[plan]) : \A j \in 1..Len(PlanOf[plan][u].body) :
                             ~Past(u, j)' /\ Event(Item(u, j)) => Rank[id] < Rank[Name(Item(u, j))]
  BY <1>1, RunsHere DEF InOrder
<1>3. /\ Pooled \cap DOMAIN mined = {}
      /\ \A s, t \in pool : s.id = t.id => s = t
      /\ \A id \in (Pooled \cup DOMAIN mined) \ {"stray"} :
           \A u \in 1..Len(PlanOf[plan]) : \A j \in 1..Len(PlanOf[plan][u].body) :
             ~Past(u, j) /\ Event(Item(u, j)) => Rank[id] < Rank[Name(Item(u, j))]
  BY <1>2 DEF InOrder
<1>4. /\ unit \in 1..Len(PlanOf[plan]) /\ pc \in 1..Len(PlanOf[plan][unit].body)
      /\ Ins = Item(unit, pc) /\ ~Past(unit, pc)
      /\ \A u \in 1..Len(PlanOf[plan]) : \A j \in 1..Len(PlanOf[plan][u].body) :
           Past(u, j) => Past(u, j)'
  <2>1. \A u \in 1..Len(PlanOf[plan]) : u \in Nat
    BY PlanHere
  <2>2. \A u \in 1..Len(PlanOf[plan]) : \A j \in 1..Len(PlanOf[plan][u].body) : j \in Nat
    BY PlanHere
  <2>3. unit \in 1..Len(PlanOf[plan]) /\ pc \in 1..Len(PlanOf[plan][unit].body)
    BY RunsHere
  <2>4. ~Past(unit, pc)
    BY <2>1, <2>2, <2>3 DEF Past
  <2>5. QED
    BY <2>1, <2>2, <2>3, <2>4, RunsHere
<1>5. CASE pool' = pool
  <2>1. Pooled' = Pooled
    BY <1>5 DEF Pooled
  <2>2. QED
    BY <1>3, <1>4, <1>5, <2>1
<1>6. CASE pool' # pool
  <2>1. Ins.op = "send"
    BY <1>1, <1>6 DEF Told
  <2>2. PICK t \in Tx : t.id = Ins.id /\ Admit(t)
    BY <1>1, <1>6, <2>1 DEF Told
  <2>3. pool' \subseteq pool \cup {t} /\ Pooled' \subseteq Pooled \cup {Ins.id}
    BY <2>2 DEF Admit, Pooled
  <2>4. Event(Ins) /\ Name(Ins) = Ins.id
    BY <2>1 DEF Event, Name
  <2>5. Ordered(PlanOf[plan])
    BY <1>2, PlanHere, PlanData
  <2>6. Ins.id # "stray"
    BY <1>4, <2>1, <2>5 DEF Ordered, Keyed, Item
  <2>7. Ins.id \notin Pooled \cup DOMAIN mined
    <3>1. SUFFICES ASSUME Ins.id \in (Pooled \cup DOMAIN mined) \ {"stray"} PROVE FALSE
      BY <2>6
    <3>2. Rank[Ins.id] < Rank[Name(Item(unit, pc))] /\ Rank[Name(Item(unit, pc))] \in Int
      BY <1>2, <1>4, <2>4, <3>1, Unsent
    <3>3. Rank[Ins.id] < Rank[Ins.id] /\ Rank[Ins.id] \in Int
      BY <1>4, <2>4, <3>2
    <3>4. QED
      BY <3>3
  <2>8. \A s, r \in pool' : s.id = r.id => s = r
    <3>1. \A s \in pool : s.id \in Pooled
      BY DEF Pooled
    <3>2. QED
      BY <1>3, <2>2, <2>3, <2>7, <3>1
  <2>9. Pooled' \cap DOMAIN mined = {}
    BY <1>3, <2>3, <2>7
  <2>10. ASSUME NEW u \in 1..Len(PlanOf[plan]), NEW j \in 1..Len(PlanOf[plan][u].body),
                ~Past(u, j)', Event(Item(u, j))
         PROVE  Rank[Ins.id] < Rank[Name(Item(u, j))]
    <3>1. unit < u \/ (unit = u /\ pc < j)
      <4>1. u \in Nat /\ j \in Nat /\ unit \in Nat /\ pc \in Nat /\ pc' \in Nat /\ pc' > pc
        <5>1. pc' \in Nat /\ pc' > pc
          BY RunsHere
        <5>2. Len(PlanOf[plan]) \in Nat /\ Len(PlanOf[plan][u].body) \in Nat
          BY PlanHere
        <5>3. Len(PlanOf[plan][unit].body) \in Nat
          BY <1>4, PlanHere
        <5>4. QED
          BY <1>4, <5>1, <5>2, <5>3
      <4>2. unit' = unit
        BY RunsHere
      <4>3. QED
        BY <2>10, <4>1, <4>2 DEF Past
    <3>2. Rank[Name(Item(unit, pc))] < Rank[Name(Item(u, j))]
      BY <1>4, <2>4, <2>5, <2>10, <3>1 DEF Ordered, Item
    <3>3. QED
      BY <1>4, <2>4, <3>2
  <2>11. QED
    BY <1>3, <1>4, <2>3, <2>8, <2>9, <2>10
<1>7. QED
  BY <1>5, <1>6

\* What is in the pool and in the chain after a step of the node was there before.
LEMMA NodeKeepsIds ==
  ASSUME IInv, Node
  PROVE  /\ pool' \subseteq pool /\ Pooled' \subseteq Pooled
         /\ DOMAIN mined' \subseteq DOMAIN mined \cup Pooled
<1>1. CASE \E taken, n : Seals(taken, n)
  <2>1. PICK taken, n : Seals(taken, n)
    BY <1>1
  <2>2. QED
    BY <2>1 DEF Seals, Pooled
<1>2. CASE Rests
  BY <1>2 DEF Rests, Pooled
<1>3. CASE Opens
  BY <1>3 DEF Opens, Pooled, MinedBy
<1>4. QED
  BY <1>1, <1>2, <1>3, NodeHere

LEMMA NodeInOrder == ASSUME IInv, InOrder, Node PROVE InOrder'
<1>1. SUFFICES ASSUME plan \in {"transactions", "boundaries"}
               PROVE  /\ Pooled' \cap DOMAIN mined' = {}
                      /\ \A s, t \in pool' : s.id = t.id => s = t
                      /\ \A id \in (Pooled' \cup DOMAIN mined') \ {"stray"} :
                           \A u \in 1..Len(PlanOf[plan]) : \A j \in 1..Len(PlanOf[plan][u].body) :
                             ~Past(u, j) /\ Event(Item(u, j)) => Rank[id] < Rank[Name(Item(u, j))]
  BY NodeHere DEF InOrder
<1>2. /\ Pooled \cap DOMAIN mined = {}
      /\ \A s, t \in pool : s.id = t.id => s = t
      /\ \A id \in (Pooled \cup DOMAIN mined) \ {"stray"} :
           \A u \in 1..Len(PlanOf[plan]) : \A j \in 1..Len(PlanOf[plan][u].body) :
             ~Past(u, j) /\ Event(Item(u, j)) => Rank[id] < Rank[Name(Item(u, j))]
  BY <1>1 DEF InOrder
<1>3. pool' \subseteq pool /\ Pooled' \subseteq Pooled /\ DOMAIN mined' \subseteq DOMAIN mined \cup Pooled
  BY NodeKeepsIds
<1>4. Pooled' \cap DOMAIN mined' = {}
  <2>1. CASE \E taken, n : Seals(taken, n)
    <3>1. PICK taken, n : Seals(taken, n)
      BY <2>1
    <3>2. SUFFICES ASSUME NEW t \in pool', NEW s \in taken, t.id = s.id PROVE FALSE
      BY <1>2, <1>3, <3>1 DEF Seals, Pooled
    <3>3. t = s /\ t \in Tx
      BY <1>2, <1>3, <3>1, <3>2 DEF Seals, IInv, TypeOK
    <3>4. t.nonce \in Int /\ t.nonce >= n /\ t.nonce < n /\ n \in Int
      BY <3>1, <3>2, <3>3 DEF Seals, Tx
    <3>5. QED
      BY <3>4
  <2>2. CASE Rests
    BY <1>2, <1>3, <2>2 DEF Rests
  <2>3. CASE Opens
    BY <1>2, <1>3, <2>3 DEF Opens, MinedBy
  <2>4. QED
    BY <2>1, <2>2, <2>3, NodeHere
<1>5. QED
  BY <1>2, <1>3, <1>4

LEMMA NextInOrder == ASSUME IInv, InOrder, NextUnit PROVE InOrder'
<1>1. UNCHANGED <<plan, pool, mined>>
  BY NextHere DEF nodeVars, chainVars
<1>2. QED
  BY <1>1, NextHere DEF InOrder, Pooled

-----------------------------------------------------------------------------
(* What no script means to land.                                            *)

LEMMA InitNeverSent == ASSUME Init PROVE NeverSent
<1>1. pool \in {{}, {[id |-> "stray", nonce |-> 0, cap |-> Ample, tip |-> Ample]}} /\ DOMAIN mined = {}
  BY DEF Init
<1>2. Pooled \subseteq {"stray"}
  BY <1>1 DEF Pooled
<1>3. QED
  BY <1>1, <1>2 DEF NeverSent, Never

LEMMA RunsNeverSent == ASSUME IInv, NeverSent, Runs PROVE NeverSent'
<1>1. Told /\ UNCHANGED <<mined, plan>>
  BY RunsTells, RunsHere DEF Steps, chainKept
<1>2. SUFFICES ASSUME plan # "boundaries" PROVE Never \cap (Pooled' \cup DOMAIN mined) = {}
  BY <1>1 DEF NeverSent
<1>3. Never \cap (Pooled \cup DOMAIN mined) = {}
  BY <1>2 DEF NeverSent
<1>4. CASE pool' = pool
  BY <1>3, <1>4 DEF Pooled
<1>5. CASE pool' # pool
  <2>1. Ins.op = "send"
    BY <1>1, <1>5 DEF Told
  <2>2. PICK t \in Tx : t.id = Ins.id /\ Admit(t)
    BY <1>1, <1>5, <2>1 DEF Told
  <2>3. Pooled' \subseteq Pooled \cup {Ins.id}
    BY <2>2 DEF Admit, Pooled
  <2>4. Avoids(PlanOf[plan], Never)
    BY <1>2, PlanHere, PlanData
  <2>5. Ins.id \notin Never
    BY <2>1, <2>4, RunsHere DEF Avoids, Item
  <2>6. QED
    BY <1>3, <2>3, <2>5
<1>6. QED
  BY <1>4, <1>5

LEMMA NodeNeverSent == ASSUME IInv, NeverSent, Node PROVE NeverSent'
BY NodeKeepsIds, NodeHere DEF NeverSent

LEMMA NextNeverSent == ASSUME IInv, NeverSent, NextUnit PROVE NeverSent'
BY NextHere DEF NeverSent, nodeVars, chainVars, Pooled
-----------------------------------------------------------------------------
(* What the account's script means to be refused.                           *)

\* Outside b4 the account's nonce does not fall.
LEMMA NonceGrows ==
  ASSUME IInv, IInv', Node, plan = "boundaries"
  PROVE  /\ DOMAIN mined \subseteq DOMAIN mined'
         /\ NonceAt(height)' \in Nat /\ NonceAt(height) <= NonceAt(height)'
<1>1. /\ DOMAIN mined' \subseteq TxIds /\ IsFiniteSet(DOMAIN mined')
      /\ \A i \in DOMAIN mined' : mined'[i].block <= height'
  BY DEF IInv, TypeOK, Shape
<1>2. NonceAt(height)' = Cardinality(DOMAIN mined')
  <2>1. MinedBy(TxIds, height)' = DOMAIN mined'
    BY <1>1 DEF MinedBy
  <2>2. QED
    BY <2>1 DEF NonceAt
<1>3. DOMAIN mined \subseteq DOMAIN mined'
  <2>1. CASE \E taken, n : Seals(taken, n)
    BY <2>1 DEF Seals
  <2>2. CASE Rests
    BY <2>2 DEF Rests
  <2>3. CASE Opens
    <3>1. Running.name # "b4_persist"
      BY NodeHere, PlanHere, PlanData
    <3>2. height' = height /\ DOMAIN mined' = MinedBy(TxIds, height')
      BY <2>3, <3>1 DEF Opens
    <3>3. QED
      BY <3>2 DEF MinedBy, IInv, TypeOK, Shape
  <2>4. QED
    BY <2>1, <2>2, <2>3, NodeHere
<1>4. QED
  BY <1>1, <1>2, <1>3, NonceLemma, FS_Subset, FS_CardinalityType

\* A block of the account's transactions moves its nonce past all of them.
LEMMA NoncePasses ==
  ASSUME IInv, IInv', InOrder, plan = "boundaries", NEW taken, NEW n, Seals(taken, n)
  PROVE  NonceAt(height)' = n
<1>1. /\ DOMAIN mined' \subseteq TxIds /\ IsFiniteSet(DOMAIN mined')
      /\ \A i \in DOMAIN mined' : mined'[i].block <= height'
  BY DEF IInv, TypeOK, Shape
<1>2. NonceAt(height)' = Cardinality(DOMAIN mined')
  <2>1. MinedBy(TxIds, height)' = DOMAIN mined'
    BY <1>1 DEF MinedBy
  <2>2. QED
    BY <2>1 DEF NonceAt
<1> DEFINE placed == {t.id : t \in taken}
           g == [t \in taken |-> t.id]
<1>3. /\ taken \subseteq pool /\ n = NonceAt(height) + Cardinality(taken)
      /\ DOMAIN mined' = DOMAIN mined \cup placed
  BY DEF Seals
<1>4. IsFiniteSet(taken) /\ IsFiniteSet(DOMAIN mined)
  BY <1>3, FS_Subset DEF IInv, Shape
<1>5. placed \cap DOMAIN mined = {} /\ \A s, t \in taken : s.id = t.id => s = t
  BY <1>3 DEF InOrder, Pooled
<1>6. g \in Injection(taken, placed) /\ g \in Surjection(taken, placed)
  <2>1. g \in [taken -> placed]
    OBVIOUS
  <2>2. \A s, t \in taken : g[s] = g[t] => s = t
    BY <1>5
  <2>3. g \in Injection(taken, placed)
    BY <2>1, <2>2 DEF Injection, IsInjective
  <2>4. g \in Surjection(taken, placed)
    BY <2>1 DEF Surjection
  <2>5. QED
    BY <2>3, <2>4
<1> HIDE DEF g, placed
<1>7. IsFiniteSet(placed) /\ Cardinality(placed) = Cardinality(taken)
  BY <1>4, <1>6, FS_Surjection
<1>8. Cardinality(DOMAIN mined') = Cardinality(DOMAIN mined) + Cardinality(placed)
  <2>1. IsFiniteSet(DOMAIN mined \cup placed)
        /\ Cardinality(DOMAIN mined \cup placed)
           = Cardinality(DOMAIN mined) + Cardinality(placed) - Cardinality(DOMAIN mined \cap placed)
    BY <1>4, <1>7, FS_Union
  <2>2. Cardinality(DOMAIN mined \cap placed) = 0
    BY <1>5, FS_EmptySet
  <2>3. Cardinality(DOMAIN mined) \in Nat /\ Cardinality(placed) \in Nat
    BY <1>4, <1>7, FS_CardinalityType
  <2>4. QED
    BY <1>3, <2>1, <2>2, <2>3
<1>9. QED
  BY <1>2, <1>3, <1>7, <1>8, NonceLemma

LEMMA InitLowRefused == ASSUME IInv, Init PROVE LowRefused
<1>1. pool \in {{}, {[id |-> "stray", nonce |-> 0, cap |-> Ample, tip |-> Ample]}} /\ DOMAIN mined = {}
      /\ regs = Fresh
  BY DEF Init
<1>2. \A t \in pool : t.id = "stray"
  BY <1>1
<1>3. regs["n3"] = -1
  BY <1>1 DEF Fresh, Regs
<1>4. QED
  BY <1>1, <1>2, <1>3, NonceLemma DEF LowRefused

LEMMA RunsLowRefused == ASSUME IInv, LowRefused, Runs PROVE LowRefused'
<1>1. Told /\ UNCHANGED <<mined, height, plan>>
  BY RunsTells, RunsHere DEF Steps, chainKept
<1>2. NonceAt(height)' = NonceAt(height)
  BY <1>1 DEF NonceAt, MinedBy
<1>3. SUFFICES ASSUME plan = "boundaries"
               PROVE  /\ \A t \in pool' : t.id = "low" => t.nonce < NonceAt(height)
                      /\ "low" \notin DOMAIN mined
                      /\ regs'["n3"] <= NonceAt(height)
  BY <1>1, <1>2 DEF LowRefused
<1>4. /\ \A t \in pool : t.id = "low" => t.nonce < NonceAt(height)
      /\ "low" \notin DOMAIN mined
      /\ regs["n3"] <= NonceAt(height)
  BY <1>3 DEF LowRefused
<1>5. Keyed(Ins) /\ "n3" \in Regs /\ regs["n3"] \in Int
  <2>1. Keyed(Item(unit, pc)) /\ Ins = Item(unit, pc)
    BY <1>3, RunsHere, PlanHere, PlanData DEF Ordered, Item
  <2>2. "n3" \in Regs /\ regs["n3"] \in Int
    BY DEF Regs, IInv, TypeOK
  <2>3. QED
    BY <2>1, <2>2
<1>6. regs'["n3"] <= NonceAt(height)
  <2>1. CASE regs'["n3"] = regs["n3"]
    BY <1>4, <2>1
  <2>2. CASE regs'["n3"] # regs["n3"]
    <3>1. Ins.op \in Readers /\ Ins.into = "n3"
      BY <1>1, <1>5, <2>2 DEF Told
    <3>2. Ins.op = "advance"
      BY <1>5, <3>1 DEF Keyed
    <3>3. regs'["n3"] = NonceAt(ledger)
      BY <1>1, <1>5, <2>2, <3>2 DEF Told
    <3>4. QED
      BY <3>3, NonceLemma
  <2>3. QED
    BY <2>1, <2>2
<1>7. ASSUME NEW t \in pool', t.id = "low" PROVE t.nonce < NonceAt(height)
  <2>1. CASE t \in pool
    BY <1>4, <1>7, <2>1
  <2>2. CASE t \notin pool
    <3>1. Ins.op = "send" /\ Ins.id = "low" /\ t.nonce = NonceOf(Ins)
      BY <1>1, <1>7, <2>2 DEF Told, Admit
    <3>2. t.nonce = regs["n3"] + -1
      BY <1>5, <3>1 DEF Keyed, NonceOf
    <3>3. QED
      BY <1>4, <1>5, <3>2, NonceLemma
  <2>3. QED
    BY <2>1, <2>2
<1>8. QED
  BY <1>4, <1>6, <1>7

LEMMA NodeLowRefused == ASSUME IInv, IInv', LowRefused, Node PROVE LowRefused'
<1>1. UNCHANGED <<plan, regs>>
  BY NodeHere
<1>2. SUFFICES ASSUME plan = "boundaries"
               PROVE  /\ \A t \in pool' : t.id = "low" => t.nonce < NonceAt(height)'
                      /\ "low" \notin DOMAIN mined'
                      /\ regs["n3"] <= NonceAt(height)'
  BY <1>1 DEF LowRefused
<1>3. /\ \A t \in pool : t.id = "low" => t.nonce < NonceAt(height)
      /\ "low" \notin DOMAIN mined
      /\ regs["n3"] <= NonceAt(height)
  BY <1>2 DEF LowRefused
<1>4. NonceAt(height)' \in Nat /\ NonceAt(height) <= NonceAt(height)' /\ NonceAt(height) \in Nat
  BY <1>2, NonceGrows, NonceLemma
<1>5. "n3" \in Regs /\ regs["n3"] \in Int /\ \A t \in pool : t.nonce \in Int
  BY DEF Regs, IInv, TypeOK, Tx
<1>6. "low" \notin DOMAIN mined'
  <2>1. CASE \E taken, n : Seals(taken, n)
    <3>1. PICK taken, n : Seals(taken, n)
      BY <2>1
    <3>2. \A t \in taken : t \in pool /\ NonceAt(height) <= t.nonce
      BY <3>1 DEF Seals
    <3>3. \A t \in taken : t.id # "low"
      BY <1>3, <1>4, <1>5, <3>2
    <3>4. QED
      BY <1>3, <3>1, <3>3 DEF Seals
  <2>2. CASE Rests
    BY <1>3, <2>2 DEF Rests
  <2>3. CASE Opens
    BY <1>3, <2>3 DEF Opens, MinedBy
  <2>4. QED
    BY <2>1, <2>2, <2>3, NodeHere
<1>7. \A t \in pool' : t.id = "low" => t.nonce < NonceAt(height)'
  <2>1. pool' \subseteq pool
    BY NodeKeepsIds
  <2>2. QED
    BY <1>3, <1>4, <1>5, <2>1
<1>8. QED
  BY <1>3, <1>4, <1>5, <1>6, <1>7

LEMMA NextLowRefused == ASSUME IInv, LowRefused, NextUnit PROVE LowRefused'
<1>1. UNCHANGED <<plan, pool, mined, height>> /\ regs' = Fresh
  BY NextHere DEF nodeVars, chainVars
<1>2. regs'["n3"] = -1
  BY <1>1 DEF Fresh, Regs
<1>3. NonceAt(height)' = NonceAt(height)
  BY <1>1 DEF NonceAt, MinedBy
<1>4. QED
  BY <1>1, <1>2, <1>3, NonceLemma DEF LowRefused

\* The two pairs.
Rivals(bad, good, n) ==
  \/ bad = "half" /\ good = "c4" /\ n = "n4"
  \/ bad = "under" /\ good = "c5" /\ n = "n5"

LEMMA RivalsLemma ==
  ASSUME NEW bad, NEW good, NEW n, Rivals(bad, good, n)
  PROVE  /\ n \in Regs /\ bad # good /\ bad # "stray" /\ good # "stray"
         /\ Rank[n] < Rank[bad] /\ Rank[bad] < Rank[good]
         /\ Rank[n] \in Int /\ Rank[bad] \in Int /\ Rank[good] \in Int
         /\ \A ins : Keyed(ins) =>
              /\ ins.op = "send" /\ ins.id \in {bad, good} => ins.nonce = n /\ ins.plus = 0
              /\ ins.op \in Readers /\ ins.into = n => ins.op = "advance"
BY DEF Rivals, Regs, Rank, Keyed

LEMMA InitSuperseded ==
  ASSUME Init, NEW bad, NEW good, NEW n, Rivals(bad, good, n) PROVE Superseded(bad, good, n)
<1>1. pool \in {{}, {[id |-> "stray", nonce |-> 0, cap |-> Ample, tip |-> Ample]}} /\ DOMAIN mined = {}
  BY DEF Init
<1>2. \A t \in pool : t.id = "stray"
  BY <1>1
<1>3. Pooled \subseteq {"stray"}
  BY <1>2 DEF Pooled
<1>4. bad # "stray" /\ good # "stray"
  BY RivalsLemma
<1>5. QED
  BY <1>1, <1>2, <1>3, <1>4 DEF Superseded

LEMMA RunsSuperseded ==
  ASSUME IInv, InOrder, Runs, NEW bad, NEW good, NEW n, Rivals(bad, good, n),
         Superseded(bad, good, n)
  PROVE  Superseded(bad, good, n)'
<1>1. Told /\ UNCHANGED <<mined, height, plan>> /\ ~Finished
  BY RunsTells, RunsHere DEF Steps, chainKept
<1>2. NonceAt(height)' = NonceAt(height)
  BY <1>1 DEF NonceAt, MinedBy
<1>3. SUFFICES ASSUME plan = "boundaries"
               PROVE  /\ \A t \in pool' : t.id \in {bad, good} => t.nonce = regs'[n]
                      /\ bad \in DOMAIN mined => NonceAt(height) > regs'[n]
                      /\ good \in Pooled' \cup DOMAIN mined => bad \notin Pooled'
                      /\ ~(bad \in DOMAIN mined /\ good \in DOMAIN mined)
  BY <1>1, <1>2 DEF Superseded
<1>4. /\ \A t \in pool : t.id \in {bad, good} => t.nonce = regs[n]
      /\ bad \in DOMAIN mined => NonceAt(height) > regs[n]
      /\ good \in Pooled \cup DOMAIN mined => bad \notin Pooled
      /\ ~(bad \in DOMAIN mined /\ good \in DOMAIN mined)
  BY <1>1, <1>3 DEF Superseded
<1>5. /\ unit \in 1..Len(PlanOf[plan]) /\ pc \in 1..Len(PlanOf[plan][unit].body)
      /\ Ins = Item(unit, pc) /\ ~Past(unit, pc)
  <2>1. unit \in 1..Len(PlanOf[plan]) /\ pc \in 1..Len(PlanOf[plan][unit].body) /\ Ins = Item(unit, pc)
    BY RunsHere
  <2>2. unit \in Nat /\ pc \in Nat
    BY <2>1, PlanHere
  <2>3. QED
    BY <2>1, <2>2 DEF Past
<1>6. Keyed(Ins)
  BY <1>3, <1>5, PlanHere, PlanData DEF Ordered, Item
<1>7. Event(Ins) => \A id \in {bad, good} \cap (Pooled \cup DOMAIN mined) :
                      Rank[id] < Rank[Name(Ins)] /\ Rank[Name(Ins)] \in Int
  BY <1>3, <1>5, Unsent, RivalsLemma
<1>8. CASE regs'[n] # regs[n]
  <2>1. Ins.op \in Readers /\ Ins.into = n
    BY <1>1, <1>8, RivalsLemma DEF Told
  <2>2. Ins.op = "advance"
    BY <1>6, <2>1, RivalsLemma
  <2>3. Event(Ins) /\ Name(Ins) = n
    BY <2>1, <2>2 DEF Event, Name
  <2>4. {bad, good} \cap (Pooled \cup DOMAIN mined) = {}
    <3>1. SUFFICES ASSUME NEW id \in {bad, good} \cap (Pooled \cup DOMAIN mined) PROVE FALSE
      OBVIOUS
    <3>2. Rank[id] < Rank[n]
      BY <1>7, <2>3
    <3>3. Rank[n] < Rank[id] /\ Rank[n] \in Int /\ Rank[id] \in Int
      BY RivalsLemma
    <3>4. QED
      BY <3>2, <3>3
  <2>5. pool' = pool /\ Pooled' = Pooled
    BY <1>1, <2>2 DEF Told, Pooled
  <2>6. \A t \in pool : t.id \in Pooled
    BY DEF Pooled
  <2>7. QED
    BY <1>4, <2>4, <2>5, <2>6
<1>9. CASE regs'[n] = regs[n] /\ pool' = pool
  BY <1>4, <1>9 DEF Pooled
<1>10. CASE regs'[n] = regs[n] /\ pool' # pool
  <2>1. Ins.op = "send"
    BY <1>1, <1>10 DEF Told
  <2>2. PICK t \in Tx : t.id = Ins.id /\ t.nonce = NonceOf(Ins) /\ Admit(t)
    BY <1>1, <1>10, <2>1 DEF Told
  <2>3. /\ pool' = {u \in pool : u.nonce # t.nonce} \cup {t}
        /\ Pooled' \subseteq Pooled \cup {Ins.id}
    BY <2>2 DEF Admit, Pooled
  <2>4. Event(Ins) /\ Name(Ins) = Ins.id
    BY <2>1 DEF Event, Name
  <2>5. Ins.id \in {bad, good} => t.nonce = regs[n]
    <3>1. Ins.id \in {bad, good} => Ins.nonce = n /\ Ins.plus = 0
      BY <1>6, <2>1, RivalsLemma
    <3>2. regs[n] \in Int
      BY RivalsLemma DEF IInv, TypeOK
    <3>3. QED
      BY <2>2, <3>1, <3>2 DEF NonceOf
  <2>6. CASE Ins.id = bad
    <3>1. good \notin Pooled \cup DOMAIN mined
      <4>1. SUFFICES ASSUME good \in Pooled \cup DOMAIN mined PROVE FALSE
        OBVIOUS
      <4>2. Rank[good] < Rank[bad]
        BY <1>7, <2>4, <2>6, <4>1
      <4>3. QED
        BY <4>2, RivalsLemma
    <3>2. good \notin Pooled' \cup DOMAIN mined
      BY <2>3, <2>6, <3>1, RivalsLemma
    <3>3. \A x \in pool' : x.id \in {bad, good} => x.nonce = regs[n]
      BY <1>4, <2>2, <2>3, <2>5, <2>6
    <3>4. QED
      BY <1>4, <1>10, <3>2, <3>3
  <2>7. CASE Ins.id = good
    <3>1. \A x \in pool' : x.id \in {bad, good} => x.nonce = regs[n]
      BY <1>4, <2>2, <2>3, <2>5, <2>7
    <3>2. \A x \in pool' : x.id # bad
      BY <1>4, <2>2, <2>3, <2>5, <2>7, RivalsLemma
    <3>3. bad \notin Pooled'
      BY <3>2 DEF Pooled
    <3>4. QED
      BY <1>4, <1>10, <3>1, <3>3
  <2>8. CASE Ins.id \notin {bad, good}
    BY <1>4, <1>10, <2>2, <2>3, <2>8
  <2>9. QED
    BY <2>6, <2>7, <2>8
<1>11. QED
  BY <1>8, <1>9, <1>10

LEMMA NodeSuperseded ==
  ASSUME IInv, IInv', InOrder, Node, NEW bad, NEW good, NEW n, Rivals(bad, good, n),
         Superseded(bad, good, n)
  PROVE  Superseded(bad, good, n)'
<1>1. UNCHANGED <<plan, regs>> /\ ~Finished
  BY NodeHere
<1>2. SUFFICES ASSUME plan = "boundaries"
               PROVE  /\ \A t \in pool' : t.id \in {bad, good} => t.nonce = regs[n]
                      /\ bad \in DOMAIN mined' => NonceAt(height)' > regs[n]
                      /\ good \in Pooled' \cup DOMAIN mined' => bad \notin Pooled'
                      /\ ~(bad \in DOMAIN mined' /\ good \in DOMAIN mined')
  BY <1>1 DEF Superseded
<1>3. /\ \A t \in pool : t.id \in {bad, good} => t.nonce = regs[n]
      /\ bad \in DOMAIN mined => NonceAt(height) > regs[n]
      /\ good \in Pooled \cup DOMAIN mined => bad \notin Pooled
      /\ ~(bad \in DOMAIN mined /\ good \in DOMAIN mined)
  BY <1>1, <1>2 DEF Superseded
<1>4. NonceAt(height)' \in Nat /\ NonceAt(height) <= NonceAt(height)' /\ NonceAt(height) \in Nat
  BY <1>2, NonceGrows, NonceLemma
<1>5. n \in Regs /\ regs[n] \in Int
  BY RivalsLemma DEF IInv, TypeOK
<1>6. pool' \subseteq pool /\ Pooled' \subseteq Pooled /\ DOMAIN mined' \subseteq DOMAIN mined \cup Pooled
  BY NodeKeepsIds
<1>7. /\ \A t \in pool' : t.id \in {bad, good} => t.nonce = regs[n]
      /\ good \in Pooled' \cup DOMAIN mined' => bad \notin Pooled'
  BY <1>3, <1>6
<1>8. CASE \E taken, m : Seals(taken, m)
  <2>1. PICK taken, m : Seals(taken, m)
    BY <1>8
  <2>2. NonceAt(height)' = m
    BY <1>2, <2>1, NoncePasses
  <2>3. \A t \in taken : t.id \in {bad, good} => NonceAt(height) <= regs[n] /\ regs[n] < m
    BY <1>3, <2>1 DEF Seals
  <2>4. DOMAIN mined' = DOMAIN mined \cup {t.id : t \in taken} /\ {t.id : t \in taken} \subseteq Pooled
    BY <2>1 DEF Seals, Pooled
  <2>5. bad \in DOMAIN mined' => NonceAt(height)' > regs[n]
    <3>1. CASE bad \in DOMAIN mined
      BY <1>3, <1>4, <1>5, <3>1
    <3>2. CASE bad \in {t.id : t \in taken}
      BY <1>4, <1>5, <2>2, <2>3, <3>2
    <3>3. QED
      BY <2>4, <3>1, <3>2
  <2>6. ~(bad \in DOMAIN mined' /\ good \in DOMAIN mined')
    <3>1. SUFFICES ASSUME bad \in DOMAIN mined', good \in DOMAIN mined' PROVE FALSE
      OBVIOUS
    <3>2. bad \notin Pooled
      BY <1>3, <2>4, <3>1
    <3>3. bad \in DOMAIN mined /\ NonceAt(height) > regs[n]
      BY <1>3, <2>4, <3>1, <3>2
    <3>4. good \in {t.id : t \in taken}
      BY <1>3, <2>4, <3>1, <3>3
    <3>5. NonceAt(height) <= regs[n]
      BY <2>3, <3>4
    <3>6. QED
      BY <1>4, <1>5, <3>3, <3>5
  <2>7. QED
    BY <1>7, <2>5, <2>6
<1>9. CASE Rests \/ Opens
  <2>1. DOMAIN mined' \subseteq DOMAIN mined
    BY <1>9 DEF Rests, Opens, MinedBy
  <2>2. QED
    BY <1>3, <1>4, <1>5, <1>7, <2>1
<1>10. QED
  BY <1>8, <1>9, NodeHere

LEMMA NextSuperseded ==
  ASSUME IInv, NextUnit, NEW bad, NEW good, NEW n, Superseded(bad, good, n)
  PROVE  Superseded(bad, good, n)'
<1>1. UNCHANGED <<plan, mined>> /\ unit' = unit + 1 /\ unit \in 1..Len(PlanOf[plan]) /\ ~Finished
  BY NextHere DEF nodeVars, chainVars
<1>2. plan = "boundaries" => Finished'
  <2>1. plan = "boundaries" => Len(PlanOf[plan]) = 1
    BY PlanHere, PlanData
  <2>2. CASE plan = "boundaries"
    <3>1. unit \in 1..1
      BY <1>1, <2>1, <2>2
    <3>2. unit = 1 /\ unit' = 2 /\ Len(PlanOf[plan]) = 1
      BY <1>1, <2>1, <2>2, <3>1
    <3>3. QED
      BY <1>1, <3>2 DEF Finished
  <2>3. QED
    BY <2>2
<1>3. QED
  BY <1>1, <1>2 DEF Superseded

-----------------------------------------------------------------------------
(* b4_persist: its heads, and the one process that can open the database.   *)

\* Where transactions restarts the node.
LEMMA InTransactions ==
  ASSUME IInv, plan = "transactions", ~Finished, pc # End
  PROVE  /\ unit \in Nat /\ pc \in Nat
         /\ Ins.op = "launch" <=> unit = 2 /\ pc = 4
         /\ Ins.op = "kill" => unit = 2 /\ pc = 2
         /\ unit = 2 => pc \in 1..8 /\ Ins = b4_persist[pc]
<1>1. RestartIs(2, 2, 2, 5)
  BY PlansAreWellMade DEF RestartIs, IInv, Shape, Restarted
<1>2. /\ unit \in Nat /\ pc \in Nat
      /\ unit = 2 => /\ pc = 2 <=> Ins.op = "kill"
                     /\ pc = 2 + 2 <=> Ins.op = "launch"
      /\ Ins.op \in RestartOps => unit = 2
  BY <1>1, RestartHere
<1>3. PlanOf["transactions"] = transactions
  BY DEF PlanOf
<1>4. unit = 2 => /\ Running.body = b4_persist /\ pc \in 1..Len(Running.body)
  <2>1. pc \in 1..End /\ End = Len(Running.body) + 1 /\ Len(Running.body) \in Nat
    BY Here
  <2>2. pc \in 1..Len(Running.body)
    BY <2>1
  <2>3. QED
    BY <1>3, <2>2, TransactionsUnits DEF Running
<1>5. QED
  BY <1>2, <1>4, PersistItems DEF Ins, RestartOps

\* What b4 does at each of its instructions.
LEMMA PersistHere ==
  ASSUME IInv, plan = "transactions", ~Finished, pc # End, unit = 2
  PROVE  /\ pc \in {1, 2, 3, 4, 5, 6, 7, 8}
         /\ pc = 1 => Ins.op = "head" /\ Ins.into = "h1"
         /\ pc \in {2, 3, 4} => Ins.op \in RestartOps
         /\ pc = 5 => Ins.op = "retry" /\ Ins.into = "h2"
         /\ pc = 6 => Ins.op = "check" /\ (Holds(Ins) => regs["h1"] <= regs["h2"])
         /\ pc = 7 => Ins.op = "later" /\ Ins.into = "h3" /\ Ins.past = "h2"
         /\ pc = 8 => Ins.op = "check" /\ (Holds(Ins) => regs["h2"] < regs["h3"])
         /\ Ins.op # "await"
<1>1. pc \in 1..8 /\ Ins = b4_persist[pc]
  BY InTransactions
<1>2. pc \in {1, 2, 3, 4, 5, 6, 7, 8}
  BY <1>1
<1>3. regs["h1"] \in Int /\ regs["h2"] \in Int /\ regs["h3"] \in Int
  BY DEF IInv, TypeOK, Regs
<1>4. pc = 1 => Ins.op = "head" /\ Ins.into = "h1"
  BY <1>1, PersistItems DEF BlockNumber
<1>5. /\ pc = 2 => Ins.op = "kill"
      /\ pc = 3 => Ins.op = "gone"
      /\ pc = 4 => Ins.op = "launch"
  BY <1>1, PersistItems
<1>6. pc = 5 => Ins.op = "retry" /\ Ins.into = "h2"
  BY <1>1, PersistItems DEF AnyHead
<1>7. pc = 7 => Ins.op = "later" /\ Ins.into = "h3" /\ Ins.past = "h2"
  BY <1>1, PersistItems DEF LaterBlock
<1>8. pc = 6 => Ins.op = "check" /\ (Holds(Ins) => regs["h1"] <= regs["h2"])
  <2>1. SUFFICES ASSUME pc = 6 PROVE Ins.op = "check" /\ (Holds(Ins) => regs["h1"] <= regs["h2"])
    OBVIOUS
  <2>2. Ins = [op |-> "check", name |-> "headKept", left |-> "h2", rel |-> ">=", right |-> "h1", plus |-> 0]
    BY <1>1, <2>1, PersistItems DEF Check
  <2>3. Ins.op = "check" /\ Ins.left = "h2" /\ Ins.rel = ">=" /\ Ins.right = "h1" /\ Ins.plus = 0
    BY <2>2
  <2>4. QED
    BY <1>3, <2>3 DEF Holds
<1>9. pc = 8 => Ins.op = "check" /\ (Holds(Ins) => regs["h2"] < regs["h3"])
  <2>1. SUFFICES ASSUME pc = 8 PROVE Ins.op = "check" /\ (Holds(Ins) => regs["h2"] < regs["h3"])
    OBVIOUS
  <2>2. Ins = [op |-> "check", name |-> "resumes", left |-> "h3", rel |-> ">", right |-> "h2", plus |-> 0]
    BY <1>1, <2>1, PersistItems DEF Check
  <2>3. Ins.op = "check" /\ Ins.left = "h3" /\ Ins.rel = ">" /\ Ins.right = "h2" /\ Ins.plus = 0
    BY <2>2
  <2>4. QED
    BY <1>3, <2>3 DEF Holds
<1>10. QED
  BY <1>2, <1>4, <1>5, <1>6, <1>7, <1>8, <1>9 DEF RestartOps

\* Only restart_b3.sh launches, and it does.
LEMMA LaunchHere == ASSUME IInv, Runs, Ins.op = "launch" PROVE Launches
<1>1. ASSUME NEW ops, At(ops), "launch" \notin ops PROVE FALSE
  BY <1>1 DEF At
<1>2. ~Raised /\ ~ReadBlock /\ ~ReadTag /\ ~ReadState /\ ~SendTx /\ ~SeeReceipt /\ ~RunOut
  BY <1>1 DEF Raised, ReadBlock, ReadTag, ReadState, SendTx, SeeReceipt, RunOut, Answering, Calls
<1>3. ~StaysAbsent /\ ~AdvanceNonce /\ ~SeeLaterBlock /\ ~ReadHeadAgain /\ ~CheckNow
  BY <1>1 DEF StaysAbsent, AdvanceNonce, SeeLaterBlock, ReadHeadAgain, CheckNow, Answering
<1>4. ~Kill /\ ~WaitGone /\ ~DriveEngine /\ ~StartB3a
  BY <1>1 DEF Kill, WaitGone, DriveEngine, StartB3a
<1>5. Launch
  BY <1>2, <1>3, <1>4 DEF Runs
<1>6. QED
  BY <1>5, LaunchSteps DEF Launches

LEMMA InitOneOpen == ASSUME Init PROVE OneOpen
<1>1. /\ cut = "none" /\ unit = 1 /\ live \in {{1}, {}}
      /\ holder = (IF live = {} THEN 0 ELSE 1)
  BY DEF Init
<1>2. ~Past(2, 4) /\ live \subseteq {holder}
  BY <1>1 DEF Past
<1>3. QED
  BY <1>1, <1>2 DEF OneOpen

LEMMA RunsOneOpen == ASSUME IInv, OneOpen, Runs PROVE OneOpen'
<1>1. UNCHANGED plan /\ cut' = (IF Ins.op = "retry" /\ cut = "fresh" THEN "seen" ELSE cut)
  BY RunsTells, RunsHere DEF Told
<1>2. CASE plan # "transactions"
  BY <1>1, <1>2 DEF OneOpen
<1>3. CASE plan = "transactions"
  <2>1. SUFFICES ASSUME Clean'
                 PROVE  /\ ~Past(2, 4)' => live' \subseteq {holder'} /\ cut' = "none"
                        /\ Past(2, 4)' => /\ live' \subseteq {holder', pidFile'}
                                          /\ pidFile' \notin doomed'
                                          /\ holder' = pidFile' \/ cut' = "none"
    BY <1>1, <1>3 DEF OneOpen
  <2>2. Clean /\ ~Finished /\ pc # End
    BY <2>1, RunsHere, RunsTells DEF Steps, Goes
  <2>3. /\ ~Past(2, 4) => live \subseteq {holder} /\ cut = "none"
        /\ Past(2, 4) => /\ live \subseteq {holder, pidFile} /\ pidFile \notin doomed
                         /\ holder = pidFile \/ cut = "none"
    BY <1>3, <2>2 DEF OneOpen
  <2>4. Past(2, 4)' <=> Past(2, 4) \/ (unit = 2 /\ pc = 4)
    BY <2>1, RunsHere
  <2>5. /\ Ins.op = "launch" <=> unit = 2 /\ pc = 4
        /\ Ins.op = "kill" => unit = 2 /\ pc = 2
    BY <1>3, <2>2, InTransactions
  <2>6. cut = "none" => cut' = "none"
    BY <1>1
  <2>7. CASE Ins.op = "launch"
    <3>1. Launches /\ ~Past(2, 4)
      BY <2>5, <2>7, LaunchHere DEF Past
    <3>2. pidFile + 1 \notin doomed
      BY DEF IInv, TypeOK, Shape
    <3>3. QED
      BY <2>3, <2>4, <2>5, <2>6, <2>7, <3>1, <3>2 DEF Launches
  <2>8. CASE Ins.op = "kill"
    <3>1. ~Past(2, 4) /\ ~Past(2, 4)'
      BY <2>4, <2>5, <2>8 DEF Past
    <3>2. UNCHANGED <<live, holder>>
      BY <2>8, RunsMoves DEF Launches
    <3>3. QED
      BY <2>3, <2>6, <3>1, <3>2
  <2>9. CASE Ins.op \notin {"kill", "launch"}
    <3>1. UNCHANGED <<pidFile, live, doomed, holder>>
      BY <2>9, RunsMoves DEF Launches
    <3>2. QED
      BY <2>3, <2>4, <2>5, <2>6, <2>9, <3>1
  <2>10. QED
    BY <2>7, <2>8, <2>9
<1>4. QED
  BY <1>2, <1>3

\* When a process opens the database without a failure before, the chain has not been cut yet;
\* and it is cut only in b4, behind the launch.
LEMMA OpensOnce ==
  ASSUME IInv, OneOpen, Node, Opens
  PROVE  /\ height' = height \/ (plan = "transactions" /\ unit = 2)
         /\ Clean /\ plan = "transactions" =>
              /\ Past(2, 4) /\ cut = "none" /\ holder' = pidFile /\ live \subseteq {pidFile}
         /\ plan # "transactions" => cut = "none"
<1>1. PICK p \in live \ {holder} :
        /\ holder = 0 /\ holder' = p /\ (height' = height \/ Running.name = "b4_persist")
  BY DEF Opens
<1>2. height' = height \/ (plan = "transactions" /\ unit = 2)
  BY <1>1, NodeHere, PlanHere, PlanData
<1>3. live \subseteq 1..pidFile /\ pidFile \in Nat \ {0}
  BY DEF IInv, TypeOK, Shape
<1>4. 0 \notin live /\ pidFile # 0
  BY <1>3
<1>5. ASSUME Clean, plan = "transactions"
      PROVE  Past(2, 4) /\ cut = "none" /\ holder' = pidFile /\ live \subseteq {pidFile}
  <2>1. Past(2, 4)
    BY <1>1, <1>5 DEF OneOpen
  <2>2. live \subseteq {holder, pidFile} /\ (holder = pidFile \/ cut = "none")
    BY <1>5, <2>1 DEF OneOpen
  <2>3. QED
    BY <1>1, <1>4, <2>1, <2>2
<1>6. plan # "transactions" => cut = "none"
  BY DEF OneOpen
<1>7. QED
  BY <1>2, <1>5, <1>6

LEMMA NodeOneOpen == ASSUME IInv, OneOpen, Node PROVE OneOpen'
<1>1. /\ UNCHANGED <<plan, pidFile, doomed>> /\ Clean' = Clean /\ Past(2, 4)' = Past(2, 4)
  BY NodeHere
<1>2. CASE \E taken, n : Seals(taken, n)
  <2>1. UNCHANGED <<live, holder>> /\ (cut = "none" => cut' = "none")
    BY <1>2 DEF Seals
  <2>2. QED
    BY <1>1, <2>1 DEF OneOpen
<1>3. CASE Rests
  <2>1. UNCHANGED cut
    BY <1>3 DEF Rests
  <2>2. CASE UNCHANGED <<live, holder>>
    BY <1>1, <2>1, <2>2 DEF OneOpen
  <2>3. CASE \E p \in live : /\ live' = live \ {p} /\ p \in doomed
                             /\ holder' = IF holder = p THEN 0 ELSE holder
    BY <1>1, <2>1, <2>3 DEF OneOpen
  <2>4. CASE \E p \in live \ {holder} : live' = live \ {p} /\ UNCHANGED holder
    BY <1>1, <2>1, <2>4 DEF OneOpen
  <2>5. QED
    BY <1>3, <2>2, <2>3, <2>4 DEF Rests
<1>4. CASE Opens
  <2>1. CASE plan = "transactions" /\ Clean
    <3>1. Past(2, 4) /\ holder' = pidFile /\ live \subseteq {pidFile} /\ UNCHANGED live
      BY <1>4, <2>1, OpensOnce DEF Opens
    <3>2. pidFile \notin doomed
      BY <2>1, <3>1 DEF OneOpen
    <3>3. Past(2, 4)' /\ live' \subseteq {holder', pidFile'} /\ pidFile' \notin doomed' /\ holder' = pidFile'
      BY <1>1, <3>1, <3>2
    <3>4. QED
      BY <1>1, <2>1, <3>3 DEF OneOpen
  <2>2. CASE plan = "transactions" /\ ~Clean
    BY <1>1, <2>2 DEF OneOpen
  <2>3. CASE plan # "transactions"
    <3>1. height' = height /\ cut = "none" /\ height \in Nat
      BY <1>4, <2>3, OpensOnce DEF IInv, TypeOK
    <3>2. cut' = "none"
      BY <1>4, <3>1 DEF Opens
    <3>3. QED
      BY <1>1, <2>3, <3>2 DEF OneOpen
  <2>4. QED
    BY <2>1, <2>2, <2>3
<1>5. QED
  BY <1>2, <1>3, <1>4, NodeHere

LEMMA NextOneOpen == ASSUME IInv, OneOpen, NextUnit PROVE OneOpen'
<1>1. UNCHANGED <<plan, pidFile, live, doomed, holder, cut>> /\ (Clean' => Clean)
  BY NextHere DEF nodeVars
<1>2. plan = "transactions" => (Past(2, 4)' <=> Past(2, 4))
  <2>1. SUFFICES ASSUME plan = "transactions" PROVE Past(2, 4)' <=> Past(2, 4)
    OBVIOUS
  <2>2. Len(PlanOf[plan]) = 3 /\ PlanOf[plan][2].body = b4_persist
    BY <2>1, TransactionsUnits DEF PlanOf
  <2>3. 2 \in 1..Len(PlanOf[plan]) /\ 4 \in 1..Len(PlanOf[plan][2].body)
    BY <2>2, PersistItems
  <2>4. QED
    BY <2>3, NextHere
<1>3. QED
  BY <1>1, <1>2 DEF OneOpen

LEMMA RunsHeads == ASSUME IInv, Heads, Runs PROVE Heads'
<1>1. SUFFICES ASSUME InPersist'
               PROVE  /\ pc' > 5 => regs'["h2"] >= 0
                      /\ pc' > 6 => regs'["h1"] <= regs'["h2"]
                      /\ pc' <= 7 => regs'["h3"] = -1
  BY DEF Heads
<1>2. InPersist /\ pc' = pc + 1 /\ ~Finished /\ pc # End /\ failed' = {}
  BY <1>1, RunsHere, RunsTells DEF InPersist, Clean, Steps, Goes
<1>3. plan = "transactions" /\ unit = 2
  BY <1>2 DEF InPersist
<1>4. /\ pc > 5 => regs["h2"] >= 0
      /\ pc > 6 => regs["h1"] <= regs["h2"]
      /\ pc <= 7 => regs["h3"] = -1
  BY <1>2 DEF Heads
<1>5. /\ pc \in {1, 2, 3, 4, 5, 6, 7, 8}
      /\ pc = 1 => Ins.op = "head" /\ Ins.into = "h1"
      /\ pc \in {2, 3, 4} => Ins.op \in RestartOps
      /\ pc = 5 => Ins.op = "retry" /\ Ins.into = "h2"
      /\ pc = 6 => Ins.op = "check" /\ (Holds(Ins) => regs["h1"] <= regs["h2"])
      /\ pc = 7 => Ins.op = "later" /\ Ins.into = "h3"
      /\ pc = 8 => Ins.op = "check"
  BY <1>2, <1>3, PersistHere
<1>6. /\ \A r \in Regs : regs'[r] # regs[r] => Ins.op \in Readers /\ Ins.into = r
      /\ Ins.op \in {"head", "retry"} => regs' = [regs EXCEPT ![Ins.into] = height]
      /\ Ins.op = "check" => Holds(Ins)
  BY <1>2, RunsTells DEF Told
<1>7. {"h1", "h2", "h3"} \subseteq Regs /\ height \in Nat /\ regs \in [Regs -> Int]
  BY DEF Regs, IInv, TypeOK
<1>8. CASE pc = 1
  <2>1. regs'["h3"] = regs["h3"]
    BY <1>5, <1>6, <1>7, <1>8
  <2>2. QED
    BY <1>2, <1>4, <1>8, <2>1
<1>9. CASE pc \in {2, 3, 4}
  <2>1. regs'["h3"] = regs["h3"]
    BY <1>5, <1>6, <1>7, <1>9 DEF Readers, RestartOps
  <2>2. QED
    BY <1>2, <1>4, <1>9, <2>1
<1>10. CASE pc = 5
  <2>1. regs'["h2"] = height /\ regs'["h3"] = regs["h3"]
    BY <1>5, <1>6, <1>7, <1>10
  <2>2. QED
    BY <1>2, <1>4, <1>7, <1>10, <2>1
<1>11. CASE pc = 6
  <2>1. regs'["h1"] = regs["h1"] /\ regs'["h2"] = regs["h2"] /\ regs'["h3"] = regs["h3"]
    BY <1>5, <1>6, <1>7, <1>11 DEF Readers
  <2>2. QED
    BY <1>2, <1>4, <1>5, <1>6, <1>11, <2>1
<1>12. CASE pc \in {7, 8}
  <2>1. regs'["h1"] = regs["h1"] /\ regs'["h2"] = regs["h2"]
    BY <1>5, <1>6, <1>7, <1>12 DEF Readers
  <2>2. QED
    BY <1>2, <1>4, <1>12, <2>1
<1>13. QED
  BY <1>5, <1>8, <1>9, <1>10, <1>11, <1>12

LEMMA NodeHeads == ASSUME IInv, Heads, Node PROVE Heads'
BY NodeHere DEF Heads, InPersist

LEMMA NextHeads == ASSUME IInv, NextUnit PROVE Heads'
<1>1. pc' = 1 /\ regs' = Fresh
  BY NextHere
<1>2. regs'["h3"] = -1
  BY <1>1 DEF Fresh, Regs
<1>3. QED
  BY <1>1, <1>2 DEF Heads

-----------------------------------------------------------------------------
(* What was waited for is there.                                            *)

\* Landed's last part: every wait behind the script found its transaction, which is still there.
AllMet ==
  \A u \in 1..Len(PlanOf[plan]) : \A j \in 1..Len(PlanOf[plan][u].body) :
    Item(u, j).op = "await" /\ Past(u, j) => Met(u, j)

LEMMA InitLanded == ASSUME IInv, Init PROVE Landed /\ Early
<1>1. unit = 1 /\ pc = 1
  BY DEF Init
<1>2. ASSUME NEW u \in 1..Len(PlanOf[plan]), NEW j \in 1..Len(PlanOf[plan][u].body)
      PROVE  ~Past(u, j)
  <2>1. Len(PlanOf[plan]) \in Nat /\ Len(PlanOf[plan][u].body) \in Nat
    BY PlanHere
  <2>2. u \in Nat /\ u >= 1 /\ j \in Nat /\ j >= 1
    BY <2>1
  <2>3. QED
    BY <1>1, <2>2 DEF Past
<1>3. QED
  BY <1>1, <1>2 DEF Landed, Early, InPersist

\* A script that goes on: what it passes that it had not, is the present instruction.
LEMMA RunsAllMet ==
  ASSUME IInv, Runs, Clean', AllMet PROVE AllMet'
<1>1. Told /\ UNCHANGED <<mined, plan, unit>> /\ failed' = {}
  BY RunsTells, RunsHere DEF Steps, chainKept, Clean
<1>2. SUFFICES ASSUME NEW u \in 1..Len(PlanOf[plan]), NEW j \in 1..Len(PlanOf[plan][u].body),
                      Item(u, j).op = "await", Past(u, j)'
               PROVE  Item(u, j).of \cap DOMAIN mined # {}
  BY <1>1, RunsHere DEF AllMet, Met
<1>3. u \in Nat /\ j \in Nat
  BY PlanHere
<1>4. CASE Past(u, j)
  BY <1>2, <1>4 DEF AllMet, Met
<1>5. CASE u = unit /\ j = pc
  <2>1. Ins = Item(u, j) /\ Found
    BY <1>1, <1>2, <1>5, RunsHere DEF Told
  <2>2. QED
    BY <2>1 DEF Found
<1>6. QED
  BY <1>2, <1>3, <1>4, <1>5, RunsHere

\* b4, finding the chain shorter than it was, fails.
LEMMA RunsShort ==
  ASSUME IInv, Heads, Runs, Clean', Short PROVE Short' \/ cut' = "regrown"
<1>1. /\ plan = "transactions" /\ unit = 2 /\ ~Finished /\ pc # End
      /\ Clean /\ pc' = pc + 1 /\ failed' = {} /\ UNCHANGED <<plan, unit, height>>
  BY RunsTells, RunsHere DEF Short, Clean, Steps, Goes, chainKept
<1>2. InPersist
  BY <1>1 DEF InPersist
<1>3. /\ pc > 5 => regs["h2"] >= 0
      /\ pc > 6 => regs["h1"] <= regs["h2"]
      /\ pc <= 7 => regs["h3"] = -1
  BY <1>2 DEF Heads
<1>4. /\ pc = 5 => Ins.op = "retry" /\ Ins.into = "h2"
      /\ pc = 6 => Ins.op = "check" /\ (Holds(Ins) => regs["h1"] <= regs["h2"])
      /\ pc = 7 => Ins.op = "later" /\ Ins.into = "h3" /\ Ins.past = "h2"
      /\ pc = 8 => Ins.op = "check" /\ (Holds(Ins) => regs["h2"] < regs["h3"])
  BY <1>1, PersistHere
<1>5. /\ Ins.op = "retry" => regs' = [regs EXCEPT ![Ins.into] = height]
      /\ Ins.op = "later" =>
           regs' = IF height > regs[Ins.past] THEN [regs EXCEPT ![Ins.into] = height] ELSE regs
      /\ Ins.op = "check" => Holds(Ins)
  BY <1>1, RunsTells DEF Told
<1>6. {"h1", "h2", "h3"} \subseteq Regs /\ height \in Nat /\ regs \in [Regs -> Int]
  BY DEF Regs, IInv, TypeOK
<1>7. regs["h1"] \in Int /\ regs["h2"] \in Int /\ regs["h3"] \in Int
  BY <1>6
<1>8. CASE pc = 5 /\ height < regs["h1"]
  <2>1. regs'["h2"] = height /\ regs'["h1"] = regs["h1"]
    BY <1>4, <1>5, <1>6, <1>8
  <2>2. QED
    BY <1>1, <1>8, <2>1 DEF Short
<1>9. CASE pc = 6 /\ regs["h2"] < regs["h1"]
  BY <1>4, <1>5, <1>7, <1>9
<1>10. CASE pc = 7 /\ height < regs["h1"]
  <2>1. ~(height > regs["h2"])
    BY <1>3, <1>6, <1>7, <1>10
  <2>2. regs' = regs
    BY <1>4, <1>5, <1>10, <2>1
  <2>3. regs["h3"] <= regs["h2"]
    BY <1>3, <1>7, <1>10
  <2>4. QED
    BY <1>1, <1>10, <2>2, <2>3 DEF Short
<1>11. CASE pc = 8 /\ regs["h3"] <= regs["h2"]
  BY <1>4, <1>5, <1>7, <1>11
<1>12. QED
  BY <1>8, <1>9, <1>10, <1>11 DEF Short

LEMMA RunsLanded == ASSUME IInv, Heads, Landed, Runs PROVE Landed'
<1>1. SUFFICES ASSUME Clean' PROVE cut' = "regrown" \/ Short' \/ AllMet'
  BY DEF Landed, AllMet
<1>2. cut = "regrown" \/ Short \/ AllMet
  BY <1>1, RunsHere DEF Landed, AllMet
<1>3. cut = "regrown" => cut' = "regrown"
  BY RunsTells DEF Told
<1>4. QED
  BY <1>1, <1>2, <1>3, RunsShort, RunsAllMet

LEMMA RunsEarly == ASSUME IInv, Landed, Early, Runs PROVE Early'
<1>1. SUFFICES ASSUME InPersist', pc' > 1, cut' = "none",
                      NEW u \in 1..Len(PlanOf[plan]), NEW j \in 1..Len(PlanOf[plan][u].body),
                      Item(u, j).op = "await", Past(u, j)'
               PROVE  \E i \in Item(u, j).of \cap DOMAIN mined : mined[i].block <= regs'["h1"]
  BY RunsTells, RunsHere DEF Early, Steps, chainKept
<1>2. /\ InPersist /\ Clean' /\ Clean /\ pc' = pc + 1 /\ ~Finished /\ pc # End /\ failed' = {}
      /\ plan = "transactions" /\ unit = 2
  BY <1>1, RunsHere, RunsTells DEF InPersist, Clean, Steps, Goes
<1>3. cut = "none"
  BY <1>1, RunsTells DEF Told
<1>4. u \in Nat /\ j \in Nat
  BY PlanHere
<1>5. /\ pc \in {1, 2, 3, 4, 5, 6, 7, 8} /\ Ins.op # "await"
      /\ pc = 1 => Ins.op = "head" /\ Ins.into = "h1"
      /\ pc \in {2, 3, 4} => Ins.op \in RestartOps
      /\ pc = 5 => Ins.op = "retry" /\ Ins.into = "h2"
      /\ pc = 6 => Ins.op = "check"
      /\ pc = 7 => Ins.op = "later" /\ Ins.into = "h3"
      /\ pc = 8 => Ins.op = "check"
  BY <1>2, PersistHere
<1>6. Past(u, j)
  BY <1>1, <1>2, <1>4, <1>5, RunsHere
<1>7. "h1" \in Regs /\ regs \in [Regs -> Int]
  BY DEF Regs, IInv, TypeOK
<1>8. CASE pc = 1
  <2>1. regs'["h1"] = height
    BY <1>2, <1>5, <1>7, <1>8, RunsTells DEF Told
  <2>2. ~Short
    BY <1>8 DEF Short
  <2>3. Met(u, j)
    BY <1>1, <1>2, <1>3, <1>6, <2>2 DEF Landed
  <2>4. QED
    BY <2>1, <2>3 DEF Met, IInv, Shape
<1>9. CASE pc # 1
  <2>1. regs'["h1"] = regs["h1"]
    BY <1>5, <1>7, <1>9, RunsTells DEF Told, Readers, RestartOps
  <2>2. pc > 1
    BY <1>5, <1>9
  <2>3. QED
    BY <1>1, <1>2, <1>3, <1>6, <2>1, <2>2 DEF Early
<1>10. QED
  BY <1>8, <1>9

\* What is in the chain stays where it is, unless the chain is cut.
LEMMA StaysInChain ==
  ASSUME IInv, Node, InOrder,
         Opens => height' = height
  PROVE  /\ DOMAIN mined \subseteq DOMAIN mined'
         /\ plan = "transactions" => \A i \in DOMAIN mined : mined'[i] = mined[i]
<1>1. CASE \E taken, n : Seals(taken, n)
  <2>1. PICK taken, n : Seals(taken, n)
    BY <1>1
  <2>2. DOMAIN mined \subseteq DOMAIN mined'
    BY <2>1 DEF Seals
  <2>3. ASSUME plan = "transactions", NEW i \in DOMAIN mined PROVE mined'[i] = mined[i]
    <3>1. i \notin {t.id : t \in taken}
      BY <2>1, <2>3 DEF Seals, InOrder, Pooled
    <3>2. QED
      BY <2>1, <3>1 DEF Seals
  <2>4. QED
    BY <2>2, <2>3
<1>2. CASE Rests
  BY <1>2 DEF Rests
<1>3. CASE Opens
  <2>1. DOMAIN mined' = MinedBy(TxIds, height) /\ \A i \in DOMAIN mined' : mined'[i] = mined[i]
    BY <1>3 DEF Opens
  <2>2. DOMAIN mined \subseteq MinedBy(TxIds, height)
    BY DEF MinedBy, IInv, TypeOK, Shape
  <2>3. QED
    BY <2>1, <2>2
<1>4. QED
  BY <1>1, <1>2, <1>3, NodeHere

\* A successor that opens the database on a part of the chain leaves the blocks up to the head
\* that b4 read first, or the chain shorter than that.
LEMMA CutsShort ==
  ASSUME IInv, OneOpen, Landed, Early, Node, Opens, Clean, height' # height
  PROVE  (Short \/ AllMet) => Short' \/ AllMet'
<1>1. /\ plan = "transactions" /\ unit = 2 /\ Past(2, 4) /\ cut = "none"
      /\ UNCHANGED <<plan, unit, pc, regs>>
  BY OpensOnce, NodeHere
<1>2. height' \in 0..height /\ cut' = "fresh" /\ DOMAIN mined' = MinedBy(TxIds, height')
  <2>1. height' \in 0..height /\ height \in Nat
    BY DEF Opens, IInv, TypeOK
  <2>2. height' < height
    BY <2>1
  <2>3. QED
    BY <2>1, <2>2 DEF Opens
<1>3. /\ pc \in {1, 2, 3, 4, 5, 6, 7, 8}
      /\ pc = 6 => Ins.op = "check"
      /\ pc = 8 => Ins.op = "check"
  BY <1>1, NodeHere, PersistHere
<1>4. pc \in {5, 7}
  <2>1. pc > 4
    BY <1>1 DEF Past
  <2>2. Ins.op # "check"
    BY NodeHere DEF Calls
  <2>3. QED
    BY <1>3, <2>1, <2>2
<1>5. regs["h1"] \in Int /\ height' \in Int
  BY <1>2 DEF IInv, TypeOK, Regs
<1>6. CASE height' < regs["h1"]
  BY <1>1, <1>2, <1>4, <1>6 DEF Short
<1>7. CASE height' >= regs["h1"]
  <2>1. ASSUME NEW u \in 1..Len(PlanOf[plan]), NEW j \in 1..Len(PlanOf[plan][u].body),
               Item(u, j).op = "await", Past(u, j)
        PROVE  Item(u, j).of \cap DOMAIN mined' # {}
    <3>1. PICK i \in Item(u, j).of \cap DOMAIN mined : mined[i].block <= regs["h1"]
      BY <1>1, <1>4, <2>1 DEF Early, InPersist
    <3>2. mined[i].block \in Nat /\ i \in TxIds
      BY <3>1 DEF IInv, TypeOK, Place
    <3>3. mined[i].block <= height'
      BY <1>5, <1>7, <3>1, <3>2
    <3>4. QED
      BY <1>2, <3>1, <3>2, <3>3 DEF MinedBy
  <2>2. AllMet'
    BY <1>1, <2>1, NodeHere DEF AllMet, Met
  <2>3. QED
    BY <2>2
<1>8. QED
  BY <1>5, <1>6, <1>7

LEMMA NodeLanded == ASSUME IInv, InOrder, OneOpen, Landed, Early, Node PROVE Landed'
<1>1. SUFFICES ASSUME Clean' PROVE cut' = "regrown" \/ Short' \/ AllMet'
  BY DEF Landed, AllMet
<1>2. Clean /\ UNCHANGED <<plan, unit, pc, regs>>
  BY <1>1, NodeHere
<1>3. cut = "regrown" \/ Short \/ AllMet
  BY <1>2 DEF Landed, AllMet
<1>4. CASE Opens /\ height' # height
  <2>1. cut = "none"
    BY <1>2, <1>4, OpensOnce
  <2>2. QED
    BY <1>2, <1>3, <1>4, <2>1, CutsShort
<1>5. CASE ~(Opens /\ height' # height)
  <2>1. DOMAIN mined \subseteq DOMAIN mined'
    BY <1>5, StaysInChain
  <2>2. AllMet => AllMet'
    BY <1>2, <2>1, NodeHere DEF AllMet, Met
  <2>3. \/ \E taken, n : Seals(taken, n)
        \/ UNCHANGED <<cut, height>>
    <3>1. height \in Nat
      BY DEF IInv, TypeOK
    <3>2. QED
      BY <1>5, <3>1, NodeHere DEF Rests, Opens
  <2>4. CASE UNCHANGED <<cut, height>>
    BY <1>2, <1>3, <2>2, <2>4 DEF Short
  <2>5. CASE \E taken, n : Seals(taken, n)
    <3>1. cut' = IF cut = "fresh" THEN "regrown" ELSE cut
      BY <2>5 DEF Seals
    <3>2. QED
      BY <1>2, <1>3, <2>2, <3>1 DEF Short
  <2>6. QED
    BY <2>3, <2>4, <2>5
<1>6. QED
  BY <1>4, <1>5

LEMMA NodeEarly == ASSUME IInv, InOrder, OneOpen, Early, Node PROVE Early'
<1>1. SUFFICES ASSUME InPersist, pc > 1, cut' = "none",
                      NEW u \in 1..Len(PlanOf[plan]), NEW j \in 1..Len(PlanOf[plan][u].body),
                      Item(u, j).op = "await", Past(u, j)
               PROVE  \E i \in Item(u, j).of \cap DOMAIN mined' : mined'[i].block <= regs["h1"]
  <2>1. InPersist' = InPersist
    BY NodeHere DEF InPersist
  <2>2. UNCHANGED <<plan, pc, regs>>
    BY NodeHere
  <2>3. \A u, j : Item(u, j)' = Item(u, j) /\ Past(u, j)' = Past(u, j)
    BY NodeHere
  <2>4. QED
    BY <2>1, <2>2, <2>3 DEF Early
<1>2. cut = "none" /\ (Opens => height' = height)
  <2>1. CASE \E taken, n : Seals(taken, n)
    <3>1. cut = "none"
      BY <1>1, <2>1 DEF Seals
    <3>2. PICK taken, n : Seals(taken, n)
      BY <2>1
    <3>3. height' = height + 1 /\ height \in Nat
      BY <3>2 DEF Seals, IInv, TypeOK
    <3>4. ~Opens
      BY <3>3 DEF Opens
    <3>5. QED
      BY <3>1, <3>4
  <2>2. CASE Rests
    BY <1>1, <2>2 DEF Rests
  <2>3. CASE Opens
    <3>1. height' \in 0..height /\ height \in Nat
      BY <2>3 DEF Opens, IInv, TypeOK
    <3>2. ~(height' < height)
      BY <1>1, <2>3 DEF Opens
    <3>3. height' = height
      BY <3>1, <3>2
    <3>4. QED
      BY <1>1, <2>3, <3>2, <3>3 DEF Opens
  <2>4. QED
    BY <2>1, <2>2, <2>3, NodeHere
<1>3. plan = "transactions"
  BY <1>1 DEF InPersist
<1>4. PICK i \in Item(u, j).of \cap DOMAIN mined : mined[i].block <= regs["h1"]
  BY <1>1, <1>2 DEF Early
<1>5. i \in DOMAIN mined' /\ mined'[i] = mined[i]
  BY <1>2, <1>3, <1>4, StaysInChain
<1>6. QED
  BY <1>4, <1>5

LEMMA NextLanded == ASSUME IInv, Landed, NextUnit PROVE Landed' /\ Early'
<1>1. /\ UNCHANGED <<plan, cut, mined>> /\ pc' = 1 /\ (Clean' => Clean)
      /\ unit \in 1..Len(PlanOf[plan]) /\ pc = Len(PlanOf[plan][unit].body) + 1
  BY NextHere DEF nodeVars, chainVars
<1>2. ~Short
  <2>1. SUFFICES ASSUME plan = "transactions", unit = 2 PROVE pc = 9
    BY DEF Short
  <2>2. PlanOf[plan][unit].body = b4_persist
    BY <2>1, TransactionsUnits DEF PlanOf
  <2>3. QED
    BY <1>1, <2>2, PersistItems
<1>3. AllMet => AllMet'
  BY <1>1, NextHere DEF AllMet, Met
<1>4. Landed'
  BY <1>1, <1>2, <1>3 DEF Landed, AllMet
<1>5. Early'
  BY <1>1 DEF Early
<1>6. QED
  BY <1>4, <1>5

-----------------------------------------------------------------------------
(* Together.                                                                *)

LEMMA InitLInv == ASSUME IInv, Init PROVE LInv
<1>1. Rivals("half", "c4", "n4") /\ Rivals("under", "c5", "n5")
  BY DEF Rivals
<1>2. Superseded("half", "c4", "n4") /\ Superseded("under", "c5", "n5")
  BY <1>1, InitSuperseded
<1>3. Heads
  <2>1. unit = 1
    BY DEF Init
  <2>2. QED
    BY <2>1 DEF Heads, InPersist
<1>4. QED
  BY <1>2, <1>3, InitInOrder, InitOneOpen, InitLanded, InitLowRefused, InitNeverSent DEF LInv

LEMMA RunsLInv == ASSUME IInv, LInv, Runs PROVE LInv'
<1>1. /\ InOrder /\ OneOpen /\ Heads /\ Landed /\ Early /\ LowRefused /\ NeverSent
      /\ Superseded("half", "c4", "n4") /\ Superseded("under", "c5", "n5")
  BY DEF LInv
<1>2. Rivals("half", "c4", "n4") /\ Rivals("under", "c5", "n5")
  BY DEF Rivals
<1>3. Superseded("half", "c4", "n4")' /\ Superseded("under", "c5", "n5")'
  BY <1>1, <1>2, RunsSuperseded
<1>4. InOrder' /\ OneOpen' /\ Heads' /\ Landed' /\ Early' /\ LowRefused' /\ NeverSent'
  BY <1>1, RunsInOrder, RunsOneOpen, RunsHeads, RunsLanded, RunsEarly, RunsLowRefused, RunsNeverSent
<1>5. QED
  BY <1>3, <1>4 DEF LInv

LEMMA NodeLInv == ASSUME IInv, IInv', LInv, Node PROVE LInv'
<1>1. /\ InOrder /\ OneOpen /\ Heads /\ Landed /\ Early /\ LowRefused /\ NeverSent
      /\ Superseded("half", "c4", "n4") /\ Superseded("under", "c5", "n5")
  BY DEF LInv
<1>2. Rivals("half", "c4", "n4") /\ Rivals("under", "c5", "n5")
  BY DEF Rivals
<1>3. Superseded("half", "c4", "n4")' /\ Superseded("under", "c5", "n5")'
  BY <1>1, <1>2, NodeSuperseded
<1>4. InOrder' /\ OneOpen' /\ Heads' /\ Landed' /\ Early' /\ LowRefused' /\ NeverSent'
  BY <1>1, NodeInOrder, NodeOneOpen, NodeHeads, NodeLanded, NodeEarly, NodeLowRefused, NodeNeverSent
<1>5. QED
  BY <1>3, <1>4 DEF LInv

LEMMA NextUnitLInv == ASSUME IInv, LInv, NextUnit PROVE LInv'
<1>1. /\ InOrder /\ OneOpen /\ Heads /\ Landed /\ Early /\ LowRefused /\ NeverSent
      /\ Superseded("half", "c4", "n4") /\ Superseded("under", "c5", "n5")
  BY DEF LInv
<1>2. Superseded("half", "c4", "n4")' /\ Superseded("under", "c5", "n5")'
  BY <1>1, NextSuperseded
<1>3. InOrder' /\ OneOpen' /\ Heads' /\ Landed' /\ Early' /\ LowRefused' /\ NeverSent'
  BY <1>1, NextInOrder, NextOneOpen, NextHeads, NextLanded, NextLowRefused, NextNeverSent
<1>4. QED
  BY <1>2, <1>3 DEF LInv

LEMMA SameLInv == ASSUME LInv, UNCHANGED vars PROVE LInv'
<1>1. UNCHANGED <<height, ledger, fee, moves, pool, mined, live, doomed, holder, cut,
                  plan, unit, pc, regs, failed, fail, pidFile, bridge, trouble>>
  BY DEF vars, nodeVars, chainVars, laneVars
<1>2. InOrder' /\ OneOpen' /\ Heads' /\ NeverSent'
  BY <1>1 DEF LInv, InOrder, OneOpen, Heads, NeverSent, Pooled, Clean, InPersist, Past, Item
<1>3. Landed' /\ Early'
  BY <1>1 DEF LInv, Landed, Early, Short, Met, Clean, InPersist, Past, Item
<1>4. LowRefused' /\ Superseded("half", "c4", "n4")' /\ Superseded("under", "c5", "n5")'
  BY <1>1 DEF LInv, LowRefused, Superseded, Finished, Pooled, NonceAt, MinedBy
<1>5. QED
  BY <1>2, <1>3, <1>4 DEF LInv

\* Every script sends each of its transactions once, in order; b4's chain is cut once at most and
\* shows it; a nonce that is taken takes no second transaction: with IInv these are inductive.
THEOREM LandedInductive == Spec => []LInv
<1>1. IInv /\ Init => LInv
  BY InitLInv
<1>2. IInv /\ IInv' /\ LInv /\ [Next]_vars => LInv'
  <2>1. SUFFICES ASSUME IInv, IInv', LInv, [Next]_vars PROVE LInv'
    OBVIOUS
  <2>2. Next => Runs \/ NextUnit \/ Node \/ Stop
    BY DEF Next, Script, Runs
  <2>3. Stop => UNCHANGED vars
    BY DEF Stop
  <2>4. QED
    BY <2>1, <2>2, <2>3, RunsLInv, NextUnitLInv, NodeLInv, SameLInv
<1>3. QED
  BY <1>1, <1>2, Inductive, PTL DEF Spec

\* Scripts that come out green (ScriptLane's GreenMeansLanded: chain_driver.py with b4_persist.py
\* and the contracts', predeploy_matrix.py, nonce_fee_boundaries.sh, l2_tx_scenarios.sh) have put
\* into the chain every transaction they mean to land, and none they mean to be refused: whatever
\* the base fees, whichever blocks the node seals and when, and whatever stands in the pool when
\* they begin; unless b4's restart lost blocks that had grown back in number when it looked.
THEOREM GreenIsLanded == Spec => []GreenMeansLanded
<1>1. IInv /\ LInv => GreenMeansLanded
  <2>1. SUFFICES ASSUME IInv, LInv, Green
                 PROVE  /\ Intended[plan] \subseteq DOMAIN mined \/ cut = "regrown"
                        /\ Never \cap DOMAIN mined = {}
    BY DEF GreenMeansLanded
  <2>2. Finished /\ ~fail /\ failed = {} /\ plan \in Plans
    BY <2>1 DEF Green, IInv, Shape
  <2>3. Landed /\ LowRefused /\ NeverSent /\ OneOpen
        /\ Superseded("half", "c4", "n4") /\ Superseded("under", "c5", "n5")
    BY <2>1 DEF LInv
  <2>4. \A u \in 1..Len(PlanOf[plan]) : \A j \in 1..Len(PlanOf[plan][u].body) : Past(u, j)
    <3>1. Len(PlanOf[plan]) \in Nat /\ unit \in Nat /\ unit > Len(PlanOf[plan])
      BY <2>1, <2>2, PlanHere DEF Finished
    <3>2. QED
      BY <3>1 DEF Past
  <2>5. ~Short
    <3>1. SUFFICES ASSUME plan = "transactions", unit = 2 PROVE FALSE
      BY DEF Short
    <3>2. Len(PlanOf[plan]) = 3
      BY <3>1, TransactionsUnits DEF PlanOf
    <3>3. QED
      BY <2>2, <3>1, <3>2 DEF Finished
  <2>6. cut # "regrown" => Intended[plan] \subseteq DOMAIN mined
    <3>1. SUFFICES ASSUME cut # "regrown", NEW id \in Intended[plan] PROVE id \in DOMAIN mined
      OBVIOUS
    <3>2. PICK u \in 1..Len(PlanOf[plan]) : \E j \in 1..Len(PlanOf[plan][u].body) :
            PlanOf[plan][u].body[j].op = "await" /\ PlanOf[plan][u].body[j].of = {id}
      BY <2>2, PlanData, Zenon DEF Awaits
    <3>3. PICK j \in 1..Len(PlanOf[plan][u].body) :
            Item(u, j).op = "await" /\ Item(u, j).of = {id}
      BY <3>2 DEF Item
    <3>4. Met(u, j)
      BY <2>2, <2>3, <2>4, <2>5, <3>1, <3>3 DEF Landed, Clean
    <3>5. QED
      BY <3>3, <3>4 DEF Met
  <2>7. CASE plan = "boundaries"
    <3>1. cut = "none" /\ {"c4", "c5"} \subseteq Intended[plan]
      BY <2>3, <2>7 DEF OneOpen, Intended
    <3>2. "c4" \in DOMAIN mined /\ "c5" \in DOMAIN mined
      BY <2>6, <3>1
    <3>3. "low" \notin DOMAIN mined
      BY <2>3, <2>7 DEF LowRefused
    <3>4. "half" \notin DOMAIN mined /\ "under" \notin DOMAIN mined
      BY <2>3, <2>7, <3>2 DEF Superseded
    <3>5. QED
      BY <2>6, <3>3, <3>4 DEF Never
  <2>8. CASE plan # "boundaries"
    BY <2>3, <2>6, <2>8 DEF NeverSent
  <2>9. QED
    BY <2>7, <2>8
<1>2. QED
  BY <1>1, Inductive, LandedInductive, PTL
-----------------------------------------------------------------------------
(* What is sent and what lands, while a script runs.                        *)

\* The nonce that the next block goes on from.
Front == NonceAt(height)

\* A pool holds what is sent in O, pairs of a transaction and its nonce, and what comes too
\* late; a chain that goes on from front has taken its nonces from lo on from O, each once.
Line(from, chain, front, O, lo) ==
  /\ lo <= front
  /\ \A t \in from : t.nonce < front \/ <<t.id, t.nonce>> \in O
  /\ \A o \in O : o[1] \in chain => lo <= o[2] /\ o[2] < front
  /\ \A o, p \in O : o[1] \in chain /\ p[1] \in chain /\ o[2] = p[2] => o = p
  /\ \A n \in lo..(front - 1) : \E o \in O : o[1] \in chain /\ o[2] = n
Queue(O, lo) == Line(pool, DOMAIN mined, Front, O, lo)

\* Nothing is sent that a block can still take.
Idle(n) == Queue({}, n)

\* What a block has not passed waits in the pool, and can pay.
Offered(from, front, price, id, n) ==
  n >= front => \E t \in from : t.id = id /\ t.nonce = n /\ t.cap >= price
Sure(id, n) == "fee" \in trouble \/ Offered(pool, Front, fee, id, n)
Ready(id, n) == Offered(pool, Front, Ample, id, n)

Quoted == regs["bf"] = fee \/ "fee" \in trouble
Got(S) == S \cap DOMAIN mined # {}
Noted(T) == T \cap trouble # {}

\* The pool has one transaction per nonce, of the scripts' or of an earlier run.
OnePerNonce == \A s, t \in pool : s.nonce = t.nonce => s = t
FromScript ==
  plan \in {"predeploys", "scenarios"} =>
    /\ Pooled \cap DOMAIN mined = {}
    /\ \A s, t \in pool : s.id = t.id => s = t
    /\ \A id \in (Pooled \cup DOMAIN mined) \ {"stray"} :
      \E j \in 1..Len(PlanOf[plan][1].body) :
        Past(1, j) /\ Item(1, j).op = "send" /\ Item(1, j).id = id
Strays == "stray" \in Pooled \cup DOMAIN mined => "stray" \in trouble
\* Nothing but a restart brings another process.
Alone == live \subseteq {holder}
Solitary ==
  plan \in {"predeploys", "boundaries", "scenarios"} \/ (plan = "transactions" /\ unit = 1) => Alone
Constants ==
  /\ regs["none"] = -1 /\ regs["zero"] = 0 /\ regs["one"] = 1
  /\ plan # "boundaries" => regs["n3"] = -1
  /\ ~bridge => "bridge" \in trouble

InUnit(p, u) == plan = p /\ unit = u /\ pc \in 1..Len(PlanOf[p][u].body)

\* predeploy_matrix.py and l2_tx_scenarios.sh send one transaction at a time, with the nonce read last.
Primed(s, p) ==
  \E q \in 1..(p - 1) : /\ s[q].op = "nonce"
                        /\ \A k \in q..(p - 1) : s[k].op # "send"
-----------------------------------------------------------------------------
(* The scripts, instruction by instruction.                                  *)

LEMMA DriverItems ==
  LET s == chain_driver IN
  /\ Len(s) = 19
  /\ s[1] = Nonce("bal0")
  /\ s[2] = Nonce("nonce0")
  /\ s[3] = BlockNumber("prev_head")
  /\ s[4] = Send("transfer0", "nonce0", 0, "gwei")
  /\ s[5] = Await("transfer0", 3)
  /\ s[6] = Field("transfer0", "index", "index")
  /\ s[7] = Check("index", "index", "=", "one", 0)
  /\ s[8] = Ask
  /\ s[9] = Send("transfer1", "nonce0", 1, "gwei")
  /\ s[10] = Await("transfer1", 3)
  /\ s[11] = Field("transfer1", "index", "index")
  /\ s[12] = Check("index", "index", "=", "one", 0)
  /\ s[13] = Ask
  /\ s[14] = Nonce("bal1")
  /\ s[15] = Nonce("nonce1")
  /\ s[16] = Check("nonce", "nonce1", "=", "nonce0", 2)
  /\ s[17] = [Check("balance", "bal1", "=", "bal0", 2) EXCEPT !.op = "spent"]
  /\ s[18] = BlockNumber("head")
  /\ s[19] = Check("head", "head", ">=", "prev_head", 0)
<1> DEFINE s == chain_driver
<1>1. Len(s) = 19
  BY DEF chain_driver, Driven, Balance
<1>2. /\ s[1] = Nonce("bal0")
      /\ s[2] = Nonce("nonce0")
      /\ s[3] = BlockNumber("prev_head")
      /\ s[4] = Send("transfer0", "nonce0", 0, "gwei")
      /\ s[5] = Await("transfer0", 3)
      /\ s[6] = Field("transfer0", "index", "index")
      /\ s[7] = Check("index", "index", "=", "one", 0)
  BY DEF chain_driver, Driven, Balance
<1>3. /\ s[8] = Ask
      /\ s[9] = Send("transfer1", "nonce0", 1, "gwei")
      /\ s[10] = Await("transfer1", 3)
      /\ s[11] = Field("transfer1", "index", "index")
      /\ s[12] = Check("index", "index", "=", "one", 0)
      /\ s[13] = Ask
      /\ s[14] = Nonce("bal1")
  BY DEF chain_driver, Driven, Balance
<1>4. /\ s[15] = Nonce("nonce1")
      /\ s[16] = Check("nonce", "nonce1", "=", "nonce0", 2)
      /\ s[17] = [Check("balance", "bal1", "=", "bal0", 2) EXCEPT !.op = "spent"]
      /\ s[18] = BlockNumber("head")
      /\ s[19] = Check("head", "head", ">=", "prev_head", 0)
  BY DEF chain_driver, Driven, Balance
<1> HIDE DEF s
<1>5. QED
  BY <1>1, <1>2, <1>3, <1>4 DEF s

LEMMA ContractsItems ==
  LET s == b3_contracts IN
  /\ Len(s) = 9
  /\ s[1] = Nonce("nonce")
  /\ s[2] = Send("store", "nonce", 0, "gwei")
  /\ s[3] = Await("store", 2)
  /\ s[4] = Count({"store"}, "code")
  /\ s[5] = Check("code", "code", "=", "one", 0)
  /\ s[6] = Send("revert", "nonce", 1, "gwei")
  /\ s[7] = Await("revert", 2)
  /\ s[8] = Count({"revert"}, "code")
  /\ s[9] = Check("code", "code", "=", "one", 0)
<1> DEFINE s == b3_contracts
<1>1. Len(s) = 9
  BY DEF b3_contracts, Deployed
<1>2. /\ s[1] = Nonce("nonce")
      /\ s[2] = Send("store", "nonce", 0, "gwei")
      /\ s[3] = Await("store", 2)
      /\ s[4] = Count({"store"}, "code")
      /\ s[5] = Check("code", "code", "=", "one", 0)
      /\ s[6] = Send("revert", "nonce", 1, "gwei")
      /\ s[7] = Await("revert", 2)
  BY DEF b3_contracts, Deployed
<1>3. /\ s[8] = Count({"revert"}, "code")
      /\ s[9] = Check("code", "code", "=", "one", 0)
  BY DEF b3_contracts, Deployed
<1> HIDE DEF s
<1>4. QED
  BY <1>1, <1>2, <1>3 DEF s

LEMMA ChainItems ==
  LET s == a2_chain IN
  /\ Len(s) = 5
  /\ s[1] = Ask
  /\ s[2] = Fee("gasPrice")
  /\ s[3] = Fee("baseFee")
  /\ s[4] = Check("gasPrice", "gasPrice", ">=", "baseFee", 0)
  /\ s[5] = Ask
BY DEF a2_chain

LEMMA BlocksItems ==
  LET s == a2_blocks IN
  /\ Len(s) = 13
  /\ s[1] = BlockNumber("num")
  /\ s[2] = Ask
  /\ s[3] = Tag("safe", SafeWindow)
  /\ s[4] = Check("pastGenesis", "safe", ">", "zero", 0)
  /\ s[5] = Check("behind", "safe", ">=", "num", -SafeWindow)
  /\ s[6] = Check("ahead", "safe", "<=", "num", 0)
  /\ s[7] = Tag("finalized", FinalizedWindow)
  /\ s[8] = Check("pastGenesis", "finalized", ">", "zero", 0)
  /\ s[9] = Check("behind", "finalized", ">=", "num", -FinalizedWindow)
  /\ s[10] = Check("ahead", "finalized", "<=", "num", 0)
  /\ s[11] = BlockNumber("pending")
  /\ s[12] = Check("pending", "pending", "=", "num", 0)
  /\ s[13] = Ask
<1> DEFINE s == a2_blocks
<1>1. Len(s) = 13
  BY DEF a2_blocks, Resolves
<1>2. /\ s[1] = BlockNumber("num")
      /\ s[2] = Ask
      /\ s[3] = Tag("safe", SafeWindow)
      /\ s[4] = Check("pastGenesis", "safe", ">", "zero", 0)
      /\ s[5] = Check("behind", "safe", ">=", "num", -SafeWindow)
      /\ s[6] = Check("ahead", "safe", "<=", "num", 0)
      /\ s[7] = Tag("finalized", FinalizedWindow)
  BY DEF a2_blocks, Resolves
<1>3. /\ s[8] = Check("pastGenesis", "finalized", ">", "zero", 0)
      /\ s[9] = Check("behind", "finalized", ">=", "num", -FinalizedWindow)
      /\ s[10] = Check("ahead", "finalized", "<=", "num", 0)
      /\ s[11] = BlockNumber("pending")
      /\ s[12] = Check("pending", "pending", "=", "num", 0)
      /\ s[13] = Ask
  BY DEF a2_blocks, Resolves
<1> HIDE DEF s
<1>4. QED
  BY <1>1, <1>2, <1>3 DEF s

LEMMA TableItems ==
  LET s == b1_table_consistency \o b2_header_chain IN
  /\ Len(s) = 5
  /\ s[1] = BlockNumber("number")
  /\ s[2] = CurrentNumber("cn")
  /\ s[3] = Check("currentNumber", "cn", ">=", "number", 0)
  /\ s[4] = BlockNumber("head")
  /\ s[5] = Ask
BY DEF b1_table_consistency, b2_header_chain

LEMMA PredeployItems ==
  LET s == predeploy_matrix IN
  /\ Len(s) = 52
  /\ s[1] = Ask
  /\ s[2] = SequenceNumber("seq0")
  /\ s[3] = SequenceNumber("seq1")
  /\ s[4] = [Check("sequence", "seq1", "=", "seq0", 1) EXCEPT !.op = "steps"]
  /\ s[5] = Nonce("nonce")
  /\ s[6] = Send("reject_caller", "nonce", 0, "gwei")
  /\ s[7] = Await("reject_caller", Raise)
  /\ s[8] = Nonce("nonce")
  /\ s[9] = Send("reject_length", "nonce", 0, "gwei")
  /\ s[10] = Await("reject_length", Raise)
  /\ s[11] = BlockNumber("head")
  /\ s[12] = Root("head", "root_before")
  /\ s[13] = Nonce("nonce")
  /\ s[14] = Send("withdrawal", "nonce", 0, "gwei")
  /\ s[15] = Await("withdrawal", Raise)
  /\ s[16] = Count({"withdrawal"}, "sm")
  /\ s[17] = Check("sentMessages", "sm", "=", "one", 0)
  /\ s[18] = Field("withdrawal", "block", "n")
  /\ s[19] = Root("n", "root_at")
  /\ s[20] = Check("rootChanges", "root_at", ">", "root_before", 0)
  /\ s[21] = Count({"withdrawal"}, "sv")
  /\ s[22] = Check("slot", "sv", "=", "one", 0)
  /\ s[23] = LaterBlock("n", "later")
  /\ s[24] = Root("later", "stable_root")
  /\ s[25] = Check("rootStable", "stable_root", "=", "root_at", 0)
  /\ s[26] = Ask
  /\ s[27] = Nonce("nonce")
  /\ s[28] = Count({"message"}, "nonce0")
  /\ s[29] = Send("message", "nonce", 0, "gwei")
  /\ s[30] = Await("message", Raise)
  /\ s[31] = Nonce("nonce")
  /\ s[32] = Count({"message"}, "nonce1")
  /\ s[33] = Check("messageNonce", "nonce1", "=", "nonce0", 1)
  /\ s[34] = Nonce("nonce")
  /\ s[35] = Send("token", "nonce", 0, "gwei")
  /\ s[36] = Await("token", Raise)
  /\ s[37] = Count({"deposit"}, "bal0")
  /\ s[38] = Nonce("nonce")
  /\ s[39] = Send("deposit", "nonce", 0, "gwei")
  /\ s[40] = Await("deposit", Raise)
  /\ s[41] = Count({"deposit"}, "bal1")
  /\ s[42] = Check("mint", "bal1", "=", "bal0", 1)
  /\ s[43] = Count({"withdraw"}, "bal2")
  /\ s[44] = Nonce("nonce")
  /\ s[45] = Send("withdraw", "nonce", 0, "gwei")
  /\ s[46] = Await("withdraw", Raise)
  /\ s[47] = Count({"withdraw"}, "bal3")
  /\ s[48] = Check("burn", "bal3", "=", "bal2", 1)
  /\ s[49] = Ask
  /\ s[50] = Nonce("nonce")
  /\ s[51] = Send("setValue", "nonce", 0, "gwei")
  /\ s[52] = Await("setValue", Raise)
<1> DEFINE s == predeploy_matrix
<1>1. Len(s) = 52
  BY DEF predeploy_matrix, L1BlockGroup, MessagePasserGroup, MessengerGroup, BridgeGroup, SystemConfigGroup, Bridged, Unverified, Sent
<1>2. /\ s[1] = Ask
      /\ s[2] = SequenceNumber("seq0")
      /\ s[3] = SequenceNumber("seq1")
      /\ s[4] = [Check("sequence", "seq1", "=", "seq0", 1) EXCEPT !.op = "steps"]
      /\ s[5] = Nonce("nonce")
      /\ s[6] = Send("reject_caller", "nonce", 0, "gwei")
      /\ s[7] = Await("reject_caller", Raise)
  BY DEF predeploy_matrix, L1BlockGroup, MessagePasserGroup, MessengerGroup, BridgeGroup, SystemConfigGroup, Bridged, Unverified, Sent
<1>3. /\ s[8] = Nonce("nonce")
      /\ s[9] = Send("reject_length", "nonce", 0, "gwei")
      /\ s[10] = Await("reject_length", Raise)
      /\ s[11] = BlockNumber("head")
      /\ s[12] = Root("head", "root_before")
      /\ s[13] = Nonce("nonce")
      /\ s[14] = Send("withdrawal", "nonce", 0, "gwei")
  BY DEF predeploy_matrix, L1BlockGroup, MessagePasserGroup, MessengerGroup, BridgeGroup, SystemConfigGroup, Bridged, Unverified, Sent
<1>4. /\ s[15] = Await("withdrawal", Raise)
      /\ s[16] = Count({"withdrawal"}, "sm")
      /\ s[17] = Check("sentMessages", "sm", "=", "one", 0)
      /\ s[18] = Field("withdrawal", "block", "n")
      /\ s[19] = Root("n", "root_at")
      /\ s[20] = Check("rootChanges", "root_at", ">", "root_before", 0)
      /\ s[21] = Count({"withdrawal"}, "sv")
  BY DEF predeploy_matrix, L1BlockGroup, MessagePasserGroup, MessengerGroup, BridgeGroup, SystemConfigGroup, Bridged, Unverified, Sent
<1>5. /\ s[22] = Check("slot", "sv", "=", "one", 0)
      /\ s[23] = LaterBlock("n", "later")
      /\ s[24] = Root("later", "stable_root")
      /\ s[25] = Check("rootStable", "stable_root", "=", "root_at", 0)
      /\ s[26] = Ask
      /\ s[27] = Nonce("nonce")
      /\ s[28] = Count({"message"}, "nonce0")
  BY DEF predeploy_matrix, L1BlockGroup, MessagePasserGroup, MessengerGroup, BridgeGroup, SystemConfigGroup, Bridged, Unverified, Sent
<1>6. /\ s[29] = Send("message", "nonce", 0, "gwei")
      /\ s[30] = Await("message", Raise)
      /\ s[31] = Nonce("nonce")
      /\ s[32] = Count({"message"}, "nonce1")
      /\ s[33] = Check("messageNonce", "nonce1", "=", "nonce0", 1)
      /\ s[34] = Nonce("nonce")
      /\ s[35] = Send("token", "nonce", 0, "gwei")
  BY DEF predeploy_matrix, L1BlockGroup, MessagePasserGroup, MessengerGroup, BridgeGroup, SystemConfigGroup, Bridged, Unverified, Sent
<1>7. /\ s[36] = Await("token", Raise)
      /\ s[37] = Count({"deposit"}, "bal0")
      /\ s[38] = Nonce("nonce")
      /\ s[39] = Send("deposit", "nonce", 0, "gwei")
      /\ s[40] = Await("deposit", Raise)
      /\ s[41] = Count({"deposit"}, "bal1")
      /\ s[42] = Check("mint", "bal1", "=", "bal0", 1)
  BY DEF predeploy_matrix, L1BlockGroup, MessagePasserGroup, MessengerGroup, BridgeGroup, SystemConfigGroup, Bridged, Unverified, Sent
<1>8. /\ s[43] = Count({"withdraw"}, "bal2")
      /\ s[44] = Nonce("nonce")
      /\ s[45] = Send("withdraw", "nonce", 0, "gwei")
      /\ s[46] = Await("withdraw", Raise)
      /\ s[47] = Count({"withdraw"}, "bal3")
      /\ s[48] = Check("burn", "bal3", "=", "bal2", 1)
      /\ s[49] = Ask
  BY DEF predeploy_matrix, L1BlockGroup, MessagePasserGroup, MessengerGroup, BridgeGroup, SystemConfigGroup, Bridged, Unverified, Sent
<1>9. /\ s[50] = Nonce("nonce")
      /\ s[51] = Send("setValue", "nonce", 0, "gwei")
      /\ s[52] = Await("setValue", Raise)
  BY DEF predeploy_matrix, L1BlockGroup, MessagePasserGroup, MessengerGroup, BridgeGroup, SystemConfigGroup, Bridged, Unverified, Sent
<1> HIDE DEF s
<1>10. QED
  BY <1>1, <1>2, <1>3, <1>4, <1>5, <1>6, <1>7, <1>8, <1>9 DEF s

LEMMA ScenarioItems ==
  LET s == l2_tx_scenarios IN
  /\ Len(s) = 20
  /\ s[1] = Nonce("nonce")
  /\ s[2] = Send("create", "nonce", 0, "quoted")
  /\ s[3] = Await("create", Raise)
  /\ s[4] = Count({"create"}, "code")
  /\ s[5] = Check("code", "code", "=", "one", 0)
  /\ s[6] = Nonce("nonce")
  /\ s[7] = Send("inc1", "nonce", 0, "quoted")
  /\ s[8] = Await("inc1", Raise)
  /\ s[9] = Count({"inc1", "inc2"}, "counter1")
  /\ s[10] = Nonce("nonce")
  /\ s[11] = Send("inc2", "nonce", 0, "quoted")
  /\ s[12] = Await("inc2", Raise)
  /\ s[13] = Count({"inc1", "inc2"}, "counter2")
  /\ s[14] = Check("counter", "counter1", "=", "one", 0)
  /\ s[15] = Check("counter", "counter2", "=", "one", 1)
  /\ s[16] = Nonce("nonce")
  /\ s[17] = Send("boom", "nonce", 0, "quoted")
  /\ s[18] = Await("boom", Raise)
  /\ s[19] = Count({"inc1", "inc2"}, "counter3")
  /\ s[20] = Check("counter", "counter3", "=", "one", 1)
<1> DEFINE s == l2_tx_scenarios
<1>1. Len(s) = 20
  BY DEF l2_tx_scenarios, Cast, Counter
<1>2. /\ s[1] = Nonce("nonce")
      /\ s[2] = Send("create", "nonce", 0, "quoted")
      /\ s[3] = Await("create", Raise)
      /\ s[4] = Count({"create"}, "code")
      /\ s[5] = Check("code", "code", "=", "one", 0)
      /\ s[6] = Nonce("nonce")
      /\ s[7] = Send("inc1", "nonce", 0, "quoted")
  BY DEF l2_tx_scenarios, Cast, Counter
<1>3. /\ s[8] = Await("inc1", Raise)
      /\ s[9] = Count({"inc1", "inc2"}, "counter1")
      /\ s[10] = Nonce("nonce")
      /\ s[11] = Send("inc2", "nonce", 0, "quoted")
      /\ s[12] = Await("inc2", Raise)
      /\ s[13] = Count({"inc1", "inc2"}, "counter2")
      /\ s[14] = Check("counter", "counter1", "=", "one", 0)
  BY DEF l2_tx_scenarios, Cast, Counter
<1>4. /\ s[15] = Check("counter", "counter2", "=", "one", 1)
      /\ s[16] = Nonce("nonce")
      /\ s[17] = Send("boom", "nonce", 0, "quoted")
      /\ s[18] = Await("boom", Raise)
      /\ s[19] = Count({"inc1", "inc2"}, "counter3")
      /\ s[20] = Check("counter", "counter3", "=", "one", 1)
  BY DEF l2_tx_scenarios, Cast, Counter
<1> HIDE DEF s
<1>5. QED
  BY <1>1, <1>2, <1>3, <1>4 DEF s

LEMMA BoundariesItems ==
  LET s == nonce_fee_boundaries IN
  /\ Len(s) = 59
  /\ s[1] = Fee("bf")
  /\ s[2] = Advance("none", "n0")
  /\ s[3] = Send("c0", "n0", 0, "quoted")
  /\ s[4] = Await("c0", Raise)
  /\ s[5] = Advance("n0", "n1")
  /\ s[6] = Send("gap", "n1", 2, "quoted")
  /\ s[7] = Absent("gap")
  /\ s[8] = Send("first", "n1", 0, "quoted")
  /\ s[9] = Send("second", "n1", 1, "quoted")
  /\ s[10] = Await("first", Raise)
  /\ s[11] = Await("second", Raise)
  /\ s[12] = Await("gap", Raise)
  /\ s[13] = [op |-> "order", of |-> <<"first", "second", "gap">>]
  /\ s[14] = Advance("n1", "n2")
  /\ s[15] = Send("twin1", "n2", 0, "quoted")
  /\ s[16] = Send("twin2", "n2", 0, "quoted")
  /\ s[17] = AwaitOne({"twin1", "twin2"})
  /\ s[18] = [op |-> "one", of |-> {"twin1", "twin2"}]
  /\ s[19] = Advance("n2", "n3")
  /\ s[20] = Send("low", "n3", -1, "quoted")
  /\ s[21] = Absent("low")
  /\ s[22] = Send("c3", "n3", 0, "quoted")
  /\ s[23] = Await("c3", Raise)
  /\ s[24] = Fee("bf")
  /\ s[25] = Advance("n3", "n4")
  /\ s[26] = Send("half", "n4", 0, "half")
  /\ s[27] = Absent("half")
  /\ s[28] = Send("c4", "n4", 0, "quoted")
  /\ s[29] = Await("c4", Raise)
  /\ s[30] = Fee("bf")
  /\ s[31] = Advance("n4", "n5")
  /\ s[32] = Send("under", "n5", 0, "under")
  /\ s[33] = Absent("under")
  /\ s[34] = Send("c5", "n5", 0, "quoted")
  /\ s[35] = Await("c5", Raise)
  /\ s[36] = Fee("bf")
  /\ s[37] = Advance("n5", "n6")
  /\ s[38] = Send("exact", "n6", 0, "exact")
  /\ s[39] = Await("exact", Raise)
  /\ s[40] = Field("exact", "price", "effective")
  /\ s[41] = [op |-> "price", of |-> "exact", name |-> "exact"]
  /\ s[42] = Fee("bf")
  /\ s[43] = Advance("n6", "n7")
  /\ s[44] = Send("legacy", "n7", 0, "legacy")
  /\ s[45] = Await("legacy", Raise)
  /\ s[46] = Field("legacy", "price", "effective")
  /\ s[47] = [op |-> "price", of |-> "legacy", name |-> "legacy"]
  /\ s[48] = Fee("bf")
  /\ s[49] = Advance("n7", "n8")
  /\ s[50] = Send("double", "n8", 0, "double")
  /\ s[51] = Await("double", Raise)
  /\ s[52] = Field("double", "price", "effective")
  /\ s[53] = [op |-> "price", of |-> "double", name |-> "double"]
  /\ s[54] = Fee("bf")
  /\ s[55] = Advance("n8", "n9")
  /\ s[56] = Send("tipped", "n9", 0, "tipped")
  /\ s[57] = Await("tipped", Raise)
  /\ s[58] = Field("tipped", "price", "effective")
  /\ s[59] = [op |-> "price", of |-> "tipped", name |-> "tipped"]
<1> DEFINE s == nonce_fee_boundaries
<1>1. Len(s) = 59
  BY DEF nonce_fee_boundaries, Section0, Section1, Section2, Section3, Evicted, Charged
<1>2. /\ s[1] = Fee("bf")
      /\ s[2] = Advance("none", "n0")
      /\ s[3] = Send("c0", "n0", 0, "quoted")
      /\ s[4] = Await("c0", Raise)
      /\ s[5] = Advance("n0", "n1")
      /\ s[6] = Send("gap", "n1", 2, "quoted")
      /\ s[7] = Absent("gap")
  BY DEF nonce_fee_boundaries, Section0, Section1, Section2, Section3, Evicted, Charged
<1>3. /\ s[8] = Send("first", "n1", 0, "quoted")
      /\ s[9] = Send("second", "n1", 1, "quoted")
      /\ s[10] = Await("first", Raise)
      /\ s[11] = Await("second", Raise)
      /\ s[12] = Await("gap", Raise)
      /\ s[13] = [op |-> "order", of |-> <<"first", "second", "gap">>]
      /\ s[14] = Advance("n1", "n2")
  BY DEF nonce_fee_boundaries, Section0, Section1, Section2, Section3, Evicted, Charged
<1>4. /\ s[15] = Send("twin1", "n2", 0, "quoted")
      /\ s[16] = Send("twin2", "n2", 0, "quoted")
      /\ s[17] = AwaitOne({"twin1", "twin2"})
      /\ s[18] = [op |-> "one", of |-> {"twin1", "twin2"}]
      /\ s[19] = Advance("n2", "n3")
      /\ s[20] = Send("low", "n3", -1, "quoted")
      /\ s[21] = Absent("low")
  BY DEF nonce_fee_boundaries, Section0, Section1, Section2, Section3, Evicted, Charged
<1>5. /\ s[22] = Send("c3", "n3", 0, "quoted")
      /\ s[23] = Await("c3", Raise)
      /\ s[24] = Fee("bf")
      /\ s[25] = Advance("n3", "n4")
      /\ s[26] = Send("half", "n4", 0, "half")
      /\ s[27] = Absent("half")
      /\ s[28] = Send("c4", "n4", 0, "quoted")
  BY DEF nonce_fee_boundaries, Section0, Section1, Section2, Section3, Evicted, Charged
<1>6. /\ s[29] = Await("c4", Raise)
      /\ s[30] = Fee("bf")
      /\ s[31] = Advance("n4", "n5")
      /\ s[32] = Send("under", "n5", 0, "under")
      /\ s[33] = Absent("under")
      /\ s[34] = Send("c5", "n5", 0, "quoted")
      /\ s[35] = Await("c5", Raise)
  BY DEF nonce_fee_boundaries, Section0, Section1, Section2, Section3, Evicted, Charged
<1>7. /\ s[36] = Fee("bf")
      /\ s[37] = Advance("n5", "n6")
      /\ s[38] = Send("exact", "n6", 0, "exact")
      /\ s[39] = Await("exact", Raise)
      /\ s[40] = Field("exact", "price", "effective")
      /\ s[41] = [op |-> "price", of |-> "exact", name |-> "exact"]
      /\ s[42] = Fee("bf")
  BY DEF nonce_fee_boundaries, Section0, Section1, Section2, Section3, Evicted, Charged
<1>8. /\ s[43] = Advance("n6", "n7")
      /\ s[44] = Send("legacy", "n7", 0, "legacy")
      /\ s[45] = Await("legacy", Raise)
      /\ s[46] = Field("legacy", "price", "effective")
      /\ s[47] = [op |-> "price", of |-> "legacy", name |-> "legacy"]
      /\ s[48] = Fee("bf")
      /\ s[49] = Advance("n7", "n8")
  BY DEF nonce_fee_boundaries, Section0, Section1, Section2, Section3, Evicted, Charged
<1>9. /\ s[50] = Send("double", "n8", 0, "double")
      /\ s[51] = Await("double", Raise)
      /\ s[52] = Field("double", "price", "effective")
      /\ s[53] = [op |-> "price", of |-> "double", name |-> "double"]
      /\ s[54] = Fee("bf")
      /\ s[55] = Advance("n8", "n9")
      /\ s[56] = Send("tipped", "n9", 0, "tipped")
  BY DEF nonce_fee_boundaries, Section0, Section1, Section2, Section3, Evicted, Charged
<1>10. /\ s[57] = Await("tipped", Raise)
      /\ s[58] = Field("tipped", "price", "effective")
      /\ s[59] = [op |-> "price", of |-> "tipped", name |-> "tipped"]
  BY DEF nonce_fee_boundaries, Section0, Section1, Section2, Section3, Evicted, Charged
<1> HIDE DEF s
<1>11. QED
  BY <1>1, <1>2, <1>3, <1>4, <1>5, <1>6, <1>7, <1>8, <1>9, <1>10 DEF s
-----------------------------------------------------------------------------
(* What a step of a script does, by its instruction.                         *)

\* The value it reads, as the chain has it or as a lagging state shows it.
Value(v) ==
  /\ Ins.op \in {"head", "table", "retry", "later"} => v = height
  /\ Ins.op = "fee" => v = fee
  /\ Ins.op = "field" => v = mined[Ins.of][Ins.what]
  /\ Ins.op = "root" => v = IF regs[Ins.at] = -1 THEN -1 ELSE PasserRoot(regs[Ins.at])
  /\ Ins.op = "tag" =>
       /\ v \in -1..height
       /\ v <= 0 => "unsafe" \in trouble'
       /\ v < height - Ins.window => "behind" \in trouble'
  /\ Ins.op = "seq" => v = 0 \/ "written" \in trouble'
  /\ Ins.op \in {"count", "nonce", "advance"} =>
       v = Latest(ledger) /\ (v = Latest(height) \/ "lag" \in trouble')
  /\ Ins.op \in {"advance", "later"} => v > regs[Ins.past]

Reads ==
  \/ \E v \in Int : regs' = [regs EXCEPT ![Ins.into] = v] /\ Value(v)
  \/ Ins.op = "later" /\ ~(height > regs[Ins.past]) /\ "idle" \in trouble' /\ UNCHANGED regs

Sends ==
  LET p == Priced(Ins.price, regs["bf"]) IN
  \E t \in Tx : /\ t = [id |-> Ins.id, nonce |-> NonceOf(Ins), cap |-> p.cap, tip |-> p.tip]
                /\ Admit(t)

Raises == pc' = End /\ UNCHANGED <<regs, pool>>
Skipped ==
  /\ Skips /\ ~Found /\ holder # 0 /\ UNCHANGED <<regs, pool>>
  /\ "late" \in trouble' \/ \A i \in Ins.of : ~Sealable(i)
Passes ==
  /\ pc' = pc + 1
  /\ Ins.op \in Calls \cup {"retry"} => holder # 0
  /\ Ins.op = "await" => Found
  /\ IF Ins.op \in Readers THEN Reads ELSE UNCHANGED regs
  /\ IF Ins.op = "send" THEN Sends ELSE UNCHANGED pool

\* Why a check has just turned red.
Cause(c) ==
  \/ c = "raised" /\ {"down", "b3a"} \cap trouble' # {}
  \/ c = "backUp" /\ "down" \in trouble'
  \/ /\ c = "receipt" /\ Ins.op = "await" /\ ~Found
     /\ "late" \in trouble' \/ \A i \in Ins.of : ~Sealable(i)
  \/ /\ c = "stall" /\ Ins.op = "advance" /\ ~(NonceAt(ledger) > regs[Ins.past])
     /\ NonceAt(ledger) = Front \/ "lag" \in trouble'
  \/ c = "absent" /\ Ins.op = "absent" /\ Ins.of \in DOMAIN mined
  \/ Ins.op = "check" /\ c = Ins.name /\ ~Holds(Ins)
  \/ /\ Ins.op = "steps" /\ c = Ins.name
     /\ ~(regs[Ins.left] = 0 /\ regs[Ins.right] = 0)
  \/ Ins.op = "spent" /\ c = Ins.name /\ ~(Holds(Ins) /\ "receipt" \notin failed)
  \/ /\ Ins.op = "order" /\ c = "order"
     /\ ~(Before(Ins.of[1], Ins.of[2]) /\ Before(Ins.of[2], Ins.of[3]))
  \/ Ins.op = "one" /\ c = "one" /\ ~(\E i \in Ins.of : Ins.of \cap DOMAIN mined = {i})
  \/ Ins.op = "price" /\ c = "price" /\ regs["effective"] # Expected(Ins.of, regs["bf"])

Effect ==
  /\ Raises \/ Skipped \/ Passes
  /\ failed \subseteq failed' /\ \A c \in failed' \ failed : Cause(c)
  /\ Running.exits /\ pc' # End => failed' = failed

\* One that sets its register.
LEMMA IntoEffect ==
  ASSUME IInv, At({Ins.op}), Ins.op \in Readers, holder # 0 \/ Ins.op = "table", NEW v \in Int, NEW ts \in SUBSET Troubles,
         Into(v, ts), Value(v), UNCHANGED pool
  PROVE  Effect
<1>1. ~Finished /\ pc # End
  BY Current
<1>2. regs' = [regs EXCEPT ![Ins.into] = v] /\ GoTo(pc + 1, ts, {})
  BY DEF Into
<1>3. pc' = pc + 1 /\ failed' = failed
  BY <1>1, <1>2 DEF GoTo
<1>4. Reads
  BY <1>2 DEF Reads
<1>5. Ins.op \notin {"await", "send"} /\ (Ins.op \in Calls \cup {"retry"} => holder # 0)
  BY DEF Readers, Calls
<1>6. Passes
  BY <1>3, <1>4, <1>5 DEF Passes
<1>7. QED
  BY <1>3, <1>6 DEF Effect

\* One that goes on, and may turn a check red.
LEMMA PassEffect ==
  ASSUME IInv, At({Ins.op}), Ins.op \notin Readers \cup {"send"}, Ins.op \in Calls => holder # 0,
         Ins.op = "await" => Found,
         NEW ts \in SUBSET Troubles, NEW fs, Pass(ts, fs), \A c \in fs : Cause(c), UNCHANGED pool
  PROVE  Effect
<1>1. ~Finished /\ pc # End
  BY Current
<1>2. UNCHANGED regs /\ GoTo(pc + 1, ts, fs)
  BY DEF Pass
<1>3. failed' = failed \cup fs /\ (pc' = pc + 1 \/ (pc' = End /\ fs # {}))
      /\ (fs # {} /\ Running.exits => pc' = End)
  BY <1>2 DEF GoTo
<1>4. Ins.op # "retry"
  BY DEF Readers
<1>5. pc' = pc + 1 => Passes
  BY <1>2, <1>4 DEF Passes
<1>6. pc' = End => Raises
  BY <1>2 DEF Raises
<1>7. QED
  BY <1>3, <1>5, <1>6 DEF Effect

\* One that ends the unit.
LEMMA LeaveEffect ==
  ASSUME IInv, ~Finished, pc # End, NEW ts, NEW fs, Leave(ts, fs), \A c \in fs : Cause(c), UNCHANGED pool
  PROVE  Effect
<1>1. UNCHANGED regs /\ GoTo(End, ts, fs)
  BY DEF Leave
<1>2. failed' = failed \cup fs /\ pc' = End
  BY <1>1 DEF GoTo
<1>3. Raises
  BY <1>1, <1>2 DEF Raises
<1>4. QED
  BY <1>2, <1>3 DEF Effect

LEMMA RaisedEffect == ASSUME IInv, Raised PROVE Effect
<1>1. At(Calls) /\ Leave({"down"}, {"raised"}) /\ UNCHANGED pool
  BY DEF Raised, nodeVars, chainVars
<1>2. ~Finished /\ pc # End
  BY <1>1, Current
<1>3. "down" \in trouble'
  BY <1>1 DEF Leave, GoTo
<1>4. Cause("raised")
  BY <1>3 DEF Cause
<1>5. QED
  BY <1>1, <1>2, <1>4, LeaveEffect

LEMMA ReadBlockEffect == ASSUME IInv, ReadBlock PROVE Effect
<1>1. /\ At({"ask", "head", "fee", "root", "field", "table"}) /\ UNCHANGED pool
      /\ {} \in SUBSET Troubles
  BY DEF ReadBlock, Answering, At, nodeVars, chainVars
<1>2. /\ Ins.op \in {"ask", "head", "fee", "root", "field", "table"} /\ At({Ins.op})
      /\ WellFormed(Ins)
  BY <1>1, Current DEF At
<1>3. holder # 0 \/ Ins.op = "table"
  BY DEF ReadBlock, Answering, At
<1>4. CASE Ins.op = "ask"
  <2>1. Pass({}, {}) /\ Ins.op \notin Readers \cup {"send", "await"}
    BY <1>4 DEF ReadBlock, Readers
  <2>2. QED
    BY <1>1, <1>2, <1>4, <1>3, <2>1, PassEffect
<1>5. CASE Ins.op # "ask"
  <2>1. PICK v : Into(v, {}) /\ Value(v)
    <3>1. CASE Ins.op \in {"head", "table"}
      <4>1. Into(height, {})
        BY <3>1 DEF ReadBlock
      <4>2. Value(height)
        BY <3>1 DEF Value
      <4>3. QED
        BY <4>1, <4>2
    <3>2. CASE Ins.op = "fee"
      BY <3>2 DEF ReadBlock, Value
    <3>3. CASE Ins.op = "root"
      BY <3>3 DEF ReadBlock, Value
    <3>4. CASE Ins.op = "field"
      BY <3>4 DEF ReadBlock, Value
    <3>5. QED
      BY <1>2, <1>5, <3>1, <3>2, <3>3, <3>4
  <2>2. v \in Int
    <3>1. regs' = [regs EXCEPT ![Ins.into] = v] /\ regs' \in [Regs -> Int] /\ Ins.into \in Regs
          /\ regs \in [Regs -> Int]
      <4>1. regs' \in [Regs -> Int]
        BY ReadBlockSteps DEF Steps, Sets
      <4>2. regs' = [regs EXCEPT ![Ins.into] = v]
        BY <2>1 DEF Into
      <4>3. Ins.into \in Regs
        BY <1>2, <1>5 DEF WellFormed, Readers, Regs
      <4>4. QED
        BY <4>1, <4>2, <4>3 DEF IInv, TypeOK
    <3>2. regs'[Ins.into] = v
      BY <3>1
    <3>3. QED
      BY <3>1, <3>2
  <2>3. Ins.op \in Readers
    BY <1>2, <1>5 DEF Readers
  <2>4. QED
    BY <1>1, <1>2, <1>3, <2>1, <2>2, <2>3, IntoEffect
<1>6. QED
  BY <1>4, <1>5

LEMMA ReadTagEffect == ASSUME IInv, ReadTag PROVE Effect
<1>1. At({"tag"}) /\ holder # 0 /\ UNCHANGED pool
  BY DEF ReadTag, Answering, nodeVars, chainVars
<1>2. PICK b \in -1..height :
        Into(b, {t \in {"unsafe", "behind"} : IF t = "unsafe" THEN b <= 0
                                              ELSE b < height - Ins.window})
  BY DEF ReadTag
<1>3. PICK ts \in SUBSET Troubles :
        /\ Into(b, ts)
        /\ b <= 0 => "unsafe" \in ts
        /\ b < height - Ins.window => "behind" \in ts
  BY <1>2 DEF Troubles
<1>4. Ins.op = "tag" /\ Ins.op \in Readers /\ b \in Int
  BY <1>1, Current DEF Readers, IInv, TypeOK
<1>5. /\ b <= 0 => "unsafe" \in trouble'
      /\ b < height - Ins.window => "behind" \in trouble'
  BY <1>3 DEF Into, GoTo
<1>6. Value(b)
  BY <1>4, <1>5 DEF Value
<1>7. QED
  BY <1>1, <1>3, <1>4, <1>6, IntoEffect

LEMMA ReadStateEffect == ASSUME IInv, ReadState PROVE Effect
<1>1. /\ At({"count", "nonce", "seq"}) /\ holder # 0 /\ UNCHANGED pool
      /\ Into(Latest(ledger), Lag \cup Written)
  BY DEF ReadState, Answering, nodeVars, chainVars
<1>2. Ins.op \in {"count", "nonce", "seq"} /\ Ins.op \in Readers /\ At({Ins.op})
  BY <1>1, Current DEF Readers, At
<1>3. Latest(ledger) \in Int /\ Lag \cup Written \in SUBSET Troubles
  BY LatestLemma DEF Lag, Written, Troubles
<1>4. Latest(ledger) = Latest(height) \/ "lag" \in trouble'
  BY <1>1 DEF Into, GoTo, Lag
<1>5. Ins.op = "seq" => Latest(ledger) = 0 \/ "written" \in trouble'
  BY <1>1 DEF Into, GoTo, Written, Latest
<1>6. Value(Latest(ledger))
  BY <1>2, <1>4, <1>5 DEF Value
<1>7. QED
  BY <1>1, <1>2, <1>3, <1>6, IntoEffect

LEMMA SendEffect == ASSUME IInv, SendTx PROVE Effect
<1> DEFINE p == Priced(Ins.price, regs["bf"])
           t == [id |-> Ins.id, nonce |-> NonceOf(Ins), cap |-> p.cap, tip |-> p.tip]
<1>1. At({"send"}) /\ holder # 0 /\ UNCHANGED regs /\ Admit(t) /\ Pass({}, {})
  BY DEF SendTx, Answering, Pass
<1>2. Ins.op = "send" /\ Ins.op \notin Readers
  BY <1>1, Current DEF Readers
<1>3. t \in pool'
  BY <1>1 DEF Admit
<1>4. t \in Tx
  BY <1>3, SendSteps
<1>5. Sends
  BY <1>1, <1>4 DEF Sends
<1>6. pc' = pc + 1 /\ failed' = failed
  BY <1>1 DEF Pass, GoTo
<1>7. Passes
  BY <1>1, <1>2, <1>5, <1>6 DEF Passes
<1>8. QED
  BY <1>6, <1>7 DEF Effect

LEMMA ReceiptEffect == ASSUME IInv, SeeReceipt PROVE Effect
<1>1. At({"await"}) /\ holder # 0 /\ UNCHANGED pool /\ Found /\ Pass({}, {}) /\ {} \in SUBSET Troubles
  BY DEF SeeReceipt, Answering, nodeVars, chainVars
<1>2. Ins.op = "await" /\ Ins.op \notin Readers \cup {"send"}
  BY <1>1, Current DEF Readers
<1>3. QED
  BY <1>1, <1>2, PassEffect

LEMMA RunOutEffect == ASSUME IInv, RunOut PROVE Effect
<1> DEFINE late == \E i \in Ins.of : Sealable(i)
<1>1. /\ At({"await"}) /\ holder # 0 /\ UNCHANGED <<regs, pool>> /\ ~Found
      /\ GoTo(IF Ins.timeout = Raise THEN End ELSE pc + 1 + Ins.timeout,
              IF late THEN {"late"} ELSE {}, {"receipt"})
  BY DEF RunOut, Answering, nodeVars, chainVars
<1>2. Ins.op = "await"
  BY <1>1, Current
<1>3. "late" \in trouble' \/ \A i \in Ins.of : ~Sealable(i)
  BY <1>1 DEF GoTo
<1>4. Cause("receipt")
  BY <1>1, <1>2, <1>3 DEF Cause
<1> HIDE DEF late
<1>5. failed' = failed \cup {"receipt"} /\ (Running.exits => pc' = End)
  BY <1>1 DEF GoTo
<1>6. pc' = End \/ (Ins.timeout # Raise /\ pc' = pc + 1 + Ins.timeout)
  BY <1>1 DEF GoTo
<1>7. Raises \/ Skipped
  BY <1>1, <1>2, <1>3, <1>6 DEF Raises, Skipped, Skips
<1>8. QED
  BY <1>4, <1>5, <1>7 DEF Effect

LEMMA AbsentEffect == ASSUME IInv, StaysAbsent PROVE Effect
<1>1. /\ At({"absent"}) /\ holder # 0 /\ UNCHANGED pool /\ {} \in SUBSET Troubles
      /\ Pass({}, IF Ins.of \notin DOMAIN mined THEN {} ELSE {"absent"})
  BY DEF StaysAbsent, Answering, nodeVars, chainVars, Judge
<1>2. Ins.op = "absent" /\ Ins.op \notin Readers \cup {"send"}
  BY <1>1, Current DEF Readers
<1>3. \A c \in (IF Ins.of \notin DOMAIN mined THEN {} ELSE {"absent"}) : Cause(c)
  BY <1>2 DEF Cause
<1>4. QED
  BY <1>1, <1>2, <1>3, PassEffect

LEMMA AdvanceEffect == ASSUME IInv, AdvanceNonce PROVE Effect
<1>1. At({"advance"}) /\ holder # 0 /\ UNCHANGED pool
  BY DEF AdvanceNonce, Answering, nodeVars, chainVars
<1>2. Ins.op = "advance" /\ Ins.op \in Readers
  BY <1>1, Current DEF Readers
<1>3. /\ Latest(ledger) = NonceAt(ledger) /\ Latest(height) = NonceAt(height)
      /\ NonceAt(ledger) \in Int /\ Lag \in SUBSET Troubles
  BY <1>2, CountLemma DEF Latest, Lag, Troubles
<1>4. CASE NonceAt(ledger) > regs[Ins.past]
  <2>1. Into(NonceAt(ledger), Lag)
    BY <1>4 DEF AdvanceNonce
  <2>2. Latest(ledger) = Latest(height) \/ "lag" \in trouble'
    BY <2>1 DEF Into, GoTo, Lag
  <2>3. Value(NonceAt(ledger))
    BY <1>2, <1>3, <1>4, <2>2 DEF Value
  <2>4. QED
    BY <1>1, <1>2, <1>3, <2>1, <2>3, IntoEffect
<1>5. CASE ~(NonceAt(ledger) > regs[Ins.past])
  <2>1. Leave(Lag, {"stall"})
    BY <1>5 DEF AdvanceNonce
  <2>2. Latest(ledger) = Latest(height) \/ "lag" \in trouble'
    BY <2>1 DEF Leave, GoTo, Lag
  <2>3. Cause("stall")
    BY <1>2, <1>3, <1>5, <2>2 DEF Cause, Front
  <2>4. QED
    BY <1>1, <2>1, <2>3, Current, LeaveEffect
<1>6. QED
  BY <1>4, <1>5

LEMMA LaterEffect == ASSUME IInv, SeeLaterBlock PROVE Effect
<1>1. At({"later"}) /\ holder # 0 /\ UNCHANGED pool
  BY DEF SeeLaterBlock, Answering, nodeVars, chainVars
<1>2. Ins.op = "later" /\ Ins.op \in Readers /\ height \in Int /\ {} \in SUBSET Troubles
  BY <1>1, Current DEF Readers, IInv, TypeOK
<1>3. CASE height > regs[Ins.past]
  <2>1. Into(height, {}) /\ Value(height)
    BY <1>2, <1>3 DEF SeeLaterBlock, Value
  <2>2. QED
    BY <1>1, <1>2, <2>1, IntoEffect
<1>4. CASE ~(height > regs[Ins.past])
  <2>1. Pass({"idle"}, {})
    BY <1>4 DEF SeeLaterBlock
  <2>2. pc' = pc + 1 /\ failed' = failed /\ "idle" \in trouble' /\ UNCHANGED regs
    BY <2>1 DEF Pass, GoTo
  <2>3. Passes
    BY <1>1, <1>2, <1>4, <2>2 DEF Passes, Reads
  <2>4. QED
    BY <2>2, <2>3 DEF Effect
<1>5. QED
  BY <1>3, <1>4

LEMMA AgainEffect == ASSUME IInv, ReadHeadAgain PROVE Effect
<1>1. At({"retry"}) /\ UNCHANGED pool
  BY DEF ReadHeadAgain, chainVars
<1>2. Ins.op = "retry" /\ Ins.op \in Readers /\ height \in Int /\ {} \in SUBSET Troubles
  BY <1>1, Current DEF Readers, IInv, TypeOK
<1>3. CASE holder # 0
  <2>1. Into(height, {}) /\ Value(height)
    BY <1>2, <1>3 DEF ReadHeadAgain, Value
  <2>2. QED
    BY <1>1, <1>2, <1>3, <2>1, IntoEffect
<1>4. CASE holder = 0
  <2>1. Leave({"down"}, {"backUp"})
    BY <1>4 DEF ReadHeadAgain
  <2>2. "down" \in trouble'
    BY <2>1 DEF Leave, GoTo
  <2>3. Cause("backUp")
    BY <2>2 DEF Cause
  <2>4. QED
    BY <1>1, <2>1, <2>3, Current, LeaveEffect
<1>5. QED
  BY <1>3, <1>4

LEMMA JudgeEffect ==
  ASSUME IInv, At({Ins.op}), Ins.op \notin Readers \cup {"send", "await"} \cup Calls,
         NEW name, NEW ok, Judge(name, ok), ~ok => Cause(name), UNCHANGED pool
  PROVE  Effect
<1>1. PICK fs : Pass({}, fs) /\ \A c \in fs : ~ok /\ c = name
  BY DEF Judge
<1>2. {} \in SUBSET Troubles /\ \A c \in fs : Cause(c)
  BY <1>1
<1>3. QED
  BY <1>1, <1>2, PassEffect

LEMMA CheckEffect == ASSUME IInv, CheckNow PROVE Effect
<1>1. At({"check", "steps", "spent", "order", "one", "price"}) /\ UNCHANGED pool
  BY DEF CheckNow, nodeVars, chainVars
<1>2. Ins.op \in {"check", "steps", "spent", "order", "one", "price"} /\ At({Ins.op})
      /\ Ins.op \notin Readers \cup {"send", "await"} \cup Calls
  BY <1>1, Current DEF Readers, Calls, At
<1>3. CASE Ins.op = "check"
  <2>1. Judge(Ins.name, Holds(Ins)) /\ (~Holds(Ins) => Cause(Ins.name))
    BY <1>3 DEF CheckNow, Cause
  <2>2. QED
    BY <1>1, <1>2, <2>1, JudgeEffect
<1>4. CASE Ins.op = "spent"
  <2> DEFINE ok == Holds(Ins) /\ "receipt" \notin failed
  <2>1. Judge(Ins.name, ok) /\ (~ok => Cause(Ins.name))
    BY <1>4 DEF CheckNow, Cause
  <2>2. QED
    BY <1>1, <1>2, <2>1, JudgeEffect
<1>5. CASE Ins.op = "order"
  <2> DEFINE ok == Before(Ins.of[1], Ins.of[2]) /\ Before(Ins.of[2], Ins.of[3])
  <2>1. Judge("order", ok) /\ (~ok => Cause("order"))
    BY <1>5 DEF CheckNow, Cause
  <2>2. QED
    BY <1>1, <1>2, <2>1, JudgeEffect
<1>6. CASE Ins.op = "one"
  <2> DEFINE ok == \E i \in Ins.of : Ins.of \cap DOMAIN mined = {i}
  <2>1. Judge("one", ok) /\ (~ok => Cause("one"))
    BY <1>6 DEF CheckNow, Cause
  <2>2. QED
    BY <1>1, <1>2, <2>1, JudgeEffect
<1>7. CASE Ins.op = "price"
  <2> DEFINE ok == regs["effective"] = Expected(Ins.of, regs["bf"])
  <2>1. Judge("price", ok) /\ (~ok => Cause("price"))
    BY <1>7 DEF CheckNow, Cause
  <2>2. QED
    BY <1>1, <1>2, <2>1, JudgeEffect
<1>8. CASE Ins.op = "steps"
  <2> DEFINE ok == Holds(Ins) \/ (regs[Ins.left] = 0 /\ regs[Ins.right] = 0)
  <2>1. Judge(Ins.name, ok) /\ (~ok => Cause(Ins.name))
    BY <1>8 DEF CheckNow, Cause
  <2>2. QED
    BY <1>1, <1>2, <2>1, JudgeEffect
<1>9. QED
  BY <1>2, <1>3, <1>4, <1>5, <1>6, <1>7, <1>8

LEMMA RestartEffect == ASSUME IInv, Kill \/ WaitGone \/ Launch PROVE Effect
<1>1. PICK op \in {"kill", "gone", "launch"} : At({op})
  BY DEF Kill, WaitGone, Launch
<1>2. UNCHANGED <<pool, regs>>
  BY DEF Kill, WaitGone, Launch, Pass, nodeVars, chainVars
<1>3. Ins.op \in {"kill", "gone", "launch"}
      /\ Ins.op \notin Readers \cup {"send", "await", "retry"} \cup Calls
  BY <1>1, Current DEF Readers, Calls
<1>4. pc' = pc + 1 /\ failed' = failed
  BY DEF Kill, WaitGone, Launch, Pass, GoTo
<1>5. Passes
  BY <1>2, <1>3, <1>4 DEF Passes
<1>6. QED
  BY <1>4, <1>5 DEF Effect

LEMMA StartEffect == ASSUME IInv, StartB3a PROVE Effect
<1>1. At({"b3a_start"}) /\ UNCHANGED pool
  BY DEF StartB3a, nodeVars, chainVars
<1>2. /\ Ins.op = "b3a_start" /\ At({Ins.op})
      /\ Ins.op \notin Readers \cup {"send", "await"} \cup Calls
  BY <1>1, Current DEF Readers, Calls, At
<1>3. PICK ts \in {{}, {"b3a"}}, fs \in {{}, {"raised"}} :
        Pass(ts, fs) /\ (fs # {} => ts = {"b3a"})
  BY DEF StartB3a
<1>4. ts \in SUBSET Troubles
  BY DEF Troubles
<1>5. fs # {} => "b3a" \in trouble'
  BY <1>3 DEF Pass, GoTo
<1>6. \A c \in fs : Cause(c)
  BY <1>5 DEF Cause
<1>7. QED
  BY <1>1, <1>2, <1>3, <1>4, <1>6, PassEffect

LEMMA EngineEffect == ASSUME IInv, DriveEngine PROVE Effect
<1>1. At({"engine"}) /\ UNCHANGED pool /\ {} \in SUBSET Troubles
  BY DEF DriveEngine, nodeVars, chainVars
<1>2. Ins.op = "engine" /\ Ins.op \notin Readers \cup {"send", "await"} \cup Calls
  BY <1>1, Current DEF Readers, Calls
<1>3. CASE Pass({}, {})
  BY <1>1, <1>2, <1>3, PassEffect
<1>4. CASE Leave({"b3a"}, {"raised"})
  <2>1. "b3a" \in trouble'
    BY <1>4 DEF Leave, GoTo
  <2>2. Cause("raised")
    BY <2>1 DEF Cause
  <2>3. QED
    BY <1>1, <1>4, <2>2, Current, LeaveEffect
<1>5. QED
  BY <1>3, <1>4 DEF DriveEngine

LEMMA RunsEffect == ASSUME IInv, Runs PROVE Effect
BY RaisedEffect, ReadBlockEffect, ReadTagEffect, ReadStateEffect, SendEffect, ReceiptEffect,
   RunOutEffect, AbsentEffect, AdvanceEffect, LaterEffect, AgainEffect, CheckEffect, RestartEffect,
   StartEffect, EngineEffect DEF Runs
-----------------------------------------------------------------------------
(* What a step of the node does, in full.                                   *)

\* A block takes what the account sent from its nonce on, up to some nonce, and leaves in the pool
\* what is beyond and can pay.
Takes(taken, n) ==
  /\ taken \subseteq pool /\ n \in Int /\ n = Front + Cardinality(taken)
  /\ \A t \in taken : Front <= t.nonce /\ t.nonce < n
  /\ \A t \in taken : t.cap >= fee'
  /\ pool' = {t \in pool : t.cap >= fee' /\ t.nonce >= n}
  /\ DOMAIN mined' = DOMAIN mined \cup {t.id : t \in taken}
  /\ \A i \in DOMAIN mined \ {t.id : t \in taken} : mined'[i] = mined[i]
  /\ \A t \in taken : (\A s \in taken : s.id = t.id => s = t) =>
       mined'[t.id] = [block |-> height + 1, index |-> t.nonce - Front + 1,
                       price |-> EffectivePrice(t, fee')]
  /\ fee' = fee \/ "fee" \in trouble'
  /\ trouble \subseteq trouble'
  /\ Running.name = "a2_blocks" /\ pc > 1 => "sealed" \in trouble'
  /\ height' = height + 1
  /\ holder # 0 /\ UNCHANGED <<live, holder, bridge, ledger>>

\* The chain goes on as it is; a process may end.
Stays ==
  /\ UNCHANGED <<height, fee, pool, mined, trouble, bridge>>
  /\ \/ UNCHANGED <<live, holder>>
     \/ \E p \in live : /\ live' = live \ {p} /\ p \in doomed
                        /\ holder' = IF holder = p THEN 0 ELSE holder
     \/ \E p \in live \ {holder} : live' = live \ {p} /\ UNCHANGED holder

\* Another process answers, with the pool or with none, and in b4 perhaps on a part of the chain.
Comes ==
  \E p \in live \ {holder} :
    /\ holder = 0 /\ holder' = p /\ UNCHANGED <<live, fee, bridge>>
    /\ pool' \in {pool, {}} /\ trouble \subseteq trouble'
    /\ UNCHANGED <<height, mined>> \/ (Running.name = "b4_persist" /\ "cut" \in trouble')

LEMMA TakesLemma == ASSUME IInv, NodeSeals PROVE \E taken, n : Takes(taken, n)
<1>1. PICK f \in {fee} \cup (IF moves < FeeMoves[plan] THEN {fee - 1, fee + 1} \cap Fees ELSE {}),
           n \in NonceAt(height)..(NonceAt(height) + Cardinality(pool)) :
        LET taken == {t \in GaplessRun(f) : t.nonce < n}
            placed == {t.id : t \in taken}
            place == [i \in placed |->
                        LET t == CHOOSE t \in taken : t.id = i
                        IN  [block |-> height + 1, index |-> t.nonce - NonceAt(height) + 1,
                             price |-> EffectivePrice(t, f)]]
        IN  /\ n = NonceAt(height) + Cardinality(taken)
            /\ fee' = f
            /\ moves' = IF f = fee THEN moves ELSE moves + 1
            /\ mined' = [i \in DOMAIN mined \cup placed |->
                           IF i \in placed THEN place[i] ELSE mined[i]]
            /\ pool' = {t \in Payable(f) : t.nonce >= n}
            /\ taken = {} => Cardinality(EmptyBlocks) < MaxEmpty[plan]
  BY Zenon DEF NodeSeals, Seal
<1> DEFINE taken == {t \in GaplessRun(f) : t.nonce < n}
           placed == {t.id : t \in taken}
           place == [i \in placed |->
                       LET t == CHOOSE t \in taken : t.id = i
                       IN  [block |-> height + 1, index |-> t.nonce - NonceAt(height) + 1,
                            price |-> EffectivePrice(t, f)]]
<1>2. /\ n = Front + Cardinality(taken) /\ fee' = f
      /\ mined' = [i \in DOMAIN mined \cup placed |-> IF i \in placed THEN place[i] ELSE mined[i]]
      /\ pool' = {t \in Payable(f) : t.nonce >= n}
  BY <1>1, Zenon DEF Front
<1>3. taken \subseteq pool /\ \A t \in taken : t.nonce >= NonceAt(height) /\ t.nonce < n
  BY DEF GaplessRun, Payable
<1>13. \A t \in taken : t.cap >= fee'
  BY <1>2, Zenon DEF GaplessRun, Payable
<1>4. NonceAt(height) \in Nat /\ pool \subseteq Tx
  BY NonceLemma DEF IInv, TypeOK
<1>5. n \in Int
  BY <1>4
<1>6. \A t \in taken : Front <= t.nonce /\ t.nonce < n
  BY <1>3, <1>4 DEF Tx, Front
<1>7. pool' = {t \in pool : t.cap >= fee' /\ t.nonce >= n}
  BY <1>2, Zenon DEF Payable
<1>8. ASSUME NEW t \in taken, \A s \in taken : s.id = t.id => s = t
      PROVE  mined'[t.id] = [block |-> height + 1, index |-> t.nonce - Front + 1,
                             price |-> EffectivePrice(t, fee')]
  <2> HIDE DEF taken
  <2>1. t.id \in placed /\ (CHOOSE s \in taken : s.id = t.id) = t
    BY <1>8
  <2>2. mined'[t.id] = place[t.id]
    BY <1>2, <2>1
  <2>3. QED
    BY <1>2, <2>1, <2>2 DEF Front
<1> HIDE DEF taken, place
<1>9. DOMAIN mined' = DOMAIN mined \cup placed /\ \A i \in DOMAIN mined \ placed : mined'[i] = mined[i]
  BY <1>2
<1>10. /\ height' = height + 1 /\ holder # 0 /\ UNCHANGED <<live, holder, bridge, ledger>>
       /\ fee' = fee \/ "fee" \in trouble'
       /\ trouble \subseteq trouble'
       /\ Running.name = "a2_blocks" /\ pc > 1 => "sealed" \in trouble'
  BY Zenon DEF NodeSeals, Seal, scriptSame, settings
<1>11. Takes(taken, n)
  BY <1>2, <1>3, <1>5, <1>6, <1>7, <1>8, <1>9, <1>10, <1>13 DEF Takes
<1>12. QED
  BY <1>11

LEMMA ComesLemma == ASSUME IInv, ProcessOpens PROVE Stays \/ Comes
<1>1. PICK p \in live \ {holder} :
        IF holder # 0
        THEN /\ live' = live \ {p}
             /\ UNCHANGED <<chainVars, doomed, holder, cut>>
        ELSE /\ holder' = p
             /\ pool' \in {pool, {}}
             /\ \E h \in (IF MayCut /\ Running.name = "b4_persist" THEN 0..height ELSE {height}) :
                  /\ height' = h
                  /\ ledger' = Lesser(ledger, h)
                  /\ mined' = [i \in MinedBy(TxIds, h) |-> mined[i]]
                  /\ cut' = IF h < height THEN "fresh" ELSE cut
             /\ UNCHANGED <<fee, moves, live, doomed>>
  BY DEF ProcessOpens, Open
<1>2. UNCHANGED bridge /\ trouble' = trouble \cup (IF height' < height THEN {"cut"} ELSE {})
  BY DEF ProcessOpens, scriptSame, settings
<1>3. height \in Nat /\ mined = [i \in DOMAIN mined |-> mined[i]]
      /\ DOMAIN mined \subseteq TxIds /\ \A i \in DOMAIN mined : mined[i].block <= height
  BY DEF IInv, TypeOK, Shape
<1>4. CASE holder # 0
  <2>1. UNCHANGED <<height, fee, pool, mined>> /\ live' = live \ {p} /\ UNCHANGED holder
    BY <1>1, <1>4 DEF chainVars
  <2>2. UNCHANGED trouble
    BY <1>2, <1>3, <2>1
  <2>3. QED
    BY <1>2, <2>1, <2>2 DEF Stays
<1>5. CASE holder = 0
  <2>1. PICK h \in (IF MayCut /\ Running.name = "b4_persist" THEN 0..height ELSE {height}) :
          height' = h /\ mined' = [i \in MinedBy(TxIds, h) |-> mined[i]]
    BY <1>1, <1>5
  <2>2. h < height => Running.name = "b4_persist" /\ "cut" \in trouble'
    BY <1>2, <1>3, <2>1
  <2>3. ~(h < height) => UNCHANGED <<height, mined>>
    <3>1. SUFFICES ASSUME ~(h < height) PROVE UNCHANGED <<height, mined>>
      OBVIOUS
    <3>2. h = height
      BY <1>3, <2>1, <3>1
    <3>3. MinedBy(TxIds, h) = DOMAIN mined
      BY <1>3, <3>2 DEF MinedBy
    <3>4. QED
      BY <1>3, <2>1, <3>2, <3>3
  <2>4. holder' = p /\ pool' \in {pool, {}} /\ UNCHANGED <<live, fee>> /\ trouble \subseteq trouble'
    BY <1>1, <1>2, <1>5
  <2>5. QED
    BY <1>2, <1>5, <2>2, <2>3, <2>4 DEF Comes
<1>6. QED
  BY <1>4, <1>5

LEMMA NodeSteps ==
  ASSUME IInv, Node
  PROVE  (\E taken, n : Takes(taken, n)) \/ Stays \/ Comes
<1>1. CASE NodeSeals
  BY <1>1, TakesLemma
<1>2. CASE NodeCatchesUp
  BY <1>2 DEF NodeCatchesUp, CatchUp, Stays, laneVars
<1>3. CASE ProcessExits
  BY <1>3 DEF ProcessExits, Exit, Stays, chainVars, laneVars
<1>4. CASE ProcessOpens
  BY <1>4, ComesLemma
<1>5. QED
  BY <1>1, <1>2, <1>3, <1>4 DEF Node
-----------------------------------------------------------------------------
(* What is sent and in what order the chain takes it.                        *)

\* The transactions of O have names of their own.
Named(O) ==
  /\ \A o \in O : o = <<o[1], o[2]>> /\ o[2] \in Int
  /\ \A o, p \in O : o[1] = p[1] => o = p

LEMMA FrontLemma ==
  ASSUME IInv
  PROVE  Front \in Nat /\ Front = Cardinality(DOMAIN mined) /\ IsFiniteSet(DOMAIN mined)
BY NonceLemma DEF Front, IInv, Shape

LEMMA FrontNext ==
  ASSUME IInv'
  PROVE  Front' \in Nat /\ Front' = Cardinality(DOMAIN mined')
<1>1. /\ DOMAIN mined' \subseteq TxIds /\ IsFiniteSet(DOMAIN mined')
      /\ \A i \in DOMAIN mined' : mined'[i].block <= height'
  BY DEF IInv, TypeOK, Shape
<1>2. MinedBy(TxIds, height)' = DOMAIN mined'
  BY <1>1 DEF MinedBy
<1>3. QED
  BY <1>1, <1>2, FS_CardinalityType DEF Front, NonceAt

\* With one transaction per nonce a block takes each nonce it passes.
LEMMA TakesAll ==
  ASSUME IInv, OnePerNonce, NEW taken, NEW n, Takes(taken, n)
  PROVE  \A m \in Front..(n - 1) : \E t \in taken : t.nonce = m
<1> DEFINE g == [t \in taken |-> t.nonce]
           S == {t.nonce : t \in taken}
<1>1. taken \subseteq pool /\ n \in Int /\ n = Front + Cardinality(taken) /\ Front \in Nat
      /\ \A t \in taken : Front <= t.nonce /\ t.nonce < n
  BY FrontLemma DEF Takes
<1>2. IsFiniteSet(taken) /\ \A t \in taken : t.nonce \in Int
  BY <1>1, FS_Subset DEF IInv, Shape, TypeOK, Tx
<1>3. S \subseteq Front..(n - 1)
  BY <1>1, <1>2
<1>4. g \in Injection(taken, S) /\ g \in Surjection(taken, S)
  <2>1. g \in [taken -> S]
    OBVIOUS
  <2>2. \A s, t \in taken : g[s] = g[t] => s = t
    BY <1>1 DEF OnePerNonce
  <2>3. g \in Injection(taken, S)
    BY <2>1, <2>2 DEF Injection, IsInjective
  <2>4. g \in Surjection(taken, S)
    BY <2>1 DEF Surjection
  <2>5. QED
    BY <2>3, <2>4
<1>5. Cardinality(S) = Cardinality(taken)
  <2> HIDE DEF g, S
  <2>1. QED
    BY <1>2, <1>4, FS_Surjection
<1>6. Cardinality(taken) \in Nat
  BY <1>2, FS_CardinalityType
<1>7. IsFiniteSet(Front..(n - 1)) /\ Cardinality(Front..(n - 1)) = Cardinality(taken)
  <2>1. Front \in Int /\ n - 1 \in Int
    BY <1>1
  <2>2. /\ IsFiniteSet(Front..(n - 1))
        /\ Cardinality(Front..(n - 1)) = IF Front > n - 1 THEN 0 ELSE (n - 1) - Front + 1
    BY <2>1, FS_Interval
  <2>3. QED
    BY <1>1, <1>6, <2>2
<1>8. S = Front..(n - 1)
  <2> HIDE DEF S
  <2>1. QED
    BY <1>3, <1>5, <1>7, FS_Subset
<1>9. QED
  BY <1>8

\* The account's nonce moves past what the block takes, when none of it is in the chain yet.
LEMMA FrontMoves ==
  ASSUME IInv, IInv', NEW taken, NEW n, Takes(taken, n),
         \A t \in taken : t.id \notin DOMAIN mined, \A s, t \in taken : s.id = t.id => s = t
  PROVE  Front' = n
<1> DEFINE placed == {t.id : t \in taken}
           g == [t \in taken |-> t.id]
<1>1. /\ taken \subseteq pool /\ n = Front + Cardinality(taken)
      /\ DOMAIN mined' = DOMAIN mined \cup placed
  BY DEF Takes
<1>2. IsFiniteSet(taken)
  BY <1>1, FS_Subset DEF IInv, Shape
<1>3. placed \cap DOMAIN mined = {}
  OBVIOUS
<1>4. g \in Injection(taken, placed) /\ g \in Surjection(taken, placed)
  <2>1. g \in [taken -> placed]
    OBVIOUS
  <2>2. \A s, t \in taken : g[s] = g[t] => s = t
    OBVIOUS
  <2>3. g \in Injection(taken, placed)
    BY <2>1, <2>2 DEF Injection, IsInjective
  <2>4. g \in Surjection(taken, placed)
    BY <2>1 DEF Surjection
  <2>5. QED
    BY <2>3, <2>4
<1> HIDE DEF g, placed
<1>5. IsFiniteSet(placed) /\ Cardinality(placed) = Cardinality(taken)
  BY <1>2, <1>4, FS_Surjection
<1>6. Cardinality(DOMAIN mined') = Cardinality(DOMAIN mined) + Cardinality(placed)
  <2>1. Cardinality(DOMAIN mined \cup placed)
        = Cardinality(DOMAIN mined) + Cardinality(placed) - Cardinality(DOMAIN mined \cap placed)
    BY <1>5, FS_Union, FrontLemma
  <2>2. Cardinality(DOMAIN mined \cap placed) = 0
    BY <1>3, FS_EmptySet
  <2>3. Cardinality(DOMAIN mined) \in Nat /\ Cardinality(placed) \in Nat
    BY <1>5, FS_CardinalityType, FrontLemma
  <2>4. QED
    BY <1>1, <2>1, <2>2, <2>3
<1>7. QED
  BY <1>1, <1>5, <1>6, FrontLemma, FrontNext

\* What a block takes of a queue was not in the chain, and is of the queue.
LEMMA TakenOfQueue ==
  ASSUME IInv, NEW O, NEW lo, Queue(O, lo), Named(O), NEW taken, NEW n, Takes(taken, n)
  PROVE  /\ \A t \in taken : <<t.id, t.nonce>> \in O /\ t.id \notin DOMAIN mined /\ t.nonce \in Int
                             /\ t \in Tx
         /\ \A s, t \in taken : s.id = t.id => s.nonce = t.nonce
<1>1. taken \subseteq pool /\ Front \in Nat /\ \A t \in taken : Front <= t.nonce
  BY FrontLemma DEF Takes
<1>2. \A t \in taken : t \in Tx /\ t.nonce \in Int
  BY <1>1 DEF IInv, TypeOK, Tx
<1>3. ASSUME NEW t \in taken PROVE <<t.id, t.nonce>> \in O /\ t.id \notin DOMAIN mined
  <2>1. t \in pool /\ ~(t.nonce < Front)
    BY <1>1, <1>2
  <2>2. <<t.id, t.nonce>> \in O
    BY <2>1 DEF Queue, Line
  <2>3. \A o \in O : o[1] \in DOMAIN mined => o[2] < Front
    BY DEF Queue, Line
  <2>4. t.id \in DOMAIN mined => t.nonce < Front
    BY <2>2, <2>3
  <2>5. QED
    BY <2>1, <2>2, <2>4
<1>4. ASSUME NEW s \in taken, NEW t \in taken, s.id = t.id PROVE s.nonce = t.nonce
  <2>1. <<s.id, s.nonce>> \in O /\ <<t.id, t.nonce>> \in O
    BY <1>3
  <2>2. <<s.id, s.nonce>> = <<t.id, t.nonce>>
    BY <1>4, <2>1 DEF Named
  <2>3. QED
    BY <2>2
<1>5. QED
  BY <1>2, <1>3, <1>4

\* A block takes the next of a queue and leaves a queue.
LEMMA QueueTakes ==
  ASSUME IInv, IInv', OnePerNonce, NEW O, NEW lo \in Int, Queue(O, lo), Named(O),
         NEW taken, NEW n, Takes(taken, n)
  PROVE  Front' = n /\ Line(pool', DOMAIN mined', Front', O, lo)
         /\ \A s, t \in taken : s.id = t.id => s = t
<1>1. /\ \A t \in taken : <<t.id, t.nonce>> \in O /\ t.id \notin DOMAIN mined /\ t.nonce \in Int
      /\ \A s, t \in taken : s.id = t.id => s.nonce = t.nonce
  BY TakenOfQueue
<1>2. taken \subseteq pool /\ Front \in Nat /\ n \in Int /\ Cardinality(taken) \in Nat
      /\ n = Front + Cardinality(taken) /\ \A t \in taken : Front <= t.nonce /\ t.nonce < n
  BY FrontLemma, FS_Subset, FS_CardinalityType DEF Takes, IInv, Shape
<1>12. pool' \subseteq pool /\ \A t \in pool' : t.nonce >= n
  BY DEF Takes
<1>13. /\ DOMAIN mined \subseteq DOMAIN mined'
       /\ \A t \in taken : t.id \in DOMAIN mined'
       /\ \A i \in DOMAIN mined' : i \in DOMAIN mined \/ \E t \in taken : i = t.id
  BY DEF Takes
<1>3. \A s, t \in taken : s.id = t.id => s = t
  BY <1>1, <1>2 DEF OnePerNonce
<1>4. Front' = n
  BY <1>1, <1>3, FrontMoves
<1>5. lo <= Front /\ lo <= n
  BY <1>2 DEF Queue, Line
<1>6. ASSUME NEW t \in pool' PROVE t.nonce < n \/ <<t.id, t.nonce>> \in O
  <2>1. t \in pool /\ t.nonce >= n
    BY <1>12
  <2>2. t.nonce \in Int
    BY <2>1 DEF IInv, TypeOK, Tx
  <2>3. ~(t.nonce < Front)
    BY <1>2, <2>1, <2>2
  <2>4. QED
    BY <2>1, <2>3 DEF Queue, Line
<1>7. ASSUME NEW o \in O, o[1] \in DOMAIN mined'
      PROVE  (o[1] \in DOMAIN mined /\ o[2] < Front /\ lo <= o[2])
             \/ \E t \in taken : o = <<t.id, t.nonce>>
  <2>1. CASE o[1] \in DOMAIN mined
    BY <2>1 DEF Queue, Line
  <2>2. CASE o[1] \notin DOMAIN mined
    <3>1. PICK t \in taken : o[1] = t.id
      BY <1>7, <1>13, <2>2
    <3>2. o = <<t.id, t.nonce>>
      BY <1>1, <3>1 DEF Named
    <3>3. QED
      BY <3>2
  <2>3. QED
    BY <2>1, <2>2
<1>8. ASSUME NEW o \in O, o[1] \in DOMAIN mined' PROVE lo <= o[2] /\ o[2] < n
  <2>1. o[2] \in Int
    BY DEF Named
  <2>2. CASE \E t \in taken : o = <<t.id, t.nonce>>
    <3>1. PICK t \in taken : o[2] = t.nonce
      BY <2>2
    <3>2. Front <= t.nonce /\ t.nonce < n /\ t.nonce \in Int
      BY <1>1, <1>2
    <3>3. QED
      BY <1>2, <1>5, <3>1, <3>2
  <2>3. CASE lo <= o[2] /\ o[2] < Front
    BY <1>2, <2>1, <2>3
  <2>4. QED
    BY <1>7, <1>8, <2>2, <2>3
<1>9. ASSUME NEW o \in O, NEW p \in O, o[1] \in DOMAIN mined', p[1] \in DOMAIN mined', o[2] = p[2]
      PROVE  o = p
  <2>1. o[2] \in Int /\ p[2] \in Int
    BY DEF Named
  <2>2. CASE o[2] < Front
    <3>1. \A t \in taken : ~(t.nonce < Front)
      <4>1. ASSUME NEW t \in taken PROVE ~(t.nonce < Front)
        <5>1. Front <= t.nonce /\ t.nonce \in Int
          BY <1>1, <1>2
        <5>2. QED
          BY <1>2, <5>1
      <4>2. QED
        BY <4>1
    <3>2. ~(\E t \in taken : o = <<t.id, t.nonce>>) /\ ~(\E t \in taken : p = <<t.id, t.nonce>>)
      BY <1>9, <2>2, <3>1
    <3>3. o[1] \in DOMAIN mined /\ p[1] \in DOMAIN mined
      BY <1>7, <1>9, <3>2
    <3>4. QED
      BY <1>9, <3>3 DEF Queue, Line
  <2>3. CASE ~(o[2] < Front)
    <3>1. PICK s \in taken : o = <<s.id, s.nonce>>
      BY <1>7, <1>9, <2>3
    <3>2. PICK t \in taken : p = <<t.id, t.nonce>>
      BY <1>7, <1>9, <2>3
    <3>3. s.nonce = t.nonce
      BY <1>9, <3>1, <3>2
    <3>4. s = t
      BY <1>2, <3>3 DEF OnePerNonce
    <3>5. QED
      BY <3>1, <3>2, <3>4
  <2>4. QED
    BY <2>2, <2>3
<1>10. ASSUME NEW m \in lo..(n - 1) PROVE \E o \in O : o[1] \in DOMAIN mined' /\ o[2] = m
  <2>1. CASE m < Front
    <3>1. m \in lo..(Front - 1)
      BY <1>2, <2>1
    <3>2. \E o \in O : o[1] \in DOMAIN mined /\ o[2] = m
      BY <3>1 DEF Queue, Line
    <3>3. QED
      BY <1>13, <3>2
  <2>2. CASE ~(m < Front)
    <3>1. m \in Front..(n - 1)
      BY <1>2, <2>2
    <3>2. PICK t \in taken : t.nonce = m
      BY <3>1, TakesAll
    <3>3. <<t.id, t.nonce>> \in O /\ t.id \in DOMAIN mined'
      BY <1>1, <1>13
    <3>4. QED
      BY <3>2, <3>3
  <2>3. QED
    BY <2>1, <2>2
<1>11. QED
  BY <1>3, <1>4, <1>5, <1>6, <1>8, <1>9, <1>10 DEF Line

\* An idle account's nonce is the next.
LEMMA IdleLemma ==
  ASSUME IInv, NEW n \in Int, Idle(n)
  PROVE  Front = n /\ \A t \in pool : t.nonce < n
<1>1. Front \in Nat
  BY FrontLemma
<1>2. n <= Front /\ \A m \in n..(Front - 1) : FALSE
  BY DEF Idle, Queue, Line
<1>3. Front = n
  <2>1. SUFFICES ASSUME n < Front PROVE FALSE
    BY <1>1, <1>2
  <2>2. n \in n..(Front - 1)
    BY <1>1, <2>1
  <2>3. QED
    BY <1>2, <2>2
<1>4. QED
  BY <1>3 DEF Idle, Queue, Line

\* A queue that is behind the account's nonce leaves it idle.
LEMMA Drained ==
  ASSUME IInv, NEW O, NEW lo \in Int, Queue(O, lo), NEW n \in Int, n < Front, lo <= n + 1,
         \A o \in O : o[2] \in Int /\ o[2] <= n
  PROVE  Idle(n + 1) /\ Front = n + 1
<1>1. Front \in Nat
  BY FrontLemma
<1>2. \A t \in pool : t.nonce < Front
  <2>1. ASSUME NEW t \in pool PROVE t.nonce < Front
    <3>1. CASE <<t.id, t.nonce>> \in O
      <4>1. t.nonce \in Int /\ t.nonce <= n
        BY <3>1
      <4>2. QED
        BY <1>1, <4>1
    <3>2. QED
      BY <3>1 DEF Queue, Line
  <2>2. QED
    BY <2>1
<1>3. \A m \in (n + 1)..(Front - 1) : FALSE
  <2>1. SUFFICES ASSUME NEW m \in (n + 1)..(Front - 1) PROVE FALSE
    OBVIOUS
  <2>2. m \in lo..(Front - 1) /\ m > n
    BY <1>1
  <2>3. PICK o \in O : o[2] = m
    BY <2>2 DEF Queue, Line
  <2>4. QED
    BY <2>2, <2>3
<1>4. Idle(n + 1)
  BY <1>1, <1>2, <1>3 DEF Idle, Queue, Line
<1>5. QED
  BY <1>4, IdleLemma

\* The next nonce's transaction is sealable, if it can pay.
LEMMA NextIsSealable ==
  ASSUME IInv, NEW t \in pool, t.nonce = Front, t.cap >= fee
  PROVE  Sealable(t.id)
<1>1. Front \in Nat
  BY FrontLemma
<1>2. t \in Payable(fee)
  BY DEF Payable
<1>3. \A n \in NonceAt(height)..t.nonce : \E u \in Payable(fee) : u.nonce = n
  BY <1>1, <1>2 DEF Front
<1>4. t \in GaplessRun(fee)
  BY <1>1, <1>2, <1>3 DEF GaplessRun, Front
<1>5. QED
  BY <1>4 DEF Sealable

\* A wait on a queue's transaction that was found in no block waits for the next nonce, which is
\* sealable if it is offered.
LEMMA Awaited ==
  ASSUME IInv, NEW O, NEW lo \in Int, Queue(O, lo), NEW n \in Int, lo <= n, n <= Front, NEW id,
         \A o \in O : o[2] = n => o[1] \notin DOMAIN mined,
         NEW price \in Int, price >= fee, Offered(pool, Front, price, id, n)
  PROVE  Front = n /\ Sealable(id)
<1>1. Front \in Nat /\ fee \in Nat
  BY FrontLemma, L2NodeAssumption DEF IInv, TypeOK
<1>2. Front = n
  <2>1. SUFFICES ASSUME n < Front PROVE FALSE
    BY <1>1
  <2>2. n \in lo..(Front - 1)
    BY <1>1, <2>1
  <2>3. PICK o \in O : o[1] \in DOMAIN mined /\ o[2] = n
    BY <2>2 DEF Queue, Line
  <2>4. QED
    BY <2>3
<1>3. PICK t \in pool : t.id = id /\ t.nonce = n /\ t.cap >= price
  BY <1>1, <1>2 DEF Offered
<1>4. t.cap \in Int
  BY DEF IInv, TypeOK, Tx
<1>5. t.cap >= fee
  BY <1>1, <1>3, <1>4
<1>6. QED
  BY <1>2, <1>3, <1>5, NextIsSealable

\* What is sent joins the queue.
LEMMA QueueSends ==
  ASSUME NEW O, NEW lo, Queue(O, lo), NEW t, Admit(t), t.id \notin DOMAIN mined
  PROVE  Line(pool', DOMAIN mined, Front, O \cup {<<t.id, t.nonce>>}, lo)
<1>1. pool' \subseteq pool \cup {t}
  BY DEF Admit
<1> DEFINE P == O \cup {<<t.id, t.nonce>>}
<1>2. /\ lo <= Front
      /\ \A u \in pool : u.nonce < Front \/ <<u.id, u.nonce>> \in O
      /\ \A o \in O : o[1] \in DOMAIN mined => lo <= o[2] /\ o[2] < Front
      /\ \A o, p \in O : o[1] \in DOMAIN mined /\ p[1] \in DOMAIN mined /\ o[2] = p[2] => o = p
      /\ \A n \in lo..(Front - 1) : \E o \in O : o[1] \in DOMAIN mined /\ o[2] = n
  BY DEF Queue, Line
<1>3. \A o \in P : o[1] \in DOMAIN mined => o \in O
  OBVIOUS
<1>4. O \subseteq P /\ <<t.id, t.nonce>> \in P
  OBVIOUS
<1> HIDE DEF P
<1>5. \A u \in pool' : u.nonce < Front \/ <<u.id, u.nonce>> \in P
  BY <1>1, <1>2, <1>4
<1>6. /\ \A o \in P : o[1] \in DOMAIN mined => lo <= o[2] /\ o[2] < Front
      /\ \A o, p \in P : o[1] \in DOMAIN mined /\ p[1] \in DOMAIN mined /\ o[2] = p[2] => o = p
  BY <1>2, <1>3
<1>7. \A n \in lo..(Front - 1) : \E o \in P : o[1] \in DOMAIN mined /\ o[2] = n
  BY <1>2, <1>4
<1>8. Line(pool', DOMAIN mined, Front, P, lo)
  BY <1>2, <1>5, <1>6, <1>7 DEF Line
<1>9. QED
  BY <1>8 DEF P

\* What is sent too late joins no queue.
LEMMA LateSends ==
  ASSUME NEW O, NEW lo, Queue(O, lo), NEW t, Admit(t), t.nonce < Front
  PROVE  Line(pool', DOMAIN mined, Front, O, lo)
<1>1. pool' \subseteq pool \cup {t}
  BY DEF Admit
<1>2. QED
  BY <1>1 DEF Queue, Line

\* What is offered stays so, but for what takes its nonce.
LEMMA OfferedSends ==
  ASSUME NEW t, Admit(t), NEW price, NEW id, NEW n, Offered(pool, Front, price, id, n), t.nonce # n
  PROVE  Offered(pool', Front, price, id, n)
BY DEF Offered, Admit

LEMMA SendsOffer ==
  ASSUME NEW t, Admit(t), NEW price, t.cap >= price
  PROVE  Offered(pool', Front, price, t.id, t.nonce)
BY DEF Offered, Admit

LEMMA OneSends == ASSUME OnePerNonce, NEW t, Admit(t) PROVE OnePerNonce'
BY DEF OnePerNonce, Admit

\* The node, while the one process is all there is.
LEMMA AloneNode ==
  ASSUME IInv, Node, Alone
  PROVE  /\ Alone'
         /\ \/ UNCHANGED <<height, fee, pool, mined, trouble, bridge>>
            \/ \E taken, n : Takes(taken, n)
<1>1. CASE \E taken, n : Takes(taken, n)
  BY <1>1 DEF Takes, Alone
<1>2. CASE Stays
  BY <1>2 DEF Stays, Alone
<1>3. CASE Comes
  BY <1>3 DEF Comes, Alone
<1>4. QED
  BY <1>1, <1>2, <1>3, NodeSteps

LEMMA OneNode == ASSUME IInv, OnePerNonce, Node PROVE OnePerNonce'
<1>1. pool' \subseteq pool
  BY NodeKeepsIds
<1>2. QED
  BY <1>1 DEF OnePerNonce

LEMMA OfferedTakes ==
  ASSUME IInv, IInv', NEW taken, NEW n, Takes(taken, n), Front' = n, NEW price \in Int,
         price >= fee', NEW id, NEW k \in Int, Offered(pool, Front, price, id, k)
  PROVE  Offered(pool', Front', price, id, k)
<1>1. SUFFICES ASSUME k >= n
               PROVE  \E t \in pool' : t.id = id /\ t.nonce = k /\ t.cap >= price
  BY DEF Offered
<1>2. Front \in Nat /\ n \in Int /\ n >= Front
  <2>1. Front \in Nat /\ n \in Int /\ n = Front + Cardinality(taken) /\ taken \subseteq pool
    BY FrontLemma DEF Takes
  <2>2. Cardinality(taken) \in Nat
    BY <2>1, FS_Subset, FS_CardinalityType DEF IInv, Shape
  <2>3. QED
    BY <2>1, <2>2
<1>3. PICK t \in pool : t.id = id /\ t.nonce = k /\ t.cap >= price
  BY <1>1, <1>2 DEF Offered
<1>4. t.cap \in Int /\ fee' \in Int
  BY L2NodeAssumption DEF IInv, TypeOK, Tx
<1>5. t.cap >= fee'
  BY <1>3, <1>4
<1>6. t \in pool'
  BY <1>1, <1>3, <1>5 DEF Takes
<1>7. QED
  BY <1>3, <1>6

\* A queue, and what is offered, outlast what the node does.
LEMMA AloneQueue ==
  ASSUME IInv, IInv', OnePerNonce, Node, Alone, NEW O, NEW lo \in Int, Queue(O, lo), Named(O)
  PROVE  /\ Line(pool', DOMAIN mined', Front', O, lo)
         /\ Front \in Nat /\ Front' \in Nat /\ Front <= Front'
         /\ \A id, k : k \in Int /\ Ready(id, k) => Offered(pool', Front', Ample, id, k)
         /\ \A id, k : k \in Int /\ Sure(id, k) =>
              "fee" \in trouble' \/ Offered(pool', Front', fee', id, k)
<1>1. CASE UNCHANGED <<height, fee, pool, mined, trouble, bridge>>
  <2>1. Front' = Front
    BY <1>1 DEF Front, NonceAt, MinedBy
  <2>2. Front \in Nat
    BY FrontLemma
  <2>3. QED
    BY <1>1, <2>1, <2>2 DEF Queue, Ready, Sure
<1>2. CASE \E taken, n : Takes(taken, n)
  <2>1. PICK taken, n : Takes(taken, n)
    BY <1>2
  <2>2. Front' = n /\ Line(pool', DOMAIN mined', Front', O, lo)
    BY <2>1, QueueTakes
  <2>3. Front \in Nat /\ Front' \in Nat /\ Front <= Front'
    <3>1. n = Front + Cardinality(taken) /\ taken \subseteq pool
      BY <2>1 DEF Takes
    <3>2. Cardinality(taken) \in Nat
      BY <3>1, FS_Subset, FS_CardinalityType DEF IInv, Shape
    <3>3. QED
      BY <2>2, <3>1, <3>2, FrontLemma, FrontNext
  <2>4. Ample \in Int /\ fee \in Int /\ fee' \in Int /\ Ample >= fee' /\ fee >= fee
    BY L2NodeAssumption DEF IInv, TypeOK
  <2>5. ASSUME NEW id, NEW k \in Int, Ready(id, k) PROVE Offered(pool', Front', Ample, id, k)
    BY <2>1, <2>2, <2>4, <2>5, OfferedTakes DEF Ready
  <2>6. ASSUME NEW id, NEW k \in Int, Sure(id, k)
        PROVE  "fee" \in trouble' \/ Offered(pool', Front', fee', id, k)
    <3>1. CASE "fee" \in trouble'
      BY <3>1
    <3>2. CASE "fee" \notin trouble'
      <4>1. fee' = fee /\ "fee" \notin trouble
        BY <2>1, <3>2 DEF Takes
      <4>2. fee >= fee' /\ Offered(pool, Front, fee, id, k)
        BY <2>4, <2>6, <4>1 DEF Sure
      <4>3. QED
        BY <2>1, <2>2, <2>4, <4>1, <4>2, OfferedTakes
    <3>3. QED
      BY <3>1, <3>2
  <2>7. QED
    BY <2>2, <2>3, <2>5, <2>6
<1>3. QED
  BY <1>1, <1>2, AloneNode
-----------------------------------------------------------------------------
(* The units of the plans.                                                   *)

LEMMA PlanNames ==
  /\ PlanOf["reads"] = reads /\ PlanOf["transactions"] = transactions
  /\ PlanOf["predeploys"] = predeploys
  /\ PlanOf["boundaries"] = <<[Unit("boundaries", nonce_fee_boundaries) EXCEPT !.exits = TRUE]>>
  /\ PlanOf["scenarios"] = <<[Unit("scenarios", l2_tx_scenarios) EXCEPT !.exits = TRUE]>>
  /\ \A p \in Plans : p \in {"reads", "transactions", "predeploys", "boundaries", "scenarios"}
BY GateAssumption DEF PlanOf

Dull == {"ask", "engine", "kill", "gone", "launch", "b3a_start"}
DullBody(s) == \A i \in 1..Len(s) : s[i].op \in Dull

LEMMA ReadsUnits ==
  /\ Len(reads) = 9
  /\ reads[3].body = a2_chain /\ reads[4].body = a2_blocks
  /\ reads[9].body = b1_table_consistency \o b2_header_chain
  /\ reads[4].name = "a2_blocks"
  /\ \A u \in 1..9 : u \notin {3, 4, 9} => DullBody(reads[u].body)
<1>1. /\ Len(reads) = 9
      /\ reads[3].body = a2_chain /\ reads[4].body = a2_blocks
      /\ reads[9].body = b1_table_consistency \o b2_header_chain
      /\ reads[4].name = "a2_blocks"
  BY DEF reads, Unit
<1>2. /\ reads[1].body = restart_b3 /\ reads[2].body = a1_engine_surface
      /\ reads[5].body = a2_accounts /\ reads[6].body = a2_exec
      /\ reads[7].body = a3_web3_net /\ reads[8].body = a4_scope
  BY DEF reads, Unit
<1>3. DullBody(restart_b3)
  BY DEF DullBody, Dull, restart_b3
<1>4. DullBody(a1_engine_surface)
  BY DEF DullBody, Dull, a1_engine_surface
<1>5. DullBody(<<Ask>>)
  BY DEF DullBody, Dull, Ask
<1>6. DullBody(a2_accounts) /\ DullBody(a2_exec) /\ DullBody(a3_web3_net) /\ DullBody(a4_scope)
  BY <1>5 DEF a2_accounts, a2_exec, a3_web3_net, a4_scope
<1>7. \A u \in 1..9 : u \in {1, 2, 3, 4, 5, 6, 7, 8, 9}
  OBVIOUS
<1>8. QED
  BY <1>1, <1>2, <1>3, <1>4, <1>6, <1>7

LEMMA PredeploysUnits ==
  /\ Len(predeploys) = 2 /\ predeploys[1].body = predeploy_matrix
  /\ predeploys[1].name = "predeploy_matrix"
  /\ DullBody(predeploys[2].body) /\ ~predeploys[1].exits
<1>1. /\ Len(predeploys) = 2 /\ predeploys[1].body = predeploy_matrix
      /\ predeploys[1].name = "predeploy_matrix"
      /\ predeploys[2].body = <<[op |-> "b3a_start"], [op |-> "engine"]>>
      /\ ~predeploys[1].exits
  BY DEF predeploys, Unit
<1>2. DullBody(<<[op |-> "b3a_start"], [op |-> "engine"]>>)
  BY DEF DullBody, Dull
<1>3. QED
  BY <1>1, <1>2

LEMMA SingleUnits ==
  /\ Len(PlanOf["boundaries"]) = 1 /\ Len(PlanOf["scenarios"]) = 1
  /\ PlanOf["boundaries"][1].body = nonce_fee_boundaries /\ PlanOf["boundaries"][1].exits
  /\ PlanOf["scenarios"][1].body = l2_tx_scenarios
  /\ PlanOf["boundaries"][1].name = "boundaries" /\ PlanOf["scenarios"][1].name = "scenarios"
BY PlanNames DEF Unit

\* A script that sends one transaction at a time: reads the nonce, sends, waits.
SoloScript(s) ==
  /\ \A p \in 1..Len(s) :
       s[p].op \in {"ask", "head", "count", "nonce", "seq", "root", "field", "later", "send", "await",
                    "check", "steps"}
  /\ \A p \in 1..Len(s) : s[p].op = "send" =>
       /\ s[p].nonce = "nonce" /\ s[p].plus = 0 /\ s[p].price \in {"gwei", "quoted"}
       /\ s[p].id # "stray"
       /\ p + 1 \in 1..Len(s) /\ s[p + 1].op = "await" /\ s[p + 1].of = {s[p].id}
       /\ Primed(s, p)
  /\ \A p \in 1..Len(s) : s[p].op = "await" =>
       /\ s[p].timeout = Raise
       /\ p - 1 \in 1..Len(s) /\ s[p - 1].op = "send" /\ s[p].of = {s[p - 1].id}
  /\ \A p, q \in 1..Len(s) :
       s[p].op = "send" /\ s[q].op = "send" /\ s[p].id = s[q].id => p = q
  /\ \A p \in 1..Len(s) : s[p].op \in Readers => (s[p].into = "nonce" <=> s[p].op = "nonce")

LEMMA ScenariosAreSolo == SoloScript(l2_tx_scenarios)
<1> DEFINE s == l2_tx_scenarios
<1>1. Len(s) = 20
  BY ScenarioItems
<1>2. \A p \in 1..20 : s[p].op \in {"ask", "head", "count", "nonce", "seq", "root", "field", "later",
                                    "send", "await", "check", "steps"}
  BY ScenarioItems DEF Nonce, Send, Await, Count, Check
<1>3. \A p \in 1..20 : s[p].op = "send" <=> p \in {2, 7, 11, 17}
  BY ScenarioItems DEF Nonce, Send, Await, Count, Check
<1>4. \A p \in 1..20 : s[p].op = "await" <=> p \in {3, 8, 12, 18}
  BY ScenarioItems DEF Nonce, Send, Await, Count, Check
<1>5. \A p \in 1..20 : s[p].op = "nonce" => s[p].into = "nonce"
  BY ScenarioItems DEF Nonce, Send, Await, Count, Check
<1>6. \A p \in 1..20 : s[p].op \in Readers /\ s[p].op # "nonce" => s[p].into # "nonce"
  BY ScenarioItems DEF Nonce, Send, Await, Count, Check, Readers
<1>7. \A p \in 1..20 : p \in {1, 6, 10, 16} => s[p].op = "nonce"
  BY ScenarioItems DEF Nonce
<1>8. \A p \in {2, 7, 11, 17} : /\ s[p].nonce = "nonce" /\ s[p].plus = 0 /\ s[p].price = "quoted"
                                /\ s[p].id # "stray" /\ s[p + 1].of = {s[p].id}
  BY ScenarioItems DEF Send, Await
<1>9. \A p \in {3, 8, 12, 18} : s[p].timeout = Raise
  BY ScenarioItems DEF Await
<1>10. s[2].id = "create" /\ s[7].id = "inc1" /\ s[11].id = "inc2" /\ s[17].id = "boom"
  BY ScenarioItems DEF Send
<1> HIDE DEF s
<1>11. \A p \in {2, 7, 11, 17} : Primed(s, p)
  <2>1. ASSUME NEW p \in {2, 7, 11, 17} PROVE Primed(s, p)
    <3>1. p - 1 \in 1..(p - 1) /\ p - 1 \in {1, 6, 10, 16}
      OBVIOUS
    <3>2. s[p - 1].op = "nonce" /\ \A k \in (p - 1)..(p - 1) : s[k].op # "send"
      BY <1>7, <3>1
    <3>3. QED
      BY <3>1, <3>2 DEF Primed
  <2>2. QED
    BY <2>1
<1>12. QED
  BY <1>1, <1>2, <1>3, <1>4, <1>5, <1>6, <1>8, <1>9, <1>10, <1>11 DEF SoloScript, s

LEMMA PredeploysAreSolo == SoloScript(predeploy_matrix)
<1> DEFINE s == predeploy_matrix
           sends == {6, 9, 14, 29, 35, 39, 45, 51}
           awaits == {7, 10, 15, 30, 36, 40, 46, 52}
<1>1. Len(s) = 52
  BY PredeployItems
<1>2. \A p \in 1..52 : s[p].op \in {"ask", "head", "count", "nonce", "seq", "root", "field", "later",
                                    "send", "await", "check", "steps"}
  BY PredeployItems
     DEF Ask, SequenceNumber, BlockNumber, Root, Field, LaterBlock, Nonce, Send, Await, Count, Check
<1>3. \A p \in 1..52 : s[p].op = "send" <=> p \in sends
  BY PredeployItems
     DEF Ask, SequenceNumber, BlockNumber, Root, Field, LaterBlock, Nonce, Send, Await, Count, Check
<1>4. \A p \in 1..52 : s[p].op = "await" <=> p \in awaits
  BY PredeployItems
     DEF Ask, SequenceNumber, BlockNumber, Root, Field, LaterBlock, Nonce, Send, Await, Count, Check
<1>5. \A p \in 1..52 : s[p].op = "nonce" => s[p].into = "nonce"
  BY PredeployItems
     DEF Ask, SequenceNumber, BlockNumber, Root, Field, LaterBlock, Nonce, Send, Await, Count, Check
<1>6. \A p \in 1..52 : s[p].op \in Readers /\ s[p].op # "nonce" => s[p].into # "nonce"
  BY PredeployItems
     DEF Ask, SequenceNumber, BlockNumber, Root, Field, LaterBlock, Nonce, Send, Await, Count, Check, Readers
<1>7. \A p \in {5, 8, 13, 27, 34, 38, 44, 50} : s[p].op = "nonce"
  BY PredeployItems DEF Nonce
<1>8. \A p \in sends : /\ s[p].nonce = "nonce" /\ s[p].plus = 0 /\ s[p].price = "gwei"
                       /\ s[p].id # "stray" /\ s[p + 1].of = {s[p].id}
  BY PredeployItems DEF Send, Await
<1>9. \A p \in awaits : s[p].timeout = Raise
  BY PredeployItems DEF Await
<1>10. /\ s[6].id = "reject_caller" /\ s[9].id = "reject_length" /\ s[14].id = "withdrawal"
       /\ s[29].id = "message" /\ s[35].id = "token" /\ s[39].id = "deposit"
       /\ s[45].id = "withdraw" /\ s[51].id = "setValue"
  BY PredeployItems DEF Send
<1> HIDE DEF s
<1>11. \A p \in sends : Primed(s, p)
  <2>1. ASSUME NEW p \in sends, p # 29 PROVE Primed(s, p)
    <3>1. p - 1 \in 1..(p - 1) /\ p - 1 \in {5, 8, 13, 34, 38, 44, 50}
      BY <2>1
    <3>2. s[p - 1].op = "nonce" /\ \A k \in (p - 1)..(p - 1) : s[k].op # "send"
      BY <1>7, <3>1
    <3>3. QED
      BY <3>1, <3>2 DEF Primed
  <2>2. Primed(s, 29)
    <3>1. 27 \in 1..(29 - 1) /\ s[27].op = "nonce"
      BY <1>7
    <3>2. \A k \in 27..(29 - 1) : s[k].op # "send"
      BY <1>3
    <3>3. QED
      BY <3>1, <3>2 DEF Primed
  <2>3. QED
    BY <2>1, <2>2
<1>12. \A p, q \in sends : s[p].id = s[q].id => p = q
  BY <1>10
<1>13. \A p \in 1..52 : s[p].op = "send" =>
         /\ p \in sends /\ p + 1 \in 1..52 /\ p + 1 \in awaits
  BY <1>3
<1>14. \A p \in 1..52 : s[p].op = "await" =>
         /\ p \in awaits /\ p - 1 \in 1..52 /\ p - 1 \in sends
  BY <1>4
<1>15. \A p \in sends : p \in 1..52
  OBVIOUS
<1>16. \A p \in awaits : p \in 1..52 /\ (p - 1) + 1 = p
  OBVIOUS
<1> HIDE DEF sends, awaits
<1>17. \A p \in 1..52 : s[p].op = "send" =>
       /\ s[p].nonce = "nonce" /\ s[p].plus = 0 /\ s[p].price \in {"gwei", "quoted"}
       /\ s[p].id # "stray"
       /\ p + 1 \in 1..52 /\ s[p + 1].op = "await" /\ s[p + 1].of = {s[p].id}
       /\ Primed(s, p)
  BY <1>4, <1>8, <1>11, <1>13
<1>18. \A p \in 1..52 : s[p].op = "await" =>
       /\ s[p].timeout = Raise
       /\ p - 1 \in 1..52 /\ s[p - 1].op = "send" /\ s[p].of = {s[p - 1].id}
  <2>1. SUFFICES ASSUME NEW p \in 1..52, s[p].op = "await"
                 PROVE  /\ s[p].timeout = Raise
                        /\ p - 1 \in 1..52 /\ s[p - 1].op = "send" /\ s[p].of = {s[p - 1].id}
    OBVIOUS
  <2>2. p - 1 \in 1..52 /\ p - 1 \in sends /\ p \in awaits /\ (p - 1) + 1 = p
    BY <1>14, <1>16, <2>1
  <2>3. s[(p - 1) + 1].of = {s[p - 1].id}
    BY <1>8, <2>2
  <2>4. QED
    BY <1>3, <1>9, <2>2, <2>3
<1>19. \A p, q \in 1..52 :
         s[p].op = "send" /\ s[q].op = "send" /\ s[p].id = s[q].id => p = q
  BY <1>3, <1>12
<1>20. QED
  BY <1>1, <1>2, <1>5, <1>6, <1>17, <1>18, <1>19, Zenon DEF SoloScript, s
-----------------------------------------------------------------------------
(* What holds for every plan.                                                *)

General == OnePerNonce /\ FromScript /\ Strays /\ Constants /\ Solitary

\* What the scripts that send one by one are doing.
LEMMA InSolo ==
  ASSUME IInv, plan \in {"predeploys", "scenarios"}, ~Finished, pc # End
  PROVE  \/ /\ unit = 1 /\ InUnit(plan, 1) /\ SoloScript(Running.body)
            /\ \A j : Item(1, j) = Running.body[j]
            /\ Running.body = PlanOf[plan][1].body /\ pc \in 1..Len(Running.body)
            /\ Len(Running.body) \in Nat
         \/ plan = "predeploys" /\ unit = 2 /\ Ins.op \in Dull
<1>1. unit \in 1..Len(PlanOf[plan]) /\ Running = PlanOf[plan][unit] /\ pc \in 1..End
      /\ Len(Running.body) \in Nat /\ End = Len(Running.body) + 1
  BY PlanHere, Here
<1>2. pc \in 1..Len(Running.body)
  BY <1>1
<1>3. CASE plan = "scenarios"
  <2>1. unit = 1 /\ Running.body = l2_tx_scenarios
    BY <1>1, <1>3, SingleUnits
  <2>2. QED
    BY <1>1, <1>2, <1>3, <2>1, ScenariosAreSolo DEF InUnit, Item
<1>4. CASE plan = "predeploys"
  <2>1. PlanOf[plan] = predeploys /\ (unit = 1 \/ unit = 2)
    BY <1>1, <1>4, PlanNames, PredeploysUnits
  <2>2. CASE unit = 1
    <3>1. Running.body = predeploy_matrix
      BY <1>1, <2>1, <2>2, PredeploysUnits
    <3>2. QED
      BY <1>1, <1>2, <1>4, <2>2, <3>1, PredeploysAreSolo DEF InUnit, Item
  <2>3. CASE unit = 2
    BY <1>1, <1>2, <1>4, <2>1, <2>3, PredeploysUnits DEF DullBody, Ins
  <2>4. QED
    BY <2>1, <2>2, <2>3
<1>5. QED
  BY <1>3, <1>4

\* rpc_matrix.py's read groups and state_verify.py send nothing.
LEMMA ReadsSend == ASSUME IInv, plan = "reads", ~Finished, pc # End PROVE Ins.op # "send"
<1>1. unit \in 1..9 /\ Running = reads[unit] /\ pc \in 1..Len(Running.body)
  <2>1. unit \in 1..Len(PlanOf[plan]) /\ Running = PlanOf[plan][unit] /\ pc \in 1..End
        /\ Len(Running.body) \in Nat /\ End = Len(Running.body) + 1
    BY PlanHere, Here
  <2>2. QED
    BY <2>1, PlanNames, ReadsUnits
<1>2. CASE unit \notin {3, 4, 9}
  BY <1>1, <1>2, ReadsUnits DEF DullBody, Dull, Ins
<1>3. CASE unit = 3
  BY <1>1, <1>3, ReadsUnits, ChainItems DEF Ins, Ask, Fee, Check
<1>4. CASE unit = 4
  BY <1>1, <1>4, ReadsUnits, BlocksItems DEF Ins, Ask, BlockNumber, Tag, Check
<1>5. CASE unit = 9
  <2> DEFINE s == b1_table_consistency \o b2_header_chain
  <2>1. Running.body = s
    BY <1>1, <1>5, ReadsUnits
  <2>2. Len(s) = 5 /\ \A i \in 1..5 : s[i].op # "send"
    BY TableItems DEF Ask, BlockNumber, CurrentNumber, Check
  <2> HIDE DEF s
  <2>3. QED
    BY <1>1, <2>1, <2>2 DEF Ins
<1>6. QED
  BY <1>2, <1>3, <1>4, <1>5

\* What is about to be sent has not been.
LEMMA NotYet ==
  ASSUME IInv, InOrder, FromScript, Runs, Ins.op = "send"
  PROVE  Ins.id \notin Pooled \cup DOMAIN mined /\ Ins.id # "stray" /\ plan # "reads"
         /\ Ins = Item(unit, pc) /\ unit \in Nat /\ pc \in Nat
<1>1. /\ ~Finished /\ pc # End /\ plan \in Plans /\ unit \in Nat /\ pc \in Nat
      /\ unit \in 1..Len(PlanOf[plan]) /\ pc \in 1..Len(PlanOf[plan][unit].body)
      /\ Ins = Item(unit, pc)
  <2>1. Len(PlanOf[plan]) \in Nat /\ plan \in Plans
    BY PlanHere
  <2>2. /\ ~Finished /\ unit \in 1..Len(PlanOf[plan]) /\ pc \in 1..Len(PlanOf[plan][unit].body)
        /\ Ins = Item(unit, pc)
    BY RunsHere
  <2>3. Len(PlanOf[plan][unit].body) \in Nat
    BY <2>2, PlanHere
  <2>4. pc # End
    BY RunsTells DEF Steps, Goes
  <2>5. QED
    BY <2>1, <2>2, <2>3, <2>4
<1>2. plan # "reads"
  BY <1>1, ReadsSend
<1>3. ~Past(unit, pc)
  BY <1>1 DEF Past
<1>4. CASE plan \in {"transactions", "boundaries"}
  <2>1. Ordered(PlanOf[plan])
    BY <1>1, <1>4, PlanData
  <2>2. Ins.id # "stray"
    BY <1>1, <2>1 DEF Ordered, Keyed, Item
  <2>3. SUFFICES ASSUME Ins.id \in (Pooled \cup DOMAIN mined) \ {"stray"} PROVE FALSE
    BY <1>1, <1>2, <2>2
  <2>4. Event(Ins) /\ Name(Ins) = Ins.id
    BY DEF Event, Name
  <2>5. Rank[Ins.id] < Rank[Name(Item(unit, pc))] /\ Rank[Name(Item(unit, pc))] \in Int
    BY <1>1, <1>3, <1>4, <2>3, <2>4, Unsent
  <2>6. Rank[Ins.id] < Rank[Ins.id] /\ Rank[Ins.id] \in Int
    BY <1>1, <2>4, <2>5
  <2>7. QED
    BY <2>6
<1>5. CASE plan \in {"predeploys", "scenarios"}
  <2>1. /\ unit = 1 /\ SoloScript(Running.body) /\ pc \in 1..Len(Running.body)
        /\ Running.body = PlanOf[plan][1].body /\ \A j : Item(1, j) = Running.body[j]
    BY <1>1, <1>5, InSolo DEF Dull
  <2>2. Ins.id # "stray"
    BY <2>1 DEF SoloScript, Ins
  <2>3. SUFFICES ASSUME Ins.id \in (Pooled \cup DOMAIN mined) \ {"stray"} PROVE FALSE
    BY <1>1, <1>2, <2>2
  <2>4. PICK j \in 1..Len(Running.body) :
          Past(1, j) /\ Item(1, j).op = "send" /\ Item(1, j).id = Ins.id
    BY <1>5, <2>1, <2>3 DEF FromScript
  <2>5. j = pc
    BY <2>1, <2>4 DEF SoloScript, Ins
  <2>6. QED
    BY <1>3, <2>1, <2>4, <2>5
<1>6. QED
  BY <1>1, <1>2, <1>4, <1>5, PlanNames

LEMMA InitGeneral == ASSUME IInv, Init PROVE General
<1>1. pool \in {{}, {[id |-> "stray", nonce |-> 0, cap |-> Ample, tip |-> Ample]}} /\ DOMAIN mined = {}
  BY DEF Init
<1>2. \A t \in pool : t.id = "stray"
  BY <1>1
<1>3. OnePerNonce
  BY <1>1 DEF OnePerNonce
<1>4. FromScript
  BY <1>1, <1>2 DEF FromScript, Pooled
<1>5. pool # {} => "stray" \in trouble
  BY DEF Init
<1>6. Strays
  BY <1>1, <1>5 DEF Strays, Pooled
<1>7. Constants
  BY DEF Init, Constants, Fresh, Regs
<1>8. Solitary
  BY DEF Init, Solitary, Alone
<1>9. QED
  BY <1>3, <1>4, <1>6, <1>7, <1>8 DEF General

\* Nothing is read into the registers that stand for numbers, and only one account's script has an n3.
Fixed == {"none", "zero", "one"}
Spares(s, S) == \A i \in 1..Len(s) : s[i].op \in Readers => s[i].into \notin S

LEMMA SparesDull == ASSUME NEW s, DullBody(s), NEW S PROVE Spares(s, S)
BY DEF DullBody, Dull, Spares, Readers

LEMMA SparesReads == \A u \in 1..9 : Spares(reads[u].body, Fixed \cup {"n3"})
<1>1. Spares(a2_chain, Fixed \cup {"n3"})
  BY ChainItems DEF Spares, Fixed, Readers, Ask, Fee, Check
<1>2. Spares(a2_blocks, Fixed \cup {"n3"})
  BY BlocksItems DEF Spares, Fixed, Readers, Ask, BlockNumber, Tag, Check
<1>3. Spares(b1_table_consistency \o b2_header_chain, Fixed \cup {"n3"})
  BY TableItems DEF Spares, Fixed, Readers, Ask, BlockNumber, CurrentNumber, Check
<1>4. QED
  BY <1>1, <1>2, <1>3, ReadsUnits, SparesDull

LEMMA SparesTransactions ==
  \A u \in 1..3 : Spares(transactions[u].body, Fixed \cup {"n3"})
<1>1. Spares(chain_driver, Fixed \cup {"n3"})
  BY DriverItems DEF Spares, Fixed, Readers, Ask, BlockNumber, Nonce, Send, Await, Field, Check
<1>2. Spares(b4_persist, Fixed \cup {"n3"})
  BY PersistItems DEF Spares, Fixed, Readers, BlockNumber, AnyHead, LaterBlock, Check
<1>3. Spares(b3_contracts, Fixed \cup {"n3"})
  BY ContractsItems DEF Spares, Fixed, Readers, Nonce, Send, Await, Count, Check
<1>4. \A u \in 1..3 : u = 1 \/ u = 2 \/ u = 3
  OBVIOUS
<1>5. QED
  BY <1>1, <1>2, <1>3, <1>4, TransactionsUnits

LEMMA SparesPredeploys == Spares(predeploy_matrix, Fixed \cup {"n3"})
BY PredeployItems
   DEF Spares, Fixed, Readers, Ask, SequenceNumber, BlockNumber, Root, Field, LaterBlock, Nonce, Send,
       Await, Count, Check

LEMMA SparesScenarios == Spares(l2_tx_scenarios, Fixed \cup {"n3"})
BY ScenarioItems DEF Spares, Fixed, Readers, Nonce, Send, Await, Count, Check

LEMMA SparesBoundaries == Spares(nonce_fee_boundaries, Fixed)
BY BoundariesItems
   DEF Spares, Fixed, Readers, Fee, Advance, Send, Await, AwaitOne, Absent, Field

LEMMA SparesHere ==
  ASSUME IInv, ~Finished, pc # End, Ins.op \in Readers
  PROVE  Ins.into \notin Fixed /\ (plan # "boundaries" => Ins.into # "n3")
<1>1. /\ plan \in Plans /\ unit \in 1..Len(PlanOf[plan]) /\ Running.body = PlanOf[plan][unit].body
      /\ pc \in 1..Len(Running.body)
  BY PlanHere, Here
<1>2. CASE plan = "boundaries"
  BY <1>1, <1>2, SingleUnits, SparesBoundaries DEF Spares, Ins
<1>3. CASE plan # "boundaries"
  <2>1. Spares(Running.body, Fixed \cup {"n3"})
    <3>1. CASE plan = "reads"
      BY <1>1, <3>1, PlanNames, ReadsUnits, SparesReads
    <3>2. CASE plan = "transactions"
      BY <1>1, <3>2, PlanNames, TransactionsUnits, SparesTransactions
    <3>3. CASE plan = "predeploys"
      BY <1>1, <3>3, PlanNames, PredeploysUnits, SparesPredeploys, SparesDull
    <3>4. CASE plan = "scenarios"
      BY <1>1, <3>4, SingleUnits, SparesScenarios
    <3>5. QED
      BY <1>1, <1>3, <3>1, <3>2, <3>3, <3>4, PlanNames
  <2>2. QED
    BY <1>1, <2>1 DEF Spares, Ins
<1>4. QED
  BY <1>2, <1>3

LEMMA RunsConstants == ASSUME IInv, Constants, Runs PROVE Constants'
<1>1. /\ \A r \in Regs : regs'[r] # regs[r] => Ins.op \in Readers /\ Ins.into = r
      /\ UNCHANGED <<plan, bridge>> /\ trouble \subseteq trouble'
      /\ ~Finished /\ pc # End
  BY RunsTells DEF Told, Steps, Goes
<1>2. \A r \in Fixed : r \in Regs /\ regs'[r] = regs[r]
  BY <1>1, SparesHere DEF Fixed, Regs
<1>3. "n3" \in Regs /\ (plan # "boundaries" => regs'["n3"] = regs["n3"])
  BY <1>1, SparesHere DEF Regs
<1>4. /\ regs'["none"] = -1 /\ regs'["zero"] = 0 /\ regs'["one"] = 1
      /\ plan # "boundaries" => regs'["n3"] = -1
      /\ ~bridge => "bridge" \in trouble
  BY <1>2, <1>3 DEF Constants, Fixed
<1>5. QED
  BY <1>1, <1>4 DEF Constants

\* What a step of a script leaves in the pool.
LEMMA RunsPool ==
  ASSUME IInv, Runs
  PROVE  /\ UNCHANGED <<height, ledger, fee, mined, plan, unit, bridge>> /\ trouble \subseteq trouble'
         /\ Front' = Front
         /\ pool' = pool \/ (Ins.op = "send" /\ Sends)
<1>1. UNCHANGED <<height, ledger, fee, mined, plan, unit, bridge>> /\ trouble \subseteq trouble'
  BY RunsTells DEF Steps, Goes, chainKept
<1>2. Front' = Front
  BY <1>1 DEF Front, NonceAt, MinedBy
<1>3. QED
  BY <1>1, <1>2, RunsEffect DEF Effect, Raises, Skipped, Passes

LEMMA RunsOnce ==
  ASSUME IInv, InOrder, OnePerNonce, FromScript, Strays, Runs
  PROVE  OnePerNonce' /\ FromScript' /\ Strays'
<1>1. /\ UNCHANGED <<mined, plan, unit>> /\ trouble \subseteq trouble'
      /\ pool' = pool \/ (Ins.op = "send" /\ Sends)
  BY RunsPool
<1>2. \A j \in Nat : Past(1, j) => Past(1, j)'
  BY RunsHere
<1>3. CASE pool' = pool
  <2>1. Pooled' = Pooled
    BY <1>3 DEF Pooled
  <2>2. Len(PlanOf[plan][1].body) \in Nat \/ plan \notin {"predeploys", "scenarios"}
    BY PlanHere, PlanNames, PredeploysUnits, SingleUnits
  <2>3. \A u, j : Item(u, j)' = Item(u, j)
    BY RunsHere
  <2>4. FromScript'
    BY <1>1, <1>2, <1>3, <2>1, <2>2, <2>3 DEF FromScript
  <2>5. QED
    BY <1>1, <1>3, <2>1, <2>4 DEF OnePerNonce, Strays
<1>4. CASE Ins.op = "send" /\ Sends
  <2>1. PICK t : t.id = Ins.id /\ Admit(t)
    BY <1>4 DEF Sends
  <2>2. /\ Ins.id \notin Pooled \cup DOMAIN mined /\ Ins.id # "stray"
        /\ Ins = Item(unit, pc) /\ unit \in Nat /\ pc \in Nat
    BY <1>4, NotYet
  <2>3. pool' \subseteq pool \cup {t} /\ Pooled' \subseteq Pooled \cup {Ins.id}
    BY <2>1 DEF Admit, Pooled
  <2>4. OnePerNonce'
    BY <2>1, OneSends
  <2>5. Strays'
    BY <1>1, <2>2, <2>3 DEF Strays
  <2>6. FromScript'
    <3>1. SUFFICES ASSUME plan \in {"predeploys", "scenarios"}
                   PROVE  /\ Pooled' \cap DOMAIN mined = {}
                          /\ \A s, r \in pool' : s.id = r.id => s = r
                          /\ \A id \in (Pooled' \cup DOMAIN mined) \ {"stray"} :
                               \E j \in 1..Len(PlanOf[plan][1].body) :
                                 Past(1, j)' /\ Item(1, j)'.op = "send" /\ Item(1, j)'.id = id
      BY <1>1 DEF FromScript
    <3>2. unit = 1 /\ pc \in 1..Len(PlanOf[plan][1].body) /\ Len(PlanOf[plan][1].body) \in Nat
      <4>1. ~Finished /\ pc # End /\ Len(PlanOf[plan][unit].body) \in Nat
        BY RunsTells, RunsHere, PlanHere DEF Steps, Goes
      <4>2. unit = 1
        BY <1>4, <3>1, <4>1, InSolo DEF Dull
      <4>3. QED
        BY <4>1, <4>2, RunsHere
    <3>8. PICK k \in 1..Len(PlanOf[plan][1].body) : k = pc
      BY <3>2
    <3>3. Past(1, k)' /\ Item(1, k)' = Ins /\ \A j : Item(1, j)' = Item(1, j)
      <4>1. pc' > k /\ unit' = 1
        BY <1>1, <3>2, <3>8, RunsHere
      <4>2. Item(1, k) = Ins /\ \A u, j : Item(u, j)' = Item(u, j)
        BY <2>2, <3>2, <3>8, RunsHere
      <4>3. QED
        BY <4>1, <4>2 DEF Past
    <3>4. Pooled' \cap DOMAIN mined = {}
      BY <2>2, <2>3, <3>1 DEF FromScript
    <3>5. \A s, r \in pool' : s.id = r.id => s = r
      <4>1. \A s \in pool : s.id \in Pooled
        BY DEF Pooled
      <4>2. \A s, r \in pool : s.id = r.id => s = r
        BY <3>1 DEF FromScript
      <4>3. QED
        BY <2>1, <2>2, <2>3, <4>1, <4>2
    <3>6. ASSUME NEW id \in (Pooled' \cup DOMAIN mined) \ {"stray"}
          PROVE  \E j \in 1..Len(PlanOf[plan][1].body) :
                   Past(1, j)' /\ Item(1, j)'.op = "send" /\ Item(1, j)'.id = id
      <4>1. CASE id = Ins.id
        BY <1>4, <3>2, <3>3, <4>1
      <4>2. CASE id # Ins.id
        <5>1. PICK j \in 1..Len(PlanOf[plan][1].body) :
                Past(1, j) /\ Item(1, j).op = "send" /\ Item(1, j).id = id
          BY <2>3, <3>1, <3>6, <4>2 DEF FromScript
        <5>2. j \in Nat
          BY <3>2
        <5>3. QED
          BY <1>2, <3>3, <5>1, <5>2
      <4>3. QED
        BY <4>1, <4>2
    <3>7. QED
      BY <3>4, <3>5, <3>6
  <2>7. QED
    BY <2>4, <2>5, <2>6
<1>5. QED
  BY <1>1, <1>3, <1>4

LEMMA RunsSolitary == ASSUME IInv, Solitary, Runs PROVE Solitary'
<1>1. UNCHANGED <<plan, unit>> /\ ~Finished /\ pc # End
  BY RunsTells DEF Steps, Goes
<1>2. CASE UNCHANGED <<live, holder>>
  BY <1>1, <1>2 DEF Solitary, Alone
<1>3. CASE Launches
  <2>1. Ins.op = "launch"
    BY <1>3 DEF Launches
  <2>2. plan \notin {"predeploys", "scenarios"} \/ (plan = "predeploys" /\ UNCHANGED <<live, holder>>)
        \/ (plan = "predeploys" /\ unit = 2)
    BY <1>1, <2>1, InSolo DEF SoloScript, Ins
  <2>3. Running = PlanOf[plan][unit] /\ pc \in 1..Len(Running.body) /\ unit \in 1..Len(PlanOf[plan])
    BY <1>1, PlanHere, Here
  <2>4. plan # "boundaries"
    <3>1. SUFFICES ASSUME plan = "boundaries" PROVE FALSE
      OBVIOUS
    <3>2. Calm(Running.body)
      BY <2>3, <3>1, SingleUnits, BoundariesAreFragment DEF Fragment
    <3>3. QED
      BY <2>1, <2>3, <3>2 DEF Calm, RestartOps, Ins
  <2>5. ~(plan = "transactions" /\ unit = 1)
    <3>1. SUFFICES ASSUME plan = "transactions", unit = 1 PROVE FALSE
      OBVIOUS
    <3>2. Calm(Running.body)
      BY <2>3, <3>1, PlanNames, TransactionsUnits, DriverIsFragment DEF Fragment
    <3>3. QED
      BY <2>1, <2>3, <3>2 DEF Calm, RestartOps, Ins
  <2>6. plan # "predeploys"
    <3>1. SUFFICES ASSUME plan = "predeploys", unit = 2 PROVE FALSE
      BY <1>1, <2>1, InSolo DEF SoloScript, Ins
    <3>2. PlanOf[plan][2].body = <<[op |-> "b3a_start"], [op |-> "engine"]>>
      BY <3>1, PlanNames DEF predeploys, Unit
    <3>3. QED
      BY <2>1, <2>3, <3>1, <3>2 DEF Ins
  <2>7. QED
    BY <1>1, <2>2, <2>4, <2>5, <2>6 DEF Solitary
<1>4. QED
  BY <1>2, <1>3, RunsMoves

LEMMA RunsGeneral == ASSUME IInv, InOrder, General, Runs PROVE General'
BY RunsOnce, RunsConstants, RunsSolitary DEF General

LEMMA NodeGeneral == ASSUME IInv, General, Node PROVE General'
<1>1. /\ pool' \subseteq pool /\ Pooled' \subseteq Pooled
      /\ DOMAIN mined' \subseteq DOMAIN mined \cup Pooled
  BY NodeKeepsIds
<1>2. /\ UNCHANGED <<plan, unit, pc, regs>> /\ \A u, j : Item(u, j)' = Item(u, j)
      /\ \A u, j : Past(u, j)' = Past(u, j)
      /\ Running = PlanOf[plan][unit] /\ unit \in 1..Len(PlanOf[plan])
  BY NodeHere
<1>3. trouble \subseteq trouble' /\ UNCHANGED bridge
  BY NodeSteps DEF Takes, Stays, Comes
<1>4. OnePerNonce'
  BY OneNode DEF General
<1>5. Strays'
  BY <1>1, <1>3 DEF General, Strays
<1>6. Constants'
  BY <1>2, <1>3 DEF General, Constants
<1>7. Solitary'
  BY <1>2, AloneNode DEF General, Solitary
<1>8. FromScript'
  <2>1. SUFFICES ASSUME plan \in {"predeploys", "scenarios"} PROVE Pooled' \cap DOMAIN mined' = {}
    BY <1>1, <1>2 DEF General, FromScript
  <2>2. Pooled \cap DOMAIN mined = {} /\ \A s, t \in pool : s.id = t.id => s = t
    BY <2>1 DEF General, FromScript
  <2>3. CASE DOMAIN mined' \subseteq DOMAIN mined
    BY <1>1, <2>2, <2>3
  <2>4. CASE \E taken, n : Seals(taken, n)
    <3>1. PICK taken, n : Seals(taken, n)
      BY <2>4
    <3>2. /\ taken \subseteq pool /\ n \in Int /\ \A t \in taken : t.nonce < n
          /\ \A t \in pool' : t.nonce >= n
          /\ DOMAIN mined' = DOMAIN mined \cup {t.id : t \in taken}
      BY <3>1 DEF Seals
    <3>3. \A t \in pool : t.nonce \in Int
      BY DEF IInv, TypeOK, Tx
    <3>4. \A s \in taken : \A t \in pool' : s.id # t.id
      <4>1. SUFFICES ASSUME NEW s \in taken, NEW t \in pool', s.id = t.id PROVE FALSE
        OBVIOUS
      <4>2. s = t /\ s.nonce \in Int
        BY <1>1, <2>2, <3>2, <3>3, <4>1
      <4>3. QED
        BY <3>2, <4>2
    <3>5. Pooled' = {t.id : t \in pool'}
      BY DEF Pooled
    <3>6. QED
      BY <1>1, <2>2, <3>2, <3>4, <3>5
  <2>5. CASE Rests \/ Opens
    <3>1. DOMAIN mined' \subseteq DOMAIN mined
      BY <2>5 DEF Rests, Opens, MinedBy
    <3>2. QED
      BY <2>3, <3>1
  <2>6. QED
    BY <2>4, <2>5, NodeHere
<1>9. QED
  BY <1>4, <1>5, <1>6, <1>7, <1>8 DEF General
=============================================================================
