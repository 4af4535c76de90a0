------------------------------ MODULE StateTrie ------------------------------
(***************************************************************************)
(* The two Merkle Patricia tries of the genesis tools: the one that roots    *)
(* the allocs (mpt_state_root.py) and the reference one behind the golden     *)
(* vectors (gen_trieroot_golden.py).                                         *)
(*                                                                         *)
(* A key is the sequence of nibbles of a hash, all of length Width.  A node   *)
(* is kept as what is encoded, and a hash as what is hashed: <<"keccak", x>>. *)
(* Of the encoding only the length counts, which decides whether a node is    *)
(* embedded in its parent.  Hex-prefix encodings are sequences of bytes.      *)
(***************************************************************************)
EXTENDS Integers, Sequences, FiniteSets, SequencesExt, FiniteSetsExt

CONSTANTS
  Nibbles,       \* the nibbles that occur in keys, a subset of 0..15
  Width,         \* the length of a key: 64
  ValueLen(_)    \* the length of the bytes of a value

ASSUME TrieAssumption == Nibbles \subseteq 0..15 /\ Width \in Nat \ {0}

Raise == <<"raise">>
EmptyRoot == <<"empty">>
Absent == <<"absent">>

-----------------------------------------------------------------------------
(* RLP, as lengths.                                                          *)

Framed(n) == IF n < 56 THEN n + 1 ELSE n + 2
BytesLen(n) == IF n = 1 THEN 1 ELSE Framed(n)

RefLen(ref) == CASE ref = Absent -> 1 [] ref[1] = "inline" -> ref[3] [] OTHER -> 33

EncodedLen(node) ==
  Framed(CASE node[1] = "leaf" -> BytesLen(Len(node[2])) + BytesLen(ValueLen(node[3]))
           [] node[1] = "ext"  -> BytesLen(Len(node[2])) + RefLen(node[3])
           [] OTHER -> 17 - Cardinality(Nibbles)
                         + FoldSet(LAMBDA k, n : n + RefLen(node[2][k]), 0, Nibbles))

-----------------------------------------------------------------------------
(* mpt_state_root.py.                                                        *)

\* Hex-prefix encoding; no nibble at all is an error.
hex_prefix_encode(nibbles, leaf) ==
  LET odd == Len(nibbles) % 2
      flags == (IF leaf THEN 32 ELSE 0) + 16 * odd
  IN <<IF odd = 1 THEN flags + nibbles[1] ELSE flags>>
     \o [i \in 1..((Len(nibbles) - odd) \div 2) |->
           16 * nibbles[2 * i - 1 + odd] + nibbles[2 * i + odd]]

node_ref(node) ==
  IF node = Raise THEN Raise
  ELSE IF EncodedLen(node) < 32 THEN <<"inline", node, EncodedLen(node)>>
  ELSE <<"keccak", node>>

\* Lists compare by their first difference.
Below(a, b) ==
  \E i \in 1..Width : /\ a[i] < b[i]
                      /\ \A j \in 1..(i - 1) : a[j] = b[j]

common_prefix_len(a, b, depth) ==
  Max({n \in 0..(Width - depth) : \A i \in 1..n : a[depth + i] = b[depth + i]})

\* build and build_branch over `entries`, a sequence of <<key, value>>: the node of the
\* entries whose key starts with p.  The sort is seen in the first and the last key.
build_trie(entries) ==
  LET under(p) == {i \in DOMAIN entries : IsPrefix(p, entries[i][1])}
      first(p) == CHOOSE k \in {entries[i][1] : i \in under(p)} :
                    \A i \in under(p) : ~Below(entries[i][1], k)
      last(p) == CHOOSE k \in {entries[i][1] : i \in under(p)} :
                   \A i \in under(p) : ~Below(k, entries[i][1])
      node[p \in Seq(Nibbles), branch \in BOOLEAN] ==
        LET depth == Len(p)
            cpl == common_prefix_len(first(p), last(p), depth)
            key == first(p)
            kids == [k \in Nibbles |-> IF under(Append(p, k)) = {} THEN Absent
                                       ELSE node_ref(node[Append(p, k), FALSE])]
            below == node[SubSeq(key, 1, depth + cpl), TRUE]
        IN IF ~branch /\ Cardinality(under(p)) = 1
           THEN IF depth = Width THEN Raise
                ELSE <<"leaf", hex_prefix_encode(SubSeq(key, depth + 1, Width), TRUE),
                       entries[CHOOSE i \in under(p) : TRUE][2]>>
           ELSE IF ~branch /\ cpl > 0
           THEN IF below = Raise THEN Raise
                ELSE <<"ext", hex_prefix_encode(SubSeq(key, depth + 1, depth + cpl), FALSE),
                       node_ref(below)>>
           ELSE IF depth = Width \/ Raise \in {kids[k] : k \in Nibbles} THEN Raise
           ELSE <<"branch", kids>>
  IN IF entries = <<>> THEN EmptyRoot
     ELSE IF node[<<>>, FALSE] = Raise THEN Raise
     ELSE <<"keccak", node[<<>>, FALSE]>>

-----------------------------------------------------------------------------
(* gen_trieroot_golden.py.                                                   *)

\* Nibbles two by two.
Pack(nibbles) ==
  [i \in 1..(Len(nibbles) \div 2) |-> 16 * nibbles[2 * i - 1] + nibbles[2 * i]]

GoldenHexPrefix(nibbles, leaf) ==
  LET flag == IF leaf THEN 2 ELSE 0 IN
  IF Len(nibbles) % 2 = 1 THEN <<16 * (flag + 1) + nibbles[1]>> \o Pack(Tail(nibbles))
  ELSE <<16 * flag>> \o Pack(nibbles)

GoldenRef(node) ==
  IF EncodedLen(node) < 32 THEN <<"inline", node, EncodedLen(node)>> ELSE <<"keccak", node>>

\* _build over a mapping from keys to values: the prefix is what all keys share, the
\* groups are those of the nibble after it.
trie_root(mapping) ==
  LET under(p) == {k \in DOMAIN mapping : IsPrefix(p, k)}
      node[p \in Seq(Nibbles)] ==
        LET depth == Len(p)
            key == CHOOSE k \in under(p) : TRUE
            prefix == Max({n \in depth..Width :
                             \A k \in under(p) : SubSeq(k, 1, n) = SubSeq(key, 1, n)})
        IN IF Cardinality(under(p)) = 1
           THEN <<"leaf", GoldenHexPrefix(SubSeq(key, depth + 1, Width), TRUE), mapping[key]>>
           ELSE IF prefix > depth
           THEN <<"ext", GoldenHexPrefix(SubSeq(key, depth + 1, prefix), FALSE),
                  GoldenRef(node[SubSeq(key, 1, prefix)])>>
           ELSE <<"branch", [k \in Nibbles |-> IF under(Append(p, k)) = {} THEN Absent
                                               ELSE GoldenRef(node[Append(p, k)])]>>
  IN IF mapping = <<>> THEN EmptyRoot ELSE <<"keccak", node[<<>>]>>
=============================================================================
