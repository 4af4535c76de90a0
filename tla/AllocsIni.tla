------------------------------ MODULE AllocsIni ------------------------------
(***************************************************************************)
(* The alloc file between the genesis tools: emit_ini and emit_alloc_json of  *)
(* build-allocs.py write the merged accounts, parse_allocs_ini and            *)
(* compute_state_root of mpt_state_root.py read and root them, and state_root *)
(* of gen_trieroot_golden.py is the reference root of the same accounts.      *)
(*                                                                         *)
(* A file is a sequence of lines <<kind, key, value>>.  Texts are kept apart   *)
(* from what they denote: <<"address", a, written>> and <<"slot", s, written>>  *)
(* are an address and a slot written with ("0x") or without ("bare") prefix,   *)
(* <<"index", i>> is a bare number.  Lower and upper case are one.             *)
(***************************************************************************)
EXTENDS BuildAllocs, StateTrie

CONSTANT Keccak(_)    \* the key that a hash gives: sequences of nibbles

SectionLine(name) == <<"alloc", name, "">>
StorageLine(name) == <<"storage", name, "">>
OtherLine == <<"other", "", "">>
FieldLine(key, value) == <<"entry", <<"field", key>>, value>>
SlotLine(slot, value) == <<"entry", slot, value>>

Code(c) == <<"code", c>>

AddressText(a) == <<"address", a, "0x">>
SlotText(s) == <<"slot", s, "0x">>

\* A set of numbers in ascending order.
Ascending(S) == [i \in 1..Cardinality(S) |-> CHOOSE n \in S : Cardinality({m \in S : m < n}) = i - 1]

-----------------------------------------------------------------------------
(* Writing.                                                                  *)

\* The lines of one account, the index-th.
AllocLines(index, a, account) ==
  <<SectionLine(<<"index", index>>), FieldLine("address", AddressText(a)),
    FieldLine("nonce", Word(account.nonce))>>
  \o (IF account.code = "" THEN <<>> ELSE <<FieldLine("code", Code(account.code))>>)
  \o (IF account.storage = <<>> THEN <<>>
      ELSE <<StorageLine(<<"index", index>>)>>
           \o FoldSet(LAMBDA s, lines : Append(lines, SlotLine(SlotText(s), account.storage[s])),
                      <<>>, DOMAIN account.storage))

\* The accounts of merged in the ascending order that build_allocs returns.
emit_ini(merged) ==
  LET order == Ascending(DOMAIN merged)
  IN FlattenSeq([i \in DOMAIN order |-> AllocLines(i - 1, order[i], merged[order[i]])])

\* The JSON object is keyed by address: the accounts themselves.
emit_alloc_json(merged) == merged

-----------------------------------------------------------------------------
(* Reading.                                                                  *)

\* allocs so far, whether one is current (it is the last), whether its storage is,
\* and whether a ValueError ended the reading.
Nothing == [allocs |-> <<>>, current |-> FALSE, storage |-> FALSE, error |-> FALSE]

OnLast(ps, alloc) == [ps EXCEPT !.allocs[Len(ps.allocs)] = alloc]

\* A new section.  Its name is compared with the address that each alloc has by now.
ReadSection(ps, name) ==
  IF \E i \in DOMAIN ps.allocs : ps.allocs[i].address = name
  THEN [ps EXCEPT !.error = TRUE]
  ELSE [ps EXCEPT !.allocs = Append(@, [address |-> name, nonce |-> Word(0), code |-> Code(""),
                                        storage |-> <<>>]),
                  !.current = TRUE, !.storage = FALSE]

\* A storage section belongs to the current alloc, whatever its name says, and
\* starts with no slot.
ReadStorageSection(ps) ==
  IF ~ps.current THEN [ps EXCEPT !.error = TRUE]
  ELSE [OnLast(ps, [Last(ps.allocs) EXCEPT !.storage = <<>>]) EXCEPT !.storage = TRUE]

\* Mutant: the first line for a slot counts, later ones are passed over.
ReadFirstEntry(ps, key, value) ==
  LET alloc == Last(ps.allocs) IN
  CASE ~ps.current -> ps
    [] ps.current /\ ps.storage ->
         IF \E i \in DOMAIN alloc.storage : alloc.storage[i][1] = key THEN ps
         ELSE OnLast(ps, [alloc EXCEPT !.storage = Append(@, <<key, value>>)])
    [] OTHER -> IF key[1] = "field" THEN OnLast(ps, [alloc EXCEPT ![key[2]] = value]) ELSE ps

\* key = value, of the alloc's storage or of the alloc.
ReadEntry(ps, key, value) ==
  LET alloc == Last(ps.allocs) IN
  CASE ~ps.current -> ps
    [] ps.current /\ ps.storage ->
         IF \E i \in DOMAIN alloc.storage : alloc.storage[i][1] = key
         THEN [ps EXCEPT !.error = TRUE]
         ELSE OnLast(ps, [alloc EXCEPT !.storage = Append(@, <<key, value>>)])
    [] OTHER -> IF key[1] = "field" THEN OnLast(ps, [alloc EXCEPT ![key[2]] = value]) ELSE ps

ReadLine(ps, line) ==
  CASE ps.error -> ps
    [] ~ps.error /\ line[1] = "alloc" -> ReadSection(ps, line[2])
    [] ~ps.error /\ line[1] = "storage" -> ReadStorageSection(ps)
    [] ~ps.error /\ line[1] = "other" -> [ps EXCEPT !.current = FALSE, !.storage = FALSE]
    [] OTHER -> ReadEntry(ps, line[2], line[3])

\* after[k] is what is known after k lines.
parse_allocs_ini(file) ==
  LET after[k \in 0..Len(file)] ==
        IF k = 0 THEN Nothing ELSE ReadLine(after[k - 1], file[k])
  IN after[Len(file)]

-----------------------------------------------------------------------------
(* Rooting.                                                                  *)

\* The leaf of a slot: the value without its leading zeros, as RLP.
encode_storage_value(value) == <<"rlp", value>>

\* Mutant: a zero word is a leaf.
RootWithZeros(pairs) ==
  IF \E i \in DOMAIN pairs : pairs[i][1][1] # "slot" THEN Raise
  ELSE build_trie([i \in DOMAIN pairs |->
                     <<Keccak(pairs[i][1][2]), encode_storage_value(pairs[i][2])>>])

\* Zero values are skipped before anything is asked of their slot.
compute_storage_root(pairs) ==
  LET kept == SelectSeq(pairs, LAMBDA pair : pair[2] # Word(0)) IN
  IF \E i \in DOMAIN kept : kept[i][1][1] # "slot" THEN Raise
  ELSE build_trie([i \in DOMAIN kept |->
                     <<Keccak(kept[i][1][2]), encode_storage_value(kept[i][2])>>])

\* Mutant: the leaves are kept in a mapping, the first alloc of an address counts.
RootOfMapping(allocs) ==
  LET first(k) == CHOOSE i \in DOMAIN allocs :
                    /\ Keccak(<<"account", allocs[i].address[2]>>) = k
                    /\ \A j \in 1..(i - 1) : allocs[j].address[2] # allocs[i].address[2]
      root(i) == compute_storage_root(allocs[i].storage)
  IN IF \E i \in DOMAIN allocs : root(i) = Raise \/ allocs[i].address[1] # "address"
     THEN Raise
     ELSE trie_root([k \in {Keccak(<<"account", allocs[i].address[2]>>) : i \in DOMAIN allocs} |->
            <<"account", allocs[first(k)].nonce, root(first(k)), allocs[first(k)].code>>])

compute_state_root(allocs) ==
  LET root(i) == compute_storage_root(allocs[i].storage) IN
  IF \E i \in DOMAIN allocs : root(i) = Raise \/ allocs[i].address[1] # "address"
  THEN Raise
  ELSE build_trie([i \in DOMAIN allocs |->
                     <<Keccak(<<"account", allocs[i].address[2]>>),
                       <<"account", allocs[i].nonce, root(i), allocs[i].code>>>>])

\* The reference: mappings keyed by hash.
GoldenStorageRoot(storage) ==
  LET kept == NonZero(storage) IN
  trie_root([k \in {Keccak(s) : s \in kept} |->
               <<"rlp", storage[CHOOSE s \in kept : Keccak(s) = k]>>])

state_root(accounts) ==
  trie_root([k \in {Keccak(<<"account", a>>) : a \in DOMAIN accounts} |->
    LET a == CHOOSE b \in DOMAIN accounts : Keccak(<<"account", b>>) = k IN
    <<"account", Word(accounts[a].nonce), GoldenStorageRoot(accounts[a].storage),
      Code(accounts[a].code)>>])
=============================================================================
