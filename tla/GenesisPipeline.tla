--------------------------- MODULE GenesisPipeline ---------------------------
(***************************************************************************)
(* The genesis toolchain end to end: build-allocs.py (main) merges the overlay *)
(* onto the base and writes the INI and the JSON; gen_eth_header_fixture.py    *)
(* roots the INI into the header that FISCO starts from; gen_rollup_config.py  *)
(* pins that header's hash for op-node; diff_genesis_header.py compares block  *)
(* 0 of the two chains, the other one being built from the JSON.               *)
(*                                                                         *)
(* The INI may also be written by hand: mpt_state_root.py and the header tool  *)
(* take any file.  Such a file grows line by line and ends at the header.      *)
(***************************************************************************)
EXTENDS AllocsIni

CONSTANTS
  Requests,      \* [cfg, base]: chain configurations with base alloc files
  HandLines,     \* the lines of hand-written files
  MaxLines,      \* and how many one has at most
  Overrides,     \* the JSON header overrides: functions from field names to values
  Passer,        \* the address of L2ToL1MessagePasser
  RollupArgs(_), \* the command lines of gen_rollup_config.py, given the genesis hash
  Renderings     \* how an endpoint renders a header: [missing, written]

\* Lists are finite and mappings have finitely many keys; addresses, nonces and key
\* lengths are natural numbers.
IsList(s) == s \in Seq(ToSet(s))

ASSUME RequestsAssumption ==
  /\ None \notin Requests
  /\ \A r \in Requests :
       /\ IsList(r.base) /\ IsList(r.cfg.predeploys)
       /\ \A account \in ToSet(r.base) :
            /\ account.address \in Nat /\ account.nonce \in Nat
            /\ IsFiniteSet(DOMAIN account.storage)
       /\ \A p \in ToSet(r.cfg.predeploys) :
            /\ p.address \in Nat /\ p.implementation \in Nat
            /\ IsFiniteSet(DOMAIN p.storage) /\ IsFiniteSet(DOMAIN p.system_config)
            /\ IsList(p.validators) /\ \A v \in ToSet(p.validators) : v.key \in Nat

LineKinds == {"alloc", "storage", "other", "entry"}
Fields == {"address", "nonce", "code"}

\* A line that is not a section's name has a key, the name of a field or a slot.
ASSUME HandAssumption ==
  \A line \in HandLines :
    /\ line[1] \in LineKinds
    /\ line[1] = "entry" /\ line[2][1] = "field" => line[2][2] \in Fields

VARIABLES
  request,   \* the configuration and the base file, or None for a hand-written file
  pc,        \* the tool step that is next, or how the pipeline ended
  base,      \* load_base_allocs's accounts
  merged,    \* build_allocs's accounts so far
  todo,      \* index of the predeploy that is overlaid next
  file,      \* the INI file
  json,      \* the alloc JSON: accounts by address
  header,    \* the header fields that gen_eth_header_fixture.py prints
  rollup,    \* the rollup.json that was written
  verdict    \* what diff_genesis_header.py compared and its exit code

build == <<base, merged, todo>>
vars == <<request, pc, build, file, json, header, rollup, verdict>>

TypeOK ==
  /\ request \in Requests \cup {None}
  /\ pc \in {"provenance", "base", "expected", "overlay", "emit", "file", "rollup",
             "diff", "done", "refused", "unreadable", "unrootable", "rejected"}
  /\ \A accounts \in {base, merged, json} : \A a \in DOMAIN accounts :
       a \in Nat /\ accounts[a].nonce \in 0..(Pow64 - 1)
  /\ request # None => todo \in 1..(Len(request.cfg.predeploys) + 1)
  /\ \A i \in DOMAIN file : file[i][1] \in LineKinds
  /\ (header = <<>>) = (pc \notin {"rollup", "diff", "done", "rejected"})

Init ==
  /\ request \in Requests \cup {None}
  /\ pc = IF request = None THEN "file" ELSE "provenance"
  /\ base = <<>> /\ merged = <<>> /\ todo = 1
  /\ file = <<>> /\ json = <<>> /\ header = <<>> /\ rollup = <<>> /\ verdict = <<>>

-----------------------------------------------------------------------------
(* build-allocs.py.                                                          *)

\* One step of main: on failure the tool exits with an exception.
Stage(here, guard, there) ==
  /\ pc = here
  /\ pc' = IF guard THEN there ELSE "refused"

VerifyProvenance ==
  /\ Stage("provenance", ProvenanceVerified(request.cfg.base_allocs_sha256), "base")
  /\ UNCHANGED <<request, build, file, json, header, rollup, verdict>>

LoadBase ==
  /\ Stage("base", LoadsBase(request.base), "expected")
  /\ base' = IF LoadsBase(request.base) THEN load_base_allocs(request.base) ELSE base
  /\ merged' = base'
  /\ UNCHANGED <<request, todo, file, json, header, rollup, verdict>>

CheckExpected ==
  /\ Stage("expected", ExpectedPresent(request.cfg, merged), "overlay")
  /\ UNCHANGED <<request, build, file, json, header, rollup, verdict>>

OverlayPredeploy ==
  LET p == request.cfg.predeploys[todo]
      ok == Overlays(p, request.cfg, base, merged)
  IN /\ pc = "overlay" /\ todo <= Len(request.cfg.predeploys)
     /\ Stage("overlay", ok, "overlay")
     /\ merged' = IF ok THEN Overlay(p, request.cfg, base, merged) ELSE merged
     /\ todo' = IF ok THEN todo + 1 ELSE todo
     /\ UNCHANGED <<request, base, file, json, header, rollup, verdict>>

Emit ==
  /\ pc = "overlay" /\ todo > Len(request.cfg.predeploys)
  /\ pc' = "file"
  /\ file' = emit_ini(merged)
  /\ json' = emit_alloc_json(merged)
  /\ UNCHANGED <<request, build, header, rollup, verdict>>

-----------------------------------------------------------------------------
(* The header.                                                               *)

WriteLine(line) ==
  /\ pc = "file" /\ request = None
  /\ Len(file) < MaxLines
  /\ file' = Append(file, line)
  /\ UNCHANGED <<request, pc, build, json, header, rollup, verdict>>

\* Only the fields that the alloc file or the override can change.
DEFAULT_FIELDS ==
  [state_root |-> EmptyRoot, withdrawals_root |-> EmptyRoot, timestamp |-> 1]

\* The first alloc whose address is written as the passer's constant is.
PasserAllocs(allocs) == {i \in DOMAIN allocs : allocs[i].address = AddressText(Passer)}

HeaderFields(override, allocs) ==
  LET fields == override ++ DEFAULT_FIELDS
      passer == PasserAllocs(allocs)
  IN [fields EXCEPT
        !.state_root = compute_state_root(allocs),
        !.withdrawals_root = IF passer = {} THEN @
                             ELSE compute_storage_root(allocs[Min(passer)].storage)]

MakeHeader ==
  LET parsed == parse_allocs_ini(file)
      rootable == compute_state_root(parsed.allocs) # Raise
  IN /\ pc = "file"
     /\ pc' = IF parsed.error THEN "unreadable" ELSE IF ~rootable THEN "unrootable"
              ELSE "rollup"
     /\ IF parsed.error \/ ~rootable THEN header' = header
        ELSE \E override \in Overrides : header' = HeaderFields(override, parsed.allocs)
     /\ UNCHANGED <<request, build, file, json, rollup, verdict>>

\* keccak256 of the RLP of the fields.
HeaderHash(fields) == <<"keccak", fields>>

-----------------------------------------------------------------------------
(* gen_rollup_config.py.                                                     *)

\* A hexadecimal argument is <<value, how it is written>>; the wrong width is "short".
WellWritten(text) == text[2] # "short"

Canonical(text) == <<text[1], "0x">>

\* build_rollup_config: the hexadecimal arguments in canonical form, all fork times 0;
\* batcher stands for every address argument.
build_rollup_config(args) ==
  [l1 |-> Canonical(args.l1), l2 |-> Canonical(args.l2), batcher |-> Canonical(args.batcher),
   scalar |-> Canonical(args.scalar), numbers |-> args.numbers]

ZeroText == <<<<"zero">>, "0x">>

\* check, in op-node's order.
check(c) ==
  /\ \A k \in DOMAIN c.numbers : c.numbers[k] > 0
  /\ c.numbers.seq_window_size >= 2
  /\ c.l1 # ZeroText /\ c.l2 # ZeroText
  /\ c.l1 # c.l2
  /\ c.batcher # ZeroText
  /\ c.scalar # ZeroText
  /\ c.numbers.l1_chain_id # c.numbers.l2_chain_id

WriteRollup ==
  /\ pc = "rollup" /\ request # None
  /\ \E args \in RollupArgs(HeaderHash(header)) :
       LET ok == /\ \A k \in {"l1", "l2", "batcher", "scalar"} : WellWritten(args[k])
                 /\ check(build_rollup_config(args))
       IN /\ rollup' = IF ok THEN build_rollup_config(args) ELSE rollup
          /\ pc' = IF ok THEN "diff" ELSE "rejected"
  /\ UNCHANGED <<request, build, file, json, header, verdict>>

-----------------------------------------------------------------------------
(* diff_genesis_header.py.                                                   *)

\* Mutant: the hash is left out, being derived from the other fields.
FieldsButHash == {"state_root", "withdrawals_root", "timestamp"}

FIELDS == {"state_root", "withdrawals_root", "timestamp", "hash"}

\* Block 0 as an endpoint answers it: every field it does not leave out, as written.
Answer(fields, rendering) ==
  [f \in FIELDS \ rendering.missing |->
     <<IF f = "hash" THEN HeaderHash(fields) ELSE fields[f], rendering.written>>]

\* normalize: no field is None, case, prefix and leading zeros of quantities are gone.
normalize(answer, f) == IF f \in DOMAIN answer THEN <<"is", answer[f][1]>> ELSE <<"None">>

\* The header of a chain whose genesis is the accounts: external to the repository.
ReferenceHeader(accounts, timestamp) ==
  [state_root |-> state_root(accounts),
   withdrawals_root |-> IF Passer \in DOMAIN accounts
                        THEN GoldenStorageRoot(accounts[Passer].storage) ELSE EmptyRoot,
   timestamp |-> timestamp]

\* The other chain is built from this JSON, or from an older one: the base alone.
Diff ==
  /\ pc = "diff"
  /\ \E accounts \in {json, base}, ra, rb \in Renderings :
       LET a == Answer(header, ra)
           b == Answer(ReferenceHeader(accounts, header.timestamp), rb)
       IN verdict' = [other |-> ReferenceHeader(accounts, header.timestamp),
                      missing |-> <<ra.missing, rb.missing>>,
                      agree |-> \A f \in FIELDS : normalize(a, f) = normalize(b, f)]
  /\ pc' = "done"
  /\ UNCHANGED <<request, build, file, json, header, rollup>>

-----------------------------------------------------------------------------
Next ==
  \/ VerifyProvenance \/ LoadBase \/ CheckExpected \/ OverlayPredeploy \/ Emit
  \/ \E line \in HandLines : WriteLine(line)
  \/ MakeHeader \/ WriteRollup \/ Diff

Spec == Init /\ [][Next]_vars

-----------------------------------------------------------------------------
(* Properties.                                                               *)

Emitted == json # <<>>
Predeploys == {request.cfg.predeploys[i] : i \in DOMAIN request.cfg.predeploys}
Generated == request # None /\ header # <<>>
ByHand == request = None /\ header # <<>>

\* The base is authoritative for every account it has, however many predeploys are
\* merged, and the overlay adds two accounts of its own for each of them
\* (build-allocs.py 582-584; README "Safety rules").
BaseKept ==
  Emitted =>
    /\ \A a \in DOMAIN base : a \in DOMAIN merged /\ merged[a] = base[a]
    /\ Cardinality(DOMAIN merged) = Cardinality(DOMAIN base) + 2 * Len(request.cfg.predeploys)

\* Who may upgrade a proxied predeploy is never who may write it: the owner of the
\* contract its admin slot names in the merged accounts is not the owner in its slot 51,
\* and neither is zero (README "Safety rules"; build-allocs.py 483-510).
Apart(p) ==
  LET storage == merged[p.address].storage
      admin == storage[EIP1967_ADMIN_SLOT][2]
  IN /\ admin \in DOMAIN merged
     /\ Cardinality({Word(0), Owner(merged, admin), storage[OZ_OWNER_SLOT]}) = 3

\* That holds of every predeploy whose raw `storage` entries leave the two slots alone:
\* those entries are written after the checks, over what was checked.
ApartUnlessOverwritten ==
  Emitted => \A p \in Predeploys :
               DOMAIN p.storage \cap {OZ_OWNER_SLOT, EIP1967_ADMIN_SLOT} = {} => Apart(p)

\* The validators' storage is an EnumerableSet that L2ValidatorSet can work on: the
\* index kept for a member is its place in the array, no address is there twice or is
\* indexed without being there, and every member has a record that pays a fee to someone.
SetSound(storage) ==
  LET size == IF Slot(101) \in DOMAIN storage THEN storage[Slot(101)][2] ELSE 0
      members == {storage[ValuesSlot(i)][2] : i \in 0..(size - 1)}
  IN /\ \A i \in 0..(size - 1) :
          storage[MappingSlot(102, storage[ValuesSlot(i)][2], 0)] = Word(i + 1)
     /\ \A a \in members : storage[MappingSlot(103, a, 0)][3] \notin {0, Dead}
     /\ {s[3] : s \in {t \in DOMAIN storage : t[1] = "map"}} = members

ValidatorSetSound ==
  Emitted => \A p \in Predeploys : p.storage = <<>> => SetSound(merged[p.address].storage)

\* Every file that the build writes can be read and rooted, and the header's two roots
\* are those of a chain built from the JSON by an independent implementation: the two
\* renderings and the two tries agree, zero words and embedded nodes included.
RootsAgree ==
  /\ request # None => pc \notin {"unreadable", "unrootable"}
  /\ Generated => /\ header.state_root = state_root(json)
                  /\ Passer \in DOMAIN json =>
                       header.withdrawals_root = GoldenStorageRoot(json[Passer].storage)

\* A hand-written file that gets a root has one meaning: one section per address, at
\* most one non-zero word per slot however the slots are written, and the root is the
\* reference root of those accounts.  Anything else is refused by the parser or fails
\* in the trie (mpt_state_root.py 276-281, 293-302).  The second root is the passer's,
\* whatever the override said, unless its address lacks the 0x prefix: the roots accept
\* that, the search for the passer does not (gen_eth_header_fixture.py 190-194).
Meaning(allocs) ==
  [a \in {allocs[i].address[2] : i \in DOMAIN allocs} |->
     LET alloc == allocs[CHOOSE i \in DOMAIN allocs : allocs[i].address[2] = a]
         kept == SelectSeq(alloc.storage, LAMBDA pair : pair[2] # Word(0))
     IN [nonce |-> 0, code |-> "",
         storage |-> [s \in {kept[i][1][2] : i \in DOMAIN kept} |->
                        kept[CHOOSE i \in DOMAIN kept : kept[i][1][2] = s][2]]]]

RootedIsUnambiguous ==
  ByHand =>
    LET allocs == parse_allocs_ini(file).allocs IN
    /\ \A i, j \in DOMAIN allocs : allocs[i].address[2] = allocs[j].address[2] => i = j
    /\ \A i \in DOMAIN allocs : \A m, n \in DOMAIN allocs[i].storage :
         LET pairs == allocs[i].storage IN
         pairs[m][1][2] = pairs[n][1][2] => m = n \/ Word(0) \in {pairs[m][2], pairs[n][2]}
    /\ header.state_root = state_root(Meaning(allocs))
    /\ \A i \in DOMAIN allocs :
         allocs[i].address = AddressText(Passer) =>
           header.withdrawals_root = GoldenStorageRoot(Meaning(allocs)[Passer].storage)

\* A slot line that a rooted file has under a storage section is among the pairs that
\* are rooted, unless a second storage section of the same alloc follows it: that one
\* starts over and drops what the first one listed (mpt_state_root.py 272-273).
SectionOf(i) == Max({0} \cup {j \in 1..i : file[j][1] # "entry"})

Reopened(i) ==
  \E j \in DOMAIN file : /\ j > i /\ file[j][1] = "storage"
                         /\ \A k \in i..j : file[k][1] \in {"entry", "storage"}

OnlyReopenedLose ==
  ByHand =>
    LET allocs == parse_allocs_ini(file).allocs IN
    \A i \in DOMAIN file :
      file[i][1] = "entry" /\ SectionOf(i) > 0 /\ file[Max({1, SectionOf(i)})][1] = "storage" =>
        \/ Reopened(i)
        \/ \E j \in DOMAIN allocs :
             <<file[i][2], file[i][3]>> \in ToSet(allocs[j].storage)

\* The comparison of two block 0 answers tells equal chains from different ones,
\* whatever fields both leave out and however each writes the others, as long as
\* they answer the hash.
DiffTellsApart ==
  verdict # <<>> =>
    /\ verdict.agree /\ "hash" \notin verdict.missing[1] => verdict.other = header
    /\ verdict.other = header /\ verdict.missing[1] = verdict.missing[2] => verdict.agree
=============================================================================
