----------------------------- MODULE BuildAllocs -----------------------------
(***************************************************************************)
(* tools/opstack-genesis/build-allocs.py: the op-deployer's accounts, and    *)
(* the overlay of FISCO's own proxied contracts that is merged onto them.    *)
(*                                                                         *)
(* An address is a natural number.  A storage is a function from slots to    *)
(* words, a slot that it lacks is zero.  Slots and words are tuples led by   *)
(* a tag: a hashed slot is the tuple of what is hashed, so that two of them  *)
(* are equal only if their preimages are (keccak256 is free of collisions).  *)
(* A configuration value is <<how it is written, number>>, how being "int",  *)
(* "hex" (quoted, 0x-prefixed) or "dec" (quoted decimal digits).  A proxied   *)
(* predeploy that the build refuses is refused whichever guard comes first.  *)
(***************************************************************************)
EXTENDS Integers, Sequences, FiniteSets, SequencesExt, FiniteSetsExt

CONSTANTS
  Dead,         \* the template placeholder 0x...dEaD
  Reserved,     \* the addresses of OP's two reserved namespaces
  None,         \* a key that the configuration leaves out
  Pow64,        \* one more than the greatest uint64
  Pow192        \* one more than the greatest uint192

ASSUME BuildAssumption ==
  /\ Dead \in Nat \ {0} /\ Reserved \subseteq Nat /\ None \notin Nat
  /\ Pow64 \in Nat \ {0} /\ Pow192 \in Nat \ {0}

\* A mapping with one key, and one mapping over another: the :> and @@ of the TLC
\* module, which the provers do not know.
Put(key, value) == [k \in {key} |-> value]

f ++ g == [k \in DOMAIN f \cup DOMAIN g |-> IF k \in DOMAIN f THEN f[k] ELSE g[k]]

-----------------------------------------------------------------------------
(* Words and slots.                                                          *)

Word(n) == <<"word", n>>
Slot(n) == <<"slot", n>>

EIP1967_IMPLEMENTATION_SLOT == <<"eip1967", "implementation">>
EIP1967_ADMIN_SLOT == <<"eip1967", "admin">>
OZ_INITIALIZED_SLOT == Slot(0)
OZ_OWNER_SLOT == Slot(51)
PROXY_ADMIN_OWNER_SLOT == Slot(0)

\* Slots of a Solidity mapping and of a dynamic array; field is the offset in a
\* mapping's record.
MappingSlot(base, key, field) == <<"map", base, key, field>>
EntrySlot(key) == <<"entry", 101, key>>
ValuesSlot(index) == <<"array", 101, index>>

\* Reading the digits of a decimal number as hexadecimal ones.
DigitsAsHex[n \in Nat] == IF n < 10 THEN n ELSE 16 * DigitsAsHex[n \div 10] + (n % 10)

\* word_int: an int as it is, a string as hexadecimal digits.
WordInt(value) == IF value[1] = "dec" THEN DigitsAsHex[value[2]] ELSE value[2]

\* config_word: a quoted value must carry its 0x prefix.
ConfigWord(value) == value[2]
Prefixed(value) == value[1] # "dec"

-----------------------------------------------------------------------------
(* The base: a sequence of [address, nonce, code, storage] as the JSON file   *)
(* lists them; its keys are texts, so that one address may come twice.        *)

\* verify_base_provenance: no pin is a warning, a pin must match.
ProvenanceVerified(pin) == pin \in {"none", "match"}

\* Mutant: the width of a nonce is not checked.
LoadsAnyNonce(file) ==
  file # <<>> /\ \A i, j \in DOMAIN file : file[i].address = file[j].address => i = j

LoadsBase(file) ==
  /\ file # <<>>
  /\ \A i, j \in DOMAIN file : file[i].address = file[j].address => i = j
  /\ \A i \in DOMAIN file : file[i].nonce < Pow64

NonZero(storage) == {s \in DOMAIN storage : storage[s] # Word(0)}

load_base_allocs(file) ==
  LET at(a) == file[CHOOSE i \in DOMAIN file : file[i].address = a] IN
  [a \in {file[i].address : i \in DOMAIN file} |->
     [nonce |-> at(a).nonce, code |-> at(a).code,
      storage |-> [s \in NonZero(at(a).storage) |-> at(a).storage[s]]]]

Coded(accounts, a) == a \in DOMAIN accounts /\ accounts[a].code # ""

Owner(accounts, a) ==
  IF PROXY_ADMIN_OWNER_SLOT \in DOMAIN accounts[a].storage
  THEN accounts[a].storage[PROXY_ADMIN_OWNER_SLOT] ELSE Word(0)

-----------------------------------------------------------------------------
(* The storage of SystemConfig and of L2ValidatorSet.                        *)

AcceptsSystemConfig(entries) ==
  /\ "feature_flags" \notin DOMAIN entries
  /\ \A k \in DOMAIN entries : /\ Prefixed(entries[k])
                               /\ ConfigWord(entries[k]) \in 1..(Pow192 - 1)

system_config_entry_storage(entries) ==
  [s \in {EntrySlot(k) : k \in DOMAIN entries} |-> Word(ConfigWord(entries[s[3]]))]

FeeAddress(v) == IF v.fee_address = None THEN v.address ELSE v.fee_address

\* Mutant: an address may be listed twice.
EachValidator(vs) ==
  \A i \in DOMAIN vs : /\ {vs[i].address, FeeAddress(vs[i])} \cap {0, Dead} = {}
                        /\ Prefixed(vs[i].voting_power)
                        /\ ConfigWord(vs[i].voting_power) \in 0..(Pow64 - 1)
                        /\ vs[i].key > 0

\* The length of the public key stands for the key: 0 is none.
AcceptsValidators(vs) ==
  /\ \A i \in DOMAIN vs : /\ vs[i].address \notin {0, Dead}
                          /\ FeeAddress(vs[i]) \notin {0, Dead}
                          /\ Prefixed(vs[i].voting_power)
                          /\ ConfigWord(vs[i].voting_power) \in 0..(Pow64 - 1)
                          /\ vs[i].key > 0
  /\ \A i, j \in DOMAIN vs : vs[i].address = vs[j].address => i = j

\* Solidity's `bytes` of a validator's key at offset 1 of its record: in place with
\* twice the length below 32 bytes, else the length there and the words elsewhere.
put_dynamic_bytes(address, length) ==
  LET slot == MappingSlot(103, address, 1) IN
  IF length < 32
  THEN Put(slot, <<"short", length>>)
  ELSE [s \in {slot} \cup {<<"data", address, i>> : i \in 0..((length - 1) \div 32)} |->
          IF s = slot THEN Word(2 * length + 1) ELSE <<"key", s[3]>>]

\* What one turn of the loop over the validators writes, the i-th.
AddValidator(v, i) ==
  Put(ValuesSlot(i - 1), Word(v.address))
    ++ Put(MappingSlot(102, v.address, 0), Word(i))
    ++ Put(MappingSlot(103, v.address, 0),
           <<"packed", ConfigWord(v.voting_power), FeeAddress(v)>>)
    ++ put_dynamic_bytes(v.address, v.key)

\* Later writes win.
validator_storage(vs) ==
  LET writes == [i \in DOMAIN vs |-> AddValidator(vs[i], i)]
      last(s) == Max({i \in DOMAIN vs : s \in DOMAIN writes[i]})
  IN IF vs = <<>> THEN <<>>
     ELSE Put(Slot(101), Word(Len(vs)))
            ++ [s \in UNION {DOMAIN writes[i] : i \in DOMAIN vs} |-> writes[last(s)][s]]

-----------------------------------------------------------------------------
(* One proxied predeploy, and the merge.                                     *)

\* Mutant: governance is compared with the ProxyAdmin contract, not with its owner.
AdminApart(cfg, base) ==
  /\ {cfg.proxy_admin, cfg.governance_owner} \cap {None, 0, Dead} = {}
  /\ cfg.proxy_admin # cfg.governance_owner
  /\ Coded(base, cfg.proxy_admin) /\ Owner(base, cfg.proxy_admin) # Word(0)

\* Two authorities: the owner of the base's ProxyAdmin upgrades, governance writes.
TwoAuthorities(cfg, base) ==
  /\ cfg.proxy_admin \notin {None, 0, Dead} /\ cfg.governance_owner \notin {None, 0, Dead}
  /\ cfg.proxy_admin # cfg.governance_owner
  /\ Coded(base, cfg.proxy_admin)
  /\ Owner(base, cfg.proxy_admin) \notin {Word(0), Word(cfg.governance_owner)}

\* What build_proxied_allocs requires of a predeploy.
Builds(p, cfg, base) ==
  /\ TwoAuthorities(cfg, base)
  /\ {p.address, p.implementation} \cap Reserved = {}
  /\ p.implementation # p.address
  /\ p.artifact = "linked"
  /\ cfg.proxy_code_source # None /\ Coded(base, cfg.proxy_code_source)
  /\ AcceptsSystemConfig(p.system_config)
  /\ AcceptsValidators(p.validators)

\* The predeploy's own `storage` entries are written last, over anything.
RawStorage(p) == [s \in DOMAIN p.storage |-> Word(WordInt(p.storage[s]))]

ProxyStorage(p, cfg) ==
  RawStorage(p)
    ++ validator_storage(p.validators)
    ++ system_config_entry_storage(p.system_config)
    ++ (Put(OZ_INITIALIZED_SLOT, Word(1))
          ++ Put(OZ_OWNER_SLOT, Word(cfg.governance_owner))
          ++ Put(EIP1967_IMPLEMENTATION_SLOT, Word(p.implementation))
          ++ Put(EIP1967_ADMIN_SLOT, Word(cfg.proxy_admin)))

ProxyAlloc(p, cfg, base) ==
  [nonce |-> 0, code |-> base[cfg.proxy_code_source].code, storage |-> ProxyStorage(p, cfg)]

ImplementationAlloc(p) ==
  [nonce |-> 0, code |-> p.name, storage |-> Put(OZ_INITIALIZED_SLOT, Word(255))]

ExpectedPresent(cfg, base) == \A a \in cfg.expected_predeploys : Coded(base, a)

\* Mutant: only the proxy's address is looked up in the merged accounts.
OverlaysProxy(p, cfg, base, merged) ==
  p.proxied /\ Builds(p, cfg, base) /\ p.address \notin DOMAIN merged

\* Whether, and how, build_allocs adds the two accounts of p to those merged so far.
Overlays(p, cfg, base, merged) ==
  /\ p.proxied
  /\ Builds(p, cfg, base)
  /\ {p.address, p.implementation} \cap DOMAIN merged = {}

Overlay(p, cfg, base, merged) ==
  Put(p.address, ProxyAlloc(p, cfg, base))
    ++ Put(p.implementation, ImplementationAlloc(p))
    ++ merged
=============================================================================
