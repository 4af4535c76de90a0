------------------------------ MODULE MCGenesis ------------------------------
(* Requests for TLC: a chain configuration and a base that build, each varied   *)
(* in one place, two of the variations at a time; and short hand-written files.  *)
EXTENDS GenesisPipeline

ProxyAdmin == 2
L1Block == 3
MCPasser == 4
Governance == 5
Upgrader == 7

Account(a, nonce, code, storage) ==
  [address |-> a, nonce |-> nonce, code |-> code, storage |-> storage]

AdminAccount == Account(ProxyAdmin, 0, "admin", Slot(0) :> Word(Upgrader))
PasserAccount == Account(MCPasser, 0, "proxy", Slot(16) :> Word(3) @@ Slot(1) :> Word(0)
                                              @@ EIP1967_ADMIN_SLOT :> Word(ProxyAdmin))
GoodBase == <<AdminAccount,
              Account(L1Block, 0, "proxy", EIP1967_ADMIN_SLOT :> Word(ProxyAdmin)),
              PasserAccount, Account(6, 2, "", <<>>)>>

Bases ==
  {GoodBase, <<>>, Append(GoodBase, Account(6, 0, "", <<>>)),
   Append(GoodBase, Account(8, Pow64, "", <<>>)), Append(GoodBase, Account(13, 0, "", <<>>)),
   SubSeq(GoodBase, 2, 4),
   [GoodBase EXCEPT ![1].code = ""], [GoodBase EXCEPT ![1].storage = <<>>],
   [GoodBase EXCEPT ![1].storage = Slot(0) :> Word(Governance)],
   [GoodBase EXCEPT ![3].storage = Slot(1) :> Word(0)],
   [GoodBase EXCEPT ![3] = Account(9, 1, "other", Slot(1) :> Word(3) @@ Slot(22) :> Word(1))]}

SystemConfig ==
  [name |-> "SystemConfig", proxied |-> TRUE, address |-> 10, implementation |-> 11,
   artifact |-> "linked", storage |-> <<>>, validators |-> <<>>,
   system_config |-> [chain_id |-> <<"int", 90>>, gas_limit |-> <<"hex", 16>>]]

Validator(a) == [address |-> a, fee_address |-> None, voting_power |-> <<"int", 1>>, key |-> 31]

ValidatorSet ==
  [SystemConfig EXCEPT !.name = "L2ValidatorSet", !.address = 12, !.implementation = 13,
     !.system_config = <<>>,
     !.validators = <<[Validator(8) EXCEPT !.key = 64], [Validator(9) EXCEPT !.fee_address = 6]>>]

SystemConfigs ==
  {SystemConfig}
  \cup {[SystemConfig EXCEPT !.proxied = FALSE], [SystemConfig EXCEPT !.address = 20],
        [SystemConfig EXCEPT !.address = 11], [SystemConfig EXCEPT !.implementation = 12],
        [SystemConfig EXCEPT !.system_config = [feature_flags |-> <<"int", 1>>]]}
  \cup {[SystemConfig EXCEPT !.artifact = a] : a \in {"missing", "immutables"}}
  \cup {[SystemConfig EXCEPT !.system_config.gas_limit = v] :
          v \in {<<"dec", 16>>, <<"int", 0>>, <<"int", Pow192>>, <<"int", Pow192 - 1>>}}
  \cup {[SystemConfig EXCEPT !.storage = w] :
          w \in {Slot(16) :> <<"dec", 16>>, Slot(0) :> <<"int", 0>>,
                 OZ_OWNER_SLOT :> <<"hex", Upgrader>>, EIP1967_ADMIN_SLOT :> <<"int", 6>>}}

ValidatorSets ==
  {ValidatorSet, [ValidatorSet EXCEPT !.validators = <<>>],
   [ValidatorSet EXCEPT !.validators = <<Validator(9), Validator(9)>>]}
  \cup {[ValidatorSet EXCEPT !.validators[1].address = a] : a \in {0, Dead, 9}}
  \cup {[ValidatorSet EXCEPT !.validators[2].fee_address = a] : a \in {0, Dead, 9}}
  \cup {[ValidatorSet EXCEPT !.validators[1].voting_power = v] :
          v \in {<<"dec", 9>>, <<"int", -1>>, <<"int", 0>>, <<"hex", Pow64>>}}
  \cup {[ValidatorSet EXCEPT !.validators[1].key = k] : k \in {0, 31, 32}}

Config ==
  [base_allocs_sha256 |-> "match", proxy_admin |-> ProxyAdmin, governance_owner |-> Governance,
   proxy_code_source |-> L1Block, expected_predeploys |-> {L1Block},
   predeploys |-> <<SystemConfig, ValidatorSet>>]

Configs ==
  {Config}
  \cup {[Config EXCEPT !.base_allocs_sha256 = p] : p \in {"none", "mismatch"}}
  \cup {[Config EXCEPT !.proxy_admin = a] : a \in {None, 0, Dead, Governance, L1Block, 6}}
  \cup {[Config EXCEPT !.governance_owner = a] : a \in {None, 0, Dead, Upgrader}}
  \cup {[Config EXCEPT !.proxy_code_source = a] : a \in {None, 6, 9, 14}}
  \cup {[Config EXCEPT !.expected_predeploys = S] : S \in {{}, {L1Block, MCPasser}, {6}}}
  \cup {[Config EXCEPT !.predeploys = s] :
          s \in {<<>>, <<ValidatorSet, SystemConfig>>, <<SystemConfig, SystemConfig>>}}

With(s, v) == [Config EXCEPT !.predeploys = <<s, v>>]

MCRequests ==
  [cfg : Configs, base : Bases]
  \cup [cfg : {With(s, v) : s \in SystemConfigs, v \in ValidatorSets}, base : {GoodBase}]

-----------------------------------------------------------------------------
Bare(s) == <<"slot", s, "bare">>
BareAddress(a) == <<"address", a, "bare">>

MCHandLines ==
  {SectionLine(<<"index", 0>>), SectionLine(BareAddress(MCPasser)), StorageLine(<<"index", 0>>),
   FieldLine("address", AddressText(MCPasser)), FieldLine("address", AddressText(6)), OtherLine,
   SlotLine(SlotText(Slot(1)), Word(3)), SlotLine(Bare(Slot(1)), Word(2)),
   SlotLine(SlotText(Slot(1)), Word(0))}

MCOverrides == {<<>>, [timestamp |-> 2, withdrawals_root |-> <<"other">>]}

-----------------------------------------------------------------------------
(* An injective stand-in for the hash whose keys share up to two nibbles.        *)

Number(x) ==
  CASE x[1] = "account" -> x[2]
    [] x[1] = "slot" -> CHOOSE i \in 0..5 : <<0, 1, 16, 22, 51, 101>>[i + 1] = x[2]
    [] x[1] = "eip1967" -> IF x[2] = "admin" THEN 6 ELSE 7
    [] x[1] = "array" -> 8 + x[3]
    [] x[1] = "map" -> 10 + 3 * (x[3] % 2) + (IF x[2] = 102 THEN 0 ELSE 1 + x[4])
    [] x[1] = "data" -> 16 + 2 * (x[2] % 2) + x[3]
    [] OTHER -> IF x[3] = "chain_id" THEN 20 ELSE 21

MCKeccak(x) ==
  LET n == Number(x) IN <<n \div 9, (n \div 3) % 3, n % 3, (n + 1) % 3>>

MCValueLen(v) ==
  CASE v[1] = "account" -> 70
    [] v[1] = "rlp" -> CASE v[2][1] = "word" -> 1 [] v[2][1] = "packed" -> 29 [] OTHER -> 33

-----------------------------------------------------------------------------
Text(v) == <<<<v>>, "0x">>

Numbers == [seq_window_size |-> 2, l1_chain_id |-> 1, l2_chain_id |-> 2, block_time |-> 1]

Args(hash) ==
  [l1 |-> Text("l1"), l2 |-> <<hash, "0x">>, batcher |-> Text("batcher"),
   scalar |-> Text("scalar"), numbers |-> Numbers]

MCRollupArgs(hash) ==
  {Args(hash)}
  \cup {[Args(hash) EXCEPT !.l1 = v] :
          v \in {<<hash, "0x">>, <<hash, "upper">>, <<<<"zero">>, "upper">>, <<<<"l1">>, "short">>}}
  \cup {[Args(hash) EXCEPT !.batcher = v] : v \in {Text("zero"), <<<<"zero">>, "upper">>}}
  \cup {[Args(hash) EXCEPT !.scalar = <<<<"zero">>, "upper">>]}
  \cup {[Args(hash) EXCEPT !.numbers.seq_window_size = 1],
        [Args(hash) EXCEPT !.numbers.block_time = 0],
        [Args(hash) EXCEPT !.numbers.l1_chain_id = 2]}

MCRenderings ==
  [missing : {{}, {"withdrawals_root"}, {"state_root", "withdrawals_root"}},
   written : {"0x", "upper"}]
=============================================================================
