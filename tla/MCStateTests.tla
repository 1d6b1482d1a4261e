------------------------------ MODULE MCStateTests ------------------------------
(* Four fixtures: one with a plain and a failing case, one that reads        *)
(* BLOCKHASH, one gated out of the second runner's Osaka allowlist, and one  *)
(* of a fork that neither the second runner nor statetest reads.             *)
EXTENDS StateTests

plain == [test |-> "t1", fork |-> "Prague", vector |-> <<0, 0, 0>>, expect |-> {}, reads |-> FALSE]
floor == [test |-> "t1", fork |-> "Prague", vector |-> <<0, 1, 0>>,
          expect |-> {"INTRINSIC_GAS_BELOW_FLOOR_GAS_COST", "NONCE_IS_MAX"}, reads |-> FALSE]
hash  == [test |-> "t2", fork |-> "Cancun", vector |-> <<0, 0, 0>>, expect |-> {}, reads |-> TRUE]
limit == [test |-> "t2", fork |-> "Prague", vector |-> <<0, 0, 0>>,
          expect |-> {"GAS_LIMIT_EXCEEDS_MAXIMUM", "TYPE_3_TX_CONTRACT_CREATION", "TYPE_4_TX_CONTRACT_CREATION"},
          reads |-> FALSE]
osaka == [test |-> "t3", fork |-> "Prague", vector |-> <<0, 0, 0>>, expect |-> {"INTRINSIC_GAS_TOO_LOW"}, reads |-> FALSE]
old == [test |-> "t4", fork |-> "London", vector |-> <<0, 0, 0>>, expect |-> {}, reads |-> FALSE]

MCCases == {plain, floor, hash, limit, osaka, old}

Did(did, error, root, logs) ==
    [did |-> did, error |-> error, validation |-> error \notin {"", "Internal"}, root |-> root, logs |-> logs]
Right == Did("ok", "", TRUE, TRUE)

MCForkChoices == {{"Cancun", "Prague"}, {"Prague"}}

MCOutcomes(c) ==
    CASE c = plain -> {Right, Did("ok", "", FALSE, TRUE), Did("ok", "", TRUE, FALSE),
                       Did("reverted", "", FALSE, TRUE), Did("rejected", "Internal", TRUE, TRUE),
                       Did("rejected", "NonceIsMax", FALSE, TRUE), Did("unprepared", "", TRUE, TRUE),
                       Did("unpriced", "", TRUE, TRUE)}
      [] c = floor -> {Did("rejected", "IntrinsicGasBelowFloorGasCost", TRUE, TRUE),
                       Did("rejected", "NonceIsMax", FALSE, TRUE),
                       Did("rejected", "SenderNotEoa", TRUE, TRUE),
                       Did("ok", "", FALSE, TRUE)}
      [] c \in {hash, old} -> {Right}
      [] c = limit -> {Did("rejected", "TxMaxGasLimitExceeded", TRUE, TRUE),
                       Did("rejected", "IntrinsicGasTooLow", TRUE, TRUE),
                       Did("type3create", "Type3TxContractCreation", TRUE, TRUE),
                       Did("type4create", "Type4TxContractCreation", TRUE, TRUE)}
      [] c = osaka -> {Did("rejected", "IntrinsicGasBelowFloorGasCost", TRUE, TRUE)}

Revm(did, root, differs) == [did |-> did, root |-> root, differs |-> differs]

MCRevmResults == {Revm("ok", TRUE, {"gas", "logs"}), Revm("error", FALSE, {}), Revm("noConfig", FALSE, {})}
=============================================================================
