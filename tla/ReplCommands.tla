---------------------------- MODULE ReplCommands ----------------------------
(***************************************************************************)
(* repl: the values a line may hold, the commands of every namespace and   *)
(* what is made of an argument before it is sent.                          *)
(*                                                                         *)
(* A JSON value is a record whose kind says what the code can tell apart.  *)
(* The strings: "hex" is a 0x quantity n; "address", "hash" and "data" are *)
(* 0x strings of 20, 32 and other bytes, with a field n when they are a    *)
(* quantity with zeros before it, and else above every integer the code    *)
(* can read; "decimal" is the string of the integer n and "fraction" one   *)
(* with a point in it; "ens" is a name with a point in it, "ref" is a      *)
(* string that begins with a dollar sign, "error" a formatted error and    *)
(* "text" anything else, texts that differ only in case being one.  The    *)
(* others: "number" is an integer, "float" any other number, "bool",       *)
(* "null", "object" and "array".                                           *)
(***************************************************************************)
EXTENDS Integers, Sequences, SequencesExt, FiniteSetsExt

CONSTANTS
    MaxInt,      \* i64::MAX
    MaxWide      \* u128::MAX

MaxWord == 2 * MaxInt + 1      \* u64::MAX

ASSUME ReplCommandsAssumption == MaxInt \in Nat \ {0} /\ MaxWide \in Nat /\ MaxWide > MaxWord

Hex(n) == [kind |-> "hex", n |-> n]
Decimal(n) == [kind |-> "decimal", n |-> n]
JsonNumber(n) == [kind |-> "number", n |-> n]
Bool(b) == [kind |-> "bool", b |-> b]
Text(s) == [kind |-> "text", s |-> s]
Bytes(kind, s) == [kind |-> kind, s |-> s]
Padded(kind, n) == [kind |-> kind, n |-> n]      \* an address or a hash
Object(fields) == [kind |-> "object", fields |-> fields]
Array(elems) == [kind |-> "array", elems |-> elems]
Float == [kind |-> "float"]
Null == [kind |-> "null"]
ErrorText == [kind |-> "error"]       \* what format_error returns
Invalid == [kind |-> "invalid"]        \* no value: an Err

Is0x(v) == v.kind \in {"hex", "address", "hash", "data"}
IsNumber(v) == \/ v.kind \in {"hex", "decimal", "number"}
               \/ v.kind \in {"address", "hash"} /\ "n" \in DOMAIN v
IsString(v) == Is0x(v) \/ v.kind \in {"decimal", "fraction", "ens", "ref", "error", "text"}

-----------------------------------------------------------------------------
(* The registry.                                                           *)

Required(type) == [type |-> type, required |-> TRUE, default |-> Null]
Optional(type) == [type |-> type, required |-> FALSE, default |-> Null]
Default(type, s) == [type |-> type, required |-> FALSE, default |-> Text(s)]

AtLatest == Default("BlockId", "latest")
FullTxs == Default("Bool", "false")
Block == Required("BlockId")
Hash == Required("Hash")
Address == Required("Address")

Commands(names, params) == names \X {params}

\* The parameter lists the methods share.
ADDR_BLOCK == <<Address, AtLatest>>
BLOCK_FULLTXS == <<Block, FullTxs>>
HASH_FULLTXS == <<Hash, FullTxs>>
TX_OBJECT_BLOCK == <<Required("Object"), AtLatest>>
FILTER_OBJECT == <<Required("Object")>>
FILTER_ID == <<Required("Uint")>>
GET_STORAGE_AT == <<Address, Hash, AtLatest>>
BLOCK_INDEX == <<Block, Required("Uint")>>
HASH_INDEX == <<Hash, Required("Uint")>>
SEND_RAW_TX == <<Required("HexData")>>
FEE_HISTORY == <<Required("Uint"), Block, Optional("Array")>>
GET_PROOF == <<Address, Required("Array"), AtLatest>>
HASH_OPTIONS == <<Hash, Optional("Object")>>
BLOCK_OPTIONS == <<Block, Optional("Object")>>

\* One function per namespace: what every method takes.
eth_accounts ==
    Commands({"blockNumber", "chainId", "syncing", "gasPrice", "maxPriorityFeePerGas",
              "blobBaseFee", "accounts"}, <<>>)
    \cup Commands({"getBalance", "getCode", "getTransactionCount"}, ADDR_BLOCK)
    \cup Commands({"getStorageAt"}, GET_STORAGE_AT)

eth_blocks ==
    Commands({"getBlockByNumber"}, BLOCK_FULLTXS)
    \cup Commands({"getBlockByHash"}, HASH_FULLTXS)
    \cup Commands({"getBlockTransactionCountByNumber", "getBlockReceipts"}, <<Block>>)
    \cup Commands({"getBlockTransactionCountByHash", "getTransactionByHash",
                 "getTransactionReceipt"}, <<Hash>>)
    \cup Commands({"getTransactionByBlockNumberAndIndex"}, BLOCK_INDEX)
    \cup Commands({"getTransactionByBlockHashAndIndex"}, HASH_INDEX)

eth_calls ==
    Commands({"call", "estimateGas", "createAccessList"}, TX_OBJECT_BLOCK)
    \cup Commands({"sendRawTransaction"}, SEND_RAW_TX)
    \cup Commands({"feeHistory"}, FEE_HISTORY)
    \cup Commands({"getLogs", "newFilter"}, FILTER_OBJECT)
    \cup Commands({"getFilterChanges", "uninstallFilter"}, FILTER_ID)
    \cup Commands({"getProof"}, GET_PROOF)
    \cup Commands({"getBlockAccessList"}, <<Block>>)

engine ==
    Commands({"forkchoiceUpdatedV3"}, <<Required("Object"), Optional("Object")>>)
    \cup Commands({"getPayloadV5"}, <<Required("HexData")>>)
    \cup Commands({"newPayloadV4"},
                <<Required("Object"), Required("Array"), Hash, Required("Array")>>)

debug ==
    Commands({"getRawHeader", "getRawBlock", "getRawReceipts", "executionWitness"}, <<Block>>)
    \cup Commands({"getRawTransaction"}, <<Hash>>)
    \cup Commands({"traceTransaction"}, HASH_OPTIONS)
    \cup Commands({"traceBlockByNumber"}, BLOCK_OPTIONS)

admin ==
    Commands({"nodeInfo", "peers", "peerScores", "syncStatus"}, <<>>)
    \cup Commands({"setLogLevel", "addPeer"}, <<Required("StringParam")>>)

net == Commands({"version", "peerCount"}, <<>>)
web3 == Commands({"clientVersion"}, <<>>)
txpool == Commands({"content", "status"}, <<>>)

\* A namespace as a function from its methods to their parameters.
Table(commands) ==
    [method \in {c[1] : c \in commands} |-> (CHOOSE c \in commands : c[1] = method)[2]]

Registry == [eth |-> Table(eth_accounts \cup eth_blocks \cup eth_calls),
             engine |-> Table(engine), debug |-> Table(debug), admin |-> Table(admin),
             net |-> Table(net), web3 |-> Table(web3), txpool |-> Table(txpool)]

Known(namespace, method) ==
    namespace \in DOMAIN Registry /\ method \in DOMAIN Registry[namespace]

-----------------------------------------------------------------------------
(* Arguments.                                                              *)

\* serde_json keeps an integer of 64 bits, with or without a sign; a larger one
\* is read as a float.
JsonIntegers == -(MaxInt + 1) .. MaxWord

JsonInteger(n) == IF n \in JsonIntegers THEN JsonNumber(n) ELSE Float

\* A float, an object or an array stays what it is here, as a string.
value_as_str(v) ==
    CASE v.kind = "number" -> Decimal(v.n)
      [] v.kind = "bool" -> Text(IF v.b THEN "true" ELSE "false")
      [] v.kind = "null" -> Text("null")
      [] OTHER -> v

\* Mutant: any 0x string passes for an address.
IsAddress_any(v) == Is0x(v)

IsAddress(v) == v.kind = "address"

\* validate_and_convert.  A string is parsed as JSON for an
\* object or an array, and whatever JSON it holds is taken.
Converted(v, type) ==
    LET Holds(good, result) == IF good THEN result ELSE Invalid
        s == value_as_str(v)
        parsed == CASE v.kind = "decimal" -> JsonInteger(v.n)
                    [] v.kind = "fraction" -> Float
                    [] v \in {Text("true"), Text("false")} -> Bool(v.s = "true")
                    [] v = Text("null") -> Null
                    [] OTHER -> Invalid
        Container(kind) == IF v.kind = kind THEN v ELSE Holds(IsString(v), parsed)
    IN CASE type = "Address" -> Holds(IsAddress(s), s)
         [] type = "Hash" -> Holds(s.kind = "hash", s)
         [] type = "HexData" -> Holds(Is0x(s), s)
         [] type = "BlockId" -> IF s.kind = "decimal" /\ s.n \in 0 .. MaxWord THEN Hex(s.n) ELSE s
         [] type = "Uint" -> IF s.kind = "decimal" THEN Holds(s.n \in 0 .. MaxWide, Hex(s.n))
                             ELSE Holds(Is0x(s), s)
         [] type = "Bool" -> IF v.kind = "bool" THEN v
                             ELSE Holds(v \in {Text("true"), Text("false")}, parsed)
         [] type = "Object" -> Container("object")
         [] type = "Array" -> Container("array")
         [] type = "StringParam" -> s

\* build_params: Ok with the parameters, or not.  The first one that is neither
\* given nor has a default ends the list.
Built(params, args) ==
    LET required == Cardinality({i \in DOMAIN params : params[i].required})
        absent == {i \in DOMAIN params : i > Len(args) /\ params[i].default = Null}
        last == IF absent = {} THEN Len(params) ELSE Min(absent) - 1
        built == [i \in 1 .. last |->
                    IF i <= Len(args) THEN Converted(args[i], params[i].type)
                    ELSE params[i].default]
    IN [ok |-> Len(args) \in required .. Len(params) /\ \A i \in 1 .. last : built[i] # Invalid,
        params |-> built]
=============================================================================
