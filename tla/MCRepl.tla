------------------------------- MODULE MCRepl -------------------------------
(* The lines, answers and names of the runs of Repl. *)
EXTENDS Repl

Ens == Bytes("ens", "vitalik.eth")
Someone == Bytes("address", "someone")
Dot == Sign("Dot")

\* namespace.method and its arguments.
Rpc(namespace, method, args) == <<Ident(namespace), Dot, Ident(method)>> \o args
To(name, line) == <<Ident(name), Sign("Equals")>> \o line
X == VarRef("x", <<>>)
Field == VarRef("x", <<"number">>)
Dec(n) == Number(Decimal(n))

\* Every method, with what it needs.
Sample == [Address |-> String(Someone), Hash |-> String(Bytes("hash", "h")), BlockId |-> Dec(2),
           HexData |-> String(Bytes("data", "d")), Uint |-> Dec(2), Bool |-> True,
           Object |-> Json(Object([to |-> Someone])), Array |-> Json(Array(<<>>)),
           StringParam |-> Ident("info")]

EveryMethod ==
    UNION {{Rpc(namespace, method,
                LET params == Registry[namespace][method]
                IN [i \in DOMAIN params |-> Sample[params[i].type]])
            : method \in DOMAIN Registry[namespace]} : namespace \in DOMAIN Registry}

\* What goes through variables, arithmetic, names, brackets and utilities.
Session == {
    To("x", Rpc("eth", "blockNumber", <<>>)),
    To("x", <<Ident("toWei"), Dec(2), Ident("ether")>>),
    To("x", <<Ident("toHex"), Dec(2)>>),
    To("x", <<Ident("toWei"), Number(Fraction(1, 2)), Ident("gwei")>>),
    To("y", <<X>>),
    To("y", <<Field, Sign("Plus"), Dec(1)>>),
    To("y", <<Dot>>),
    To("y", <<>>),
    <<X>>, <<X, Sign("Minus"), Dec(3)>>, <<X, Sign("Plus"), Number(Hex(1))>>,
    Rpc("eth", "getBlockByNumber", <<X, Sign("Plus"), Dec(1)>>),
    Rpc("eth", "getBlockByNumber", <<X, Sign("Minus"), Dec(1)>>),
    Rpc("eth", "getBlockByNumber", <<Sign("LParen"), Field, Sign("Minus"), Dec(1), Sign("Comma"), True, Sign("RParen")>>),
    Rpc("eth", "getBlockByNumber", <<Sign("LParen"), Dec(1)>>),
    Rpc("eth", "getFilterChanges", <<VarRef("y", <<>>)>>),
    Rpc("eth", "getTransactionByBlockNumberAndIndex", <<X, VarRef("y", <<>>), Sign("Plus"), Dec(1)>>),
    Rpc("eth", "getBalance", <<String(Ens)>>), Rpc("eth", "getBalance", <<X>>),
    Rpc("eth", "getBalance", <<Ident("vitalik"), Dot, Ident("eth")>>),
    To("x", Rpc("eth", "getProof", <<String(Bytes("ens", "nobody.eth")), Sign("LBracket"), Sign("RBracket")>>)),
    Rpc("eth", "getBalance", <<Number(Fraction(1, 2))>>),
    Rpc("eth", "call", <<Sign("LBrace"), Key("to"), String(Bytes("ref", "x"))>>),
    <<Sign("RBrace")>>,
    Rpc("eth", "call", <<Dec(1)>>), Rpc("eth", "call", <<Dec(MaxWord + 1)>>),
    Rpc("eth", "nothing", <<>>),
    Rpc("eth", "feeHistory", <<Dec(1), Ident("latest"), Sign("LBracket"), Dec(MaxWord + 1), Sign("RBracket")>>),
    <<Ident("fromWei"), Dec(3), Ident("eth")>>, <<Ident("toHex"), X>>,
    <<Dot>>, <<Dot, Ident("exit")>>, <<Dot, Ident("vars")>>, <<>> }

MCLines == EveryMethod \cup Session

Block3 == Object([number |-> Hex(3), hash |-> Bytes("hash", "h")])
Logs == Object([logs |-> Array(<<Object([text |-> [kind |-> "wide"]])>>)])
MCAnswers == {Hex(0), Hex(3), Padded("hash", 3), Block3, Logs, Null, [kind |-> "wide"]}
MCEnsNames == {Ens}
=============================================================================
