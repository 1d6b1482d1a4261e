-------------------------------- MODULE Repl --------------------------------
(***************************************************************************)
(* repl: the interactive JSON-RPC prompt.  A line is tokenized, parsed and *)
(* executed; what it needs from the node is one request after another,     *)
(* and each of them may fail.  Variables live as long as the prompt.       *)
(*                                                                         *)
(* A line is a sequence of lexemes: the one-character tokens, the          *)
(* brackets, and words whose characters do not matter here.  A JSON block  *)
(* is the lexemes between its brackets: no block lies in a block, and the  *)
(* commas in it are left out.  Escapes and unterminated strings are left   *)
(* out too.                                                                *)
(***************************************************************************)
EXTENDS ReplCommands

CONSTANTS
    Lines,        \* what the user may type
    Names,        \* variables that may be assigned
    Answers,      \* results of the node
    EnsNames,     \* the ENS names that have an address
    MaxLines,     \* lines of a session
    Base          \* 10^9: a gwei; 10^18 is its square

\* A line is a sequence, and no node answers with what format_error makes.
ASSUME ReplAssumption ==
    /\ MaxLines \in Nat /\ Base \in Nat \ {0}
    /\ \A line \in Lines : Len(line) \in Nat /\ line = [i \in 1 .. Len(line) |-> line[i]]
    /\ ErrorText \notin Answers

VARIABLES
    status,       \* "reading", "calling", "exited", "crashed" or "killed"
    options,      \* interactive or one-shot (-x), and a JWT secret or none
    buffer,       \* multiline_buffer
    variables,    \* VariableStore: name -> value, Invalid when there is none
    call,         \* the RPC call under way
    sent,         \* the requests of the last call
    shown,        \* what was printed last
    typed         \* lines typed so far

vars == <<status, options, buffer, variables, call, sent, shown, typed>>

-----------------------------------------------------------------------------
(* The tokenizer.  A lexeme has a tok; words have a value besides, and a   *)
(* reference the variable and the path of fields.                          *)

Sign(c) == [tok |-> c]
Ident(s) == [tok |-> "Ident", value |-> Text(s)]
Number(v) == [tok |-> "Number", value |-> v]
String(v) == [tok |-> "String", value |-> v]
True == [tok |-> "Bool", value |-> Bool(TRUE)]
Key(field) == [tok |-> "Key", field |-> field]
VarRef(name, path) == [tok |-> "VarRef", name |-> name, path |-> path]
Json(v) == [tok |-> "Json", value |-> v]
Bad == Sign("Bad")

Count(line, to, toks) == Cardinality({i \in 1 .. to : line[i].tok \in toks})

\* is_balanced: FALSE too when a bracket is closed that was never opened.
IsBalanced(line) ==
    \A pair \in {<<"LBrace", "RBrace">>, <<"LBracket", "RBracket">>} :
        /\ Count(line, Len(line), {pair[1]}) = Count(line, Len(line), {pair[2]})
        /\ \A to \in DOMAIN line : Count(line, to, {pair[2]}) <= Count(line, to, {pair[1]})

\* read_json_block: where the block that opens at i is closed; zero when nowhere.
Closing(line, i) ==
    LET close == IF line[i].tok = "LBrace" THEN "RBrace" ELSE "RBracket"
        Depth(j) == Cardinality({k \in i .. j : line[k].tok = line[i].tok})
                      - Cardinality({k \in i .. j : line[k].tok = close})
        ends == {j \in i + 1 .. Len(line) : Depth(j) = 0}
    IN IF ends = {} THEN 0 ELSE Min(ends)

\* Bare words and 0x numbers are no JSON, and a number in JSON is one.
Element(lexeme) ==
    IF lexeme.tok = "String" THEN lexeme.value
    ELSE IF lexeme.tok = "Number" /\ lexeme.value.kind = "decimal"
         THEN JsonInteger(lexeme.value.n) ELSE Invalid

JsonBlock(open, content) ==
    LET n == Len(content)
        elems == [i \in 1 .. n |-> Element(content[i])]
        At(field) == content[Min({i \in 1 .. n : content[i] = Key(field)}) + 1]
        keys == {i \in 1 .. n : content[i].tok = "Key"}
    IN IF open = "LBracket"
       THEN IF \A i \in 1 .. n : elems[i] # Invalid THEN Json(Array(elems)) ELSE Bad
       ELSE IF /\ n % 2 = 0
               /\ \A i \in 1 .. n : IF i % 2 = 1 THEN i \in keys ELSE elems[i] # Invalid
            THEN Json(Object([field \in {content[i].field : i \in keys} |->
                                Element(At(field))]))
            ELSE Bad

\* tokenize: a Bad among the tokens is a ParseError.
Tokens(line) ==
    LET from[i \in 1 .. Len(line) + 1] ==
            IF i > Len(line) THEN <<>>
            ELSE CASE line[i].tok \in {"LBrace", "LBracket"} ->
                        LET j == Closing(line, i)
                        IN IF j = 0 THEN <<Bad>>
                           ELSE <<JsonBlock(line[i].tok, SubSeq(line, i + 1, j - 1))>> \o from[j + 1]
                   [] line[i].tok \in {"RBrace", "RBracket"} -> <<Bad>>
                   [] OTHER -> <<line[i]>> \o from[i + 1]
    IN from[1]

-----------------------------------------------------------------------------
(* The parser.                                                             *)

\* token_to_value.
ValueOf(token) ==
    IF token.tok \in {"Ident", "Number", "String", "Bool", "Json"} THEN token.value ELSE Null

\* `$name + N`: the offset, Invalid for a number that is no i64.
IsOffset(t, i) ==
    /\ i + 2 <= Len(t)
    /\ t[i].tok = "VarRef" /\ t[i + 1].tok \in {"Plus", "Minus"} /\ t[i + 2].tok = "Number"

Offset(t, i) ==
    LET v == t[i + 2].value
    IN IF v.kind = "decimal" /\ v.n <= MaxInt
       THEN JsonNumber(IF t[i + 1].tok = "Minus" THEN -v.n ELSE v.n) ELSE Invalid

Literal(v) == [arg |-> "Literal", value |-> v]
Reference(token, offset) ==
    [arg |-> "VarRef", name |-> token.name, path |-> token.path, offset |-> offset]

\* What is left of t without these tokens.
Without(t, toks) ==
    LET from[i \in 1 .. Len(t) + 1] ==
            IF i > Len(t) THEN <<>>
            ELSE (IF t[i].tok \in toks THEN <<>> ELSE <<t[i]>>) \o from[i + 1]
    IN from[1]

\* The arguments between the parentheses, or all of them when there are none;
\* what follows the closing one is not looked at.
RawArgs(t) ==
    LET closes == {i \in DOMAIN t : t[i].tok = "RParen"}
        upto == IF t # <<>> /\ t[1].tok = "LParen" /\ closes # {}
                THEN SubSeq(t, 2, Min(closes) - 1) ELSE t
    IN Without(upto, {"Comma"})

Unclosed(t) == t # <<>> /\ t[1].tok = "LParen" /\ \A i \in DOMAIN t : t[i].tok # "RParen"

\* parse_rpc_args: merges `VarRef +/- Number`.
parse_rpc_args(t) ==
    LET raw == RawArgs(t)
        from[i \in 1 .. Len(raw) + 1] ==
            IF i > Len(raw) THEN <<>>
            ELSE IF IsOffset(raw, i) THEN <<Reference(raw[i], Offset(raw, i))>> \o from[i + 3]
            ELSE IF raw[i].tok = "VarRef" THEN <<Reference(raw[i], Null)>> \o from[i + 1]
            ELSE <<Literal(ValueOf(raw[i]))>> \o from[i + 1]
    IN from[1]

ParseError == [command |-> "ParseError"]
Empty == [command |-> "Empty"]

\* The text of a token; a reference is not looked up here.
UtilityArgs(t) ==
    LET kept == Without(t, {"LParen", "RParen", "Comma"})
    IN [i \in DOMAIN kept |-> IF kept[i].tok = "VarRef" THEN Bytes("ref", kept[i].name)
                              ELSE ValueOf(kept[i])]

\* parse_tokens_as_command, and parse when the line is no assignment.
Command(t) ==
    IF t = <<>> THEN Empty
    ELSE CASE t[1].tok = "VarRef" /\ Len(t) = 1 ->
                [command |-> "PrintVar", ref |-> Reference(t[1], Null)]
           [] Len(t) = 3 /\ IsOffset(t, 1) ->
                IF Offset(t, 1) = Invalid THEN ParseError
                ELSE [command |-> "PrintVar", ref |-> Reference(t[1], Offset(t, 1))]
           [] /\ Len(t) >= 3 /\ t[1].tok = "Ident" /\ t[2].tok = "Dot" /\ t[3].tok = "Ident" ->
                LET rest == SubSeq(t, 4, Len(t))
                    args == parse_rpc_args(rest)
                IN IF \/ Unclosed(rest)
                      \/ \E i \in DOMAIN args : args[i].arg = "VarRef" /\ args[i].offset = Invalid
                   THEN ParseError
                   ELSE [command |-> "RpcCall", namespace |-> t[1].value.s,
                         method |-> t[3].value.s, args |-> args]
           [] t[1].tok = "Ident" /\ ~(Len(t) >= 3 /\ t[2].tok = "Dot" /\ t[3].tok = "Ident") ->
                [command |-> "UtilityCall", name |-> t[1].value.s, args |-> UtilityArgs(Tail(t))]
           [] OTHER -> ParseError

\* A lone point is a built-in command without a name, and parts[1..] panics.
Parse(line) ==
    LET t == Tokens(line)
    IN CASE line = <<>> -> Empty
         [] line # <<>> /\ line[1].tok = "Dot" ->
              IF Len(line) = 1 THEN [command |-> "Panic"]
              ELSE [command |-> "BuiltinCommand", name |-> line[2]]
         [] OTHER ->
              IF \E i \in DOMAIN t : t[i] = Bad THEN ParseError
              ELSE IF Len(t) >= 2 /\ t[1].tok = "Ident" /\ t[2].tok = "Equals"
              THEN LET inner == Command(SubSeq(t, 3, Len(t)))
                   IN IF inner = ParseError THEN ParseError
                      ELSE [command |-> "Assignment", name |-> t[1].value.s, inner |-> inner]
              ELSE Command(t)

-----------------------------------------------------------------------------
(* Variables.                                                              *)

\* resolve_var_ref: Invalid when the variable or a field is not there.
FieldOf(value, path) ==
    LET Field(v, field) == IF v.kind = "object" /\ field \in DOMAIN v.fields
                           THEN v.fields[field] ELSE Invalid
    IN FoldLeft(Field, value, path)

resolve_var_ref(name, path) ==
    FieldOf(IF name \in Names THEN variables[name] ELSE Invalid, path)

I64 == -(MaxInt + 1) .. MaxInt

\* The integer of a sum: a 0x string of any length is followed by a quantity.
Sum0x(v, n) == IF Is0x(v) THEN Hex(n) ELSE [kind |-> v.kind, n |-> n]

\* A negative result of a 0x string is written as the u64 with the same bits.
Wrapped(v) == IF v.kind = "hex" /\ v.n < 0 THEN Hex(v.n + MaxWord + 1) ELSE v

\* Mutant: the sign of the offset is turned around.
apply_offset_turned(v, offset) ==
    IF ~IsNumber(v) \/ v.n \notin I64 \/ v.n - offset \notin I64 THEN Invalid
    ELSE Wrapped(Sum0x(v, v.n - offset))

\* apply_offset: what is no i64, before or after, is refused.
apply_offset(v, offset) ==
    IF ~IsNumber(v) \/ v.n \notin I64 \/ v.n + offset \notin I64 THEN Invalid
    ELSE Wrapped(Sum0x(v, v.n + offset))

ValueOfRef(ref) ==
    LET v == resolve_var_ref(ref.name, ref.path)
    IN IF v = Invalid \/ ref.offset = Null THEN v ELSE apply_offset(v, ref.offset.n)

\* resolve_vars_in_value: strings that begin with a dollar sign, also within.
resolve_vars_in_value(v) ==
    LET Leaf(w) == IF w.kind = "ref" THEN resolve_var_ref(w.s, <<>>) ELSE w
        All(part) == \A i \in DOMAIN part : Leaf(part[i]) # Invalid
        Each(part) == [i \in DOMAIN part |-> Leaf(part[i])]
    IN CASE v.kind = "object" -> IF All(v.fields) THEN Object(Each(v.fields)) ELSE Invalid
         [] v.kind = "array" -> IF All(v.elems) THEN Array(Each(v.elems)) ELSE Invalid
         [] OTHER -> Leaf(v)

resolve_var_args(args) ==
    [i \in DOMAIN args |-> IF args[i].arg = "Literal" THEN resolve_vars_in_value(args[i].value)
                           ELSE ValueOfRef(args[i])]

-----------------------------------------------------------------------------
(* The utility functions.                                                  *)

Scale(unit) == CASE unit = Text("wei") -> 1
                 [] unit = Text("gwei") -> Base
                 [] unit \in {Text("ether"), Text("eth")} -> Base * Base
                 [] OTHER -> 0

\* A fraction is whole + n / Base^2.
Fraction(whole, n) == [kind |-> "fraction", whole |-> whole, n |-> n]

\* parse_wei_amount: no more decimals than the unit has, and no overflow.
toWei(v, unit) ==
    LET parts == Base * Base
        wei == IF v.kind = "decimal" THEN v.n * Scale(unit)
               ELSE v.whole * Scale(unit) + (v.n * Scale(unit)) \div parts
    IN IF Scale(unit) = 0 \/ v.kind \notin {"decimal", "fraction"} THEN ErrorText
       ELSE IF wei > MaxWide \/ (v.kind = "fraction" /\ (v.n * Scale(unit)) % parts # 0)
            THEN ErrorText ELSE Decimal(wei)

\* format_from_wei.
fromWei(v, unit) ==
    IF v.kind # "decimal" \/ Scale(unit) = 0 THEN ErrorText
    ELSE IF v.n > MaxWide THEN ErrorText
    ELSE IF v.n % Scale(unit) = 0 THEN Decimal(v.n \div Scale(unit))
    ELSE Fraction(v.n \div Scale(unit), (v.n % Scale(unit)) * ((Base * Base) \div Scale(unit)))

\* The decimal digits of n read as hexadecimal ones.
ReadAsHex(n) ==
    LET read[k \in Nat] == IF k < 10 THEN k ELSE 16 * read[k \div 10] + (k % 10)
    IN read[n]

HexDigits(n) ==
    LET digits[k \in Int] == IF k < 16 THEN 1 ELSE 1 + digits[k \div 16]
    IN digits[n]

\* execute_utility: what is printed.  An even number of digits can be hashed.
execute_utility(name, args) ==
    LET Of(kinds) == args # <<>> /\ args[1].kind \in kinds
        When(good, result) == IF good THEN result ELSE ErrorText
    IN CASE name = "toWei" /\ Len(args) >= 2 -> toWei(args[1], args[2])
         [] name = "fromWei" /\ Len(args) >= 2 -> fromWei(args[1], args[2])
         [] name = "toHex" /\ Of({"decimal"}) ->
              When(args[1].n <= MaxWide, Hex(args[1].n))
         [] name = "fromHex" /\ args # <<>> /\ IsNumber(args[1]) ->
              LET n == IF Of({"decimal"}) THEN ReadAsHex(args[1].n) ELSE args[1].n
              IN When(n <= MaxWide, Decimal(n))
         [] name = "keccak256" /\ Of({"address", "hash", "data"}) -> Bytes("hash", "keccak")
         [] name = "keccak256" /\ Of({"hex"}) ->
              When(HexDigits(args[1].n) % 2 = 0, Bytes("hash", "keccak"))
         [] name = "toChecksumAddress" /\ Of({"address"}) -> args[1]
         [] name = "isAddress" /\ args # <<>> -> Bool(Of({"address"}))
         [] OTHER -> ErrorText

\* What an assignment keeps of it: serde_json reads an integer above u64::MAX,
\* and a fraction, as a float.  An error is kept like any other text.
Stored(result) ==
    CASE result.kind = "decimal" -> JsonInteger(result.n)
      [] result.kind = "fraction" -> Float
      [] OTHER -> result

-----------------------------------------------------------------------------
(* Execution.                                                              *)

\* format_value: quantities are shown as decimal numbers.
Shown(v) == IF v.kind = "hex" /\ v.n <= MaxWide THEN Decimal(v.n) ELSE v

\* A cell of a table, or the preview of .vars, is cut at a byte that may lie
\* within a character: "wide" is a long text that is not ASCII.
CutsACharacter(v) ==
    v.kind = "object" /\
    \E f \in DOMAIN v.fields :
        /\ v.fields[f].kind = "array"
        /\ \A i \in DOMAIN v.fields[f].elems : v.fields[f].elems[i].kind = "object"
        /\ \E i \in DOMAIN v.fields[f].elems :
              LET cells == v.fields[f].elems[i].fields
              IN \E c \in DOMAIN cells : cells[c].kind = "wide"

\* A line is done: it printed v.  One-shot mode ends with it.
Prints(v) ==
    /\ shown' = Shown(v)
    /\ status' = IF CutsACharacter(v) THEN "crashed"
                 ELSE IF options.interactive THEN "reading" ELSE "exited"

Idle == UNCHANGED <<call, sent>>
Same == UNCHANGED variables

Assign(name, v) == variables' = [variables EXCEPT ![name] = v]

\* The first half of execute_rpc and of the RPC call of execute_assignment: what
\* can go wrong before the first request.  target is the variable to assign.
StartsCall(c, target) ==
    LET args == resolve_var_args(c.args)
    IN /\ Same
       /\ IF \/ \E i \in DOMAIN args : args[i] = Invalid
             \/ c.namespace = "engine" /\ ~options.jwt
             \/ ~Known(c.namespace, c.method)
          THEN Prints(ErrorText) /\ Idle
          ELSE /\ status' = "calling" /\ UNCHANGED shown
               /\ sent' = <<>>
               /\ call' = [namespace |-> c.namespace, method |-> c.method, given |-> c.args,
                           args |-> args, target |-> target, resolver |-> FALSE]

PrintsRef(ref, target) ==
    LET v == ValueOfRef(ref)
    IN /\ Idle
       /\ IF v = Invalid THEN Prints(ErrorText) /\ Same
          ELSE Prints(v) /\ IF target = "" THEN Same ELSE Assign(target, v)

Quits == {Ident("exit"), Ident("quit")}

\* execute_builtin.
Builtin(name) ==
    /\ Idle /\ Same
    /\ IF name \in Quits THEN status' = "exited" /\ UNCHANGED shown
       ELSE IF name = Ident("vars") /\ \E x \in Names : variables[x].kind = "wide"
            THEN status' = "crashed" /\ UNCHANGED shown
       ELSE Prints(Text("printed"))

\* Only what succeeds is assigned, but an error of a utility is its result.
execute_assignment(name, c) ==
    CASE c.command = "RpcCall" -> StartsCall(c, name)
      [] c.command = "PrintVar" -> PrintsRef(c.ref, name)
      [] c.command = "UtilityCall" ->
           LET result == execute_utility(c.name, c.args)
           IN Prints(result) /\ Assign(name, Stored(result)) /\ Idle
      [] OTHER -> Prints(ErrorText) /\ Idle /\ Same

\* execute_input.
Interactive(c) ==
    CASE c.command = "Empty" -> Prints(Text("")) /\ Idle /\ Same
      [] c.command = "ParseError" -> Prints(ErrorText) /\ Idle /\ Same
      [] c.command = "Panic" -> status' = "crashed" /\ UNCHANGED shown /\ Idle /\ Same
      [] c.command = "RpcCall" -> StartsCall(c, "")
      [] c.command = "PrintVar" -> PrintsRef(c.ref, "")
      [] c.command = "BuiltinCommand" -> Builtin(c.name)
      [] c.command = "UtilityCall" -> Prints(execute_utility(c.name, c.args)) /\ Idle /\ Same
      [] c.command = "Assignment" -> execute_assignment(c.name, c.inner)

\* execute_command: one line, no variables, no built-in commands.
OneShot(c) ==
    CASE c.command \in {"Empty", "UtilityCall", "RpcCall", "ParseError", "Panic"} -> Interactive(c)
      [] OTHER -> Prints(ErrorText) /\ Idle /\ Same

\* The session.  Input goes on while a bracket is open; a line that closes one
\* that was never opened is never balanced again, whatever follows.
TypeLine(line) ==
    LET input == buffer \o line
    IN /\ status = "reading" /\ typed < MaxLines
       /\ typed' = typed + 1
       /\ UNCHANGED options
       /\ IF ~options.interactive THEN OneShot(Parse(line)) /\ UNCHANGED buffer
          ELSE IF IsBalanced(input) THEN buffer' = <<>> /\ Interactive(Parse(input))
          ELSE buffer' = input /\ UNCHANGED <<status, variables, call, sent, shown>>

\* Ctrl-C at the prompt: what was typed of the input is forgotten.
Interrupted ==
    /\ status = "reading" /\ options.interactive /\ buffer # <<>>
    /\ buffer' = <<>>
    /\ UNCHANGED <<status, options, variables, call, sent, shown, typed>>

\* Ctrl-D, or an error of the terminal.
Eof ==
    /\ status = "reading" /\ options.interactive
    /\ status' = "exited"
    /\ UNCHANGED <<options, buffer, variables, call, sent, shown, typed>>

\* Ctrl-C during a call ends the process; the history is not saved.
Killed ==
    /\ status = "calling"
    /\ status' = "killed"
    /\ UNCHANGED <<options, buffer, variables, call, sent, shown, typed>>

Params == Registry[call.namespace][call.method]

\* looks_like_ens_name: not 0x, and a point in it.
LooksLikeEns(v) == v.kind \in {"ens", "fraction"}

\* The arguments resolve_ens_in_args has to resolve still.
EnsArgs == {i \in DOMAIN Params : /\ Params[i].type = "Address" /\ i <= Len(call.args)
                                  /\ LooksLikeEns(call.args[i])}

Asked == sent # <<>> /\ Last(sent).to = "node"

CallFails ==
    /\ Prints(ErrorText)
    /\ UNCHANGED <<options, buffer, variables, call, typed>>

\* resolve: the registry is asked for the resolver, and the resolver for the
\* address.  Either may say zero, or not answer.
LookUp ==
    /\ status = "calling" /\ ~Asked /\ EnsArgs # {}
    /\ LET i == Min(EnsArgs)
           to == IF call.resolver THEN "resolver" ELSE "registry"
       IN /\ sent' = Append(sent, [to |-> to, params |-> <<call.args[i]>>])
          /\ \/ CallFails
             \/ /\ call.args[i] \in EnsNames
                /\ call' = IF call.resolver
                           THEN [call EXCEPT !.args[i] = Bytes("address", @.s), !.resolver = FALSE]
                           ELSE [call EXCEPT !.resolver = TRUE]
                /\ UNCHANGED <<status, options, buffer, variables, shown, typed>>

\* call_rpc_raw: the parameters are built, and the request goes out.
Send ==
    /\ status = "calling" /\ ~Asked /\ EnsArgs = {}
    /\ LET built == Built(Params, call.args)
       IN IF built.ok
          THEN /\ sent' = Append(sent, [to |-> "node", params |-> built.params])
               /\ UNCHANGED <<status, options, buffer, variables, call, shown, typed>>
          ELSE CallFails /\ UNCHANGED sent

\* Mutant: an assignment keeps the error of its call, as that of a utility.
Answer_kept ==
    /\ status = "calling" /\ Asked
    /\ UNCHANGED <<sent, options, buffer, call, typed>>
    /\ \E v \in Answers \cup {ErrorText} :
          /\ Prints(v)
          /\ IF call.target = "" THEN Same ELSE Assign(call.target, v)

\* send_request: a result, or else a transport error, a JSON-RPC error, a body
\* that is none, or 30 seconds without an answer.
Answer ==
    /\ status = "calling" /\ Asked
    /\ UNCHANGED sent
    /\ \/ CallFails
       \/ \E v \in Answers :
             /\ Prints(v)
             /\ IF call.target = "" THEN Same ELSE Assign(call.target, v)
             /\ UNCHANGED <<options, buffer, call, typed>>

NoCall == [namespace |-> "", method |-> "", given |-> <<>>, args |-> <<>>, target |-> "",
           resolver |-> FALSE]

Init ==
    /\ status = "reading"
    /\ options \in [interactive : BOOLEAN, jwt : BOOLEAN]
    /\ buffer = <<>> /\ typed = 0
    /\ variables = [name \in Names |-> Invalid]
    /\ call = NoCall /\ sent = <<>> /\ shown = Text("")

Next ==
    \/ \E line \in Lines : TypeLine(line)
    \/ Interrupted \/ Eof \/ Killed
    \/ LookUp \/ Send \/ Answer

Spec == Init /\ [][Next]_vars

-----------------------------------------------------------------------------
(* Properties.                                                             *)

Denotes(v, n) == IsNumber(v) /\ v.n = n

\* What the user means by an argument: the value itself or the variable's, plus
\* the offset as a number.
Meant(arg) ==
    IF arg.arg = "Literal" THEN arg.value
    ELSE LET v == resolve_var_ref(arg.name, arg.path)
         IN IF arg.offset = Null THEN v ELSE Sum0x(v, v.n + arg.offset.n)

\* The node is asked what the user wrote: an argument that is a number, through
\* variables, fields, arithmetic, defaults and conversion to hexadecimal, goes
\* out as this number, and none is lost or added (call_rpc_raw, build_params).
\* There are two ways for it to become another number, and no others: the result
\* below zero of a 0x string is written as the u64 with its bits, and an integer
\* of more than 64 bits in the place of an object or an array goes out as a float.
SentAsMeant ==
    (status = "calling" /\ Asked) =>
      LET params == Last(sent).params
      IN /\ Len(params) >= Len(call.given)
         /\ \A i \in DOMAIN call.given :
               LET meant == Meant(call.given[i])
               IN IsNumber(meant) =>
                    \/ Denotes(params[i], meant.n)
                    \/ params[i] = Wrapped(meant)
                    \/ /\ Params[i].type \in {"Object", "Array"} /\ meant.n \notin JsonIntegers
                       /\ params[i] = Float

\* A method that takes an address is asked with one: no name whose look-up failed
\* half way, or was not made, reaches the node (resolve_ens_in_args, resolve).
AddressesAreAddresses ==
    (status = "calling" /\ Asked) =>
             \A i \in DOMAIN Last(sent).params :
                Params[i].type = "Address" => Last(sent).params[i].kind = "address"

\* A variable that is assigned from a call keeps the value it had when the call
\* fails, at any of its requests (execute_assignment).
FailuresAssignNothing ==
    [][status = "calling" /\ shown' = ErrorText => variables' = variables]_vars

\* "Any command that accepts an address also accepts ENS names", with the line
\* `eth.getBalance vitalik.eth` (README.md): the call of such a line looks the name
\* up before it ends.
EnsNamesAreAccepted ==
    [][(/\ status = "calling" /\ status' \notin {"calling", "killed"}
        /\ Len(call.given) = 3 /\ call.given[2] = Literal(Null)
        /\ call.given[3] = Literal(Text("eth"))) => sent' # <<>>]_vars
=============================================================================
