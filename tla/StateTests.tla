------------------------------- MODULE StateTests -------------------------------
(***************************************************************************)
(* The EF state-test harnesses (src/ef_tests/state, src/ef_tests/state_v2) *)
(* run over one set of fixtures and one build of LEVM: the first runner    *)
(* (LEVM with or without --summary, its re-run of failures on REVM, and    *)
(* --revm), the second runner (bulk and block mode), and the single-file   *)
(* statetest command.  A campaign is a sequence of such runs, one process  *)
(* at a time; what every run said of every case is kept in verdict, so     *)
(* that the harnesses can be compared.                                     *)
(*                                                                         *)
(* LEVM, REVM and the block pipeline are external: what LEVM does with a   *)
(* case is chosen once (levm), what REVM does when it is asked.  A case is *)
(* a post value of a fixture: its test, fork, indexes, the exceptions it   *)
(* expects (none: {}), and whether its result depends on BLOCKHASH; the    *)
(* root of an outcome is judged with the block hashes the fixtures expect. *)
(* A test whose report is cut short by an abort is one step with no        *)
(* report, because the code writes a test's report after its last case.    *)
(***************************************************************************)
EXTENDS Naturals, Sequences, FiniteSets, SequencesExt

CONSTANTS Cases,      \* [test, fork, vector = <<data, gas, value>>, expect, reads]
          Gated,      \* tests under an osaka path whose EIP is not in the allowlist
          Outcomes(_),\* what LEVM may do with a case
          RevmResults,\* what REVM may answer
          ForkChoices,\* the values of --forks tried
          MaxRuns     \* bound: runs of a campaign

Tests == {c.test : c \in Cases}

Ends == {"ok", "reverted", "rejected", "unprepared", "unpriced", "type3create", "type4create"}

ASSUME CasesAssumption == IsFiniteSet(Cases) /\ \A c \in Cases : c.reads \in BOOLEAN

ASSUME OutcomesAssumption ==
    \A c \in Cases : \A o \in Outcomes(c) :
        /\ o.did \in Ends /\ o.validation \in BOOLEAN /\ o.root \in BOOLEAN /\ o.logs \in BOOLEAN
        /\ o.did = "type4create" => o.validation /\ o.error = "Type4TxContractCreation"

ASSUME RevmAssumption ==
    RevmResults \subseteq [did : {"ok", "reverted", "halted", "error", "noConfig"},
                           root : BOOLEAN, differs : SUBSET {"gas", "refund", "logs"}]

VARIABLES levm,      \* case -> what this build of LEVM does with it
          run,       \* the running command and its options
          todo,      \* the tests it has not reached
          reports,   \* the first runner's reports, in order
          files,     \* the report files: what was written to each
          exit,      \* how the last command ended
          verdict,   \* <<command, case, verdict>> of every run so far
          runs       \* runs started

vars == <<levm, run, todo, reports, files, exit, verdict, runs>>

Idle == [cmd |-> "none", summary |-> FALSE, forks |-> {}, named |-> {}, stage |-> "idle"]

-----------------------------------------------------------------------------
(* Expected exceptions: the names a fixture may use and what each runner's  *)
(* deserializer makes of them; a name it does not know is Other.            *)

SharedNames ==
    [INITCODE_SIZE_EXCEEDED |-> "InitcodeSizeExceeded", NONCE_IS_MAX |-> "NonceIsMax",
     TYPE_3_TX_BLOB_COUNT_EXCEEDED |-> "Type3TxBlobCountExceeded",
     TYPE_3_TX_ZERO_BLOBS |-> "Type3TxZeroBlobs",
     TYPE_3_TX_CONTRACT_CREATION |-> "Type3TxContractCreation",
     TYPE_3_TX_INVALID_BLOB_VERSIONED_HASH |-> "Type3TxInvalidBlobVersionedHash",
     INTRINSIC_GAS_TOO_LOW |-> "IntrinsicGasTooLow",
     INSUFFICIENT_ACCOUNT_FUNDS |-> "InsufficientAccountFunds", SENDER_NOT_EOA |-> "SenderNotEoa",
     PRIORITY_GREATER_THAN_MAX_FEE_PER_GAS |-> "PriorityGreaterThanMaxFeePerGas",
     GAS_ALLOWANCE_EXCEEDED |-> "GasAllowanceExceeded",
     INSUFFICIENT_MAX_FEE_PER_GAS |-> "InsufficientMaxFeePerGas",
     RLP_INVALID_VALUE |-> "RlpInvalidValue",
     GASLIMIT_PRICE_PRODUCT_OVERFLOW |-> "GasLimitPriceProductOverflow",
     TYPE_3_TX_PRE_FORK |-> "Type3TxPreFork",
     TYPE_4_TX_CONTRACT_CREATION |-> "Type4TxContractCreation",
     INSUFFICIENT_MAX_FEE_PER_BLOB_GAS |-> "InsufficientMaxFeePerBlobGas"]

(* Mutant: without the catch-all an unknown name matches nothing.            *)
Known_strict(name, own) == IF name \in DOMAIN SharedNames THEN SharedNames[name]
                           ELSE IF name \in DOMAIN own THEN own[name] ELSE "NoException"

Known(name, own) == IF name \in DOMAIN SharedNames THEN SharedNames[name]
                    ELSE IF name \in DOMAIN own THEN own[name] ELSE "Other"

Named1(name) == Known(name, [INTRINSIC_BELOW_FLOOR_GAS_COST |-> "IntrinsicGasBelowFloorGasCost",
                             GAS_LIMIT_EXCEEDS_MAXIMUM |-> "TxMaxGasLimitExceeded"])

Named2(name) == Known(name, [INTRINSIC_GAS_BELOW_FLOOR_GAS_COST |-> "IntrinsicGasBelowFloorGasCost"])

(* An exception matches the validation error of its name; Other matches any
   validation error; RlpInvalidValue is in neither runner's table.          *)
Matches(exception, o) ==
    /\ o.validation
    /\ exception = "Other" \/ (exception = o.error /\ exception # "RlpInvalidValue")

exception_is_expected(c, o) == \E name \in c.expect : Matches(Named1(name), o)

exception_matches_expected(c, o) == \E name \in c.expect : Matches(Named2(name), o)

(* What a name means, whatever the state-test runners know of it: the table of
   the engine harness, ported from the fixtures' own tools, by the error whose
   message its pattern matches.  The last one is the name that the floor cost
   has in older fixtures.                                                    *)
Meaning ==
    {<<"PRIORITY_GREATER_THAN_MAX_FEE_PER_GAS", "PriorityGreaterThanMaxFeePerGas">>,
     <<"TYPE_4_EMPTY_AUTHORIZATION_LIST", "Type4TxAuthorizationListIsEmpty">>,
     <<"SENDER_NOT_EOA", "SenderNotEoa">>,
     <<"NONCE_MISMATCH_TOO_LOW", "NonceMismatch">>, <<"NONCE_MISMATCH_TOO_HIGH", "NonceMismatch">>,
     <<"TYPE_3_TX_ZERO_BLOBS", "Type3TxZeroBlobs">>,
     <<"TYPE_3_TX_INVALID_BLOB_VERSIONED_HASH", "Type3TxInvalidBlobVersionedHash">>,
     <<"TYPE_2_TX_PRE_FORK", "Type2TxPreFork">>, <<"TYPE_3_TX_PRE_FORK", "Type3TxPreFork">>,
     <<"TYPE_4_TX_PRE_FORK", "Type4TxPreFork">>,
     <<"TYPE_4_TX_CONTRACT_CREATION", "Type4TxContractCreation">>,
     <<"TYPE_3_TX_CONTRACT_CREATION", "Type3TxContractCreation">>,
     <<"INSUFFICIENT_ACCOUNT_FUNDS", "InsufficientAccountFunds">>,
     <<"INTRINSIC_GAS_TOO_LOW", "IntrinsicGasTooLow">>,
     <<"INTRINSIC_GAS_TOO_LOW", "IntrinsicGasBelowFloorGasCost">>,
     <<"INTRINSIC_GAS_BELOW_FLOOR_GAS_COST", "IntrinsicGasBelowFloorGasCost">>,
     <<"INSUFFICIENT_MAX_FEE_PER_GAS", "InsufficientMaxFeePerGas">>,
     <<"INSUFFICIENT_MAX_FEE_PER_BLOB_GAS", "InsufficientMaxFeePerBlobGas">>,
     <<"INITCODE_SIZE_EXCEEDED", "InitcodeSizeExceeded">>, <<"NONCE_IS_MAX", "NonceIsMax">>,
     <<"GAS_ALLOWANCE_EXCEEDED", "GasAllowanceExceeded">>,
     <<"TYPE_3_TX_BLOB_COUNT_EXCEEDED", "Type3TxBlobCountExceeded">>,
     <<"GASLIMIT_PRICE_PRODUCT_OVERFLOW", "GasLimitPriceProductOverflow">>,
     <<"GAS_LIMIT_EXCEEDS_MAXIMUM", "TxMaxGasLimitExceeded">>,
     <<"INTRINSIC_BELOW_FLOOR_GAS_COST", "IntrinsicGasBelowFloorGasCost">>}

-----------------------------------------------------------------------------
(* What LEVM did.  did: ok, reverted (both are reports), rejected (an error), *)
(* unprepared (no VM could be built), unpriced (no gas price in the fixture), *)
(* type4create (an EIP-7702 transaction that creates: never executed),        *)
(* type3create (an EIP-4844 one: the first runner builds it as an EIP-1559    *)
(* transaction and LEVM refuses it, the second runner does not build it).     *)

Executed(o) == o.did \in {"ok", "reverted"}

(* The root of the state afterwards is the fixture's.  Fixtures expect
   BLOCKHASH(n) = keccak(n); only a database with the override gives it.  *)
RootMatches(c, override) ==
    /\ levm[c].root
    /\ (c.reads /\ Executed(levm[c])) => override

(* Mutant: logs are not compared.                                            *)
ensure_post_state_rootOnly(c) ==
    LET o == levm[c] IN
    IF Executed(o) THEN IF c.expect # {} \/ ~RootMatches(c, FALSE) THEN "PostState" ELSE "pass"
    ELSE IF c.expect = {} THEN "Unexpected"
    ELSE IF ~exception_is_expected(c, o) THEN "WrongException"
    ELSE IF ~RootMatches(c, FALSE) THEN "NotReverted" ELSE "pass"

ensure_post_state(c) ==
    LET o == levm[c] IN
    CASE Executed(o) ->
            IF c.expect = {} /\ RootMatches(c, FALSE) /\ o.logs THEN "pass" ELSE "PostState"
      [] ~Executed(o) /\ c.expect = {} -> "Unexpected"
      [] OTHER -> IF ~exception_is_expected(c, o) THEN "WrongException"
                  ELSE IF RootMatches(c, FALSE) THEN "pass" ELSE "NotReverted"

(* The first runner's verdict on a case: how it registers the vector.  An
   EIP-7702 transaction that creates goes on as a validation error.          *)
run_ef_test_tx(c) == IF levm[c].did = "unprepared" THEN "PreState" ELSE ensure_post_state(c)

(* --revm: no exception is matched and no log is compared.                   *)
_run_ef_test_tx_revm(c, r) ==
    IF r.did = "noConfig" THEN "Init"
    ELSE IF r.did = "error" THEN IF c.expect = {} THEN "Unexpected" ELSE "pass"
    ELSE IF c.expect # {} \/ ~r.root THEN "PostState" ELSE "pass"

(* What the re-run of a failed vector notes.                                 *)
compare_levm_revm_execution_results(c, r) ==
    LET o == levm[c] IN
    IF r.did = "error" THEN {"error"}
    ELSE IF (o.did = "ok" /\ r.did = "ok") \/ (o.did = "reverted" /\ r.did \in {"reverted", "halted"})
    THEN IF o.did = "ok" THEN r.differs ELSE r.differs \cap {"gas"}
    ELSE {"result"}

(* The vectors of a test the first runner runs: the ones with a post value in
   a chosen fork.                                                             *)
VectorsOf(t) == {c \in Cases : c.test = t /\ c.fork \in run.forks}

(* The report of a test: every vector that failed, with the failure.         *)
EFTestReport(t, found) ==
    [test |-> t, rerun |-> FALSE, notes |-> {},
     failed |-> {[case |-> c, why |-> found[c]] : c \in {d \in DOMAIN found : found[d] # "pass"}}]

passed(report) == report.failed = {}

Failing == {i \in DOMAIN reports : ~passed(reports[i])}

-----------------------------------------------------------------------------
Init ==
    /\ levm \in {f \in [Cases -> UNION {Outcomes(c) : c \in Cases}] : \A c \in Cases : f[c] \in Outcomes(c)}
    /\ run = Idle /\ todo = <<>> /\ reports = <<>> /\ exit = "none" /\ verdict = {} /\ runs = 0
    /\ files = [report |-> {}, success |-> {}, failure |-> {}]

Begin(r, tests) ==
    /\ run.stage = "idle" /\ runs < MaxRuns
    /\ run' = r /\ todo' = SetToSeq(tests) /\ exit' = "none" /\ runs' = runs + 1
    /\ reports' = <<>>
    /\ UNCHANGED <<levm, verdict>>

(* The process ends; its reports are gone with it.                           *)
End(how) ==
    /\ run' = [run EXCEPT !.stage = "idle"] /\ exit' = how
    /\ reports' = <<>> /\ todo' = <<>>

(* The first runner: parse with --forks (a test left without a post state is
   dropped); named is what --specific-tests and the ignore list leave, which
   only the LEVM loop looks at.  The cache file of an earlier re-run would be
   loaded here, but no run can write one (see re_run_with_revm).                         *)
run_ef_tests ==
    \E cmd \in {"levm", "revm"}, summary \in BOOLEAN, forks \in ForkChoices, named \in {Tests, {}} :
        /\ Begin([cmd |-> cmd, summary |-> summary, forks |-> forks, named |-> named, stage |-> "run"],
                 {t \in Tests : (\E c \in Cases : c.test = t /\ c.fork \in forks)
                                /\ (cmd = "levm" => t \in named)})
        /\ UNCHANGED files

(* One test on LEVM: a vector that has no gas price is an internal error and
   ends the run; every other failure is registered and the loop goes on.      *)
run_with_levm ==
    /\ run.cmd = "levm" /\ run.stage = "run" /\ todo # <<>>
    /\ LET t == Head(todo) IN
       \/ /\ \E c \in VectorsOf(t) : levm[c].did = "unpriced"
          /\ End("internal")
          /\ UNCHANGED verdict
       \/ /\ \A c \in VectorsOf(t) : levm[c].did # "unpriced"
          /\ reports' = Append(reports, EFTestReport(t, [c \in VectorsOf(t) |-> run_ef_test_tx(c)]))
          /\ verdict' = verdict \cup {<<"levm", c, run_ef_test_tx(c)>> : c \in VectorsOf(t)}
          /\ todo' = Tail(todo)
          /\ UNCHANGED <<run, exit>>
    /\ UNCHANGED <<levm, files, runs>>

(* One test on REVM (--revm); nothing is written and the status is success.  *)
run_with_revm ==
    /\ run.cmd = "revm" /\ run.stage = "run" /\ todo # <<>>
    /\ LET t == Head(todo) IN
       IF \E c \in VectorsOf(t) : levm[c].did = "unpriced"
       THEN End("internal")
       ELSE \E r \in [VectorsOf(t) -> RevmResults] :
            /\ reports' = Append(reports, EFTestReport(t, [c \in VectorsOf(t) |-> _run_ef_test_tx_revm(c, r[c])]))
            /\ todo' = Tail(todo)
            /\ UNCHANGED <<run, exit>>
    /\ UNCHANGED <<levm, files, verdict, runs>>

(* After the loop: --revm returns, --summary turns a failing report into an
   error, and otherwise the failing reports are run again on REVM.            *)
LoopDone ==
    /\ run.cmd \in {"levm", "revm"} /\ run.stage = "run" /\ todo = <<>>
    /\ IF run.cmd = "levm" /\ ~run.summary /\ Failing # {}
       THEN run' = [run EXCEPT !.stage = "rerun"] /\ UNCHANGED <<exit, reports, todo>>
       ELSE End(IF run.cmd = "levm" /\ run.summary /\ Failing # {} THEN "failed" ELSE "ok")
    /\ UNCHANGED <<levm, files, verdict, runs>>

(* What is written: every failing report, each vector with its error and what
   the re-run noted of it.                                                    *)
Written(rs) == {[test |-> rs[i].test, failed |-> rs[i].failed, notes |-> rs[i].notes] :
                i \in {j \in DOMAIN rs : ~passed(rs[j])}}

(* Mutant: every failed vector is run again.                                 *)
Compared_all(report) == {f.case : f \in report.failed}

(* The vectors a re-run takes up: only those that failed their post state.    *)
Compared(report) == {f.case : f \in {g \in report.failed : g.why = "PostState"}}

RevmNotes(report, r) ==
    {[case |-> c, differs |-> compare_levm_revm_execution_results(c, r[c]), accounts |-> c.expect = {}] :
     c \in Compared(report)}

(* One failing report on REVM.  When REVM cannot be set up the reports are
   written and cached; the cache has vectors as keys of a JSON object, which
   the serializer refuses, so the run ends in that error and leaves no cache. *)
re_run_with_revm ==
    /\ run.stage = "rerun"
    /\ \E i \in Failing : \E r \in [Compared(reports[i]) -> RevmResults] :
        /\ ~reports[i].rerun /\ \A j \in Failing : j < i => reports[j].rerun
        /\ IF \E c \in DOMAIN r : r[c].did = "noConfig"
           THEN /\ files' = [files EXCEPT !.report = Written(reports)]
                /\ End("uncached")
           ELSE /\ reports' = [reports EXCEPT ![i].rerun = TRUE, ![i].notes = RevmNotes(reports[i], r)]
                /\ UNCHANGED <<run, exit, files, todo>>
    /\ UNCHANGED <<levm, verdict, runs>>

write_report ==
    /\ run.stage = "rerun" /\ \A i \in Failing : reports[i].rerun
    /\ files' = [files EXCEPT !.report = Written(reports)]
    /\ End("ok")
    /\ UNCHANGED <<levm, verdict, runs>>

-----------------------------------------------------------------------------
(* The second runner.  Bulk: an expected exception is compared by name alone, *)
(* otherwise the root decides, and logs and accounts are only looked at when  *)
(* the root is wrong.                                                         *)

(* A transaction the second runner does not build, whatever is expected of it. *)
NotBuilt2(o) == o.did \in {"type3create", "type4create"}

Stopped2(o) == o.did = "unprepared" \/ NotBuilt2(o)             \* an error: status 2

(* The unwraps: of a gas price the fixture does not give, and, in the check
   of the logs, of the execution of a rejected transaction with a wrong root. *)
Panics2(c) == \/ levm[c].did = "unpriced"
              \/ c.expect = {} /\ ~Executed(levm[c]) /\ ~RootMatches(c, TRUE)

check_test_case_results(c) ==
    IF c.expect # {}
    THEN IF ~Executed(levm[c]) /\ exception_matches_expected(c, levm[c]) THEN "pass" ELSE "exception"
    ELSE IF RootMatches(c, TRUE) THEN "pass" ELSE "root"

(* The forks the second runner and statetest read of a fixture.              *)
DEFAULT_FORKS == {"Merge", "Shanghai", "Cancun", "Prague", "Osaka", "Amsterdam"}

CasesOf(t) == {c \in Cases : c.test = t /\ c.fork \in DEFAULT_FORKS}

run_tests ==
    \E cmd \in {"bulk", "block"} :
        /\ Begin([Idle EXCEPT !.cmd = cmd, !.stage = "run"], Tests)
        /\ files' = IF cmd = "bulk" THEN [files EXCEPT !.success = {}, !.failure = {}] ELSE files

SkipGated ==
    /\ run.cmd \in {"bulk", "block"} /\ run.stage = "run" /\ todo # <<>> /\ Head(todo) \in Gated
    /\ todo' = Tail(todo)
    /\ UNCHANGED <<levm, run, reports, files, exit, verdict, runs>>

BulkTest ==
    /\ run.cmd = "bulk" /\ run.stage = "run" /\ todo # <<>> /\ Head(todo) \notin Gated
    /\ LET cs == CasesOf(Head(todo))
           failing == {[case |-> c, why |-> check_test_case_results(c)] :
                       c \in {d \in cs : check_test_case_results(d) # "pass"}}
       IN \/ /\ \E c \in cs : Stopped2(levm[c]) /\ End("error")
             /\ UNCHANGED <<files, verdict>>
          \/ /\ \E c \in cs : ~Stopped2(levm[c]) /\ Panics2(c) /\ End("panic")
             /\ UNCHANGED <<files, verdict>>
          \/ /\ \A c \in cs : ~Stopped2(levm[c]) /\ ~Panics2(c)
             /\ files' = IF failing = {} THEN [files EXCEPT !.success = @ \cup {Head(todo)}]
                         ELSE [files EXCEPT !.failure = @ \cup {[test |-> Head(todo), failed |-> failing]}]
             /\ verdict' = verdict \cup {<<"bulk", c, check_test_case_results(c)>> : c \in cs}
             /\ todo' = Tail(todo)
             /\ UNCHANGED <<run, exit, reports>>
    /\ UNCHANGED <<levm, runs>>

(* Block mode: LEVM runs the case first for the header's gas and receipts,
   then the block is added; the two run without the BLOCKHASH override, so
   they see the same state.  An error is printed and the loop goes on.        *)
add_block_pipeline(c) == Executed(levm[c]) /\ RootMatches(c, FALSE)

block_run_test(c) ==
    IF Stopped2(levm[c]) \/ (~Executed(levm[c]) /\ c.expect = {}) THEN "error"
    ELSE IF add_block_pipeline(c) = (c.expect = {}) THEN "pass" ELSE "error"

BlockTest ==
    /\ run.cmd = "block" /\ run.stage = "run" /\ todo # <<>> /\ Head(todo) \notin Gated
    /\ IF \E c \in CasesOf(Head(todo)) : levm[c].did = "unpriced"
       THEN End("panic") /\ UNCHANGED verdict
       ELSE /\ verdict' = verdict \cup {<<"block", c, block_run_test(c)>> : c \in CasesOf(Head(todo))}
            /\ todo' = Tail(todo)
            /\ UNCHANGED <<run, exit, reports>>
    /\ UNCHANGED <<levm, files, runs>>

(* Both modes end with status 0 whatever the cases did.                       *)
run_bulk ==
    /\ run.cmd \in {"bulk", "block"} /\ run.stage = "run" /\ todo = <<>>
    /\ End("ok")
    /\ UNCHANGED <<levm, files, verdict, runs>>

(* statetest: every case of one file, and there must be one; only the root
   counts.                                                                   *)
run_case(c) == ~RootMatches(c, TRUE)

(* Mutant: the last case of the file decides.                                *)
any_mismatch_last(cs) == cs # {} /\ run_case(Last(SetToSeq(cs)))

any_mismatch(cs) == \E c \in cs : run_case(c)

statetest ==
    \E t \in Tests :
        /\ run.stage = "idle" /\ runs < MaxRuns
        /\ LET cs == CasesOf(t) IN
           \/ cs = {} /\ exit' = "error" /\ UNCHANGED verdict
           \/ \E c \in cs : Stopped2(levm[c]) /\ exit' = "error" /\ UNCHANGED verdict
           \/ \E c \in cs : levm[c].did = "unpriced" /\ exit' = "panic" /\ UNCHANGED verdict
           \/ /\ cs # {} /\ \A c \in cs : ~Stopped2(levm[c]) /\ levm[c].did # "unpriced"
              /\ exit' = IF any_mismatch(cs) THEN "mismatch" ELSE "ok"
              /\ verdict' = verdict \cup
                    {<<"statetest", c, IF run_case(c) THEN "mismatch" ELSE "pass">> : c \in cs}
        /\ run' = [Idle EXCEPT !.cmd = "statetest", !.named = {t}]
        /\ todo' = <<>> /\ reports' = <<>> /\ runs' = runs + 1
        /\ UNCHANGED <<levm, files>>

Done == run.stage = "idle" /\ runs = MaxRuns /\ UNCHANGED vars

Next == \/ run_ef_tests \/ run_with_levm \/ run_with_revm \/ LoopDone \/ re_run_with_revm \/ write_report
        \/ run_tests \/ SkipGated \/ BulkTest \/ BlockTest \/ run_bulk \/ statetest \/ Done

Spec == Init /\ [][Next]_vars
-----------------------------------------------------------------------------
(* What a fixture asks of a transaction, read from the fixture and from what
   LEVM did when every BLOCKHASH is the fixture's: it is accepted and leaves
   the state and the logs of the post value; or it is refused for a reason
   that one of the expected names means, and leaves the state as it was.     *)
Meets(c) ==
    LET o == levm[c] IN
    /\ o.root
    /\ IF c.expect = {} THEN Executed(o) /\ o.logs
       ELSE /\ o.did \in {"rejected", "type3create", "type4create"} /\ o.validation
            /\ \E name \in c.expect : <<name, o.error>> \in Meaning

(* A vector that is green although no expected name means its error: one of
   them is a name that the first runner does not know, and such a name goes
   for any validation error.                                                 *)
Guessed(c) ==
    /\ ~Executed(levm[c]) /\ levm[c].validation /\ levm[c].root
    /\ \E name \in c.expect : Named1(name) = "Other"

(* A vector that is red although it meets its post value: its code reads a
   BLOCKHASH, and the first runner does not answer what the fixtures expect;
   or the floor cost was met where INTRINSIC_GAS_TOO_LOW is expected.        *)
Mistaken(c) ==
    \/ c.reads /\ Executed(levm[c])
    \/ levm[c].error = "IntrinsicGasBelowFloorGasCost" /\ "INTRINSIC_GAS_TOO_LOW" \in c.expect

(* The first runner's reports are true of the fixtures: a vector that a report
   does not list meets its post value, or was guessed; a vector that it lists
   does not meet it, or is one of the two kinds the runner mistakes.         *)
GreenIsEarned ==
    run.cmd = "levm" =>
        \A i \in DOMAIN reports : \A c \in VectorsOf(reports[i].test) :
            IF c \in {f.case : f \in reports[i].failed}
            THEN ~Meets(c) \/ Mistaken(c)
            ELSE Meets(c) \/ Guessed(c)

(* The harnesses do not contradict the strictest of them: what the first
   runner passed, naming every expected exception, no other harness reports;
   but block mode reports the creations the second runner does not build, the
   ones that had to be refused among them.                                    *)
NoFalseAlarms ==
    \A v \in verdict :
        (v[1] = "levm" /\ v[3] = "pass" /\ \A n \in v[2].expect : Named1(n) # "Other")
            => \A w \in verdict : w[2] = v[2] =>
                   w[3] = "pass" \/ (w[1] = "block" /\ NotBuilt2(levm[w[2]]))

(* A run that was asked to explain failures does, and leaves them on disk even
   when REVM could not be set up for one of them: the report written last
   holds exactly the failing vectors.  When all were run again, each that
   failed its post state was compared with REVM, account by account when no
   exception was expected.                                                    *)
FailuresAreExplained ==
    LET failed == {v[2] : v \in {u \in verdict : u[1] = "levm" /\ u[3] # "pass"
                                     /\ u[2].fork \in run.forks /\ u[2].test \in run.named}}
        rows == UNION {w.failed : w \in files.report}
        notes == UNION {w.notes : w \in files.report}
    IN (run.cmd = "levm" /\ ~run.summary /\ exit \in {"ok", "uncached"} /\ failed # {}) =>
        /\ {r.case : r \in rows} = failed
        /\ exit = "ok" => /\ {n.case : n \in notes} = {c \in failed : Executed(levm[c])}
                          /\ \A n \in notes : n.accounts <=> n.case.expect = {}

(* Exit statuses that scripts rely on: 0 from statetest exactly when the file
   had a case it can run and none of these left a wrong state root; 0 from a
   --summary run only when every chosen vector meets its post value or was
   guessed, and failure only when one does not or is mistaken.                *)
StatusIsTrue ==
    /\ (run.cmd = "statetest" /\ exit \in {"ok", "mismatch"}) =>
          LET ran == {c \in Cases : c.test \in run.named /\ c.fork \in DEFAULT_FORKS}
          IN exit = "ok" <=> ran # {} /\ \A c \in ran : levm[c].root
    /\ (run.cmd = "levm" /\ run.summary /\ run.stage = "idle" /\ exit \in {"ok", "failed"}) =>
          LET ran == {c \in Cases : c.test \in run.named /\ c.fork \in run.forks}
          IN IF exit = "ok" THEN \A c \in ran : Meets(c) \/ Guessed(c)
             ELSE \E c \in ran : ~Meets(c) \/ Mistaken(c)
=============================================================================
