--------------------------- MODULE StateTestsProofs ---------------------------
(***************************************************************************)
(* Theorems about the state-test harnesses: what the first runner reports  *)
(* green or red is so by the fixture, but for three named kinds of vector; *)
(* no harness contradicts it, the report that is written explains every    *)
(* failure, and the statuses can be relied on; for every set of fixtures,  *)
(* every build of LEVM and campaigns of every length.                      *)
(***************************************************************************)
EXTENDS StateTests, SequenceTheorems, FiniteSetTheorems, TLAPS

(* The tests a run of the first runner takes up.                             *)
Chosen == {t \in Tests : t \in run.named /\ \E c \in Cases : c.test = t /\ c.fork \in run.forks}

(* What its report of a test must hold.                                      *)
Failures(t) ==
    {[case |-> c, why |-> run_ef_test_tx(c)] : c \in {d \in VectorsOf(t) : run_ef_test_tx(d) # "pass"}}

(* Every vector of the test had a gas price, and its verdict is on record.   *)
Registered(t) ==
    \A c \in VectorsOf(t) : levm[c].did # "unpriced" /\ <<"levm", c, run_ef_test_tx(c)>> \in verdict

(* The notes of a re-run cover exactly the vectors that failed their post
   state, and say of each whether accounts were compared.                    *)
Noted(t, notes) ==
    /\ {n.case : n \in notes} = {c \in VectorsOf(t) : run_ef_test_tx(c) = "PostState"}
    /\ \A n \in notes : n.accounts <=> n.case.expect = {}

Whys == {"pass", "PreState", "PostState", "Unexpected", "WrongException", "NotReverted", "Init"}

Failure == [case : Cases, why : Whys]

Differences == {"error", "gas", "refund", "logs", "result"}

Note == [case : Cases, differs : SUBSET Differences, accounts : BOOLEAN]

Report == [test : Tests, rerun : BOOLEAN, notes : SUBSET Note, failed : SUBSET Failure]

Run == [cmd : {"none", "levm", "revm", "bulk", "block", "statetest"}, summary : BOOLEAN,
        forks : ForkChoices \cup {{}}, named : SUBSET Tests, stage : {"idle", "run", "rerun"}]

LevmOK ==
    \A c \in Cases : /\ levm[c].did \in Ends /\ levm[c].validation \in BOOLEAN
                     /\ levm[c].root \in BOOLEAN /\ levm[c].logs \in BOOLEAN

(* The shape of the state between two steps: only a running command has
   reports and tests to go, only an ended one an exit.                       *)
ShapeOK ==
    /\ run \in Run /\ todo \in Seq(Tests) /\ reports \in Seq(Report)
    /\ DOMAIN files = {"report", "success", "failure"}
    /\ run.stage = "idle" => todo = <<>> /\ reports = <<>>
    /\ run.stage # "idle" => exit = "none" /\ run.cmd # "statetest"
    /\ run.stage = "rerun" => run.cmd = "levm" /\ ~run.summary /\ todo = <<>>

(* A verdict on record is the verdict of the harness that gave it.           *)
Given(v) ==
    \E c \in Cases :
        \/ v = <<"levm", c, run_ef_test_tx(c)>> /\ levm[c].did # "unpriced"
        \/ v = <<"bulk", c, check_test_case_results(c)>>
        \/ v = <<"block", c, block_run_test(c)>>
        \/ v = <<"statetest", c, IF run_case(c) THEN "mismatch" ELSE "pass">>

VerdictOK == \A v \in verdict : Given(v)

(* A run of the first runner in progress: no chosen test is lost between the
   list of tests to go and the reports, and each report is the truth.        *)
ReportsOK ==
    run.cmd = "levm" /\ run.stage # "idle" =>
        /\ \A i \in DOMAIN reports :
              /\ reports[i].test \in Chosen
              /\ reports[i].failed = Failures(reports[i].test)
              /\ Registered(reports[i].test)
              /\ reports[i].rerun => Noted(reports[i].test, reports[i].notes)
        /\ \A j \in DOMAIN todo : todo[j] \in Chosen
        /\ \A t \in Chosen : \/ \E i \in DOMAIN reports : reports[i].test = t
                             \/ \E j \in DOMAIN todo : todo[j] = t

(* The report on disk holds the failures of the chosen tests, all of them.   *)
RowsOK ==
    /\ \A w \in files.report : w.test \in Chosen /\ w.failed = Failures(w.test)
    /\ \A t \in Chosen : Failures(t) # {} => \E w \in files.report : w.test = t

(* What it notes of them is complete.                                        *)
NotesOK == \A w \in files.report : Noted(w.test, w.notes)

EndOK ==
    run.cmd = "levm" /\ exit \in {"ok", "failed", "uncached"} =>
        /\ \A t \in Chosen : Registered(t)
        /\ run.summary => (exit = "ok" <=> \A t \in Chosen : Failures(t) = {})
        /\ (~run.summary /\ \E t \in Chosen : Failures(t) # {}) => RowsOK /\ (exit = "ok" => NotesOK)

StatetestOK ==
    run.cmd = "statetest" /\ exit \in {"ok", "mismatch"} =>
        LET ran == {c \in Cases : c.test \in run.named /\ c.fork \in DEFAULT_FORKS}
        IN exit = "ok" <=> ran # {} /\ \A c \in ran : levm[c].root

IInv == LevmOK /\ ShapeOK /\ VerdictOK /\ ReportsOK /\ EndOK /\ StatetestOK
-----------------------------------------------------------------------------
(* The verdicts on one case, compared.                                       *)

(* What the first runner asks of a vector that has a gas price.              *)
Passes(c) ==
    /\ RootMatches(c, FALSE)
    /\ IF c.expect = {} THEN Executed(levm[c]) /\ levm[c].logs
       ELSE /\ levm[c].did \in {"rejected", "type3create", "type4create"}
            /\ exception_is_expected(c, levm[c])

LEMMA PassIsPasses ==
    ASSUME LevmOK, NEW c \in Cases, levm[c].did # "unpriced"
    PROVE  run_ef_test_tx(c) = "pass" <=> Passes(c)
  BY DEF LevmOK, Ends, run_ef_test_tx, ensure_post_state, Passes, Executed

(* A name that the first runner knows means the exception it makes of it,
   except for RLP_INVALID_VALUE, which means no error of LEVM.               *)
LEMMA KnownMeans ==
    ASSUME NEW name, Named1(name) # "Other", Named1(name) # "RlpInvalidValue"
    PROVE  <<name, Named1(name)>> \in Meaning
  BY DEF Named1, Known, SharedNames, Meaning

(* What a name means, the first runner calls the same, or it does not know
   the name; the floor cost alone is left out of INTRINSIC_GAS_TOO_LOW.      *)
LEMMA MeaningIsKnown ==
    ASSUME NEW name, NEW error, <<name, error>> \in Meaning
    PROVE  \/ Named1(name) \in {error, "Other"}
           \/ name = "INTRINSIC_GAS_TOO_LOW" /\ error = "IntrinsicGasBelowFloorGasCost"
  BY DEF Named1, Known, SharedNames, Meaning

(* RLP_INVALID_VALUE is nothing that LEVM reports.                           *)
LEMMA MeansNoRlp ==
    ASSUME NEW name, NEW error, <<name, error>> \in Meaning
    PROVE  error # "RlpInvalidValue"
  BY DEF Meaning

(* A vector that the first runner passes meets its post value or was guessed. *)
LEMMA PassIsEarned ==
    ASSUME NEW c \in Cases, Passes(c)
    PROVE  Meets(c) \/ Guessed(c)
  <1>1. levm[c].root
    BY DEF Passes, RootMatches
  <1>2. CASE c.expect = {}
    BY <1>1, <1>2 DEF Passes, Meets
  <1>3. CASE c.expect # {}
    <2>1. /\ levm[c].did \in {"rejected", "type3create", "type4create"}
          /\ exception_is_expected(c, levm[c])
      BY <1>3 DEF Passes
    <2>2. PICK name \in c.expect : Matches(Named1(name), levm[c])
      BY <2>1 DEF exception_is_expected
    <2>3. ~Executed(levm[c])
      BY <2>1 DEF Executed
    <2>4. CASE Named1(name) = "Other"
      BY <1>1, <2>2, <2>3, <2>4 DEF Matches, Guessed
    <2>5. CASE Named1(name) # "Other"
      <3>1. levm[c].validation /\ Named1(name) = levm[c].error /\ Named1(name) # "RlpInvalidValue"
        BY <2>2, <2>5 DEF Matches
      <3>2. <<name, levm[c].error>> \in Meaning
        BY <2>5, <3>1, KnownMeans
      <3> QED BY <1>1, <1>3, <2>1, <3>1, <3>2 DEF Meets
    <2> QED BY <2>4, <2>5
  <1> QED BY <1>2, <1>3

(* A vector that meets its post value passes, unless the runner is mistaken.  *)
LEMMA MeetsIsPassed ==
    ASSUME NEW c \in Cases, Meets(c), ~Mistaken(c)
    PROVE  Passes(c)
  <1>1. RootMatches(c, FALSE)
    BY DEF Meets, Mistaken, RootMatches
  <1>2. CASE c.expect = {}
    BY <1>1, <1>2 DEF Passes, Meets
  <1>3. CASE c.expect # {}
    <2>1. /\ levm[c].did \in {"rejected", "type3create", "type4create"}
          /\ levm[c].validation
          /\ \E name \in c.expect : <<name, levm[c].error>> \in Meaning
      BY <1>3 DEF Meets
    <2>2. PICK name \in c.expect : <<name, levm[c].error>> \in Meaning
      BY <2>1
    <2>3. Named1(name) \in {levm[c].error, "Other"}
      BY <2>2, MeaningIsKnown DEF Mistaken
    <2>4. levm[c].error # "RlpInvalidValue"
      BY <2>2, MeansNoRlp
    <2>5. Matches(Named1(name), levm[c])
      BY <2>1, <2>3, <2>4 DEF Matches
    <2> QED BY <1>1, <1>3, <2>1, <2>5 DEF Passes, exception_is_expected
  <1> QED BY <1>2, <1>3

(* The verdict of the first runner against the fixture.                      *)
LEMMA VerdictIsTrue ==
    ASSUME LevmOK, NEW c \in Cases, levm[c].did # "unpriced"
    PROVE  /\ run_ef_test_tx(c) = "pass" => Meets(c) \/ Guessed(c)
           /\ run_ef_test_tx(c) # "pass" => ~Meets(c) \/ Mistaken(c)
  BY PassIsPasses, PassIsEarned, MeetsIsPassed

(* A report of a test lists the vectors that did not pass.                   *)
LEMMA ListedIsFailed ==
    ASSUME NEW t, NEW c \in VectorsOf(t)
    PROVE  c \in {f.case : f \in Failures(t)} <=> run_ef_test_tx(c) # "pass"
  <1>1. ASSUME run_ef_test_tx(c) # "pass"
        PROVE  \E f \in Failures(t) : f.case = c
    <2> DEFINE f == [case |-> c, why |-> run_ef_test_tx(c)]
    <2>1. f \in Failures(t) /\ f.case = c
      BY <1>1 DEF Failures
    <2> QED BY <2>1
  <1>2. ASSUME NEW f \in Failures(t), f.case = c
        PROVE  run_ef_test_tx(c) # "pass"
    BY <1>2 DEF Failures
  <1> QED BY <1>1, <1>2

LEMMA PostStateIsExecuted ==
    ASSUME NEW c \in Cases
    PROVE  run_ef_test_tx(c) = "PostState" <=> Executed(levm[c]) /\ run_ef_test_tx(c) # "pass"
  BY DEF run_ef_test_tx, ensure_post_state, Executed

LEMMA WhyType ==
    ASSUME NEW c
    PROVE  run_ef_test_tx(c) \in Whys
  BY DEF run_ef_test_tx, ensure_post_state, Executed, Whys

LEMMA RevmWhyType ==
    ASSUME NEW c, NEW r
    PROVE  _run_ef_test_tx_revm(c, r) \in Whys
  BY DEF _run_ef_test_tx_revm, Whys

(* The override only ever helps.                                             *)
LEMMA OverrideHelps ==
    ASSUME NEW c, RootMatches(c, FALSE)
    PROVE  RootMatches(c, TRUE)
  BY DEF RootMatches

(* What the first runner's deserializer can name, the second one's calls the
   same or does not know.                                                    *)
LEMMA NamesAgree ==
    ASSUME NEW name, Named1(name) # "Other"
    PROVE  Named2(name) \in {Named1(name), "Other"}
  <1>1. CASE name \in DOMAIN SharedNames
    BY <1>1 DEF Named1, Named2, Known
  <1>2. CASE name \notin DOMAIN SharedNames
    BY <1>2 DEF Named1, Named2, Known
  <1> QED BY <1>1, <1>2

LEMMA MatchesAgree ==
    ASSUME NEW c, NEW o, exception_is_expected(c, o), \A n \in c.expect : Named1(n) # "Other"
    PROVE  exception_matches_expected(c, o)
  BY NamesAgree DEF exception_is_expected, exception_matches_expected, Matches

(* A case the first runner passes, naming its exceptions, passes elsewhere.   *)
LEMMA PassesBulk ==
    ASSUME NEW c \in Cases, Passes(c), \A n \in c.expect : Named1(n) # "Other"
    PROVE  check_test_case_results(c) = "pass"
  BY MatchesAgree, OverrideHelps DEF Passes, check_test_case_results, Executed

LEMMA PassesBlock ==
    ASSUME LevmOK, NEW c \in Cases, Passes(c), ~NotBuilt2(levm[c])
    PROVE  block_run_test(c) = "pass"
  BY DEF LevmOK, Ends, Passes, block_run_test, add_block_pipeline, Executed, Stopped2, NotBuilt2

LEMMA PassesStatetest ==
    ASSUME NEW c, Passes(c)
    PROVE  ~run_case(c)
  BY OverrideHelps DEF Passes, run_case

(* A run's list of tests holds each of them.                                 *)
LEMMA SetToSeqIsAll ==
    ASSUME NEW S, IsFiniteSet(S)
    PROVE  /\ SetToSeq(S) \in Seq(S)
           /\ \A x \in S : \E j \in DOMAIN SetToSeq(S) : SetToSeq(S)[j] = x
  <1> DEFINE n == Cardinality(S)
             f == SetToSeq(S)
  <1>1. n \in Nat /\ ExistsBijection(1..n, S)
    BY FS_CardinalityType
  <1>2. PICK g \in [1..n -> S] : IsInjective(g)
    BY <1>1 DEF ExistsBijection, Bijection, Injection
  <1>3. f \in [1..n -> S] /\ IsInjective(f)
    BY <1>2 DEF SetToSeq
  <1> HIDE DEF f
  <1>4. f \in Injection(1..n, S)
    BY <1>3 DEF Injection
  <1>5. IsFiniteSet(1..n) /\ Cardinality(1..n) = n
    BY <1>1, FS_Interval
  <1>6. f \in Surjection(1..n, S)
    BY <1>4, <1>5, FS_Injection
  <1>7. f \in Seq(S)
    BY <1>1, <1>3, SeqDef
  <1> QED BY <1>3, <1>6, <1>7 DEF Surjection, f

LEMMA TestsFinite == IsFiniteSet(Tests)
  <1> DEFINE f == [c \in Cases |-> c.test]
  <1>1. f \in Surjection(Cases, Tests)
    BY DEF Surjection, Tests
  <1> QED BY <1>1, CasesAssumption, FS_Surjection

-----------------------------------------------------------------------------
(* What a step leaves as it was.                                             *)

LEMMA LevmStays == [Next]_vars => levm' = levm
  BY DEF Next, vars, run_ef_tests, run_with_levm, run_with_revm, LoopDone, re_run_with_revm, write_report,
         run_tests, SkipGated, BulkTest, BlockTest, run_bulk, statetest, Done, Begin

LEMMA LevmStep == LevmOK /\ [Next]_vars => LevmOK'
  BY LevmStays DEF LevmOK

LEMMA SameRoot ==
    ASSUME levm' = levm, NEW c, NEW b
    PROVE  RootMatches(c, b)' <=> RootMatches(c, b)
  BY DEF RootMatches

LEMMA SameVerdicts ==
    ASSUME levm' = levm, NEW c
    PROVE  /\ run_ef_test_tx(c)' = run_ef_test_tx(c)
           /\ check_test_case_results(c)' = check_test_case_results(c)
           /\ block_run_test(c)' = block_run_test(c)
           /\ run_case(c)' <=> run_case(c)
  <1>1. run_ef_test_tx(c)' = run_ef_test_tx(c)
    BY SameRoot DEF run_ef_test_tx, ensure_post_state
  <1>2. check_test_case_results(c)' = check_test_case_results(c)
    BY SameRoot DEF check_test_case_results
  <1>3. block_run_test(c)' = block_run_test(c)
    BY SameRoot DEF block_run_test, add_block_pipeline
  <1>4. run_case(c)' <=> run_case(c)
    BY SameRoot DEF run_case
  <1> QED BY <1>1, <1>2, <1>3, <1>4

LEMMA SameChosen ==
    ASSUME levm' = levm, run'.forks = run.forks, run'.named = run.named
    PROVE  /\ Chosen' = Chosen
           /\ \A t : VectorsOf(t)' = VectorsOf(t) /\ Failures(t)' = Failures(t)
           /\ \A t, n : Noted(t, n)' <=> Noted(t, n)
  <1>1. Chosen' = Chosen
    BY DEF Chosen
  <1>2. ASSUME NEW t PROVE VectorsOf(t)' = VectorsOf(t)
    BY DEF VectorsOf
  <1>3. ASSUME NEW t PROVE Failures(t)' = Failures(t)
    BY <1>2, SameVerdicts DEF Failures
  <1>4. ASSUME NEW t, NEW n PROVE Noted(t, n)' <=> Noted(t, n)
    BY <1>2, SameVerdicts DEF Noted
  <1> QED BY <1>1, <1>2, <1>3, <1>4

LEMMA StillRegistered ==
    ASSUME levm' = levm, run'.forks = run.forks, verdict \subseteq verdict', NEW t, Registered(t)
    PROVE  Registered(t)'
  <1>1. VectorsOf(t)' = VectorsOf(t)
    BY DEF VectorsOf
  <1> QED BY <1>1, SameVerdicts DEF Registered

-----------------------------------------------------------------------------
(* Shapes.                                                                   *)

(* Every report that is written has the fields a report has.                 *)
LEMMA ReportType ==
    ASSUME NEW t \in Tests, NEW found, DOMAIN found \subseteq Cases,
           \A c \in DOMAIN found : found[c] \in Whys
    PROVE  EFTestReport(t, found) \in Report
  <1>1. {[case |-> c, why |-> found[c]] : c \in {d \in DOMAIN found : found[d] # "pass"}} \subseteq Failure
    BY DEF Failure
  <1> QED BY <1>1 DEF EFTestReport, Report

(* The reports after one of them was run again on REVM.                      *)
Reran(i, notes) == [reports EXCEPT ![i].rerun = TRUE, ![i].notes = notes]

LEMMA NotesType ==
    ASSUME NEW report \in Report, NEW r \in [Compared(report) -> RevmResults]
    PROVE  Compared(report) \subseteq Cases /\ RevmNotes(report, r) \in SUBSET Note
  <1>1. report.failed \subseteq Failure
    BY DEF Report
  <1>2. Compared(report) \subseteq Cases
    BY <1>1 DEF Compared, Failure
  <1>3. ASSUME NEW c \in Compared(report)
        PROVE  compare_levm_revm_execution_results(c, r[c]) \in SUBSET Differences
    <2>1. r[c].differs \subseteq {"gas", "refund", "logs"}
      BY RevmAssumption
    <2> QED BY <2>1 DEF compare_levm_revm_execution_results, Differences
  <1>4. ASSUME NEW c \in Compared(report)
        PROVE  [case |-> c, differs |-> compare_levm_revm_execution_results(c, r[c]),
                accounts |-> c.expect = {}] \in Note
    <2>1. (c.expect = {}) \in BOOLEAN
      OBVIOUS
    <2> QED BY <1>2, <1>3, <2>1 DEF Note
  <1> QED BY <1>2, <1>4 DEF RevmNotes

LEMMA RerunShape ==
    ASSUME reports \in Seq(Report), NEW i \in DOMAIN reports, NEW notes \in SUBSET Note
    PROVE  /\ Reran(i, notes) \in Seq(Report)
           /\ DOMAIN Reran(i, notes) = DOMAIN reports
           /\ \A j \in DOMAIN reports : /\ Reran(i, notes)[j].test = reports[j].test
                                        /\ Reran(i, notes)[j].failed = reports[j].failed
                                        /\ j # i => Reran(i, notes)[j] = reports[j]
           /\ Reran(i, notes)[i].notes = notes
  <1> DEFINE new == [[reports[i] EXCEPT !.rerun = TRUE] EXCEPT !.notes = notes]
  <1>1. reports[i] \in Report /\ DOMAIN reports = 1..Len(reports)
    BY ElementOfSeq, LenProperties
  <1>2. /\ new \in Report /\ new.test = reports[i].test /\ new.failed = reports[i].failed
        /\ new.notes = notes
    BY <1>1 DEF Report
  <1>3. Reran(i, notes) = [reports EXCEPT ![i] = new]
    BY <1>1 DEF Reran
  <1> HIDE DEF new
  <1>4. [reports EXCEPT ![i] = new] \in Seq(Report)
    BY <1>1, <1>2, ExceptSeq
  <1> QED BY <1>1, <1>2, <1>3, <1>4

LEMMA ShapeInit == Init => ShapeOK
  BY EmptySeq DEF Init, ShapeOK, Idle, Run

LEMMA EndShape ==
    ASSUME ShapeOK, NEW how, End(how), files' = files
    PROVE  ShapeOK'
  BY EmptySeq DEF ShapeOK, End, Run

LEMMA ShapeStep == ShapeOK /\ [Next]_vars => ShapeOK'
  <1> SUFFICES ASSUME ShapeOK, [Next]_vars PROVE ShapeOK'
    OBVIOUS
  <1> USE DEF ShapeOK
  <1>0. \A S \in SUBSET Tests : SetToSeq(S) \in Seq(Tests)
    BY TestsFinite, FS_Subset, SetToSeqIsAll, SeqMonotonic
  <1>e. <<>> \in Seq(Tests) /\ <<>> \in Seq(Report)
    BY EmptySeq
  <1>h. todo # <<>> => Head(todo) \in Tests /\ Tail(todo) \in Seq(Tests)
    BY HeadTailProperties
  <1>1. CASE run_ef_tests
    BY <1>0, <1>1, <1>e DEF run_ef_tests, Begin, Run
  <1>2. CASE run_with_levm
    <2> DEFINE found == [c \in VectorsOf(Head(todo)) |-> run_ef_test_tx(c)]
    <2>1. CASE End("internal")
      BY <1>2, <2>1, EndShape DEF run_with_levm
    <2>2. CASE /\ reports' = Append(reports, EFTestReport(Head(todo), found))
               /\ todo' = Tail(todo) /\ UNCHANGED <<run, exit>>
      <3>1. EFTestReport(Head(todo), found) \in Report
        BY <1>2, <1>h, ReportType, WhyType DEF run_with_levm, VectorsOf
      <3> HIDE DEF found
      <3> QED BY <1>2, <2>2, <3>1, <1>h, AppendProperties DEF run_with_levm
    <2> QED BY <1>2, <2>1, <2>2 DEF run_with_levm
  <1>3. CASE run_with_revm
    <2>1. CASE End("internal")
      BY <1>3, <2>1, EndShape DEF run_with_revm
    <2>2. CASE \E r \in [VectorsOf(Head(todo)) -> RevmResults] :
                 /\ reports' = Append(reports, EFTestReport(Head(todo),
                                 [c \in VectorsOf(Head(todo)) |-> _run_ef_test_tx_revm(c, r[c])]))
                 /\ todo' = Tail(todo) /\ UNCHANGED <<run, exit>>
      <3>1. PICK r \in [VectorsOf(Head(todo)) -> RevmResults] :
                 /\ reports' = Append(reports, EFTestReport(Head(todo),
                                 [c \in VectorsOf(Head(todo)) |-> _run_ef_test_tx_revm(c, r[c])]))
                 /\ todo' = Tail(todo) /\ UNCHANGED <<run, exit>>
        BY <2>2
      <3> DEFINE found == [c \in VectorsOf(Head(todo)) |-> _run_ef_test_tx_revm(c, r[c])]
      <3>2. EFTestReport(Head(todo), found) \in Report
        BY <1>3, <1>h, ReportType, RevmWhyType DEF run_with_revm, VectorsOf
      <3>3. reports' = Append(reports, EFTestReport(Head(todo), found))
        BY <3>1
      <3> HIDE DEF found
      <3> QED BY <1>3, <3>1, <3>2, <3>3, <1>h, AppendProperties DEF run_with_revm
    <2> QED BY <1>3, <2>1, <2>2 DEF run_with_revm
  <1>4. CASE LoopDone
    BY <1>4, <1>e DEF LoopDone, End, Run
  <1>5. CASE re_run_with_revm
    <2>0. PICK i \in Failing : \E r \in [Compared(reports[i]) -> RevmResults] :
             IF \E c \in DOMAIN r : r[c].did = "noConfig"
             THEN /\ files' = [files EXCEPT !.report = Written(reports)]
                  /\ End("uncached")
             ELSE /\ reports' = [reports EXCEPT ![i].rerun = TRUE, ![i].notes = RevmNotes(reports[i], r)]
                  /\ UNCHANGED <<run, exit, files, todo>>
      BY <1>5 DEF re_run_with_revm
    <2>1. PICK r \in [Compared(reports[i]) -> RevmResults] :
             IF \E c \in DOMAIN r : r[c].did = "noConfig"
             THEN /\ files' = [files EXCEPT !.report = Written(reports)]
                  /\ End("uncached")
             ELSE /\ reports' = [reports EXCEPT ![i].rerun = TRUE, ![i].notes = RevmNotes(reports[i], r)]
                  /\ UNCHANGED <<run, exit, files, todo>>
      BY <2>0
    <2>2. CASE \E c \in DOMAIN r : r[c].did = "noConfig"
      <3>1. End("uncached") /\ DOMAIN files' = DOMAIN files
        BY <2>1, <2>2
      <3> QED BY <1>e, <3>1 DEF End, Run
    <2>3. CASE ~\E c \in DOMAIN r : r[c].did = "noConfig"
      <3>1. i \in DOMAIN reports /\ reports[i] \in Report
        BY ElementOfSeq, LenProperties DEF Failing
      <3>2. Reran(i, RevmNotes(reports[i], r)) \in Seq(Report)
        BY <3>1, NotesType, RerunShape
      <3>3. reports' = Reran(i, RevmNotes(reports[i], r)) /\ UNCHANGED <<run, exit, files, todo>>
        BY <2>1, <2>3 DEF Reran
      <3>4. run.stage = "rerun"
        BY <1>5 DEF re_run_with_revm
      <3> QED BY <3>2, <3>3, <3>4
    <2> QED BY <2>2, <2>3
  <1>6. CASE write_report
    BY <1>6, <1>e DEF write_report, End, Run
  <1>7. CASE run_tests
    <2>1. PICK cmd \in {"bulk", "block"} :
             /\ Begin([Idle EXCEPT !.cmd = cmd, !.stage = "run"], Tests)
             /\ files' = IF cmd = "bulk" THEN [files EXCEPT !.success = {}, !.failure = {}] ELSE files
      BY <1>7 DEF run_tests
    <2>2. DOMAIN files' = DOMAIN files
      BY <2>1
    <2>3. Idle \in Run
      BY DEF Idle, Run
    <2>4. run' \in Run /\ run'.stage = "run" /\ run'.cmd = cmd
      BY <2>1, <2>3 DEF Begin, Run
    <2> QED BY <1>0, <2>1, <2>2, <2>4, <1>e DEF Begin
  <1>8. CASE SkipGated
    BY <1>8, <1>h DEF SkipGated
  <1>9. CASE BulkTest
    BY <1>9, <1>h, <1>e DEF BulkTest, End, Run
  <1>10. CASE BlockTest
    BY <1>10, <1>h, <1>e DEF BlockTest, End, Run
  <1>11. CASE run_bulk
    BY <1>11, <1>e DEF run_bulk, End, Run
  <1>12. CASE statetest
    <2>1. PICK t \in Tests : run' = [Idle EXCEPT !.cmd = "statetest", !.named = {t}]
      BY <1>12 DEF statetest
    <2>2. run' = [cmd |-> "statetest", summary |-> FALSE, forks |-> {}, named |-> {t}, stage |-> "idle"]
      BY <2>1 DEF Idle
    <2>3. run' \in Run /\ run'.stage = "idle"
      BY <2>2 DEF Run
    <2>4. todo' = <<>> /\ reports' = <<>> /\ files' = files
      BY <1>12 DEF statetest
    <2> QED BY <2>3, <2>4, <1>e
  <1>13. CASE Done \/ UNCHANGED vars
    BY <1>13 DEF Done, vars
  <1> QED BY <1>1, <1>2, <1>3, <1>4, <1>5, <1>6, <1>7, <1>8, <1>9, <1>10, <1>11, <1>12, <1>13 DEF Next

-----------------------------------------------------------------------------
(* Verdicts.                                                                 *)

LEMMA GivenStays ==
    ASSUME levm' = levm, NEW v, Given(v)
    PROVE  Given(v)'
  <1>1. PICK c \in Cases :
          \/ v = <<"levm", c, run_ef_test_tx(c)>> /\ levm[c].did # "unpriced"
          \/ v = <<"bulk", c, check_test_case_results(c)>>
          \/ v = <<"block", c, block_run_test(c)>>
          \/ v = <<"statetest", c, IF run_case(c) THEN "mismatch" ELSE "pass">>
    BY DEF Given
  <1>2. /\ run_ef_test_tx(c)' = run_ef_test_tx(c)
        /\ check_test_case_results(c)' = check_test_case_results(c)
        /\ block_run_test(c)' = block_run_test(c)
        /\ run_case(c)' <=> run_case(c)
    BY SameVerdicts
  <1> QED BY <1>1, <1>2 DEF Given

LEMMA VerdictStep == VerdictOK /\ [Next]_vars => VerdictOK'
  <1> SUFFICES ASSUME VerdictOK, [Next]_vars, NEW v \in verdict' PROVE Given(v)'
    BY DEF VerdictOK
  <1>0. levm' = levm
    BY LevmStays
  <1>1. CASE v \in verdict
    BY <1>0, <1>1, GivenStays DEF VerdictOK
  <1>2. CASE run_with_levm /\ v \notin verdict
    <2>1. PICK c \in VectorsOf(Head(todo)) : /\ v = <<"levm", c, run_ef_test_tx(c)>>
                                            /\ levm[c].did # "unpriced"
      BY <1>2 DEF run_with_levm
    <2>2. Given(v)
      BY <2>1 DEF Given, VectorsOf
    <2> QED BY <1>0, <2>2, GivenStays
  <1>3. CASE BulkTest /\ v \notin verdict
    <2>1. PICK c \in CasesOf(Head(todo)) : v = <<"bulk", c, check_test_case_results(c)>>
      BY <1>3 DEF BulkTest
    <2>2. Given(v)
      BY <2>1 DEF Given, CasesOf
    <2> QED BY <1>0, <2>2, GivenStays
  <1>4. CASE BlockTest /\ v \notin verdict
    <2>1. PICK c \in CasesOf(Head(todo)) : v = <<"block", c, block_run_test(c)>>
      BY <1>4 DEF BlockTest
    <2>2. Given(v)
      BY <2>1 DEF Given, CasesOf
    <2> QED BY <1>0, <2>2, GivenStays
  <1>5. CASE statetest /\ v \notin verdict
    <2>1. PICK c \in Cases : v = <<"statetest", c, IF run_case(c) THEN "mismatch" ELSE "pass">>
      BY <1>5 DEF statetest, CasesOf
    <2>2. Given(v)
      BY <2>1 DEF Given
    <2> QED BY <1>0, <2>2, GivenStays
  <1>6. ~(run_with_levm \/ BulkTest \/ BlockTest \/ statetest) => verdict' = verdict
    BY DEF Next, vars, run_ef_tests, run_with_revm, LoopDone, re_run_with_revm, write_report,
           run_tests, SkipGated, run_bulk, Done, Begin
  <1> QED BY <1>1, <1>2, <1>3, <1>4, <1>5, <1>6

LEMMA VerdictsKept == [Next]_vars => verdict \subseteq verdict'
  BY DEF Next, vars, run_ef_tests, run_with_levm, run_with_revm, LoopDone, re_run_with_revm, write_report,
         run_tests, SkipGated, BulkTest, BlockTest, run_bulk, statetest, Done, Begin

-----------------------------------------------------------------------------
(* The run of the first runner in progress.                                  *)

(* What the list of one report says of it.                                   *)
TrueReport(rep) ==
    /\ rep.test \in Chosen
    /\ rep.failed = Failures(rep.test)
    /\ Registered(rep.test)
    /\ rep.rerun => Noted(rep.test, rep.notes)

LEMMA TrueStays ==
    ASSUME levm' = levm, run'.forks = run.forks, run'.named = run.named, verdict \subseteq verdict',
           NEW rep, TrueReport(rep)
    PROVE  TrueReport(rep)'
  BY SameChosen, StillRegistered DEF TrueReport

(* The report of a test that has just been run.                              *)
LEMMA NewReportIsTrue ==
    ASSUME NEW t \in Chosen, \A c \in VectorsOf(t) : levm[c].did # "unpriced",
           levm' = levm, run' = run,
           verdict' = verdict \cup {<<"levm", c, run_ef_test_tx(c)>> : c \in VectorsOf(t)},
           NEW rep, rep = EFTestReport(t, [c \in VectorsOf(t) |-> run_ef_test_tx(c)])
    PROVE  TrueReport(rep)'
  <1>1. rep.test = t /\ rep.rerun = FALSE /\ rep.failed = Failures(t)
    BY DEF EFTestReport, Failures
  <1>2. t \in Chosen' /\ Failures(t)' = Failures(t) /\ VectorsOf(t)' = VectorsOf(t)
    BY SameChosen
  <1>3. Registered(t)'
    BY <1>2, SameVerdicts DEF Registered
  <1> QED BY <1>1, <1>2, <1>3 DEF TrueReport

(* The vectors a re-run takes up are the ones that failed their post state,
   and each of them gets a note.                                             *)
LEMMA RerunNotes ==
    ASSUME NEW report, report.failed = Failures(report.test), NEW r
    PROVE  Noted(report.test, RevmNotes(report, r))
  <1> DEFINE V == VectorsOf(report.test)
  <1>1. ASSUME NEW c \in V, run_ef_test_tx(c) = "PostState"
        PROVE  [case |-> c, why |-> "PostState"] \in report.failed
    BY <1>1 DEF Failures
  <1>2. ASSUME NEW f \in report.failed
        PROVE  f.case \in V /\ f.why = run_ef_test_tx(f.case)
    BY <1>2 DEF Failures
  <1>3. Compared(report) = {c \in V : run_ef_test_tx(c) = "PostState"}
    <2>1. ASSUME NEW c \in Compared(report) PROVE c \in V /\ run_ef_test_tx(c) = "PostState"
      BY <1>2, <2>1 DEF Compared
    <2>2. ASSUME NEW c \in V, run_ef_test_tx(c) = "PostState" PROVE c \in Compared(report)
      <3> DEFINE f == [case |-> c, why |-> "PostState"]
      <3>1. f \in report.failed /\ f.case = c /\ f.why = "PostState"
        BY <1>1, <2>2
      <3> HIDE DEF f
      <3> QED BY <3>1 DEF Compared
    <2> QED BY <2>1, <2>2
  <1>4. ASSUME NEW n \in RevmNotes(report, r)
        PROVE  n.case \in Compared(report) /\ (n.accounts <=> n.case.expect = {})
    <2>1. PICK c \in Compared(report) :
             n = [case |-> c, differs |-> compare_levm_revm_execution_results(c, r[c]), accounts |-> c.expect = {}]
      BY <1>4, Zenon DEF RevmNotes
    <2>2. n.case = c
      BY <2>1
    <2>3. n.accounts <=> c.expect = {}
      BY <2>1, Zenon
    <2> QED BY <2>2, <2>3
  <1>5. ASSUME NEW c \in Compared(report) PROVE \E n \in RevmNotes(report, r) : n.case = c
    <2> DEFINE n == [case |-> c, differs |-> compare_levm_revm_execution_results(c, r[c]),
                     accounts |-> c.expect = {}]
    <2>1. n \in RevmNotes(report, r)
      BY <1>5, Zenon DEF RevmNotes
    <2>2. n.case = c
      OBVIOUS
    <2> QED BY <2>1, <2>2
  <1>6. {n.case : n \in RevmNotes(report, r)} = Compared(report)
    BY <1>4, <1>5
  <1> QED BY <1>3, <1>4, <1>6 DEF Noted

LEMMA ReportsStep == ShapeOK /\ ReportsOK /\ [Next]_vars => ReportsOK'
  <1> SUFFICES ASSUME ShapeOK, ReportsOK, [Next]_vars, run'.cmd = "levm", run'.stage # "idle"
               PROVE  ReportsOK'
    BY DEF ReportsOK
  <1>0. levm' = levm /\ verdict \subseteq verdict'
    BY LevmStays, VerdictsKept
  <1>s. run \in Run /\ todo \in Seq(Tests) /\ reports \in Seq(Report)
    BY DEF ShapeOK
  <1>1. CASE run_ef_tests
    <2>1. PICK cmd \in {"levm", "revm"}, summary \in BOOLEAN, forks \in ForkChoices, named \in {Tests, {}} :
            Begin([cmd |-> cmd, summary |-> summary, forks |-> forks, named |-> named, stage |-> "run"],
                  {t \in Tests : (\E c \in Cases : c.test = t /\ c.fork \in forks)
                                /\ (cmd = "levm" => t \in named)})
      BY <1>1 DEF run_ef_tests
    <2>2. /\ cmd = "levm" /\ run'.forks = forks /\ run'.named = named /\ reports' = <<>>
          /\ todo' = SetToSeq({t \in Tests : (\E c \in Cases : c.test = t /\ c.fork \in forks)
                                             /\ (cmd = "levm" => t \in named)})
      BY <2>1 DEF Begin
    <2>3. IsFiniteSet(Chosen') /\ todo' = SetToSeq(Chosen') /\ reports' = <<>>
      <3>1. Chosen' = {t \in Tests : (\E c \in Cases : c.test = t /\ c.fork \in forks)
                                    /\ (cmd = "levm" => t \in named)}
        BY <2>2 DEF Chosen
      <3>2. Chosen' \in SUBSET Tests
        BY <3>1
      <3> QED BY <2>2, <3>1, <3>2, TestsFinite, FS_Subset
    <2>4. /\ \A t \in Chosen' : \E j \in DOMAIN todo' : todo'[j] = t
          /\ \A j \in DOMAIN todo' : todo'[j] \in Chosen'
      BY <2>3, SetToSeqIsAll, LenProperties, ElementOfSeq
    <2>5. DOMAIN reports' = {}
      BY <2>3
    <2> QED BY <2>4, <2>5 DEF ReportsOK
  <1>2. CASE run_with_levm
    <2> DEFINE t == Head(todo)
               rep == EFTestReport(t, [c \in VectorsOf(t) |-> run_ef_test_tx(c)])
    <2>1. /\ run.cmd = "levm" /\ run.stage = "run" /\ todo # <<>> /\ run' = run
          /\ \A c \in VectorsOf(t) : levm[c].did # "unpriced"
          /\ reports' = Append(reports, rep) /\ todo' = Tail(todo)
          /\ verdict' = verdict \cup {<<"levm", c, run_ef_test_tx(c)>> : c \in VectorsOf(t)}
      BY <1>2, <1>s DEF run_with_levm, End, Run
    <2>2. t \in Tests /\ t = todo[1] /\ 1 \in DOMAIN todo /\ DOMAIN todo = 1..Len(todo) /\ Len(todo) \in Nat
      BY <1>s, <2>1, HeadTailProperties, LenProperties, EmptySeq
    <2>3. t \in Chosen
      BY <2>1, <2>2 DEF ReportsOK
    <2>4. rep \in Report
      BY <2>2, ReportType, WhyType DEF VectorsOf
    <2>5. \A r : r = rep => TrueReport(r)'
      BY <1>0, <2>1, <2>3, NewReportIsTrue
    <2>6. /\ DOMAIN reports' = 1..(Len(reports) + 1) /\ DOMAIN reports = 1..Len(reports) /\ Len(reports) \in Nat
          /\ reports'[Len(reports) + 1] = rep
          /\ \A i \in DOMAIN reports : reports'[i] = reports[i]
      BY <1>s, <2>1, <2>4, AppendProperties, LenProperties
    <2>7. /\ DOMAIN todo' = 1..(Len(todo) - 1)
          /\ \A j \in DOMAIN todo' : todo'[j] = todo[j + 1]
      BY <1>s, <2>1, HeadTailProperties, LenProperties
    <2>8. rep.test = t
      BY DEF EFTestReport
    <2> HIDE DEF t, rep
    <2>9. \A i \in DOMAIN reports : TrueReport(reports[i])
      BY <2>1 DEF ReportsOK, TrueReport
    <2>10. \A i \in DOMAIN reports' : TrueReport(reports[i])'
      BY <1>0, <2>1, <2>5, <2>6, <2>9, TrueStays
    <2>11. Chosen' = Chosen
      BY <1>0, <2>1, SameChosen
    <2>12. \A j \in DOMAIN todo' : todo'[j] \in Chosen'
      BY <2>1, <2>2, <2>7, <2>11 DEF ReportsOK
    <2>13. ASSUME NEW u \in Chosen'
           PROVE  \/ \E i \in DOMAIN reports' : reports'[i].test = u
                  \/ \E j \in DOMAIN todo' : todo'[j] = u
      <3>1. CASE u = t
        BY <3>1, <2>6, <2>8
      <3>2. CASE \E i \in DOMAIN reports : reports[i].test = u
        BY <3>2, <2>6
      <3>3. CASE u # t /\ \E j \in DOMAIN todo : todo[j] = u
        <4>1. PICK j \in DOMAIN todo : todo[j] = u /\ j # 1
          BY <3>3, <2>2
        <4>2. j - 1 \in DOMAIN todo' /\ todo'[j - 1] = todo[j]
          BY <4>1, <2>2, <2>7
        <4> QED BY <4>1, <4>2
      <3> QED BY <2>1, <2>11, <3>1, <3>2, <3>3 DEF ReportsOK
    <2> QED BY <2>10, <2>12, <2>13 DEF ReportsOK, TrueReport
  <1>3. CASE LoopDone
    <2>1. /\ run.cmd = "levm" /\ run.stage = "run" /\ run' = [run EXCEPT !.stage = "rerun"]
          /\ UNCHANGED <<reports, todo, verdict>>
      BY <1>3, <1>s DEF LoopDone, End, Run
    <2>2. run'.forks = run.forks /\ run'.named = run.named
      BY <2>1, <1>s DEF Run
    <2>3. \A i \in DOMAIN reports : TrueReport(reports[i])
      BY <2>1 DEF ReportsOK, TrueReport
    <2>4. \A i \in DOMAIN reports' : TrueReport(reports[i])'
      BY <1>0, <2>1, <2>2, <2>3, TrueStays
    <2>5. Chosen' = Chosen
      BY <1>0, <2>2, SameChosen
    <2> QED BY <2>1, <2>4, <2>5 DEF ReportsOK, TrueReport
  <1>4. CASE re_run_with_revm
    <2>0. run.stage = "rerun" /\ run.cmd = "levm" /\ verdict' = verdict
      BY <1>4 DEF re_run_with_revm, ShapeOK
    <2>p. PICK i \in Failing : \E r \in [Compared(reports[i]) -> RevmResults] :
             /\ reports' = [reports EXCEPT ![i].rerun = TRUE, ![i].notes = RevmNotes(reports[i], r)]
             /\ UNCHANGED <<run, exit, files, todo>>
      BY <1>4, <1>s DEF re_run_with_revm, End, Run
    <2>1. PICK r \in [Compared(reports[i]) -> RevmResults] :
             /\ reports' = [reports EXCEPT ![i].rerun = TRUE, ![i].notes = RevmNotes(reports[i], r)]
             /\ UNCHANGED <<run, exit, files, todo>>
      BY <2>p
    <2>2. i \in DOMAIN reports /\ reports[i] \in Report
      BY <1>s, ElementOfSeq, LenProperties DEF Failing
    <2> DEFINE notes == RevmNotes(reports[i], r)
               new == Reran(i, notes)
    <2>3. /\ DOMAIN new = DOMAIN reports
          /\ \A j \in DOMAIN reports : /\ new[j].test = reports[j].test
                                       /\ new[j].failed = reports[j].failed
                                       /\ j # i => new[j] = reports[j]
          /\ new[i].notes = notes
      BY <1>s, <2>2, NotesType, RerunShape
    <2>4. reports' = new
      BY <2>1 DEF Reran
    <2> HIDE DEF new
    <2>5. \A j \in DOMAIN reports : TrueReport(reports[j])
      BY <2>0 DEF ReportsOK, TrueReport
    <2>7. Noted(reports[i].test, notes)
      BY <2>2, <2>5, RerunNotes DEF TrueReport
    <2>8. \A j \in DOMAIN reports : TrueReport(reports'[j])
      <3> HIDE DEF notes
      <3> QED BY <2>2, <2>3, <2>4, <2>5, <2>7 DEF TrueReport
    <2>9. \A j \in DOMAIN reports' : TrueReport(reports[j])'
      BY <1>0, <2>1, <2>3, <2>4, <2>8, TrueStays
    <2>10. Chosen' = Chosen
      BY <1>0, <2>1, SameChosen
    <2>11. \A t \in Chosen : \/ \E j \in DOMAIN reports' : reports'[j].test = t
                            \/ \E j \in DOMAIN todo' : todo'[j] = t
      BY <2>0, <2>1, <2>3, <2>4 DEF ReportsOK
    <2>12. \A j \in DOMAIN todo' : todo'[j] \in Chosen'
      BY <2>0, <2>1, <2>10 DEF ReportsOK
    <2> QED BY <2>9, <2>10, <2>11, <2>12 DEF ReportsOK, TrueReport
  <1>5. CASE UNCHANGED vars \/ Done
    <2>1. UNCHANGED vars
      BY <1>5 DEF Done
    <2>2. \A i \in DOMAIN reports : TrueReport(reports[i])
      BY <2>1 DEF ReportsOK, TrueReport, vars
    <2>3. \A i \in DOMAIN reports' : TrueReport(reports[i])'
      BY <1>0, <2>1, <2>2, TrueStays DEF vars
    <2>4. Chosen' = Chosen
      BY <1>0, <2>1, SameChosen DEF vars
    <2> QED BY <2>1, <2>3, <2>4 DEF ReportsOK, TrueReport, vars
  <1>6. ~(run_with_revm \/ write_report \/ run_tests \/ SkipGated \/ BulkTest \/ BlockTest \/ run_bulk \/ statetest)
    BY <1>s DEF run_with_revm, write_report, run_tests, SkipGated, BulkTest, BlockTest, run_bulk, statetest,
              Begin, End, Run, Idle
  <1> QED BY <1>1, <1>2, <1>3, <1>4, <1>5, <1>6 DEF Next

-----------------------------------------------------------------------------
(* How a run ends.                                                           *)

(* When no test is left to go, every chosen test has its report.             *)
LEMMA AllReported ==
    ASSUME ShapeOK, ReportsOK, run.cmd = "levm", run.stage # "idle", todo = <<>>
    PROVE  /\ \A t \in Chosen : \E i \in DOMAIN reports : reports[i].test = t
           /\ \A i \in DOMAIN reports : TrueReport(reports[i])
           /\ \A t \in Chosen : Registered(t)
           /\ Failing = {} <=> \A t \in Chosen : Failures(t) = {}
  <1>1. \A t \in Chosen : \E i \in DOMAIN reports : reports[i].test = t
    BY DEF ReportsOK
  <1>2. \A i \in DOMAIN reports : TrueReport(reports[i])
    BY DEF ReportsOK, TrueReport
  <1>3. \A t \in Chosen : Registered(t)
    BY <1>1, <1>2 DEF TrueReport
  <1>4. Failing = {} <=> \A t \in Chosen : Failures(t) = {}
    BY <1>1, <1>2 DEF TrueReport, Failing, passed
  <1> QED BY <1>1, <1>2, <1>3, <1>4

(* What is written, and what it notes when every failing report was run again. *)
LEMMA WrittenIsTrue ==
    ASSUME ShapeOK, ReportsOK, run.cmd = "levm", run.stage # "idle", todo = <<>>
    PROVE  /\ \A w \in Written(reports) : /\ w.test \in Chosen /\ w.failed = Failures(w.test)
                                          /\ (\A i \in Failing : reports[i].rerun) => Noted(w.test, w.notes)
           /\ \A t \in Chosen : Failures(t) # {} => \E w \in Written(reports) : w.test = t
  <1>1. ASSUME NEW w \in Written(reports)
        PROVE  /\ w.test \in Chosen /\ w.failed = Failures(w.test)
               /\ (\A i \in Failing : reports[i].rerun) => Noted(w.test, w.notes)
    <2>1. PICK i \in Failing :
             w = [test |-> reports[i].test, failed |-> reports[i].failed, notes |-> reports[i].notes]
      BY <1>1 DEF Written, Failing
    <2>2. i \in DOMAIN reports
      BY DEF Failing
    <2>3. TrueReport(reports[i])
      BY <2>2, AllReported
    <2> QED BY <2>1, <2>2, <2>3 DEF TrueReport
  <1>2. ASSUME NEW t \in Chosen, Failures(t) # {}
        PROVE  \E w \in Written(reports) : w.test = t
    <2>1. PICK i \in DOMAIN reports : reports[i].test = t
      BY AllReported
    <2>2. ~passed(reports[i])
      BY <1>2, <2>1, AllReported DEF TrueReport, passed
    <2> DEFINE w == [test |-> reports[i].test, failed |-> reports[i].failed, notes |-> reports[i].notes]
    <2>3. w \in Written(reports) /\ w.test = t
      BY <2>1, <2>2 DEF Written
    <2> QED BY <2>3
  <1> QED BY <1>1, <1>2

LEMMA EndStep == ShapeOK /\ ReportsOK /\ EndOK /\ [Next]_vars => EndOK'
  <1> SUFFICES ASSUME ShapeOK, ReportsOK, EndOK, [Next]_vars, run'.cmd = "levm",
                      exit' \in {"ok", "failed", "uncached"}
               PROVE  EndOK'
    BY DEF EndOK
  <1>0. levm' = levm /\ verdict \subseteq verdict'
    BY LevmStays, VerdictsKept
  <1>s. run \in Run /\ (run.stage # "idle" => exit = "none")
    BY DEF ShapeOK
  <1>1. CASE LoopDone
    <2>1. run.cmd \in {"levm", "revm"} /\ run.stage = "run" /\ todo = <<>> /\ files' = files
      BY <1>1 DEF LoopDone
    <2>2. ~(run.cmd = "levm" /\ ~run.summary /\ Failing # {})
      BY <1>1, <1>s, <2>1 DEF LoopDone
    <2>3. End(IF run.cmd = "levm" /\ run.summary /\ Failing # {} THEN "failed" ELSE "ok")
      BY <1>1, <2>2 DEF LoopDone
    <2>4. /\ run'.cmd = run.cmd /\ run'.forks = run.forks /\ run'.named = run.named
          /\ run'.summary = run.summary
      BY <2>3, <1>s DEF End, Run
    <2>5. exit' = (IF run.cmd = "levm" /\ run.summary /\ Failing # {} THEN "failed" ELSE "ok")
      BY <2>3 DEF End
    <2>6. run.cmd = "levm"
      BY <2>4
    <2>7. \A t \in Chosen : Registered(t)
      BY <2>1, <2>6, AllReported
    <2>8. Failing = {} <=> \A t \in Chosen : Failures(t) = {}
      BY <2>1, <2>6, AllReported
    <2>9. Chosen' = Chosen /\ \A t : Failures(t)' = Failures(t)
      BY <1>0, <2>4, SameChosen
    <2>10. \A t \in Chosen' : Registered(t)'
      BY <1>0, <2>4, <2>7, <2>9, StillRegistered
    <2>11. run'.summary => (exit' = "ok" <=> \A t \in Chosen' : Failures(t)' = {})
      BY <2>4, <2>5, <2>6, <2>8, <2>9
    <2>12. ~run'.summary => \A t \in Chosen' : Failures(t)' = {}
      BY <2>2, <2>4, <2>6, <2>8, <2>9
    <2> QED BY <2>10, <2>11, <2>12 DEF EndOK
  <1>2. CASE write_report
    <2>1. /\ run.stage = "rerun" /\ run.cmd = "levm" /\ ~run.summary /\ todo = <<>>
          /\ \A i \in Failing : reports[i].rerun
          /\ DOMAIN files = {"report", "success", "failure"}
      BY <1>2 DEF write_report, ShapeOK
    <2>2. /\ run'.forks = run.forks /\ run'.named = run.named /\ run'.summary = run.summary
      BY <1>2, <1>s DEF write_report, End, Run
    <2>3. files'.report = Written(reports)
      BY <1>2, <2>1 DEF write_report
    <2>4. /\ Chosen' = Chosen /\ \A t : Failures(t)' = Failures(t)
          /\ \A t, n : Noted(t, n)' <=> Noted(t, n)
      BY <1>0, <2>2, SameChosen
    <2>5. \A t \in Chosen' : Registered(t)'
      BY <1>0, <2>1, <2>2, <2>4, AllReported, StillRegistered
    <2>6. RowsOK' /\ NotesOK'
      BY <2>1, <2>3, <2>4, WrittenIsTrue DEF RowsOK, NotesOK
    <2> QED BY <2>1, <2>2, <2>5, <2>6 DEF EndOK
  <1>3. CASE UNCHANGED vars \/ Done
    <2>1. UNCHANGED vars
      BY <1>3 DEF Done
    <2>2. /\ Chosen' = Chosen /\ \A t : Failures(t)' = Failures(t)
          /\ \A t, n : Noted(t, n)' <=> Noted(t, n)
      BY <1>0, <2>1, SameChosen DEF vars
    <2>3. \A t \in Chosen' : Registered(t)'
      BY <1>0, <2>1, <2>2, StillRegistered DEF vars, EndOK
    <2>4. (RowsOK' <=> RowsOK) /\ (NotesOK' <=> NotesOK)
      BY <2>1, <2>2 DEF RowsOK, NotesOK, vars
    <2> QED BY <2>1, <2>2, <2>3, <2>4 DEF EndOK, vars
  <1>4. CASE run_ef_tests
    BY <1>4 DEF run_ef_tests, Begin
  <1>5. CASE run_with_levm
    BY <1>5, <1>s DEF run_with_levm, End
  <1>6. CASE run_with_revm
    BY <1>6, <1>s DEF run_with_revm, End
  <1>7. CASE re_run_with_revm
    <2>1. /\ run.stage = "rerun" /\ run.cmd = "levm" /\ ~run.summary /\ todo = <<>>
          /\ DOMAIN files = {"report", "success", "failure"}
      BY <1>7 DEF re_run_with_revm, ShapeOK
    <2>2. End("uncached") /\ files' = [files EXCEPT !.report = Written(reports)]
      BY <1>7, <1>s, <2>1 DEF re_run_with_revm
    <2>3. /\ run'.forks = run.forks /\ run'.named = run.named /\ run'.summary = run.summary
          /\ exit' = "uncached" /\ files'.report = Written(reports)
      BY <1>s, <2>1, <2>2 DEF End, Run
    <2>4. /\ Chosen' = Chosen /\ \A t : Failures(t)' = Failures(t)
      BY <1>0, <2>3, SameChosen
    <2>5. \A t \in Chosen' : Registered(t)'
      BY <1>0, <2>1, <2>3, <2>4, AllReported, StillRegistered
    <2>6. RowsOK'
      BY <2>1, <2>3, <2>4, WrittenIsTrue DEF RowsOK
    <2> QED BY <2>1, <2>3, <2>5, <2>6 DEF EndOK
  <1>8. ~(run_tests \/ SkipGated \/ BulkTest \/ BlockTest \/ run_bulk \/ statetest)
    BY <1>s DEF run_tests, SkipGated, BulkTest, BlockTest, run_bulk, statetest, Begin, End, Run, Idle
  <1> QED BY <1>1, <1>2, <1>3, <1>4, <1>5, <1>6, <1>7, <1>8 DEF Next

LEMMA StatetestStep == ShapeOK /\ StatetestOK /\ [Next]_vars => StatetestOK'
  <1> SUFFICES ASSUME ShapeOK, StatetestOK, [Next]_vars, run'.cmd = "statetest", exit' \in {"ok", "mismatch"}
               PROVE  StatetestOK'
    BY DEF StatetestOK
  <1>0. levm' = levm
    BY LevmStays
  <1>s. run \in Run /\ (run.stage # "idle" => run.cmd # "statetest")
    BY DEF ShapeOK
  <1>1. CASE statetest
    <2>1. PICK t \in Tests : /\ run' = [Idle EXCEPT !.cmd = "statetest", !.named = {t}]
                             /\ CasesOf(t) # {}
                             /\ exit' = IF any_mismatch(CasesOf(t)) THEN "mismatch" ELSE "ok"
      BY <1>1 DEF statetest
    <2>2. run'.named = {t}
      BY <2>1 DEF Idle
    <2>3. any_mismatch(CasesOf(t)) <=> ~\A c \in CasesOf(t) : levm[c].root
      BY DEF any_mismatch, run_case, RootMatches
    <2>4. {c \in Cases : c.test \in run'.named /\ c.fork \in DEFAULT_FORKS} = CasesOf(t)
      BY <2>2 DEF CasesOf
    <2> QED BY <1>0, <2>1, <2>3, <2>4 DEF StatetestOK
  <1>2. CASE UNCHANGED vars \/ Done
    BY <1>2, <1>0 DEF Done, vars, StatetestOK
  <1>3. ~(\/ run_ef_tests \/ run_with_levm \/ run_with_revm \/ LoopDone \/ re_run_with_revm \/ write_report
          \/ run_tests \/ SkipGated \/ BulkTest \/ BlockTest \/ run_bulk)
    BY <1>s DEF run_ef_tests, run_with_levm, run_with_revm, LoopDone, re_run_with_revm, write_report,
            run_tests, SkipGated, BulkTest, BlockTest, run_bulk, Begin, End, Run, Idle, ShapeOK
  <1> QED BY <1>1, <1>2, <1>3 DEF Next

-----------------------------------------------------------------------------
(* The invariant, and what follows from it.                                  *)

LEMMA IInvInit == Init => IInv
  <1> SUFFICES ASSUME Init PROVE IInv
    OBVIOUS
  <1>1. LevmOK
    BY OutcomesAssumption DEF Init, LevmOK
  <1>2. ShapeOK
    BY ShapeInit
  <1>3. VerdictOK /\ ReportsOK /\ EndOK /\ StatetestOK
    BY DEF Init, Idle, VerdictOK, ReportsOK, EndOK, StatetestOK
  <1> QED BY <1>1, <1>2, <1>3 DEF IInv

LEMMA IInvStep == IInv /\ [Next]_vars => IInv'
  BY LevmStep, ShapeStep, VerdictStep, ReportsStep, EndStep, StatetestStep DEF IInv

LEMMA IInvHolds == Spec => []IInv
  BY IInvInit, IInvStep, PTL DEF Spec

(* A vector that the first runner's report leaves out meets its post value,
   or was guessed, and one that the report lists does not, or the runner is
   mistaken in one of two named ways.                                        *)
THEOREM GreenIsEarnedHolds == Spec => []GreenIsEarned
  <1>1. IInv => GreenIsEarned
    <2> SUFFICES ASSUME IInv, run.cmd = "levm", NEW i \in DOMAIN reports,
                        NEW c \in VectorsOf(reports[i].test)
                 PROVE  IF c \in {f.case : f \in reports[i].failed}
                        THEN ~Meets(c) \/ Mistaken(c)
                        ELSE Meets(c) \/ Guessed(c)
      BY DEF GreenIsEarned
    <2> DEFINE t == reports[i].test
    <2>1. run.stage # "idle"
      BY DEF IInv, ShapeOK
    <2>2. reports[i].failed = Failures(t) /\ Registered(t)
      BY <2>1 DEF IInv, ReportsOK
    <2>3. c \in {f.case : f \in reports[i].failed} <=> run_ef_test_tx(c) # "pass"
      BY <2>2, ListedIsFailed
    <2>4. c \in Cases /\ LevmOK
      BY DEF VectorsOf, IInv
    <2>5. levm[c].did # "unpriced"
      BY <2>2 DEF Registered
    <2> QED BY <2>3, <2>4, <2>5, VerdictIsTrue
  <1> QED BY <1>1, IInvHolds, PTL

(* What the first runner passes, naming the exceptions it expects, no harness
   reports, except the creations that block mode does not build.             *)
THEOREM NoFalseAlarmsHolds == Spec => []NoFalseAlarms
  <1>1. IInv => NoFalseAlarms
    <2> SUFFICES ASSUME IInv, NEW v \in verdict, v[1] = "levm", v[3] = "pass",
                        \A n \in v[2].expect : Named1(n) # "Other",
                        NEW w \in verdict, w[2] = v[2]
                 PROVE  w[3] = "pass" \/ (w[1] = "block" /\ NotBuilt2(levm[w[2]]))
      BY DEF NoFalseAlarms
    <2>1. Given(v) /\ Given(w)
      BY DEF IInv, VerdictOK
    <2>2. PICK c \in Cases : v = <<"levm", c, run_ef_test_tx(c)>> /\ levm[c].did # "unpriced"
      BY <2>1 DEF Given
    <2>3. w[2] = c /\ run_ef_test_tx(c) = "pass" /\ \A n \in c.expect : Named1(n) # "Other"
      BY <2>2
    <2>4. Passes(c)
      BY <2>2, <2>3, PassIsPasses DEF IInv
    <2>5. \/ w = <<"levm", c, run_ef_test_tx(c)>>
          \/ w = <<"bulk", c, check_test_case_results(c)>>
          \/ w = <<"block", c, block_run_test(c)>>
          \/ w = <<"statetest", c, IF run_case(c) THEN "mismatch" ELSE "pass">>
      BY <2>1, <2>3 DEF Given
    <2>6. /\ check_test_case_results(c) = "pass" /\ ~run_case(c)
          /\ ~NotBuilt2(levm[c]) => block_run_test(c) = "pass"
      BY <2>3, <2>4, PassesBulk, PassesBlock, PassesStatetest DEF IInv
    <2> QED BY <2>3, <2>5, <2>6
  <1> QED BY <1>1, IInvHolds, PTL

(* The report written by a run that was asked to explain failures holds the
   failing vectors, all of them and no others, also when REVM could not be
   set up; otherwise each was compared with REVM when its post state was wrong. *)
THEOREM FailuresAreExplainedHolds == Spec => []FailuresAreExplained
  <1>1. IInv => FailuresAreExplained
    <2> DEFINE failed == {v[2] : v \in {u \in verdict : u[1] = "levm" /\ u[3] # "pass"
                                            /\ u[2].fork \in run.forks /\ u[2].test \in run.named}}
               rows == UNION {w.failed : w \in files.report}
               notes == UNION {w.notes : w \in files.report}
    <2> SUFFICES ASSUME IInv, run.cmd = "levm", ~run.summary,
                        exit \in {"ok", "uncached"}, failed # {}
                 PROVE  /\ {r.case : r \in rows} = failed
                        /\ exit = "ok" => /\ {n.case : n \in notes} = {c \in failed : Executed(levm[c])}
                                          /\ \A n \in notes : n.accounts <=> n.case.expect = {}
      BY Zenon DEF FailuresAreExplained
    <2>1. ASSUME NEW c \in failed
          PROVE  /\ c.test \in Chosen /\ c \in VectorsOf(c.test) /\ run_ef_test_tx(c) # "pass"
                 /\ c \in Cases
      <3>1. PICK v \in verdict : /\ v[1] = "levm" /\ v[3] # "pass" /\ v[2] = c
                                 /\ c.fork \in run.forks /\ c.test \in run.named
        BY <2>1
      <3>2. Given(v)
        BY DEF IInv, VerdictOK
      <3>3. c \in Cases /\ v[3] = run_ef_test_tx(c)
        BY <3>1, <3>2 DEF Given
      <3> QED BY <3>1, <3>3 DEF Chosen, VectorsOf, Tests
    <2>2. ASSUME NEW t \in Chosen, NEW c \in VectorsOf(t), run_ef_test_tx(c) # "pass"
          PROVE  c \in failed /\ c \in Cases /\ c.test = t
      <3>1. c \in Cases /\ c.test = t /\ c.fork \in run.forks /\ t \in run.named
        BY DEF Chosen, VectorsOf
      <3> DEFINE v == <<"levm", c, run_ef_test_tx(c)>>
      <3>2. v \in verdict
        BY DEF IInv, EndOK, Registered
      <3>3. v[1] = "levm" /\ v[2] = c /\ v[3] # "pass"
        BY <2>2
      <3> HIDE DEF v
      <3> QED BY <3>1, <3>2, <3>3
    <2>3. \A t \in Chosen : \A c \in VectorsOf(t) : run_ef_test_tx(c) # "pass" => Failures(t) # {}
      BY DEF Failures
    <2>4. RowsOK /\ (exit = "ok" => NotesOK)
      <3>1. PICK c \in failed : TRUE
        OBVIOUS
      <3> QED BY <2>1, <2>3, <3>1 DEF IInv, EndOK
    <2>5. ASSUME NEW w \in files.report, NEW r \in w.failed
          PROVE  r.case \in VectorsOf(w.test) /\ run_ef_test_tx(r.case) # "pass"
      BY <2>4, <2>5 DEF RowsOK, Failures
    <2>6. ASSUME NEW c \in failed
          PROVE  \E w \in files.report : w.test = c.test
      BY <2>1, <2>3, <2>4, <2>6 DEF RowsOK
    <2>7. {r.case : r \in rows} = failed
      <3>1. ASSUME NEW r \in rows PROVE r.case \in failed
        <4>1. PICK w \in files.report : r \in w.failed
          OBVIOUS
        <4> QED BY <2>2, <2>4, <2>5, <4>1 DEF RowsOK
      <3>2. ASSUME NEW c \in failed PROVE \E r \in rows : r.case = c
        <4>1. PICK w \in files.report : w.test = c.test
          BY <2>6
        <4> DEFINE r == [case |-> c, why |-> run_ef_test_tx(c)]
        <4>2. w.failed = Failures(c.test)
          BY <4>1, <2>4 DEF RowsOK
        <4>3. r \in w.failed /\ r.case = c
          BY <4>2, <2>1 DEF Failures
        <4> HIDE DEF r
        <4> QED BY <4>3
      <3> HIDE DEF rows, failed
      <3> QED BY <3>1, <3>2
    <2>8. ASSUME exit = "ok", NEW w \in files.report, NEW n \in w.notes
          PROVE  /\ n.case \in VectorsOf(w.test) /\ run_ef_test_tx(n.case) = "PostState"
                 /\ n.accounts <=> n.case.expect = {}
      BY <2>4, <2>8 DEF NotesOK, Noted
    <2>9. ASSUME exit = "ok"
          PROVE  {n.case : n \in notes} = {c \in failed : Executed(levm[c])}
      <3>1. ASSUME NEW n \in notes PROVE n.case \in failed /\ Executed(levm[n.case])
        <4>1. PICK w \in files.report : n \in w.notes
          OBVIOUS
        <4>2. n.case \in VectorsOf(w.test) /\ run_ef_test_tx(n.case) = "PostState" /\ w.test \in Chosen
          BY <2>4, <2>8, <2>9, <4>1 DEF RowsOK
        <4>3. n.case \in failed /\ n.case \in Cases
          BY <2>2, <4>2
        <4> HIDE DEF failed
        <4> QED BY <4>2, <4>3, PostStateIsExecuted
      <3>2. ASSUME NEW c \in failed, Executed(levm[c]) PROVE \E n \in notes : n.case = c
        <4>1. PICK w \in files.report : w.test = c.test
          BY <2>6
        <4>2. run_ef_test_tx(c) = "PostState" /\ c \in VectorsOf(c.test)
          BY <2>1, <3>2, PostStateIsExecuted
        <4>3. {n.case : n \in w.notes} = {d \in VectorsOf(c.test) : run_ef_test_tx(d) = "PostState"}
          BY <2>4, <2>9, <4>1 DEF NotesOK, Noted
        <4>4. c \in {n.case : n \in w.notes}
          BY <4>2, <4>3
        <4> QED BY <4>4
      <3> HIDE DEF notes, failed
      <3> QED BY <3>1, <3>2
    <2>10. ASSUME exit = "ok", NEW n \in notes PROVE n.accounts <=> n.case.expect = {}
      <3>1. PICK w \in files.report : n \in w.notes
        OBVIOUS
      <3> QED BY <2>8, <2>10, <3>1
    <2> QED BY <2>7, <2>9, <2>10
  <1> QED BY <1>1, IInvHolds, PTL

(* Status 0 of statetest means that the file had a case to run and every root
   is right, and of a --summary run that every chosen vector meets its post
   value or was guessed; the failing status of either that there was cause.   *)
THEOREM StatusIsTrueHolds == Spec => []StatusIsTrue
  <1>1. IInv => StatusIsTrue
    <2> SUFFICES ASSUME IInv PROVE StatusIsTrue
      OBVIOUS
    <2> DEFINE ran == {c \in Cases : c.test \in run.named /\ c.fork \in run.forks}
    <2>1. ASSUME run.cmd = "levm", run.summary, exit \in {"ok", "failed"}
          PROVE  IF exit = "ok" THEN \A c \in ran : Meets(c) \/ Guessed(c)
                 ELSE \E c \in ran : ~Meets(c) \/ Mistaken(c)
      <3>1. \A t \in Chosen : Registered(t)
        BY <2>1 DEF IInv, EndOK
      <3>2. exit = "ok" <=> \A t \in Chosen : Failures(t) = {}
        BY <2>1 DEF IInv, EndOK
      <3>3. ASSUME NEW t \in Chosen, NEW c \in VectorsOf(t)
            PROVE  /\ c \in ran
                   /\ run_ef_test_tx(c) = "pass" => Meets(c) \/ Guessed(c)
                   /\ run_ef_test_tx(c) # "pass" => ~Meets(c) \/ Mistaken(c)
        <4>1. c \in Cases /\ levm[c].did # "unpriced" /\ LevmOK
          BY <3>1 DEF Registered, VectorsOf, IInv
        <4> QED BY <4>1, VerdictIsTrue DEF Chosen, VectorsOf
      <3>4. ASSUME NEW c \in ran
            PROVE  c.test \in Chosen /\ c \in VectorsOf(c.test)
        BY DEF Chosen, VectorsOf, Tests
      <3>5. \A t : Failures(t) = {} <=> \A c \in VectorsOf(t) : run_ef_test_tx(c) = "pass"
        BY DEF Failures
      <3> HIDE DEF ran
      <3>6. exit = "ok" => \A c \in ran : Meets(c) \/ Guessed(c)
        BY <3>2, <3>3, <3>4, <3>5
      <3>7. exit # "ok" => \E c \in ran : ~Meets(c) \/ Mistaken(c)
        <4> SUFFICES ASSUME exit # "ok" PROVE \E c \in ran : ~Meets(c) \/ Mistaken(c)
          OBVIOUS
        <4>1. PICK t \in Chosen : Failures(t) # {}
          BY <3>2
        <4>2. PICK c \in VectorsOf(t) : run_ef_test_tx(c) # "pass"
          BY <3>5, <4>1
        <4> QED BY <3>3, <4>2
      <3> QED BY <3>6, <3>7
    <2> QED BY <2>1 DEF IInv, StatetestOK, StatusIsTrue
  <1> QED BY <1>1, IInvHolds, PTL
=============================================================================
