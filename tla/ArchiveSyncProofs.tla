--------------------------- MODULE ArchiveSyncProofs ---------------------------
(***************************************************************************)
(* Proofs about ArchiveSync, for every finite set of accounts, every size  *)
(* of dumps and every number of aborts.                                    *)
(***************************************************************************)
EXTENDS ArchiveSync, FiniteSetTheorems, WellFoundedInduction, TLAPS

\* A set of natural numbers that is not empty has a least element.
LEMMA Least ==
  ASSUME NEW S \in SUBSET Nat, S # {}
  PROVE  \E n \in S : \A m \in S : n <= m
<1> DEFINE less == {ss \in Nat \X Nat : ss[1] < ss[2]}
<1>1. IsWellFoundedOn(less, Nat)
  BY NatLessThanWellFounded DEF OpToRel
<1>2. \E x \in S : \A y \in S : ~ (<<y, x>> \in less)
  <2> HIDE DEF less
  <2>1. QED
    BY <1>1, WFMin
<1>3. \A x, y \in Nat : y < x => <<y, x>> \in less
  OBVIOUS
<1>4. PICK x \in S : \A y \in S : ~ (<<y, x>> \in less)
  BY <1>2
<1>5. \A y \in S : ~ (y < x)
  <2> HIDE DEF less
  <2>1. QED
    BY <1>3, <1>4
<1>6. QED
  BY <1>5

\* A page that is not empty has a highest key.
LEMMA HighestExists ==
  ASSUME NEW page \in SUBSET Keys, page # {}
  PROVE  Highest(page) \in page /\ \A j \in page : j <= Highest(page)
<1> DEFINE upto(k) == {j \in page : j <= k}
           left(k) == Cardinality(page) - Cardinality(upto(k))
           lefts == {left(k) : k \in page}
<1>1. IsFiniteSet(page) /\ \A k \in page : k \in Nat
  BY ArchiveAssumption, FS_Subset
<1>2. \A k \in page : IsFiniteSet(upto(k)) /\ Cardinality(upto(k)) <= Cardinality(page)
  BY <1>1, FS_Subset
<1>3. \A k \in page : left(k) \in Nat
  <2> TAKE k \in page
  <2>1. Cardinality(page) \in Nat /\ Cardinality(upto(k)) \in Nat
    BY <1>1, <1>2, FS_CardinalityType
  <2>2. Cardinality(upto(k)) <= Cardinality(page)
    BY <1>2
  <2> HIDE DEF upto
  <2>3. QED
    BY <2>1, <2>2
<1>4. PICK k \in page : \A j \in page : left(k) <= left(j)
  <2>1. lefts \in SUBSET Nat /\ lefts # {}
    BY <1>3
  <2> HIDE DEF left
  <2>2. \E n \in lefts : \A m \in lefts : n <= m
    <3> HIDE DEF lefts
    <3>1. QED
      BY <2>1, Least
  <2>3. QED
    BY <2>2
<1>5. \A j \in page : j <= k
  <2> SUFFICES ASSUME NEW j \in page, j > k PROVE FALSE
    BY <1>1
  <2>1. upto(k) \subseteq upto(j) /\ j \in upto(j) /\ j \notin upto(k)
    <3>1. k \in Nat /\ j \in Nat
      BY <1>1
    <3>2. \A x \in page : x <= k => x <= j
      BY <1>1, <3>1
    <3>3. j <= j /\ ~ (j <= k)
      BY <3>1
    <3>4. QED
      BY <3>2, <3>3
  <2>2. Cardinality(upto(k)) <= Cardinality(upto(j)) /\ Cardinality(upto(k)) # Cardinality(upto(j))
    BY <2>1, <1>2, FS_Subset
  <2>3. Cardinality(upto(k)) \in Nat /\ Cardinality(upto(j)) \in Nat /\ Cardinality(page) \in Nat
    BY <1>1, <1>2, FS_CardinalityType
  <2>4. left(k) <= left(j)
    BY <1>4
  <2> HIDE DEF upto
  <2>5. QED
    BY <2>2, <2>3, <2>4
<1>6. QED
  BY <1>5 DEF Highest

\* The reader that has read a page asks next for what follows it: every account
\* below that was below the old position or is on the page.
LEMMA PageIsContiguous ==
  ASSUME NEW start \in Nat
  PROVE  /\ Page(start) \in SUBSET Keys
         /\ NextStart(Page(start)) \in Nat
         /\ Below(NextStart(Page(start))) \subseteq Below(start) \cup Page(start)
<1> DEFINE between(k) == {j \in Keys : start <= j /\ j < k}
<1>1. Page(start) \in SUBSET Keys
  BY DEF Page
<1>2. CASE Page(start) = {}
  <2>1. NextStart(Page(start)) = 1
    BY <1>2 DEF NextStart
  <2>2. \A k \in Keys : ~ (k < 1)
    BY ArchiveAssumption
  <2>3. QED
    BY <1>1, <2>1, <2>2 DEF Below
<1>3. CASE Page(start) # {}
  <2>1. /\ Highest(Page(start)) \in Page(start)
        /\ \A j \in Page(start) : j <= Highest(Page(start))
    BY <1>1, <1>3, HighestExists
  <2>2. NextStart(Page(start)) = Highest(Page(start)) + 1
    BY <1>3 DEF NextStart
  <2>3. Highest(Page(start)) \in Keys /\ \A k \in Keys : k \in Nat
    BY <1>1, <2>1, ArchiveAssumption
  <2>4. ASSUME NEW k \in Below(NextStart(Page(start))), k >= start
        PROVE  k \in Page(start)
    <3>1. k \in Keys /\ k <= Highest(Page(start))
      BY <2>2, <2>3 DEF Below
    <3>2. IsFiniteSet(between(Highest(Page(start))))
      BY ArchiveAssumption, FS_Subset
    <3>3. between(k) \subseteq between(Highest(Page(start)))
      <4>1. \A j \in Keys : j < k => j < Highest(Page(start))
        BY <2>3, <3>1
      <4>2. QED
        BY <4>1
    <3>4. Cardinality(between(k)) <= Cardinality(between(Highest(Page(start)))) /\ IsFiniteSet(between(k))
      BY <3>2, <3>3, FS_Subset
    <3>5. Cardinality(between(k)) \in Nat /\ Cardinality(between(Highest(Page(start)))) \in Nat
      BY <3>2, <3>4, FS_CardinalityType
    <3>6. Cardinality(between(Highest(Page(start)))) < MaxAccounts
      BY <2>1 DEF Page
    <3>7. Cardinality(between(k)) < MaxAccounts
      BY <3>4, <3>5, <3>6, ArchiveAssumption
    <3>8. QED
      BY <2>4, <3>1, <3>7 DEF Page
  <2>5. NextStart(Page(start)) \in Nat
    BY <2>2, <2>3
  <2>6. Below(NextStart(Page(start))) \subseteq Below(start) \cup Page(start)
    BY <2>3, <2>4 DEF Below
  <2>7. QED
    BY <1>1, <2>5, <2>6
<1>4. QED
  BY <1>2, <1>3

-----------------------------------------------------------------------------
(* Type correctness.                                                       *)

\* What a step computes from typed values is typed.
LEMMA FilesTyped ==
  ASSUME TypeOK
  PROVE  /\ Written(current_file, TRUE) \in SUBSET File
         /\ Written(current_file, FALSE) \in SUBSET File
<1>1. /\ [n |-> current_file, whole |-> TRUE, dump |-> dump] \in File
      /\ [n |-> current_file, whole |-> FALSE, dump |-> dump] \in File
  BY DEF TypeOK, File
<1>2. QED
  BY <1>1 DEF TypeOK, Written

LEMMA TriesTyped ==
  ASSUME TypeOK
  PROVE  /\ dump.keys \X {dump.root} \subseteq Accounts
         /\ Inserted \in SUBSET Accounts
         /\ Stored \in SUBSET Accounts
<1>1. dump.keys \subseteq Keys /\ dump.root \in Blocks
  BY DEF TypeOK, Dump
<1>2. dump.keys \X {dump.root} \subseteq Accounts
  BY <1>1 DEF Accounts
<1>3. QED
  BY <1>2 DEF TypeOK, Inserted, Stored

LEMMA TargetTyped ==
  ASSUME TypeOK, flags.ipc \/ indir # None
  PROVE  Target \in Blocks
BY DEF TypeOK, Target, Flags

\* What makes TypeOK inductive: a run that reads a directory was given one, and
\* the count of dumps is below its limit until a checkpoint is due.
RunOK ==
  /\ pc # "off" => flags.ipc \/ indir # None
  /\ pc \in {"read", "process"} => since < Every

\* Every variable keeps its type, for any accounts, sizes and number of aborts.
LEMMA TypesInductive == Spec => [](TypeOK /\ RunOK)
<1>1. Init => TypeOK /\ RunOK
  <2> SUFFICES ASSUME Init PROVE TypeOK /\ RunOK
    OBVIOUS
  <2>1. flags.block \in Blocks
    BY DEF Init, Flags
  <2>2. dump \in Dump
    BY <2>1 DEF Init, Dump
  <2>3. 0 \in Nat /\ 0 \in 0..Every /\ 0 \in 0..MaxAborts
    BY ArchiveAssumption
  <2>4. QED
    BY <2>2, <2>3 DEF Init, TypeOK, RunOK
<1>2. TypeOK /\ RunOK /\ [Next]_vars => TypeOK'
  <2> SUFFICES ASSUME TypeOK, RunOK, [Next]_vars PROVE TypeOK'
    OBVIOUS
  <2>1. ASSUME NEW f \in Flags, Start(f) PROVE TypeOK'
    <3>1. CASE checkpoint = None
      BY <2>1, <3>1, ArchiveAssumption DEF TypeOK, Start, Fresh, disk
    <3>2. CASE checkpoint # None
      <4>1. checkpoint \in CheckPoint
        BY <2>1, <3>2 DEF TypeOK, Start
      <4>2. QED
        BY <2>1, <3>2, <4>1, ArchiveAssumption DEF TypeOK, Start, Resumed, CheckPoint, disk
    <3>3. QED
      BY <3>1, <3>2
  <2>2. CASE ReadDump
    <3>1. CASE ReadFromNode
      <4> DEFINE end == \A k \in Keys : k >= reader => k \in Page(reader)
      <4>1. Page(reader) \in SUBSET Keys /\ NextStart(Page(reader)) \in Nat
        BY PageIsContiguous DEF TypeOK
      <4>2. end \in BOOLEAN
        OBVIOUS
      <4>3. dump' = [keys |-> Page(reader), root |-> flags.block, last |-> end]
        BY <3>1 DEF ReadFromNode
      <4>4. flags.block \in Blocks
        BY DEF TypeOK, Flags
      <4> HIDE DEF end
      <4>5. dump' \in Dump
        BY <4>1, <4>2, <4>3, <4>4 DEF Dump
      <4>6. QED
        BY <2>2, <3>1, <4>1, <4>5 DEF TypeOK, ReadDump, ReadFromNode, disk
    <3>2. CASE ReadFromDir
      <4>1. indir # None
        BY <2>2, <3>2 DEF ReadDump, ReadFromDir, RunOK
      <4>2. dump' \in Dump
        BY <3>2, <4>1 DEF TypeOK, ReadFromDir, File
      <4>3. QED
        BY <2>2, <3>2, <4>2 DEF TypeOK, ReadDump, ReadFromDir, disk
    <3>3. CASE NoSuchDump
      BY <2>2, <3>3 DEF TypeOK, ReadDump, NoSuchDump, disk
    <3>4. QED
      BY <2>2, <3>1, <3>2, <3>3 DEF ReadDump
  <2>3. CASE ProcessDump
    <3>1. CASE SameRoot
      <4>1. out' \in SUBSET File /\ current_file' \in Nat
        <5>1. Written(current_file, TRUE) \in SUBSET File
          BY FilesTyped
        <5>0. current_file + 1 \in Nat
          BY DEF TypeOK
        <5>2. IF flags.output THEN out' = Written(current_file, TRUE) /\ current_file' = current_file + 1
                              ELSE UNCHANGED <<out, current_file>>
          BY <2>3, <3>1, Zenon DEF ProcessDump
        <5>3. QED
          BY <5>0, <5>1, <5>2 DEF TypeOK
      <4>2. current_root' \in SUBSET Accounts /\ stored' \in SUBSET Accounts
        BY <2>3, <3>1, TriesTyped DEF TypeOK, ProcessDump
      <4>3. state_root' \in Blocks
        BY <2>3, <3>1 DEF TypeOK, Dump, ProcessDump
      <4>4. since' \in 0..Every /\ pc' \in {"checkpoint", "read"}
        BY <2>3, <3>1, ArchiveAssumption DEF TypeOK, RunOK, ProcessDump
      <4>5. QED
        BY <2>3, <3>1, <4>1, <4>2, <4>3, <4>4 DEF TypeOK, ProcessDump
    <3>2. CASE ~SameRoot
      BY <2>3, <3>2 DEF TypeOK, ProcessDump
    <3>3. QED
      BY <3>1, <3>2
  <2>4. CASE SaveCheckpoint
    <3>1. checkpoint' \in CheckPoint
      BY <2>4 DEF TypeOK, SaveCheckpoint, CheckPoint
    <3>2. QED
      BY <2>4, <3>1, ArchiveAssumption DEF TypeOK, SaveCheckpoint
  <2>5. CASE FinishBlock
    <3>1. Target \in Blocks
      BY <2>5, TargetTyped DEF RunOK, FinishBlock
    <3>2. [block |-> Target, state |-> current_root] \in [block : Blocks, state : SUBSET Accounts]
      BY <3>1 DEF TypeOK
    <3>3. head' \in [block : Blocks, state : SUBSET Accounts] \cup {None} /\ pc' \in {"done", "off"}
      BY <2>5, <3>2 DEF TypeOK, FinishBlock, Canonical, RootDiffers, OnlyFiles
    <3>4. QED
      BY <2>5, <3>3 DEF TypeOK, FinishBlock
  <2>6. CASE Abort
    <3>1. out' \in SUBSET File /\ stored' \in SUBSET Accounts /\ checkpoint' \in CheckPoint \cup {None, Torn}
      <4>1. CASE CutDump
        <5>1. out' \in SUBSET File
          BY <4>1, FilesTyped DEF TypeOK, CutDump
        <5>2. ASSUME NEW part \in SUBSET dump.keys PROVE part \X {dump.root} \subseteq Accounts
          BY TriesTyped
        <5>3. stored' \in SUBSET Accounts
          BY <4>1, <5>2 DEF TypeOK, CutDump
        <5>4. QED
          BY <4>1, <5>1, <5>3 DEF TypeOK, CutDump
      <4>2. CASE CutCheckpoint
        BY <4>2 DEF TypeOK, CutCheckpoint
      <4>3. CASE UNCHANGED <<checkpoint, out, stored>>
        BY <4>3 DEF TypeOK
      <4>4. QED
        BY <2>6, <4>1, <4>2, <4>3 DEF Abort
    <3>2. QED
      BY <2>6, <3>1, ArchiveAssumption DEF TypeOK, Abort
  <2>7. CASE Handover
    <3>1. Target \in Blocks
      BY <2>7, TargetTyped DEF RunOK, Handover
    <3>2. indir' \in [block : Blocks, files : SUBSET File]
      BY <2>7, <3>1 DEF TypeOK, Handover
    <3>3. QED
      BY <2>7, <3>2 DEF TypeOK, Handover
  <2>8. CASE UNCHANGED vars
    BY <2>8 DEF TypeOK, vars, run, disk
  <2>9. QED
    BY <2>1, <2>2, <2>3, <2>4, <2>5, <2>6, <2>7, <2>8 DEF Next, Steps
<1>3. TypeOK /\ RunOK /\ [Next]_vars => RunOK'
  <2> SUFFICES ASSUME TypeOK, RunOK, [Next]_vars PROVE RunOK'
    OBVIOUS
  <2> USE ArchiveAssumption DEF RunOK
  <2>1. ASSUME NEW f \in Flags, Start(f) PROVE RunOK'
    BY <2>1 DEF Start, disk
  <2>2. CASE ReadDump
    BY <2>2 DEF ReadDump, ReadFromNode, ReadFromDir, NoSuchDump, disk
  <2>3. CASE ProcessDump
    <3>1. CASE SameRoot
      <4>1. since \in 0..Every /\ since' = since + 1 /\ UNCHANGED <<flags, indir>>
        BY <2>3, <3>1 DEF TypeOK, ProcessDump
      <4>2. pc # "off" /\ pc' = IF Due THEN "checkpoint" ELSE "read"
        BY <2>3, <3>1 DEF ProcessDump
      <4>3. ~Due => since + 1 < Every
        BY <4>1 DEF Due
      <4>4. QED
        BY <4>1, <4>2, <4>3
    <3>2. CASE ~SameRoot
      BY <2>3, <3>2 DEF ProcessDump
    <3>3. QED
      BY <3>1, <3>2
  <2>4. CASE SaveCheckpoint \/ FinishBlock
    BY <2>4 DEF SaveCheckpoint, FinishBlock, Canonical, RootDiffers, OnlyFiles
  <2>5. CASE Abort \/ Handover \/ UNCHANGED vars
    BY <2>5 DEF Abort, Handover, vars, run, disk
  <2>6. QED
    BY <2>1, <2>2, <2>3, <2>4, <2>5 DEF Next, Steps
<1>4. QED
  BY <1>1, <1>2, <1>3, PTL DEF Spec

\* Every variable keeps its type.
THEOREM TypeCorrect == Spec => []TypeOK
BY TypesInductive, PTL

-----------------------------------------------------------------------------
(* Storages before tries.                                                  *)

Running == pc \in {"read", "process", "checkpoint", "block"}

\* The trie of the run in progress is covered too; stored only grows.
StoreInv == StorageIsThere /\ (Running => current_root \subseteq stored)

\* No trie that can be resumed or becomes the head lacks a storage, wherever runs
\* are aborted.
THEOREM StoragesAreThere == Spec => []StorageIsThere
<1>1. Init => StoreInv
  BY DEF Init, StoreInv, StorageIsThere, Running
<1>2. TypeOK /\ StoreInv /\ [Next]_vars => StoreInv'
  <2> SUFFICES ASSUME TypeOK, StoreInv, [Next]_vars PROVE StoreInv'
    OBVIOUS
  <2> USE DEF StoreInv, StorageIsThere, Running
  <2>1. ASSUME NEW f \in Flags, Start(f) PROVE StoreInv'
    <3>1. CASE checkpoint = None
      BY <2>1, <3>1 DEF Start, Fresh, disk
    <3>2. CASE checkpoint # None
      BY <2>1, <3>2 DEF Start, Resumed, disk
    <3>3. QED
      BY <3>1, <3>2
  <2>2. CASE ReadDump
    BY <2>2 DEF ReadDump, ReadFromNode, ReadFromDir, NoSuchDump, disk
  <2>3. CASE ProcessDump
    <3>1. stored \subseteq stored' /\ UNCHANGED <<checkpoint, head>>
      BY <2>3 DEF ProcessDump, Stored
    <3>2. current_root' \subseteq stored'
      <4>1. Inserted \subseteq Stored
        BY <2>3 DEF Inserted, Stored, ProcessDump
      <4>2. \/ current_root' = Inserted /\ stored' = Stored
            \/ UNCHANGED <<current_root, stored>>
        BY <2>3 DEF ProcessDump
      <4>3. QED
        BY <2>3, <4>1, <4>2 DEF ProcessDump
    <3>3. QED
      BY <3>1, <3>2
  <2>4. CASE SaveCheckpoint
    <3>1. checkpoint'.current_root = current_root /\ UNCHANGED <<current_root, stored, head>>
      BY <2>4 DEF SaveCheckpoint
    <3>2. QED
      BY <2>4, <3>1 DEF SaveCheckpoint
  <2>5. CASE FinishBlock
    <3>1. CASE Canonical
      <4>1. head'.state = current_root
        BY <3>1 DEF Canonical
      <4>2. QED
        BY <2>5, <3>1, <4>1 DEF FinishBlock, Canonical
    <3>2. CASE RootDiffers \/ OnlyFiles
      BY <2>5, <3>2 DEF FinishBlock, RootDiffers, OnlyFiles
    <3>3. QED
      BY <2>5, <3>1, <3>2 DEF FinishBlock
  <2>6. CASE Abort
    <3>1. stored \subseteq stored' /\ checkpoint' \in {checkpoint, Torn}
      BY <2>6 DEF Abort, CutDump, CutCheckpoint
    <3>2. UNCHANGED head /\ pc' = "off"
      BY <2>6 DEF Abort
    <3>3. QED
      BY <3>1, <3>2
  <2>7. CASE Handover \/ UNCHANGED vars
    BY <2>7 DEF Handover, vars, run, disk
  <2>8. QED
    BY <2>1, <2>2, <2>3, <2>4, <2>5, <2>6, <2>7 DEF Next, Steps
<1>3. QED
  BY <1>1, <1>2, TypeCorrect, PTL DEF Spec, StoreInv

-----------------------------------------------------------------------------
(* A checkpoint covers what lies before it.                                *)

\* Keys read and not processed yet.
Pending == IF pc = "process" THEN dump.keys ELSE {}

InFiles(k, n) == \E f \in out : f.n < n /\ f.whole /\ k \in f.dump.keys

\* What a checkpoint will claim holds of the run at any time, up to the dump in
\* hand.
PositionInv ==
  Running /\ flags.ipc =>
    /\ flags.sync => Below(reader) \subseteq KeysOf(current_root) \cup Pending
    /\ flags.output => \A k \in Below(reader) \ Pending : InFiles(k, current_file)

\* The files a checkpoint relies on are behind the writer.
WriterInv ==
  Running /\ flags.output /\ checkpoint \notin {None, Torn} =>
    checkpoint.of.output /\ checkpoint.current_file <= current_file

CoverInv == CheckpointCovers /\ PositionInv /\ WriterInv

\* Accounts are only added to a trie.
LEMMA InsertedKeys ==
  ASSUME TypeOK
  PROVE  KeysOf(Inserted) = KeysOf(current_root) \cup dump.keys
<1>1. \A a \in current_root : a[1] \in dump.keys \/ a \in Inserted
  BY DEF Inserted
<1>2. \A k \in dump.keys : <<k, dump.root>> \in Inserted
  BY DEF Inserted
<1>3. ASSUME NEW k \in dump.keys PROVE k \in KeysOf(Inserted)
  <2>1. PICK a \in Inserted : a = <<k, dump.root>>
    BY <1>2
  <2>2. a[1] = k
    BY <2>1
  <2>3. QED
    BY <2>2 DEF KeysOf
<1>4. \A a \in Inserted : a \in current_root \/ a[1] \in dump.keys
  BY DEF Inserted
<1>5. QED
  BY <1>1, <1>3, <1>4 DEF KeysOf

\* Writing a dump keeps the files before it and adds its keys.
LEMMA WrittenFiles ==
  ASSUME TypeOK, NEW whole \in BOOLEAN, out' = Written(current_file, whole)
  PROVE  /\ \A k \in Keys : \A n \in Nat : n <= current_file /\ InFiles(k, n) => InFiles(k, n)'
         /\ whole => \A k \in dump.keys : \E f \in out' :
                       f.n < current_file + 1 /\ f.whole /\ k \in f.dump.keys
<1>1. ASSUME NEW k \in Keys, NEW n \in Nat, n <= current_file, InFiles(k, n)
      PROVE  InFiles(k, n)'
  <2>1. PICK f \in out : f.n < n /\ f.whole /\ k \in f.dump.keys
    BY <1>1 DEF InFiles
  <2>2. f.n \in Nat /\ current_file \in Nat
    BY DEF TypeOK, File
  <2>3. f.n # current_file
    BY <1>1, <2>1, <2>2, n <= current_file
  <2>4. f \in out'
    BY <2>3 DEF Written
  <2>5. QED
    BY <2>1, <2>4 DEF InFiles
<1>2. ASSUME whole, NEW k \in dump.keys
      PROVE  \E f \in out' : f.n < current_file + 1 /\ f.whole /\ k \in f.dump.keys
  <2> DEFINE file == [n |-> current_file, whole |-> whole, dump |-> dump]
  <2>1. file \in out'
    BY DEF Written
  <2>2. file.n < current_file + 1 /\ file.whole /\ k \in file.dump.keys
    BY <1>2 DEF TypeOK
  <2>3. QED
    BY <2>1, <2>2
<1>3. QED
  BY <1>1, <1>2

\* A checkpoint that was read back is one that was written.
LEMMA WholeCheckpoint ==
  ASSUME TypeOK, checkpoint \notin {None, Torn}
  PROVE  /\ checkpoint \in CheckPoint
         /\ checkpoint.current_file \in Nat /\ checkpoint.next \in Nat
         /\ checkpoint.current_root \in SUBSET Accounts
BY DEF TypeOK, CheckPoint

LEMMA CoverAlways == Spec => []CoverInv
<1>1. Init => CoverInv
  BY DEF Init, CoverInv, CheckpointCovers, PositionInv, WriterInv, Running
<1>2. TypeOK /\ RunOK /\ CoverInv /\ [Next]_vars => CoverInv'
  <2> SUFFICES ASSUME TypeOK, RunOK, CoverInv, [Next]_vars PROVE CoverInv'
    OBVIOUS
  <2>0. CheckpointCovers /\ PositionInv /\ WriterInv
    BY DEF CoverInv
  <2>1. ASSUME NEW f \in Flags, Start(f) PROVE CoverInv'
    <3>1. UNCHANGED <<checkpoint, out>> /\ flags' = f /\ pc' = "read"
      BY <2>1 DEF Start, disk
    <3>2. CheckpointCovers'
      BY <2>0, <3>1 DEF CheckpointCovers
    <3>3. CASE checkpoint = None
      <4>1. reader' = 0
        BY <2>1, <3>3 DEF Start, Fresh
      <4>2. \A k \in Keys : k \in Nat \ {0}
        BY ArchiveAssumption
      <4>3. PositionInv'
        <5>1. \A k \in Keys : ~(k < reader')
          BY <4>1, <4>2
        <5>2. QED
          BY <5>1, <3>1 DEF PositionInv, Below, Pending
      <4>4. WriterInv'
        BY <3>1, <3>3 DEF WriterInv
      <4>5. QED
        BY <3>2, <4>3, <4>4 DEF CoverInv
    <3>4. CASE checkpoint # None
      <4>1. checkpoint \notin {None, Torn} /\ Resumed(f)
        BY <2>1, <3>4 DEF Start
      <4>2. /\ f.ipc => checkpoint.of.ipc
            /\ f.output => checkpoint.of.output /\ current_file' = checkpoint.current_file
            /\ f.sync => checkpoint.of.sync /\ current_root' = checkpoint.current_root
            /\ reader' = checkpoint.next
        BY <4>1 DEF Resumed, Accepted
      <4>3. PositionInv'
        BY <2>0, <3>1, <4>1, <4>2 DEF PositionInv, CheckpointCovers, Below, KeysOf, InFiles, Pending
      <4>4. WriterInv'
        <5>1. checkpoint.current_file \in Nat
          BY <4>1, WholeCheckpoint
        <5>2. f.output => checkpoint.of.output /\ checkpoint.current_file <= current_file'
          BY <4>2, <5>1
        <5>3. QED
          BY <3>1, <5>2 DEF WriterInv
      <4>5. QED
        BY <3>2, <4>3, <4>4 DEF CoverInv
    <3>5. QED
      BY <3>3, <3>4
  <2>2. CASE ReadDump
    <3>1. UNCHANGED <<flags, current_root, current_file, checkpoint, out>> /\ pc = "read"
      BY <2>2 DEF ReadDump, disk
    <3>2. CheckpointCovers' /\ WriterInv'
      BY <2>0, <2>2, <3>1 DEF CheckpointCovers, WriterInv, Running, ReadDump, ReadFromNode, ReadFromDir, NoSuchDump
    <3>3. PositionInv'
      <4>1. CASE ReadFromNode
        <5>1. /\ reader' = NextStart(Page(reader)) /\ dump'.keys = Page(reader)
              /\ flags.ipc /\ pc' = "process"
          BY <4>1 DEF ReadFromNode
        <5>2. Below(reader') \subseteq Below(reader) \cup Page(reader)
          BY <5>1, PageIsContiguous DEF TypeOK
        <5>3. Pending' = Page(reader) /\ Pending = {}
          BY <3>1, <5>1 DEF Pending
        <5>4. /\ flags.sync => Below(reader) \subseteq KeysOf(current_root)
              /\ flags.output => \A k \in Below(reader) : InFiles(k, current_file)
          BY <2>0, <3>1, <5>1, <5>3 DEF PositionInv, Running
        <5>5. flags.sync => Below(reader') \subseteq KeysOf(current_root) \cup Pending'
          BY <5>2, <5>3, <5>4
        <5>6. flags.output => \A k \in Below(reader') \ Pending' : InFiles(k, current_file)
          BY <5>2, <5>3, <5>4
        <5>7. QED
          BY <3>1, <5>5, <5>6 DEF PositionInv, InFiles, KeysOf, Below
      <4>2. CASE ReadFromDir \/ NoSuchDump
        BY <3>1, <4>2 DEF PositionInv, Running, ReadFromDir, NoSuchDump
      <4>3. QED
        BY <2>2, <4>1, <4>2 DEF ReadDump
    <3>4. QED
      BY <3>2, <3>3 DEF CoverInv
  <2>3. CASE ProcessDump
    <3>1. UNCHANGED <<flags, reader, dump, checkpoint>> /\ pc = "process"
      BY <2>3 DEF ProcessDump
    <3>2. CASE ~SameRoot
      <4>1. UNCHANGED out /\ pc' = "off"
        BY <2>3, <3>2 DEF ProcessDump
      <4>2. QED
        BY <2>0, <3>1, <4>1 DEF CoverInv, CheckpointCovers, PositionInv, WriterInv, Running
    <3>3. CASE SameRoot
      <4>1. IF flags.output THEN out' = Written(current_file, TRUE) /\ current_file' = current_file + 1
                            ELSE UNCHANGED <<out, current_file>>
        BY <2>3, <3>3, Zenon DEF ProcessDump
      <4>2. IF flags.sync THEN current_root' = Inserted ELSE UNCHANGED current_root
        BY <2>3, <3>3, Zenon DEF ProcessDump
      <4>3. pc' \in {"checkpoint", "read"}
        BY <2>3, <3>3 DEF ProcessDump
      <4>4. /\ flags.ipc /\ flags.sync => Below(reader) \subseteq KeysOf(current_root) \cup dump.keys
            /\ flags.ipc /\ flags.output =>
                 \A k \in Below(reader) \ dump.keys : InFiles(k, current_file)
            /\ flags.output /\ checkpoint \notin {None, Torn} =>
                 checkpoint.of.output /\ checkpoint.current_file <= current_file
        BY <2>0, <3>1 DEF PositionInv, WriterInv, Running, Pending
      <4>5. Below(reader) \subseteq Keys /\ current_file \in Nat /\ dump.keys \subseteq Keys
        BY DEF Below, TypeOK, Dump
      <4>6. Pending' = {}
        BY <4>3 DEF Pending
      <4>7. flags.ipc /\ flags.sync => Below(reader) \subseteq KeysOf(current_root')
        BY <4>2, <4>4, InsertedKeys
      <4>8. flags.ipc /\ flags.output => \A k \in Below(reader) : InFiles(k, current_file)'
        <5> SUFFICES ASSUME flags.ipc, flags.output, NEW k \in Below(reader)
                     PROVE  InFiles(k, current_file)'
          OBVIOUS
        <5>1. out' = Written(current_file, TRUE) /\ current_file' = current_file + 1
          BY <4>1
        <5>2. CASE k \in dump.keys
          BY <5>1, <5>2, WrittenFiles DEF InFiles
        <5>3. CASE k \notin dump.keys
          <6>1. PICK f \in out : f.n < current_file /\ f.whole /\ k \in f.dump.keys
            BY <4>4, <5>3 DEF InFiles
          <6>2. f \in out' /\ f.n < current_file'
            BY <4>5, <5>1, <6>1 DEF Written, TypeOK, File
          <6>3. QED
            BY <6>1, <6>2 DEF InFiles
        <5>4. QED
          BY <5>2, <5>3
      <4>9. PositionInv'
        BY <3>1, <4>6, <4>7, <4>8 DEF PositionInv, Below
      <4>10. WriterInv'
        <5>1. checkpoint \notin {None, Torn} => checkpoint.current_file \in Nat
          BY WholeCheckpoint
        <5>2. flags.output /\ checkpoint \notin {None, Torn} =>
                checkpoint.of.output /\ checkpoint.current_file <= current_file'
          BY <4>1, <4>4, <4>5, <5>1
        <5>3. QED
          BY <3>1, <5>2 DEF WriterInv
      <4>11. CheckpointCovers'
        <5> SUFFICES ASSUME checkpoint \notin {None, Torn}, checkpoint.of.ipc, checkpoint.of.output,
                            NEW k \in Below(checkpoint.next)
                     PROVE  InFiles(k, checkpoint.current_file)'
          BY <2>0, <3>1 DEF CheckpointCovers, InFiles, Below, KeysOf
        <5>1. InFiles(k, checkpoint.current_file) /\ k \in Keys
          BY <2>0 DEF CheckpointCovers, InFiles, Below
        <5>2. checkpoint.current_file \in Nat
          BY WholeCheckpoint
        <5>3. CASE flags.output
          <6>1. out' = Written(current_file, TRUE) /\ checkpoint.current_file <= current_file
            BY <4>1, <4>4, <5>3
          <6>2. QED
            BY <3>1, <5>1, <5>2, <6>1, WrittenFiles DEF InFiles
        <5>4. CASE ~flags.output
          BY <3>1, <4>1, <5>1, <5>4 DEF InFiles
        <5>5. QED
          BY <5>3, <5>4
      <4>12. QED
        BY <4>9, <4>10, <4>11 DEF CoverInv
    <3>4. QED
      BY <3>2, <3>3
  <2>4. CASE SaveCheckpoint
    <3>1. /\ pc = "checkpoint" /\ pc' \in {"block", "read"}
          /\ UNCHANGED <<flags, reader, dump, current_root, current_file, out>>
      BY <2>4 DEF SaveCheckpoint
    <3>2. checkpoint' = [of |-> flags, current_root |-> current_root,
                         current_file |-> current_file, next |-> reader]
      BY <2>4 DEF SaveCheckpoint
    <3>3. Pending = {} /\ Pending' = {}
      BY <3>1 DEF Pending
    <3>4. PositionInv'
      BY <2>0, <3>1, <3>3 DEF PositionInv, Running, InFiles, Below, KeysOf
    <3>5. CheckpointCovers'
      BY <2>0, <3>1, <3>2, <3>3 DEF PositionInv, CheckpointCovers, Running, InFiles, Below, KeysOf
    <3>6. WriterInv'
      BY <3>1, <3>2 DEF WriterInv, TypeOK
    <3>7. QED
      BY <3>4, <3>5, <3>6 DEF CoverInv
  <2>5. CASE FinishBlock
    <3>1. pc = "block" /\ pc' \in {"done", "off"} /\ UNCHANGED <<checkpoint, out>>
      BY <2>5 DEF FinishBlock, Canonical, RootDiffers, OnlyFiles
    <3>2. QED
      BY <2>0, <3>1 DEF CoverInv, CheckpointCovers, PositionInv, WriterInv, Running
  <2>6. CASE Abort
    <3>1. pc' = "off" /\ PositionInv' /\ WriterInv'
      BY <2>6 DEF Abort, PositionInv, WriterInv, Running
    <3>2. CASE CutCheckpoint
      BY <3>1, <3>2 DEF CutCheckpoint, CoverInv, CheckpointCovers
    <3>3. CASE UNCHANGED <<checkpoint, out, stored>>
      BY <2>0, <3>1, <3>3 DEF CoverInv, CheckpointCovers
    <3>4. CASE CutDump
      <4>1. UNCHANGED checkpoint /\ pc = "process"
        BY <3>4 DEF CutDump
      <4>2. \/ flags.output /\ \E whole \in BOOLEAN : out' = Written(current_file, whole)
            \/ out' = out
        BY <3>4, Zenon DEF CutDump
      <4>3. CASE out' = out
        BY <2>0, <3>1, <4>1, <4>3 DEF CoverInv, CheckpointCovers
      <4>4. ASSUME flags.output, NEW whole \in BOOLEAN, out' = Written(current_file, whole)
            PROVE  CheckpointCovers'
        <5> SUFFICES ASSUME checkpoint \notin {None, Torn}, checkpoint.of.ipc, checkpoint.of.output,
                            NEW k \in Below(checkpoint.next)
                     PROVE  InFiles(k, checkpoint.current_file)'
          BY <2>0, <4>1 DEF CheckpointCovers, InFiles, Below, KeysOf
        <5>1. InFiles(k, checkpoint.current_file) /\ k \in Keys
          BY <2>0 DEF CheckpointCovers, InFiles, Below
        <5>2. checkpoint.current_file \in Nat
          BY WholeCheckpoint
        <5>3. checkpoint.current_file <= current_file
          BY <2>0, <4>1, <4>4 DEF WriterInv, Running
        <5>4. QED
          BY <4>1, <4>4, <5>1, <5>2, <5>3, WrittenFiles DEF InFiles
      <4>5. QED
        BY <3>1, <4>2, <4>3, <4>4 DEF CoverInv
    <3>5. QED
      BY <2>6, <3>2, <3>3, <3>4 DEF Abort
  <2>7. CASE Handover
    BY <2>7 DEF Handover, CoverInv, CheckpointCovers, PositionInv, WriterInv, Running
  <2>8. CASE UNCHANGED vars
    BY <2>0, <2>8 DEF CoverInv, CheckpointCovers, PositionInv, WriterInv, Running, Pending, InFiles,
                      KeysOf, Below, vars, run, disk
  <2>9. QED
    BY <2>1, <2>2, <2>3, <2>4, <2>5, <2>6, <2>7, <2>8 DEF Next, Steps
<1>3. QED
  BY <1>1, <1>2, TypesInductive, PTL DEF Spec

\* A resumed run never asks the node again for less than it needs: what lies
\* before its position is in the trie and in the files it goes on from.
THEOREM CheckpointsCover == Spec => []CheckpointCovers
BY CoverAlways, PTL DEF CoverInv

-----------------------------------------------------------------------------
(* What a run ends with is whole.                                          *)

\* The accounts of keys are where the options want them: in the trie under root,
\* and in whole files below number n.
Safe(keys, f, root, files, n) ==
  /\ f.sync => keys \subseteq KeysOf(root)
  /\ f.output => \A k \in keys : \E g \in files : g.n < n /\ g.whole /\ k \in g.dump.keys

OneEach(files) == \A f, g \in files : f.n = g.n => f = g

\* Files 0 .. n - 1 are there and whole, and where one of them is the last one no
\* account is missing up to it.
Contiguous(files, n) == \A m \in Nat : m < n => \E f \in files : f.n = m /\ f.whole
Ended(files, n) ==
  \A g \in files : g.n < n /\ g.dump.last =>
    \A k \in Keys : \E f \in files : f.n <= g.n /\ f.whole /\ k \in f.dump.keys

\* What a run from a directory has read before file n.
ReadBefore(n) == UNION {h.dump.keys : h \in {g \in indir.files : g.whole /\ g.n < n}}

\* A directory is read whole: what read_dump finds in it holds every account.
InputInv ==
  indir # None => OneEach(indir.files) /\ Keys \subseteq UNION {f.dump.keys : f \in ReadOf(indir.files)}

OutputInv ==
  /\ OneEach(out)
  /\ pc # "off" /\ flags.output => Contiguous(out, current_file) /\ Ended(out, current_file)

\* The same of what a resumed run goes on from.
ResumedInv ==
  checkpoint \notin {None, Torn} =>
    /\ checkpoint.of.output =>
         Contiguous(out, checkpoint.current_file) /\ Ended(out, checkpoint.current_file)
    /\ ~checkpoint.of.ipc =>
         /\ indir # None
         /\ Safe(ReadBefore(checkpoint.next), checkpoint.of, checkpoint.current_root,
                 out, checkpoint.current_file)

\* A run from a directory has what it read, and every run has everything when the
\* dump in hand is the last one, up to this dump.
ReadInv ==
  /\ Running /\ ~flags.ipc =>
       Safe(ReadBefore(reader) \ Pending, flags, current_root, out, current_file)
  /\ Running /\ pc # "read" /\ dump.last =>
       Safe(Keys \ Pending, flags, current_root, out, current_file)
  /\ pc \in {"block", "done"} => dump.last
  /\ pc \in {"checkpoint", "block", "done"} /\ flags.output /\ dump.last =>
       \E f \in out : f.n < current_file /\ f.dump.last

WholeInv == InputInv /\ OutputInv /\ ResumedInv /\ ReadInv

\* The files below a number that is not written again.
LEMMA FilesKept ==
  ASSUME TypeOK, NEW whole \in BOOLEAN, NEW n \in Nat, n <= current_file
  PROVE  /\ Contiguous(out, n) => Contiguous(Written(current_file, whole), n)
         /\ Ended(out, n) => Ended(Written(current_file, whole), n)
         /\ \A keys, f, root : Safe(keys, f, root, out, n) =>
                               Safe(keys, f, root, Written(current_file, whole), n)
<1> DEFINE W == Written(current_file, whole)
<1>1. current_file \in Nat /\ \A f \in out : f.n \in Nat
  BY DEF TypeOK, File
<1>2. \A f \in out : f.n < n => f \in W
  BY <1>1 DEF Written
<1>3. \A f \in W : f.n < n => f \in out
  BY <1>1 DEF Written
<1> HIDE DEF W
<1>4. ASSUME Contiguous(out, n) PROVE Contiguous(W, n)
  BY <1>2, <1>4 DEF Contiguous
<1>5. ASSUME Ended(out, n) PROVE Ended(W, n)
  <2> SUFFICES ASSUME NEW g \in W, g.n < n, g.dump.last, NEW k \in Keys
               PROVE  \E f \in W : f.n <= g.n /\ f.whole /\ k \in f.dump.keys
    BY DEF Ended
  <2>1. g \in out
    BY <1>3
  <2>2. PICK f \in out : f.n <= g.n /\ f.whole /\ k \in f.dump.keys
    BY <1>5, <2>1 DEF Ended
  <2>3. f.n < n
    BY <1>1, <2>1, <2>2
  <2>4. QED
    BY <1>2, <2>2, <2>3
<1>6. ASSUME NEW keys, NEW f, NEW root, Safe(keys, f, root, out, n) PROVE Safe(keys, f, root, W, n)
  BY <1>2, <1>6 DEF Safe
<1>7. QED
  BY <1>4, <1>5, <1>6 DEF W

\* A dump that was written makes the files one longer, and is their end if it is
\* the last one and the files before it have the rest.
LEMMA FileAdded ==
  ASSUME TypeOK, Contiguous(out, current_file), Ended(out, current_file),
         dump.last => \A k \in Keys \ dump.keys :
           \E g \in out : g.n < current_file /\ g.whole /\ k \in g.dump.keys
  PROVE  /\ Contiguous(Written(current_file, TRUE), current_file + 1)
         /\ Ended(Written(current_file, TRUE), current_file + 1)
         /\ dump.last => \E f \in Written(current_file, TRUE) :
                            f.n < current_file + 1 /\ f.dump.last
<1> DEFINE W == Written(current_file, TRUE)
           file == [n |-> current_file, whole |-> TRUE, dump |-> dump]
<1>1. current_file \in Nat /\ \A f \in out : f.n \in Nat
  BY DEF TypeOK, File
<1>2. file \in W /\ file.n = current_file /\ file.whole /\ file.dump = dump
  BY DEF Written
<1>3. \A f \in W : f = file \/ (f \in out /\ f.n # current_file)
  BY DEF Written
<1>4. \A f \in out : f.n < current_file => f \in W
  BY <1>1 DEF Written
<1> HIDE DEF W, file
<1>5. Contiguous(W, current_file + 1)
  <2> SUFFICES ASSUME NEW m \in Nat, m < current_file + 1
               PROVE  \E f \in W : f.n = m /\ f.whole
    BY DEF Contiguous
  <2>1. CASE m = current_file
    BY <1>2, <2>1
  <2>2. CASE m # current_file
    <3>1. m < current_file
      BY <1>1, <2>2
    <3>2. PICK f \in out : f.n = m /\ f.whole
      BY <3>1 DEF Contiguous
    <3>3. QED
      BY <1>4, <3>1, <3>2
  <2>3. QED
    BY <2>1, <2>2
<1>6. Ended(W, current_file + 1)
  <2> SUFFICES ASSUME NEW g \in W, g.n < current_file + 1, g.dump.last, NEW k \in Keys
               PROVE  \E f \in W : f.n <= g.n /\ f.whole /\ k \in f.dump.keys
    BY DEF Ended
  <2>1. CASE g = file
    <3>1. CASE k \in dump.keys
      BY <1>1, <1>2, <2>1, <3>1
    <3>2. CASE k \notin dump.keys
      <4>1. PICK f \in out : f.n < current_file /\ f.whole /\ k \in f.dump.keys
        BY <1>2, <2>1, <3>2
      <4>2. f.n <= g.n
        BY <1>1, <1>2, <2>1, <4>1
      <4>3. QED
        BY <1>4, <4>1, <4>2
    <3>3. QED
      BY <3>1, <3>2
  <2>2. CASE g # file
    <3>1. g \in out /\ g.n < current_file
      BY <1>1, <1>3, <2>2
    <3>2. PICK f \in out : f.n <= g.n /\ f.whole /\ k \in f.dump.keys
      BY <3>1 DEF Ended
    <3>3. f.n < current_file
      BY <1>1, <3>1, <3>2
    <3>4. QED
      BY <1>4, <3>2, <3>3
  <2>3. QED
    BY <2>1, <2>2
<1>7. dump.last => \E f \in W : f.n < current_file + 1 /\ f.dump.last
  BY <1>1, <1>2
<1>8. QED
  BY <1>5, <1>6, <1>7 DEF W

\* A dump that was processed is safe, and so is what was before it.
LEMMA DumpAdded ==
  ASSUME TypeOK, NEW keys \in SUBSET Keys,
         Safe(keys \ dump.keys, flags, current_root, out, current_file),
         NEW root, NEW files, NEW n,
         flags.sync => root = Inserted,
         flags.output => files = Written(current_file, TRUE) /\ n = current_file + 1
  PROVE  Safe(keys, flags, root, files, n)
<1>1. ASSUME flags.sync PROVE keys \subseteq KeysOf(root)
  BY <1>1, InsertedKeys DEF Safe
<1>2. ASSUME flags.output, NEW k \in keys
      PROVE  \E g \in files : g.n < n /\ g.whole /\ k \in g.dump.keys
  <2> DEFINE file == [n |-> current_file, whole |-> TRUE, dump |-> dump]
  <2>1. current_file \in Nat /\ \A f \in out : f.n \in Nat
    BY DEF TypeOK, File
  <2>2. CASE k \in dump.keys
    <3>1. file \in files
      BY <1>2 DEF Written
    <3>2. file.n < n /\ file.whole /\ k \in file.dump.keys
      BY <1>2, <2>1, <2>2
    <3>3. QED
      BY <3>1, <3>2
  <2>3. CASE k \notin dump.keys
    <3>1. PICK g \in out : g.n < current_file /\ g.whole /\ k \in g.dump.keys
      BY <1>2, <2>3 DEF Safe
    <3>2. g \in files /\ g.n < n
      BY <1>2, <2>1, <3>1 DEF Written
    <3>3. QED
      BY <3>1, <3>2
  <2>4. QED
    BY <2>2, <2>3
<1>3. QED
  BY <1>1, <1>2 DEF Safe

\* The next file of a directory; with the last one nothing is left to read.
LEMMA NextFileRead ==
  ASSUME TypeOK, InputInv, indir # None, NEW f \in indir.files, f.whole, f.n = reader
  PROVE  /\ ReadBefore(reader + 1) \subseteq ReadBefore(reader) \cup f.dump.keys
         /\ f.dump.last => Keys \subseteq ReadBefore(reader) \cup f.dump.keys
<1>1. reader \in Nat /\ \A h \in indir.files : h.n \in Nat
  BY DEF TypeOK, File
<1>2. ASSUME NEW h \in indir.files, h.whole, h.n <= reader, NEW k \in h.dump.keys
      PROVE  k \in ReadBefore(reader) \cup f.dump.keys
  <2>1. CASE h.n = reader
    BY <1>2, <2>1 DEF InputInv, OneEach
  <2>2. CASE h.n # reader
    <3>1. h.n < reader
      BY <1>1, <1>2, <2>2
    <3>2. QED
      BY <1>2, <3>1 DEF ReadBefore
  <2>3. QED
    BY <2>1, <2>2
<1>3. ReadBefore(reader + 1) \subseteq ReadBefore(reader) \cup f.dump.keys
  <2>1. \A h \in indir.files : h.n < reader + 1 => h.n <= reader
    BY <1>1
  <2>2. ASSUME NEW k \in ReadBefore(reader + 1) PROVE k \in ReadBefore(reader) \cup f.dump.keys
    <3>1. PICK h \in indir.files : h.whole /\ h.n < reader + 1 /\ k \in h.dump.keys
      BY DEF ReadBefore
    <3>2. QED
      BY <1>2, <2>1, <3>1
  <2>3. QED
    BY <2>2
<1>4. ASSUME f.dump.last, NEW k \in Keys
      PROVE  k \in ReadBefore(reader) \cup f.dump.keys
  <2>1. PICK h \in ReadOf(indir.files) : k \in h.dump.keys
    BY DEF InputInv
  <2>2. h \in indir.files /\ h.whole /\ ~(f.n < h.n)
    BY <1>4 DEF ReadOf
  <2>3. h.n <= reader
    BY <1>1, <2>2
  <2>4. QED
    BY <1>2, <2>1, <2>2, <2>3
<1>5. QED
  BY <1>3, <1>4

LEMMA WholeStart ==
  ASSUME TypeOK, RunOK, WholeInv, NEW o \in Flags, Start(o)
  PROVE  WholeInv'
<1>1. UNCHANGED <<checkpoint, out, indir>> /\ flags' = o /\ pc' = "read"
  BY DEF Start, disk
<1>2. InputInv' /\ ResumedInv'
  BY <1>1 DEF WholeInv, InputInv, ResumedInv, ReadBefore
<1>3. Pending' = {} /\ Running'
  BY <1>1 DEF Pending, Running
<1>4. CASE checkpoint = None
  <2>1. reader' = 0 /\ current_file' = 0
    BY <1>4 DEF Start, Fresh
  <2>2. Contiguous(out, 0) /\ Ended(out, 0)
    <3>1. \A m \in Nat : ~(m < 0)
      OBVIOUS
    <3>2. \A f \in out : f.n \in Nat
      BY DEF TypeOK, File
    <3>3. QED
      BY <3>1, <3>2 DEF Contiguous, Ended
  <2>3. OutputInv'
    BY <1>1, <2>1, <2>2 DEF WholeInv, OutputInv
  <2>4. ~o.ipc => ReadBefore(0) = {}
    <3> SUFFICES ASSUME ~o.ipc PROVE ReadBefore(0) = {}
      OBVIOUS
    <3>1. indir # None
      BY DEF Start
    <3>2. \A g \in indir.files : ~(g.n < 0)
      BY <3>1 DEF TypeOK, File
    <3>3. QED
      BY <3>2 DEF ReadBefore
  <2>5. ~o.ipc => Safe(ReadBefore(0) \ {}, o, current_root', out, 0)
    BY <2>4 DEF Safe
  <2>6. ReadInv'
    BY <1>1, <1>3, <2>1, <2>5 DEF ReadInv, ReadBefore
  <2>7. QED
    BY <1>2, <2>3, <2>6 DEF WholeInv
<1>5. CASE checkpoint # None
  <2>1. checkpoint \notin {None, Torn} /\ Resumed(o)
    BY <1>5 DEF Start
  <2>2. /\ o.ipc <=> checkpoint.of.ipc
        /\ o.output => checkpoint.of.output /\ current_file' = checkpoint.current_file
        /\ o.sync => checkpoint.of.sync /\ current_root' = checkpoint.current_root
        /\ reader' = checkpoint.next
    BY <2>1 DEF Resumed, Accepted
  <2>3. OutputInv'
    BY <1>1, <2>1, <2>2 DEF WholeInv, OutputInv, ResumedInv
  <2>4. ~o.ipc => Safe(ReadBefore(checkpoint.next) \ {}, o, current_root', out, current_file')
    BY <2>1, <2>2 DEF WholeInv, ResumedInv, Safe
  <2>5. ReadInv'
    BY <1>1, <1>3, <2>2, <2>4 DEF ReadInv, ReadBefore
  <2>6. QED
    BY <1>2, <2>3, <2>5 DEF WholeInv
<1>6. QED
  BY <1>4, <1>5

LEMMA WholeRead ==
  ASSUME TypeOK, RunOK, CoverInv, WholeInv, ReadDump
  PROVE  WholeInv'
<1>1. /\ UNCHANGED <<flags, current_root, current_file, checkpoint, out, indir>>
      /\ pc = "read"
  BY DEF ReadDump, disk
<1>2. InputInv' /\ ResumedInv'
  BY <1>1 DEF WholeInv, InputInv, ResumedInv, ReadBefore
<1>3. OutputInv'
  BY <1>1 DEF WholeInv, OutputInv
<1>4. Pending = {} /\ Running
  BY <1>1 DEF Pending, Running
<1>5. CASE ReadFromNode
  <2>1. /\ flags.ipc /\ pc' = "process" /\ dump'.keys = Page(reader)
        /\ dump'.last => \A k \in Keys : k >= reader => k \in Page(reader)
    BY <1>5 DEF ReadFromNode
  <2>2. dump'.last => Keys \ Page(reader) \subseteq Below(reader)
    <3>1. \A k \in Keys : k \in Nat /\ reader \in Nat
      BY ArchiveAssumption DEF TypeOK
    <3>2. QED
      BY <2>1, <3>1 DEF Below
  <2>3. Safe(Below(reader), flags, current_root, out, current_file)
    BY <1>4, <2>1 DEF CoverInv, PositionInv, Safe, InFiles
  <2>4. dump'.last => Safe(Keys \ dump'.keys, flags, current_root, out, current_file)
    BY <2>1, <2>2, <2>3 DEF Safe
  <2>5. ReadInv'
    BY <1>1, <2>1, <2>4 DEF ReadInv, Pending
  <2>6. QED
    BY <1>2, <1>3, <2>5 DEF WholeInv
<1>6. CASE ReadFromDir
  <2>1. indir # None
    BY <1>1, <1>6 DEF RunOK, ReadFromDir
  <2>2. PICK f \in indir.files : f.n = reader /\ f.whole /\ dump' = f.dump
    BY <1>6 DEF ReadFromDir
  <2>3. ~flags.ipc /\ reader' = reader + 1 /\ pc' = "process"
    BY <1>6 DEF ReadFromDir
  <2>4. Safe(ReadBefore(reader), flags, current_root, out, current_file)
    BY <1>4, <2>3 DEF WholeInv, ReadInv, Safe
  <2>5. /\ ReadBefore(reader + 1) \ dump'.keys \subseteq ReadBefore(reader)
        /\ dump'.last => Keys \ dump'.keys \subseteq ReadBefore(reader)
    BY <2>1, <2>2, NextFileRead DEF WholeInv
  <2>6. /\ Safe(ReadBefore(reader + 1) \ dump'.keys, flags, current_root, out, current_file)
        /\ dump'.last => Safe(Keys \ dump'.keys, flags, current_root, out, current_file)
    BY <2>4, <2>5 DEF Safe
  <2>7. ReadInv'
    BY <1>1, <2>3, <2>6 DEF ReadInv, Pending, ReadBefore
  <2>8. QED
    BY <1>2, <1>3, <2>7 DEF WholeInv
<1>7. CASE NoSuchDump
  <2>1. pc' = "off"
    BY <1>7 DEF NoSuchDump
  <2>2. ReadInv'
    BY <2>1 DEF ReadInv, Running
  <2>3. QED
    BY <1>2, <1>3, <2>2 DEF WholeInv
<1>8. QED
  BY <1>5, <1>6, <1>7 DEF ReadDump

\* What a checkpoint relies on survives the writing of a dump, a whole one or not.
LEMMA ResumedKept ==
  ASSUME TypeOK, CoverInv, WholeInv, pc = "process", UNCHANGED <<checkpoint, indir>>,
         \/ out' = out
         \/ flags.output /\ \E whole \in BOOLEAN : out' = Written(current_file, whole)
  PROVE  ResumedInv' /\ InputInv' /\ OneEach(out')
<1>1. InputInv'
  BY DEF WholeInv, InputInv
<1>2. OneEach(out')
  BY DEF WholeInv, OutputInv, OneEach, Written
<1>3. ASSUME out' = out PROVE ResumedInv'
  <2> SUFFICES ASSUME checkpoint \notin {None, Torn} PROVE ResumedInv'
    BY DEF ResumedInv
  <2>1. /\ checkpoint.of.output =>
             Contiguous(out', checkpoint.current_file) /\ Ended(out', checkpoint.current_file)
        /\ ~checkpoint.of.ipc =>
             indir # None /\ Safe(ReadBefore(checkpoint.next), checkpoint.of,
                                  checkpoint.current_root, out', checkpoint.current_file)
    BY <1>3 DEF WholeInv, ResumedInv
  <2>2. QED
    BY <2>1 DEF ResumedInv, ReadBefore
<1>4. ASSUME flags.output, NEW whole \in BOOLEAN, out' = Written(current_file, whole)
      PROVE  ResumedInv'
  <2> SUFFICES ASSUME checkpoint \notin {None, Torn} PROVE ResumedInv'
    BY DEF ResumedInv
  <2>1. checkpoint.current_file \in Nat /\ checkpoint.current_file <= current_file
    BY <1>4, WholeCheckpoint DEF CoverInv, WriterInv, Running
  <2>2. /\ checkpoint.of.output =>
             Contiguous(out', checkpoint.current_file) /\ Ended(out', checkpoint.current_file)
        /\ ~checkpoint.of.ipc =>
             indir # None /\ Safe(ReadBefore(checkpoint.next), checkpoint.of,
                                  checkpoint.current_root, out', checkpoint.current_file)
    BY <1>4, <2>1, FilesKept DEF WholeInv, ResumedInv
  <2>3. QED
    BY <2>2 DEF ResumedInv, ReadBefore
<1>5. QED
  BY <1>1, <1>2, <1>3, <1>4

LEMMA WholeProcess ==
  ASSUME TypeOK, RunOK, CoverInv, WholeInv, ProcessDump
  PROVE  WholeInv'
<1>1. UNCHANGED <<flags, reader, dump, checkpoint, indir>> /\ pc = "process"
  BY DEF ProcessDump
<1>2. CASE ~SameRoot
  <2>1. UNCHANGED out /\ pc' = "off"
    BY <1>2 DEF ProcessDump
  <2>2. ResumedInv' /\ InputInv' /\ OneEach(out')
    BY <1>1, <2>1, ResumedKept
  <2>3. QED
    BY <2>1, <2>2 DEF WholeInv, OutputInv, ReadInv, Running
<1>3. CASE SameRoot
  <2>1. IF flags.output THEN out' = Written(current_file, TRUE) /\ current_file' = current_file + 1
                        ELSE UNCHANGED <<out, current_file>>
    BY <1>3, Zenon DEF ProcessDump
  <2>2. IF flags.sync THEN current_root' = Inserted ELSE UNCHANGED current_root
    BY <1>3, Zenon DEF ProcessDump
  <2>3. pc' \in {"checkpoint", "read"} /\ Pending' = {} /\ Pending = dump.keys /\ Running
    BY <1>1, <1>3 DEF ProcessDump, Pending, Running
  <2>4. pc' = "read" => ~dump.last
    BY <1>3 DEF ProcessDump, Due
  <2>5. ResumedInv' /\ InputInv' /\ OneEach(out')
    BY <1>1, <2>1, ResumedKept
  <2>6. /\ ~flags.ipc => Safe(ReadBefore(reader) \ dump.keys, flags, current_root, out, current_file)
        /\ dump.last => Safe(Keys \ dump.keys, flags, current_root, out, current_file)
    BY <1>1, <2>3 DEF WholeInv, ReadInv
  <2>7. ReadBefore(reader) \subseteq Keys \/ flags.ipc
    <3> SUFFICES ASSUME ~flags.ipc PROVE ReadBefore(reader) \subseteq Keys
      OBVIOUS
    <3>1. indir # None
      BY <1>1 DEF RunOK
    <3>2. QED
      BY <3>1 DEF TypeOK, File, Dump, ReadBefore
  <2>8. /\ ~flags.ipc => Safe(ReadBefore(reader), flags, current_root', out', current_file')
        /\ dump.last => Safe(Keys, flags, current_root', out', current_file')
    BY <2>1, <2>2, <2>6, <2>7, DumpAdded
  <2>9. ASSUME flags.output
        PROVE  /\ Contiguous(out', current_file') /\ Ended(out', current_file')
               /\ dump.last => \E f \in out' : f.n < current_file' /\ f.dump.last
    <3>1. Contiguous(out, current_file) /\ Ended(out, current_file)
      BY <1>1, <2>9 DEF WholeInv, OutputInv
    <3>2. dump.last => \A k \in Keys \ dump.keys :
            \E g \in out : g.n < current_file /\ g.whole /\ k \in g.dump.keys
      BY <2>6, <2>9 DEF Safe
    <3>3. QED
      BY <2>1, <2>9, <3>1, <3>2, FileAdded
  <2>10. OutputInv'
    BY <1>1, <2>5, <2>9 DEF OutputInv
  <2>11. ReadInv'
    BY <1>1, <2>3, <2>4, <2>8, <2>9 DEF ReadInv, ReadBefore, Safe
  <2>12. QED
    BY <2>5, <2>10, <2>11 DEF WholeInv
<1>4. QED
  BY <1>2, <1>3

LEMMA WholeSave ==
  ASSUME TypeOK, RunOK, WholeInv, SaveCheckpoint
  PROVE  WholeInv'
<1>1. /\ pc = "checkpoint" /\ pc' = (IF dump.last THEN "block" ELSE "read")
      /\ UNCHANGED <<flags, reader, dump, current_root, current_file, out, indir>>
  BY DEF SaveCheckpoint
<1>2. checkpoint' = [of |-> flags, current_root |-> current_root,
                     current_file |-> current_file, next |-> reader]
  BY DEF SaveCheckpoint
<1>3. Pending = {} /\ Pending' = {} /\ Running
  BY <1>1 DEF Pending, Running
<1>4. InputInv' /\ OutputInv'
  BY <1>1 DEF WholeInv, InputInv, OutputInv
<1>5. ~flags.ipc => Safe(ReadBefore(reader), flags, current_root, out, current_file)
  BY <1>3 DEF WholeInv, ReadInv, Safe
<1>6. flags.output => Contiguous(out, current_file) /\ Ended(out, current_file)
  BY <1>1 DEF WholeInv, OutputInv
<1>7. ~flags.ipc => indir # None
  BY <1>1 DEF RunOK
<1>8. ResumedInv'
  BY <1>1, <1>2, <1>5, <1>6, <1>7 DEF ResumedInv, ReadBefore
<1>9. ReadInv'
  BY <1>1, <1>3 DEF WholeInv, ReadInv, Safe, ReadBefore
<1>10. QED
  BY <1>4, <1>8, <1>9 DEF WholeInv

\* A directory whose run is done is read whole.
LEMMA DoneIsWhole ==
  ASSUME TypeOK, WholeInv, pc = "done", flags.output
  PROVE  /\ Keys \subseteq UNION {f.dump.keys : f \in ReadOf(out)}
         /\ \A f \in ReadOf(out) : \A n \in 0..f.n : \E g \in ReadOf(out) : g.n = n
<1>1. Contiguous(out, current_file) /\ Ended(out, current_file)
  BY DEF WholeInv, OutputInv
<1>2. current_file \in Nat /\ \A f \in out : f.n \in Nat
  BY DEF TypeOK, File
<1> DEFINE ends == {f \in out : f.n < current_file /\ f.dump.last}
           numbers == {f.n : f \in ends}
<1>3. ends # {}
  BY DEF WholeInv, ReadInv
<1>4. PICK e \in ends : \A f \in ends : e.n <= f.n
  <2>1. numbers \in SUBSET Nat /\ numbers # {}
    BY <1>2, <1>3
  <2>2. \E n \in numbers : \A m \in numbers : n <= m
    <3> HIDE DEF numbers
    <3>1. QED
      BY <2>1, Least
  <2>3. QED
    BY <2>2
<1>5. e \in out /\ e.n < current_file /\ e.dump.last
  OBVIOUS
<1>6. ASSUME NEW f \in out, f.n <= e.n, f.whole PROVE f \in ReadOf(out)
  <2> SUFFICES ASSUME NEW g \in out, g.n < f.n, g.dump.last PROVE FALSE
    BY <1>6 DEF ReadOf
  <2>1. g \in ends
    BY <1>2, <1>5, <1>6
  <2>2. e.n <= g.n
    BY <1>4, <2>1
  <2>3. QED
    BY <1>2, <1>5, <1>6, <2>2
<1>7. ASSUME NEW k \in Keys PROVE \E f \in ReadOf(out) : k \in f.dump.keys
  <2>1. PICK f \in out : f.n <= e.n /\ f.whole /\ k \in f.dump.keys
    BY <1>1, <1>5 DEF Ended
  <2>2. QED
    BY <1>6, <2>1
<1>8. ASSUME NEW f \in ReadOf(out), NEW n \in 0..f.n
      PROVE  \E g \in ReadOf(out) : g.n = n
  <2>1. f \in out /\ ~(e.n < f.n)
    BY <1>5 DEF ReadOf
  <2>2. n \in Nat /\ n <= e.n /\ n < current_file
    BY <1>2, <1>5, <2>1
  <2>3. PICK g \in out : g.n = n /\ g.whole
    BY <1>1, <2>2 DEF Contiguous
  <2>4. QED
    BY <1>6, <2>2, <2>3
<1>9. QED
  BY <1>7, <1>8

LEMMA WholeStep ==
  ASSUME TypeOK, RunOK, CoverInv, WholeInv, [Next]_vars
  PROVE  WholeInv'
<1>1. ASSUME NEW o \in Flags, Start(o) PROVE WholeInv'
  BY <1>1, WholeStart
<1>2. CASE ReadDump
  BY <1>2, WholeRead
<1>3. CASE ProcessDump
  BY <1>3, WholeProcess
<1>4. CASE SaveCheckpoint
  BY <1>4, WholeSave
<1>5. CASE FinishBlock
  <2>1. /\ pc = "block" /\ pc' \in {"done", "off"}
        /\ UNCHANGED <<flags, dump, current_file, checkpoint, out, indir>>
    BY <1>5 DEF FinishBlock, Canonical, RootDiffers, OnlyFiles
  <2>2. InputInv' /\ OutputInv' /\ ResumedInv'
    BY <2>1 DEF WholeInv, InputInv, OutputInv, ResumedInv, ReadBefore
  <2>3. ReadInv'
    BY <2>1 DEF WholeInv, ReadInv, Running
  <2>4. QED
    BY <2>2, <2>3 DEF WholeInv
<1>6. CASE Abort
  <2>1. pc' = "off" /\ UNCHANGED indir
    BY <1>6 DEF Abort
  <2>2. ReadInv'
    BY <2>1 DEF ReadInv, Running
  <2>3. CASE CutDump
    <3>1. UNCHANGED checkpoint /\ pc = "process"
      BY <2>3 DEF CutDump
    <3>2. \/ out' = out
          \/ flags.output /\ \E whole \in BOOLEAN : out' = Written(current_file, whole)
      BY <2>3, Zenon DEF CutDump
    <3>3. ResumedInv' /\ InputInv' /\ OneEach(out')
      BY <2>1, <3>1, <3>2, ResumedKept
    <3>4. QED
      BY <2>1, <2>2, <3>3 DEF WholeInv, OutputInv
  <2>4. CASE CutCheckpoint
    <3>1. checkpoint' = Torn /\ UNCHANGED out
      BY <2>4 DEF CutCheckpoint
    <3>2. InputInv' /\ OutputInv' /\ ResumedInv'
      BY <2>1, <3>1 DEF WholeInv, InputInv, OutputInv, ResumedInv
    <3>3. QED
      BY <2>2, <3>2 DEF WholeInv
  <2>5. CASE UNCHANGED <<checkpoint, out, stored>>
    <3>1. InputInv' /\ OutputInv' /\ ResumedInv'
      BY <2>1, <2>5 DEF WholeInv, InputInv, OutputInv, ResumedInv, ReadBefore
    <3>2. QED
      BY <2>2, <3>1 DEF WholeInv
  <2>6. QED
    BY <1>6, <2>3, <2>4, <2>5 DEF Abort
<1>7. CASE Handover
  <2>1. /\ pc = "done" /\ flags.output /\ pc' = "off"
        /\ indir' = [block |-> Target, files |-> out] /\ out' = {} /\ checkpoint' = None
    BY <1>7 DEF Handover
  <2>2. Keys \subseteq UNION {f.dump.keys : f \in ReadOf(out)}
    BY <2>1, DoneIsWhole
  <2>3. indir'.files = out
    BY <2>1
  <2>4. InputInv'
    BY <2>2, <2>3 DEF WholeInv, OutputInv, InputInv, ReadOf
  <2>5. OutputInv' /\ ResumedInv' /\ ReadInv'
    BY <2>1 DEF OutputInv, ResumedInv, ReadInv, OneEach, Running
  <2>6. QED
    BY <2>4, <2>5 DEF WholeInv
<1>8. CASE UNCHANGED vars
  BY <1>8 DEF WholeInv, InputInv, OutputInv, ResumedInv, ReadInv, ReadBefore, Pending, Running,
              vars, run, disk
<1>9. QED
  BY <1>1, <1>2, <1>3, <1>4, <1>5, <1>6, <1>7, <1>8 DEF Next, Steps

\* Whatever runs it took, with whatever options and wherever they were cut, the trie
\* that is compared in the end and the directory that was written lack no account
\* (archive_sync, load_checkpoint, DumpDirWriter).
THEOREM ResultsAreWhole == Spec => []ResultIsWhole
<1>1. Init => WholeInv
  <2> SUFFICES ASSUME Init PROVE WholeInv
    OBVIOUS
  <2>1. pc = "off" /\ out = {} /\ indir = None /\ checkpoint = None
    BY DEF Init
  <2>2. QED
    BY <2>1 DEF WholeInv, InputInv, OutputInv, ResumedInv, ReadInv, OneEach, Running
<1>2. TypeOK /\ RunOK /\ CoverInv /\ WholeInv /\ [Next]_vars => WholeInv'
  BY WholeStep
<1>3. TypeOK /\ WholeInv => ResultIsWhole
  <2> SUFFICES ASSUME TypeOK, WholeInv PROVE ResultIsWhole
    OBVIOUS
  <2>1. ASSUME pc = "block", flags.sync PROVE KeysOf(current_root) = Keys
    <3>1. Keys \ {} \subseteq KeysOf(current_root)
      BY <2>1 DEF WholeInv, ReadInv, Safe, Running, Pending
    <3>2. KeysOf(current_root) \subseteq Keys
      BY DEF TypeOK, Accounts, KeysOf
    <3>3. QED
      BY <3>1, <3>2
  <2>2. ASSUME pc = "done", flags.output
        PROVE  /\ UNION {f.dump.keys : f \in ReadOf(out)} = Keys
               /\ \A f \in ReadOf(out) : \A n \in 0..f.n : \E g \in ReadOf(out) : g.n = n
    <3>1. UNION {f.dump.keys : f \in ReadOf(out)} \subseteq Keys
      BY DEF TypeOK, File, Dump, ReadOf
    <3>2. QED
      BY <2>2, <3>1, DoneIsWhole
  <2>3. QED
    BY <2>1, <2>2 DEF ResultIsWhole
<1>4. QED
  BY <1>1, <1>2, <1>3, TypesInductive, CoverAlways, PTL DEF Spec

=============================================================================
