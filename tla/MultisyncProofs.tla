--------------------------- MODULE MultisyncProofs ---------------------------
(***************************************************************************)
(* Proofs about Multisync and the DiagnosticsTracker it drives, for every  *)
(* number of networks and of runs and every length of intervals, time-outs *)
(* and buffers.                                                            *)
(***************************************************************************)
EXTENDS Multisync, FiniteSetTheorems, SequenceTheorems, WellFoundedInduction, TLAPS

-----------------------------------------------------------------------------
(* The buffer.                                                             *)

\* A trimmed buffer holds at most n of the elements of the one before, and some
\* of them if there were any.
LEMMA LastOfKeeps ==
  ASSUME NEW S, NEW s \in Seq(S), NEW n \in Nat \ {0}
  PROVE  /\ LastOf(s, n) \in Seq(S) /\ Len(LastOf(s, n)) <= n
         /\ s # <<>> => LastOf(s, n) # <<>>
         /\ \A k \in 1..Len(LastOf(s, n)) : \E j \in 1..Len(s) : LastOf(s, n)[k] = s[j]
<1>1. CASE Len(s) <= n
  BY <1>1 DEF LastOf
<1>2. CASE ~(Len(s) <= n)
  <2>1. Len(s) \in Nat /\ Len(s) > n /\ Len(s) - n + 1 \in 1..Len(s)
    BY <1>2
  <2>2. LastOf(s, n) = SubSeq(s, Len(s) - n + 1, Len(s))
    BY <1>2 DEF LastOf
  <2>3. \A i \in Len(s) - n + 1 .. Len(s) : s[i] \in S
    BY <2>1
  <2>4. /\ LastOf(s, n) \in Seq(S)
        /\ Len(LastOf(s, n)) = n
        /\ \A i \in 1..n : LastOf(s, n)[i] = s[Len(s) - n + 1 + i - 1]
    BY <2>1, <2>2, <2>3, SubSeqProperties
  <2>5. ASSUME NEW k \in 1..Len(LastOf(s, n))
        PROVE  \E j \in 1..Len(s) : LastOf(s, n)[k] = s[j]
    <3>1. k \in 1..n /\ Len(s) - n + 1 + k - 1 \in 1..Len(s)
      BY <2>1, <2>4
    <3>2. QED
      BY <2>4, <3>1
  <2>6. LastOf(s, n) # <<>>
    <3>1. Len(<<>>) = 0 /\ Len(LastOf(s, n)) # 0
      BY <2>4, EmptySeq
    <3>2. QED
      BY <3>1, Zenon
  <2>7. Len(LastOf(s, n)) <= n
    BY <2>4
  <2>8. QED
    BY <2>4, <2>5, <2>6, <2>7, Zenon
<1>3. QED
  BY <1>1, <1>2

\* A poll leaves a tracker, whose buffer has the new snapshot and nothing that
\* was neither there nor taken in this run.
LEMMA SnapshotTyped ==
  ASSUME TrackerTypeOK, NEW i \in Instances
  PROVE  LET t == WithSnapshot(tracker[i]) IN
         /\ t \in Tracker /\ t.buffer # <<>>
         /\ \E n \in {NormalBuffer, DegradedBuffer} : Len(t.buffer) <= n
         /\ t.dumped_for_run = tracker[i].dumped_for_run
         /\ t.degraded = tracker[i].degraded
         /\ \A k \in 1..Len(t.buffer) :
              \/ t.buffer[k] = run
              \/ \E j \in 1..Len(tracker[i].buffer) : t.buffer[k] = tracker[i].buffer[j]
<1> DEFINE old == tracker[i].buffer
           all == Append(old, run)
           n == buffer_limit(tracker[i])
<1>1. tracker[i] \in Tracker /\ old \in Seq(Runs) /\ run \in Runs
  BY DEF TrackerTypeOK, Tracker
<1>2. n \in Nat \ {0} /\ n \in {NormalBuffer, DegradedBuffer}
  BY TrackerAssumption DEF buffer_limit
<1>3. /\ all \in Seq(Runs) /\ all # <<>> /\ Len(all) = Len(old) + 1
      /\ \A j \in 1..Len(old) : all[j] = old[j]
      /\ all[Len(old) + 1] = run
  BY <1>1
<1>4. 0 \in Age
  BY TrackerAssumption DEF Age, Unset
<1>5. WithSnapshot(tracker[i]) = [tracker[i] EXCEPT !.poll_age = 0, !.buffer = LastOf(all, n)]
  BY <1>1 DEF WithSnapshot, Tracker
<1> HIDE DEF all, n
<1>6. /\ LastOf(all, n) \in Seq(Runs) /\ Len(LastOf(all, n)) <= n /\ LastOf(all, n) # <<>>
      /\ \A k \in 1..Len(LastOf(all, n)) : \E j \in 1..Len(all) : LastOf(all, n)[k] = all[j]
  BY <1>2, <1>3, LastOfKeeps
<1>7. \A j \in 1..Len(all) : all[j] = run \/ \E m \in 1..Len(old) : all[j] = old[m]
  <2> SUFFICES ASSUME NEW j \in 1..Len(all), j # Len(old) + 1
               PROVE  j \in 1..Len(old)
    BY <1>3
  <2>1. QED
    BY <1>1, <1>3
<1>8. WithSnapshot(tracker[i]) \in Tracker
  BY <1>1, <1>4, <1>5, <1>6 DEF Tracker
<1>9. /\ WithSnapshot(tracker[i]).buffer = LastOf(all, n)
      /\ WithSnapshot(tracker[i]).dumped_for_run = tracker[i].dumped_for_run
      /\ WithSnapshot(tracker[i]).degraded = tracker[i].degraded
  BY <1>1, <1>5 DEF Tracker
<1>10. QED
  BY <1>2, <1>6, <1>7, <1>8, <1>9

LEMMA AlertedTyped ==
  ASSUME NEW t \in Tracker, NEW found \in SUBSET Reasons
  PROVE  /\ Alerted(t, found) \in Tracker
         /\ Alerted(t, found).buffer = t.buffer
         /\ Alerted(t, found).dumped_for_run = (t.dumped_for_run \/ found # {})
         /\ Alerted(t, found).degraded = ((t.degraded \/ found # {}) /\ ~Recovers(t, found))
         /\ AlertEvents(t, found) \subseteq EventType
<1>1. 0 \in Age /\ Unset \in Age
  BY TrackerAssumption DEF Age, Unset
<1>2. /\ Recovers(t, found) \in BOOLEAN /\ Degrades(t, found) \in BOOLEAN
  BY DEF Recovers, Degrades
<1>3. Alerted(t, found) \in Tracker
  BY <1>1, <1>2 DEF Alerted, Tracker
<1>4. AlertEvents(t, found) \subseteq EventType
  BY DEF AlertEvents, EventType
<1>5. QED
  BY <1>3, <1>4 DEF Alerted, Tracker

\* A poll that did not raise found a subset of what can be wrong.
LEMMA FoundTyped ==
  ASSUME NEW t, NEW found \in Found(t)
  PROVE  found \in SUBSET Reasons
BY DEF Found, Shows, FoundIn, Reasons

\* A dump leaves the other files alone and writes one that holds the buffer, if
\* it writes any; it does write where nothing fails, the run has no dump yet (or
\* the dump is forced) and there is something to dump.
LEMMA DumpKeeps ==
  ASSUME TrackerTypeOK, NEW i \in Instances, NEW t \in Tracker, NEW force \in BOOLEAN,
         NEW d \in DumpOutcomes(i, t, force)
  PROVE  /\ d \subseteq [network : Instances, run : Runs, holds : SUBSET Runs]
         /\ \A f \in d : f \in disk \/ f = File(i, t.buffer)
         /\ \A f \in disk : f \in d \/ (f.network = i /\ f.run = run /\ File(i, t.buffer) \in d)
         /\ Reliable /\ t.buffer # <<>> /\ (t.dumped_for_run => force) => File(i, t.buffer) \in d
         /\ File(i, t.buffer).network = i /\ File(i, t.buffer).run = run
<1>1. File(i, t.buffer) \in [network : Instances, run : Runs, holds : SUBSET Runs]
  <2>1. t.buffer \in Seq(Runs)
    BY DEF Tracker
  <2>2. {t.buffer[k] : k \in 1..Len(t.buffer)} \subseteq Runs
    BY <2>1
  <2>3. QED
    BY <2>2 DEF File, TrackerTypeOK
<1>2. d = disk \/ d = Written(i, t.buffer)
  BY DEF DumpOutcomes
<1>3. Reliable /\ t.buffer # <<>> /\ (t.dumped_for_run => force) => d = Written(i, t.buffer)
  BY DEF DumpOutcomes
<1>4. QED
  BY <1>1, <1>2, <1>3 DEF Written, TrackerTypeOK, File

-----------------------------------------------------------------------------
(* Types.                                                                  *)

LEMMA OlderAge ==
  ASSUME NEW a \in Age
  PROVE  Older(a) \in Age /\ (Older(a) = Unset <=> a = Unset)
BY TrackerAssumption DEF Older, Age, Unset

LEMMA LevelsTyped ==
  ASSUME NEW level \in Levels, NEW t, NEW found, NEW l \in LevelOutcomes(level, t, found)
  PROVE  l \in Levels
BY DEF LevelOutcomes, Levels

LEMMA PollTyped ==
  ASSUME TrackerTypeOK, NEW i \in Instances, poll(i)
  PROVE  TrackerTypeOK'
<1>1. CASE NotPolled(i)
  BY <1>1 DEF NotPolled, TrackerTypeOK, trackerVars
<1>2. CASE Unanswered(i)
  <2>1. 0 \in Age
    BY TrackerAssumption DEF Age, Unset
  <2>2. tracker' \in [Instances -> Tracker]
    BY <1>2, <2>1 DEF Unanswered, TrackerTypeOK, Tracker
  <2>3. \A j \in Instances : tracker'[j].buffer = tracker[j].buffer
    BY <1>2 DEF Unanswered, TrackerTypeOK, Tracker
  <2>4. QED
    BY <1>2, <2>2, <2>3 DEF Unanswered, TrackerTypeOK
<1>3. ASSUME NEW found \in Found(tracker[i]), Snapshot(i, found)
      PROVE  TrackerTypeOK'
  <2> DEFINE t == WithSnapshot(tracker[i])
  <2>1. /\ t \in Tracker
        /\ \E n \in {NormalBuffer, DegradedBuffer} : Len(t.buffer) <= n
    BY SnapshotTyped
  <2>2. found \in SUBSET Reasons
    BY FoundTyped
  <2> HIDE DEF t
  <2>3. /\ Alerted(t, found) \in Tracker
        /\ Alerted(t, found).buffer = t.buffer
        /\ AlertEvents(t, found) \subseteq EventType
    BY <2>1, <2>2, AlertedTyped
  <2>4. tracker' = [tracker EXCEPT ![i] = Alerted(t, found)]
    BY <1>3 DEF Snapshot, t
  <2>5. events' = events \cup {Event(i, type) : type \in AlertEvents(t, found)}
    BY <1>3 DEF Snapshot, t
  <2>6. disk' \subseteq [network : Instances, run : Runs, holds : SUBSET Runs]
    BY <1>3, <2>1, DumpKeeps DEF Snapshot, t, TrackerTypeOK
  <2>7. log_level' \in [Instances -> Levels]
    BY <1>3, LevelsTyped DEF Snapshot, TrackerTypeOK
  <2>8. sick_age' \in [Instances -> Age]
    <3>1. 0 \in Age
      BY TrackerAssumption DEF Age, Unset
    <3>2. QED
      BY <1>3, <3>1 DEF Snapshot, TrackerTypeOK
  <2>9. events' \subseteq [network : Instances, type : EventType, run : Runs]
    BY <2>3, <2>5 DEF Event, TrackerTypeOK
  <2>10. /\ tracker' \in [Instances -> Tracker]
         /\ \A j \in Instances : \E n \in {NormalBuffer, DegradedBuffer} : Len(tracker'[j].buffer) <= n
    BY <2>1, <2>3, <2>4 DEF TrackerTypeOK
  <2>11. UNCHANGED <<failures, run>>
    BY <1>3 DEF Snapshot
  <2>12. QED
    BY <2>6, <2>7, <2>8, <2>9, <2>10, <2>11 DEF TrackerTypeOK
<1>4. QED
  BY <1>1, <1>2, <1>3 DEF poll

LEMMA RecordTyped ==
  ASSUME TrackerTypeOK, NEW i \in Instances, NEW t \in Tracker, NEW levels \in SUBSET Levels,
         NEW types \in SUBSET EventType, RecordFailure(i, t, levels, types),
         \E n \in {NormalBuffer, DegradedBuffer} : Len(t.buffer) <= n,
         sick_age' \in [Instances -> Age]
  PROVE  TrackerTypeOK'
<1>1. /\ tracker' = [tracker EXCEPT ![i] = [t EXCEPT !.dumped_for_run = TRUE]]
      /\ [t EXCEPT !.dumped_for_run = TRUE] \in Tracker
      /\ [t EXCEPT !.dumped_for_run = TRUE].buffer = t.buffer
  BY DEF RecordFailure, Tracker
<1>2. /\ tracker' \in [Instances -> Tracker]
      /\ \A j \in Instances : \E n \in {NormalBuffer, DegradedBuffer} : Len(tracker'[j].buffer) <= n
  BY <1>1 DEF TrackerTypeOK
<1>3. disk' \subseteq [network : Instances, run : Runs, holds : SUBSET Runs]
  BY DumpKeeps DEF RecordFailure, TrackerTypeOK
<1>4. log_level' \in [Instances -> Levels]
  BY DEF RecordFailure, TrackerTypeOK, Levels
<1>5. events' \subseteq [network : Instances, type : EventType, run : Runs]
  BY DEF RecordFailure, Event, EventType, TrackerTypeOK
<1>6. failures' \in [Instances -> 0..MaxFailures]
  BY TrackerAssumption DEF RecordFailure, TrackerTypeOK
<1>7. QED
  BY <1>2, <1>3, <1>4, <1>5, <1>6 DEF RecordFailure, TrackerTypeOK

LEMMA FailureTyped ==
  ASSUME TrackerTypeOK, NEW i \in Instances, on_failure(i)
  PROVE  TrackerTypeOK'
<1>1. 0 \in Age
  BY TrackerAssumption DEF Age, Unset
<1>2. log_level[i] \in Levels
  BY DEF TrackerTypeOK
<1>3. CASE /\ RecordFailure(i, [tracker[i] EXCEPT !.poll_age = 0], {log_level[i]}, {})
           /\ UNCHANGED sick_age
  <2>1. /\ [tracker[i] EXCEPT !.poll_age = 0] \in Tracker
        /\ [tracker[i] EXCEPT !.poll_age = 0].buffer = tracker[i].buffer
    BY <1>1 DEF TrackerTypeOK, Tracker
  <2>2. \E n \in {NormalBuffer, DegradedBuffer} : Len([tracker[i] EXCEPT !.poll_age = 0].buffer) <= n
    BY <2>1 DEF TrackerTypeOK
  <2>3. sick_age' \in [Instances -> Age]
    BY <1>3 DEF TrackerTypeOK
  <2> DEFINE t == [tracker[i] EXCEPT !.poll_age = 0]
  <2>4. {log_level[i]} \in SUBSET Levels /\ {} \in SUBSET EventType
    BY <1>2
  <2>5. RecordFailure(i, t, {log_level[i]}, {}) /\ t \in Tracker
    BY <1>3, <2>1
  <2>6. \E n \in {NormalBuffer, DegradedBuffer} : Len(t.buffer) <= n
    BY <2>2
  <2> HIDE DEF t
  <2>7. QED
    BY <2>3, <2>4, <2>5, <2>6, RecordTyped
<1>4. ASSUME NEW found \in Found(tracker[i]),
             LET t == WithSnapshot(tracker[i]) IN
             /\ RecordFailure(i, Alerted(t, found), LevelOutcomes(log_level[i], t, found),
                              AlertEvents(t, found))
             /\ sick_age' = IF found = {} THEN sick_age ELSE [sick_age EXCEPT ![i] = 0]
      PROVE  TrackerTypeOK'
  <2> DEFINE t == WithSnapshot(tracker[i])
  <2>1. /\ t \in Tracker
        /\ \E n \in {NormalBuffer, DegradedBuffer} : Len(t.buffer) <= n
    BY SnapshotTyped
  <2>2. found \in SUBSET Reasons
    BY FoundTyped
  <2>3. /\ RecordFailure(i, Alerted(t, found), LevelOutcomes(log_level[i], t, found),
                         AlertEvents(t, found))
        /\ sick_age' \in [Instances -> Age]
    BY <1>1, <1>4 DEF TrackerTypeOK
  <2> HIDE DEF t
  <2>4. /\ Alerted(t, found) \in Tracker
        /\ Alerted(t, found).buffer = t.buffer
        /\ AlertEvents(t, found) \subseteq EventType
    BY <2>1, <2>2, AlertedTyped
  <2>5. LevelOutcomes(log_level[i], t, found) \subseteq Levels
    BY <1>2, LevelsTyped
  <2>6. QED
    BY <2>1, <2>3, <2>4, <2>5, RecordTyped
<1>5. QED
  BY <1>3, <1>4 DEF on_failure

\* A tracker as __init__ makes it.
LEMMA NewTrackerTyped ==
  /\ NewTracker \in Tracker /\ NewTracker.buffer = <<>> /\ Len(NewTracker.buffer) = 0
  /\ NewTracker.degraded = FALSE /\ NewTracker.dumped_for_run = FALSE
BY TrackerAssumption DEF NewTracker, Tracker, Age, Unset

-----------------------------------------------------------------------------
(* Run numbers.                                                            *)

\* A set of natural numbers that is not empty has a least element.
LEMMA Least ==
  ASSUME NEW S \in SUBSET Nat, S # {}
  PROVE  \E n \in S : \A m \in S : n <= m
<1> DEFINE less == {ss \in Nat \X Nat : ss[1] < ss[2]}
<1>1. IsWellFoundedOn(less, Nat)
  BY NatLessThanWellFounded DEF OpToRel
<1>2. \E x \in S : \A y \in S : ~ (<<y, x>> \in less)
  <2> HIDE DEF less
  <2>1. QED
    BY <1>1, WFMin
<1>3. \A x, y \in Nat : y < x => <<y, x>> \in less
  OBVIOUS
<1>4. PICK x \in S : \A y \in S : ~ (<<y, x>> \in less)
  BY <1>2
<1>5. \A y \in S : ~ (y < x)
  <2> HIDE DEF less
  <2>1. QED
    BY <1>3, <1>4
<1>6. QED
  BY <1>5

\* Numbers do not run ahead of the runs, whether or not the log could be read.
NumbersFollowRuns == run_count <= run /\ \A e \in history : e.number <= run

\* The number after the highest one of the log exists, and is a number a run may have.
LEMMA NextNumber ==
  ASSUME TypeOK, NumbersFollowRuns, run < MaxRuns
  PROVE  /\ get_next_run_count \in Nat /\ get_next_run_count <= run + 1
         /\ \A e \in history : e.number < get_next_run_count
<1> DEFINE free == {n \in 1..MaxRuns + 1 : \A e \in history : e.number < n}
<1>1. run \in Nat /\ MaxRuns \in Nat /\ \A e \in history : e.number \in Nat
  BY TrackerAssumption DEF TypeOK, TrackerTypeOK, Runs
<1>2. run + 1 \in free
  BY <1>1 DEF NumbersFollowRuns
<1>3. PICK n \in free : \A m \in free : n <= m
  <2>1. free \in SUBSET Nat /\ free # {}
    BY <1>1, <1>2
  <2> HIDE DEF free
  <2>2. QED
    BY <2>1, Least
<1>4. n \in 1..MaxRuns + 1 /\ \A e \in history : e.number < n
  OBVIOUS
<1>5. n = 1 \/ \E e \in history : e.number = n - 1
  <2> SUFFICES ASSUME n # 1 PROVE \E e \in history : e.number = n - 1
    OBVIOUS
  <2>1. n - 1 \in 1..MaxRuns + 1 /\ n - 1 \notin free
    BY <1>1, <1>3, <1>4
  <2>2. PICK e \in history : ~(e.number < n - 1)
    BY <2>1
  <2>3. QED
    BY <1>1, <1>4, <2>2
<1> HIDE DEF free
<1>6. /\ get_next_run_count \in 1..MaxRuns + 1
      /\ \A e \in history : e.number < get_next_run_count
      /\ get_next_run_count = 1 \/ \E e \in history : e.number = get_next_run_count - 1
  BY <1>4, <1>5 DEF get_next_run_count
<1>7. QED
  BY <1>1, <1>6 DEF NumbersFollowRuns

-----------------------------------------------------------------------------
(* Steps that leave the tracker alone, and what they keep.                 *)

LEMMA InitTyped == Init => TypeOK /\ NumbersFollowRuns
<1> SUFFICES ASSUME Init PROVE TypeOK /\ NumbersFollowRuns
  OBVIOUS
<1>1. LTypeOK
  BY DEF Init, LInit, LTypeOK, Status, Active
<1>2. TrackerTypeOK
  BY NewTrackerTyped, TrackerAssumption
     DEF Init, TrackerInit, TrackerTypeOK, Runs, Levels, Age, Unset
<1>3. 1 \in 1..N /\ 0 \in 0..Stages /\ StartOfLoop \in Places
  BY OrderAssumption, OptionAssumption DEF StartOfLoop, Places
<1>4. /\ pc \in Places /\ next \in 1..N /\ changed \in BOOLEAN /\ run_count \in Nat
      /\ stage \in [Instances -> 0..Stages] /\ skipped \in [Instances -> Nat]
  BY <1>3 DEF Init
<1>5. history = {} /\ run_count <= run
  BY DEF Init, TrackerInit
<1>6. QED
  BY <1>1, <1>2, <1>4, <1>5 DEF TypeOK, NumbersFollowRuns

LEMMA ResetTyped ==
  ASSUME TrackerTypeOK, TrackerReset, run' \in Runs,
         disk' = disk, log_level' \in [Instances -> Levels],
         sick_age' = [i \in Instances |-> Unset]
  PROVE  TrackerTypeOK'
BY NewTrackerTyped, TrackerAssumption
   DEF TrackerReset, ResetWith, TrackerTypeOK, Age, Unset

LEMMA UpdateTyped ==
  ASSUME TypeOK, UpdateChanges
  PROVE  LTypeOK' /\ stage' \in [Instances -> 0..Stages]
<1>1. next \in Instances
  BY OrderAssumption DEF UpdateChanges, TypeOK
<1>2. CASE LifecycleStep(next) /\ UNCHANGED stage
  BY <1>1, <1>2 DEF LifecycleStep, FirstAnswer, SyncCompleted, StartProcessing, Succeed, Fail,
     Move, TypeOK, LTypeOK, Status, Active, Terminal
<1>3. CASE Validates(next)
  BY <1>1, <1>3, OptionAssumption DEF Validates, TypeOK, LTypeOK
<1>4. QED
  BY <1>2, <1>3 DEF UpdateChanges

LEMMA NextTyped == TypeOK /\ NumbersFollowRuns /\ [Next]_vars => TypeOK' /\ NumbersFollowRuns'
<1> SUFFICES ASSUME TypeOK, NumbersFollowRuns, [Next]_vars
             PROVE  TypeOK' /\ NumbersFollowRuns'
  OBVIOUS
<1>1. /\ StartOfLoop \in Places /\ run \in Nat /\ MaxRuns \in Nat
      /\ 1 \in 1..N /\ 0 \in 0..Stages
      /\ \A e \in history : e.number \in Nat
  BY OrderAssumption, OptionAssumption, TrackerAssumption DEF StartOfLoop, Places, TypeOK, TrackerTypeOK, Runs
<1>2. [i \in Instances |-> "normal"] \in [Instances -> Levels]
  BY DEF Levels
<1>3. ASSUME ResetInstances
      PROVE  LTypeOK' /\ stage' \in [Instances -> 0..Stages] /\ skipped' \in [Instances -> Nat]
  BY <1>1, <1>3 DEF ResetInstances, LTypeOK, Status, Active
<1>4. CASE Prepare
  <2>1. CASE pc' = "stopped" /\ UNCHANGED <<status, stage, skipped, trackerVars>>
    <3>1. TrackerTypeOK' /\ LTypeOK' /\ UNCHANGED run
      BY <2>1 DEF TypeOK, LTypeOK, TrackerTypeOK, trackerVars
    <3>2. QED
      BY <1>1, <1>4, <2>1, <3>1 DEF Prepare, TypeOK, Places, NumbersFollowRuns
  <2>2. CASE /\ pc' = "update"
             /\ ResetInstances
             /\ TrackerReset
             /\ NewContainers
             /\ sick_age' = [i \in Instances |-> Unset]
             /\ UNCHANGED <<run, disk>>
    <3>1. TrackerTypeOK'
      BY <1>2, <2>2, ResetTyped DEF NewContainers, TypeOK, TrackerTypeOK
    <3>2. QED
      BY <1>1, <1>3, <1>4, <2>2, <3>1 DEF Prepare, TypeOK, Places, NumbersFollowRuns
  <2>3. QED
    BY <1>4, <2>1, <2>2 DEF Prepare
<1>5. CASE UpdateChanges
  <2>1. TrackerTypeOK'
    BY <1>5 DEF UpdateChanges, TypeOK, TrackerTypeOK, trackerVars
  <2>2. skipped' \in [Instances -> Nat]
    BY <1>5 DEF UpdateChanges, TypeOK
  <2>3. QED
    BY <1>1, <1>5, <2>1, <2>2, UpdateTyped DEF UpdateChanges, TypeOK, Places, NumbersFollowRuns, trackerVars
<1>6. CASE UpdateKeeps
  <2>1. TrackerTypeOK' /\ LTypeOK'
    BY <1>6 DEF UpdateKeeps, TypeOK, LTypeOK, TrackerTypeOK, trackerVars
  <2>2. skipped' \in [Instances -> Nat] /\ next' \in 1..N /\ pc' \in Places
    <3>1. N \in Nat /\ next \in 1..N
      BY OrderAssumption DEF TypeOK
    <3>2. next # N => next + 1 \in 1..N
      BY <3>1
    <3>3. next' \in 1..N /\ pc' \in Places
      BY <1>1, <1>6, <3>2 DEF UpdateKeeps, Places
    <3>4. skipped' \in [Instances -> Nat]
      BY <1>6 DEF UpdateKeeps, TypeOK
    <3>5. QED
      BY <3>3, <3>4
  <2>3. QED
    BY <1>6, <2>1, <2>2 DEF UpdateKeeps, TypeOK, NumbersFollowRuns, trackerVars
<1>7. CASE Poll \/ PollRaisesOut \/ Sleep
  <2>1. /\ UNCHANGED <<status, stage, skipped, changed, run_count, history, run>>
        /\ next' \in 1..N /\ pc' \in Places
    <3>1. CASE Poll
      <4>1. UNCHANGED run
        BY <3>1 DEF Poll, poll, NotPolled, Unanswered, Snapshot, on_failure, RecordFailure, trackerVars
      <4>2. N \in Nat /\ next \in 1..N
        BY OrderAssumption DEF TypeOK
      <4>3. next # N => next + 1 \in 1..N
        BY <4>2
      <4>4. next' \in 1..N /\ pc' \in Places
        BY <1>1, <3>1, <4>3 DEF Poll, Advance, TypeOK, Places
      <4>5. QED
        BY <3>1, <4>1, <4>4 DEF Poll
    <3>2. CASE PollRaisesOut \/ Sleep
      BY <3>2 DEF PollRaisesOut, Sleep, TypeOK, Places, trackerVars
    <3>3. QED
      BY <1>7, <3>1, <3>2
  <2>2. TrackerTypeOK'
    <3>1. CASE Poll
      <4>1. next \in Instances
        BY <3>1, OrderAssumption DEF Poll, TypeOK
      <4>2. QED
        BY <3>1, <4>1, PollTyped, FailureTyped DEF Poll, TypeOK
    <3>2. CASE PollRaisesOut
      BY <3>2 DEF PollRaisesOut, trackerVars, TypeOK, TrackerTypeOK
    <3>3. CASE Sleep
      <4>1. \A i \in Instances :
              LET t == [tracker[i] EXCEPT !.poll_age = Older(@), !.healthy_age = Older(@)]
              IN t \in Tracker /\ t.buffer = tracker[i].buffer /\ Older(sick_age[i]) \in Age
        BY OlderAge DEF TypeOK, TrackerTypeOK, Tracker
      <4>2. QED
        BY <3>3, <4>1 DEF Sleep, TrackersAge, TypeOK, TrackerTypeOK
    <3>4. QED
      BY <1>7, <3>1, <3>2, <3>3
  <2>3. LTypeOK'
    BY <2>1 DEF TypeOK, LTypeOK
  <2>4. QED
    BY <2>1, <2>2, <2>3 DEF TypeOK, NumbersFollowRuns
<1>8. CASE Report
  <2>1. [number |-> run_count, run |-> run, ok |-> AllSucceeded, of |-> {e.run : e \in events}]
          \in [number : Nat, run : Runs, ok : BOOLEAN, of : SUBSET Runs]
    <3>1. {e.run : e \in events} \subseteq Runs /\ AllSucceeded \in BOOLEAN
      BY DEF TypeOK, TrackerTypeOK, AllSucceeded
    <3>2. QED
      BY <3>1 DEF TypeOK, TrackerTypeOK
  <2>2. history' \subseteq [number : Nat, run : Runs, ok : BOOLEAN, of : SUBSET Runs]
    BY <1>8, <2>1 DEF Report, TypeOK
  <2>3. \A e \in history' : e.number <= run
    BY <1>8 DEF Report, NumbersFollowRuns
  <2>4. TrackerTypeOK' /\ LTypeOK'
    BY <1>8 DEF Report, TypeOK, LTypeOK, TrackerTypeOK, trackerVars
  <2>5. QED
    BY <1>8, <2>2, <2>3, <2>4 DEF Report, TypeOK, Places, NumbersFollowRuns, trackerVars
<1>9. CASE StopOnFailure \/ ExitOnSuccess \/ UNCHANGED vars
  <2>1. /\ UNCHANGED <<status, stage, skipped, next, changed, run_count, history, trackerVars>>
        /\ pc' \in Places
    BY <1>9 DEF StopOnFailure, ExitOnSuccess, vars, loopVars, TypeOK, Places
  <2>2. QED
    BY <2>1 DEF TypeOK, LTypeOK, TrackerTypeOK, trackerVars, NumbersFollowRuns
<1>10. CASE NextRun
  <2>1. run_count' = run_count + 1 /\ run' = run + 1 /\ run' \in Runs /\ run_count' \in Nat
    BY <1>1, <1>10 DEF NextRun, TypeOK, TrackerTypeOK, Runs
  <2>2. TrackerTypeOK'
    <3>1. log_level' \in [Instances -> Levels] /\ Unset \in Age
      BY <1>2, <1>10, TrackerAssumption DEF NextRun, NewContainers, TypeOK, TrackerTypeOK, Age, Unset
    <3>2. QED
      BY <1>10, <2>1, <3>1 DEF NextRun, TypeOK, TrackerTypeOK
  <2>3. /\ LTypeOK' /\ stage' \in [Instances -> 0..Stages] /\ skipped' \in [Instances -> Nat]
        /\ pc' \in Places
    BY <1>1, <1>3, <1>10 DEF NextRun, TypeOK, LTypeOK, Places
  <2>4. NumbersFollowRuns'
    BY <1>1, <1>10, <2>1 DEF NextRun, NumbersFollowRuns, TypeOK
  <2>5. QED
    BY <1>10, <2>1, <2>2, <2>3, <2>4 DEF NextRun, TypeOK
<1>11. CASE Restart
  <2>1. run' = run + 1 /\ run' \in Runs /\ run < MaxRuns
    BY <1>1, <1>11 DEF Restart, TypeOK, TrackerTypeOK, Runs
  <2>2. run_count' \in Nat /\ run_count' <= run + 1
    BY <1>1, <1>11, <2>1, NextNumber DEF Restart
  <2>3. TrackerTypeOK'
    BY <1>11, <2>1, ResetTyped DEF Restart, TypeOK, TrackerTypeOK
  <2>4. LTypeOK' /\ stage' \in [Instances -> 0..Stages] /\ skipped' \in [Instances -> Nat]
    BY <1>1, <1>11 DEF Restart, LTypeOK, Status, Active
  <2>5. NumbersFollowRuns'
    BY <1>1, <1>11, <2>1, <2>2 DEF Restart, NumbersFollowRuns
  <2>6. QED
    BY <1>1, <1>11, <2>2, <2>3, <2>4, <2>5 DEF Restart, TypeOK
<1>12. QED
  BY <1>4, <1>5, <1>6, <1>7, <1>8, <1>9, <1>10, <1>11 DEF Next

\* The statuses, the tracker, the files and the log keep their form, and no run
\* has a higher number in the log than it can have (main, DiagnosticsTracker).
THEOREM TypeCorrect == Spec => [](TypeOK /\ NumbersFollowRuns)
<1>1. Init => TypeOK /\ NumbersFollowRuns
  BY InitTyped
<1>2. TypeOK /\ NumbersFollowRuns /\ [Next]_vars => TypeOK' /\ NumbersFollowRuns'
  BY NextTyped
<1>3. QED
  BY <1>1, <1>2, PTL DEF Spec

-----------------------------------------------------------------------------
(* The log of runs.                                                        *)

\* What is logged: numbers of earlier runs are behind the number in use.
LoggedBehind ==
  /\ HistoryOrdered
  /\ \A e \in history : /\ e.run <= run
                        /\ e.run < run => e.number < run_count
                        /\ e.run = run => e.number = run_count

LEMMA LoggedStep ==
  ASSUME Reliable = TRUE, TypeOK, NumbersFollowRuns, LoggedBehind, [Next]_vars
  PROVE  LoggedBehind'
<1>1. /\ run \in Nat /\ run_count \in Nat
      /\ \A e \in history : e.number \in Nat /\ e.run \in Nat
  BY TrackerAssumption DEF TypeOK, TrackerTypeOK, Runs
<1>2. CASE Report
  <2>1. history' = history \/ \E e : e.number = run_count /\ e.run = run /\ history' = history \cup {e}
    BY <1>2 DEF Report
  <2>2. UNCHANGED <<run, run_count>>
    BY <1>2 DEF Report, trackerVars
  <2>3. QED
    BY <1>1, <2>1, <2>2 DEF LoggedBehind, HistoryOrdered
<1>3. CASE NextRun
  <2>1. run' = run + 1 /\ run_count' = run_count + 1 /\ history' = history
    BY <1>3 DEF NextRun
  <2>2. QED
    BY <1>1, <2>1 DEF LoggedBehind, HistoryOrdered
<1>4. CASE Restart
  <2>1. run' = run + 1 /\ run_count' = get_next_run_count /\ history' = history /\ run < MaxRuns
    BY <1>4 DEF Restart
  <2>2. \A e \in history : e.number < get_next_run_count
    BY <2>1, NextNumber
  <2>3. QED
    BY <1>1, <2>1, <2>2 DEF LoggedBehind, HistoryOrdered
<1>5. CASE UNCHANGED <<run, run_count, history>>
  BY <1>5 DEF LoggedBehind, HistoryOrdered
<1>6. CASE Poll
  <2>1. UNCHANGED <<run, run_count, history>>
    BY <1>6 DEF Poll, poll, NotPolled, Unanswered, Snapshot, on_failure, RecordFailure, trackerVars
  <2>2. QED
    BY <1>5, <2>1
<1>7. QED
  BY <1>2, <1>3, <1>4, <1>5, <1>6
     DEF Next, Prepare, UpdateChanges, UpdateKeeps, PollRaisesOut, Sleep, StopOnFailure,
         ExitOnSuccess, trackerVars, vars, loopVars

\* The log keeps the order of the runs, for any number of restarts and of results
\* that were lost, as long as it can be read (get_next_run_count; README.md, "Run
\* count persistence").
THEOREM LogIsOrdered ==
  ASSUME Reliable = TRUE
  PROVE  Spec => []HistoryOrdered
<1>1. Init => LoggedBehind
  BY DEF Init, LoggedBehind, HistoryOrdered
<1>2. TypeOK /\ NumbersFollowRuns /\ LoggedBehind /\ [Next]_vars => LoggedBehind'
  BY LoggedStep
<1>3. LoggedBehind => HistoryOrdered
  BY DEF LoggedBehind
<1>4. QED
  BY <1>1, <1>2, <1>3, TypeCorrect, PTL DEF Spec

-----------------------------------------------------------------------------
(* Failures.                                                               *)

\* A failure is counted when the tick is over; in the middle of one, the networks
\* that are still to be looked at may have failed, and then changed is set.
FailuresAreCounted ==
  \A i \in Instances : status[i] = "failed" =>
    /\ pc \in {"update", "verdict", "decide"} => failures[i] >= 1
    /\ pc = "poll" => failures[i] >= 1 \/ (changed /\ i >= next)

LEMMA PollCounts ==
  ASSUME MaxFailures # 0, TypeOK, FailuresAreCounted, Poll
  PROVE  FailuresAreCounted'
<1>1. N \in Nat \ {0} /\ next \in 1..N /\ Instances = 1..N
  BY OrderAssumption DEF TypeOK
<1>2. pc = "poll" /\ UNCHANGED <<status, changed>>
  BY DEF Poll
<1>3. \A i \in Instances \ {next} : failures'[i] = failures[i]
  BY DEF Poll, poll, NotPolled, Unanswered, Snapshot, on_failure, RecordFailure, TypeOK,
         TrackerTypeOK, trackerVars
<1>4. ReportsFailure(next) => failures'[next] >= 1
  <2>1. ReportsFailure(next)
          => failures' = [failures EXCEPT ![next] = IF @ < MaxFailures THEN @ + 1 ELSE @]
    BY DEF Poll, on_failure, RecordFailure
  <2>2. failures[next] \in 0..MaxFailures /\ MaxFailures \in Nat /\ failures \in [Instances -> 0..MaxFailures]
    BY <1>1, TrackerAssumption DEF TypeOK, TrackerTypeOK
  <2>3. QED
    BY <1>1, <2>1, <2>2
<1>5. ~ReportsFailure(next) => failures' = failures
  BY DEF Poll, poll, NotPolled, Unanswered, Snapshot, trackerVars
<1>6. \/ next = N /\ pc' = "verdict"
      \/ next # N /\ next' = next + 1 /\ pc' = "poll"
  BY <1>2 DEF Poll, Advance
<1>7. SUFFICES ASSUME NEW i \in Instances, status[i] = "failed"
               PROVE  failures'[i] >= 1 \/ (next # N /\ changed /\ i >= next + 1)
  BY <1>2, <1>6 DEF FailuresAreCounted
<1>8. failures[i] >= 1 \/ (changed /\ i >= next)
  BY <1>2, <1>7 DEF FailuresAreCounted
<1>9. CASE i = next
  BY <1>4, <1>5, <1>7, <1>8, <1>9 DEF ReportsFailure
<1>10. CASE i # next
  BY <1>1, <1>3, <1>8, <1>10
<1>11. QED
  BY <1>9, <1>10

LEMMA CountedStep ==
  ASSUME MaxFailures # 0, TypeOK, FailuresAreCounted, [Next]_vars
  PROVE  FailuresAreCounted'
<1>1. CASE Poll
  BY <1>1, PollCounts
<1>2. CASE UpdateChanges
  BY <1>2, OrderAssumption DEF UpdateChanges, FailuresAreCounted
<1>3. CASE Prepare \/ NextRun \/ Restart
  <2>1. pc' \in {"stopped", "prepare"} \/ \A i \in Instances : status'[i] # "failed"
    BY <1>3 DEF Prepare, NextRun, Restart, ResetInstances, StartOfLoop
  <2>2. QED
    BY <2>1 DEF FailuresAreCounted
<1>4. CASE UpdateKeeps
  <2>1. pc = "update" /\ UNCHANGED <<status, failures>>
    BY <1>4 DEF UpdateKeeps, trackerVars
  <2>2. QED
    BY <2>1 DEF FailuresAreCounted
<1>5. CASE Sleep \/ Report \/ StopOnFailure \/ ExitOnSuccess \/ PollRaisesOut
  <2>1. /\ UNCHANGED <<status, failures>>
        /\ pc' = "stopped" \/ (pc = "verdict" /\ pc' \in {"update", "decide"})
    BY <1>5 DEF Sleep, Report, StopOnFailure, ExitOnSuccess, PollRaisesOut, trackerVars
  <2>2. QED
    BY <2>1 DEF FailuresAreCounted
<1>6. CASE UNCHANGED vars
  BY <1>6 DEF vars, loopVars, trackerVars, FailuresAreCounted
<1>7. QED
  BY <1>1, <1>2, <1>3, <1>4, <1>5, <1>6 DEF Next

\* No network fails without its failure being reported by the end of the tick, for
\* any number of networks, although a tick stops updating at the first change
\* (main, "Trigger dump on failure").
THEOREM FailuresAreReported ==
  ASSUME MaxFailures # 0
  PROVE  Spec => []FailureReported
<1>1. Init => FailuresAreCounted
  BY DEF Init, LInit, FailuresAreCounted
<1>2. TypeOK /\ FailuresAreCounted /\ [Next]_vars => FailuresAreCounted'
  BY CountedStep
<1>3. FailuresAreCounted => FailureReported
  BY DEF FailuresAreCounted, FailureReported
<1>4. QED
  BY <1>1, <1>2, <1>3, TypeCorrect, PTL DEF Spec

-----------------------------------------------------------------------------
(* One run and the next.                                                   *)

HasFile(i) == \E f \in disk : f.network = i /\ f.run = run

\* The log level of a node that can be set, and follows.
LevelIsRight(i) ==
  IF tracker[i].degraded \/ failures[i] > 0 THEN log_level[i] = "trace" ELSE log_level[i] = "normal"

\* What a run in progress knows of network i: the buffer is of this run, a network
\* that counts as dumped has its file, or had nothing to dump when it failed.
OfThisRun(i) ==
  /\ \A k \in 1..Len(tracker[i].buffer) : tracker[i].buffer[k] = run
  /\ failures[i] > 0 => status[i] = "failed"
  /\ Reliable /\ tracker[i].dumped_for_run => HasFile(i) \/ status[i] = "failed"
  /\ Reliable /\ sick_age[i] # Unset => HasFile(i)
  /\ Reliable /\ MaxFailures # 0 => LevelIsRight(i)

RunsAreApart ==
  /\ RunFilesAreItsOwn
  /\ Running => /\ \A e \in events : e.run = run
                /\ \A i \in Instances : OfThisRun(i)

\* What a poll or a failure report of network i does.
Touched(i) ==
  LET b == tracker'[i].buffer IN
  /\ run' = run
  /\ \A j \in Instances \ {i} : /\ tracker'[j] = tracker[j] /\ failures'[j] = failures[j]
                                /\ log_level'[j] = log_level[j] /\ sick_age'[j] = sick_age[j]
  /\ \A k \in 1..Len(b) :
       b[k] = run \/ \E j \in 1..Len(tracker[i].buffer) : b[k] = tracker[i].buffer[j]
  /\ \A e \in events' : e \in events \/ e.run = run
  /\ \A f \in disk' : f \in disk \/ f = File(i, b)
  /\ \A f \in disk : f \in disk' \/ (f.network = i /\ f.run = run /\ File(i, b) \in disk')
  /\ Reliable /\ tracker'[i].dumped_for_run =>
       tracker[i].dumped_for_run \/ File(i, b) \in disk' \/ status[i] = "failed"
  /\ Reliable /\ sick_age'[i] # sick_age[i] =>
       File(i, b) \in disk' \/ (tracker[i].dumped_for_run /\ status[i] # "failed")
  /\ failures'[i] > 0 => failures[i] > 0 \/ status[i] = "failed"
  /\ Reliable /\ MaxFailures # 0 /\ LevelIsRight(i) /\ (failures[i] > 0 => status[i] = "failed")
       => LevelIsRight(i)'

LEMMA SnapshotTouches ==
  ASSUME TypeOK, NEW i \in Instances, NEW found \in Found(tracker[i]), Snapshot(i, found)
  PROVE  Touched(i)
<1> DEFINE t == WithSnapshot(tracker[i])
<1>1. /\ TrackerTypeOK /\ tracker[i] \in Tracker /\ found \in SUBSET Reasons
      /\ status[i] # "failed"
  BY FoundTyped DEF TypeOK, TrackerTypeOK, Snapshot, Polled
<1>2. /\ t \in Tracker /\ t.buffer # <<>>
      /\ t.dumped_for_run = tracker[i].dumped_for_run /\ t.degraded = tracker[i].degraded
      /\ \A k \in 1..Len(t.buffer) :
           t.buffer[k] = run \/ \E j \in 1..Len(tracker[i].buffer) : t.buffer[k] = tracker[i].buffer[j]
  BY <1>1, SnapshotTyped
<1>3. /\ tracker' = [tracker EXCEPT ![i] = Alerted(t, found)]
      /\ events' = events \cup {Event(i, type) : type \in AlertEvents(t, found)}
      /\ \E level \in LevelOutcomes(log_level[i], t, found) :
            log_level' = [log_level EXCEPT ![i] = level]
      /\ disk' \in IF found = {} THEN {disk} ELSE DumpOutcomes(i, t, FALSE)
      /\ sick_age' = IF found = {} THEN sick_age ELSE [sick_age EXCEPT ![i] = 0]
      /\ UNCHANGED <<failures, run>>
  BY DEF Snapshot
<1> HIDE DEF t
<1>4. /\ Alerted(t, found).buffer = t.buffer
      /\ Alerted(t, found).dumped_for_run = (t.dumped_for_run \/ found # {})
      /\ Alerted(t, found).degraded = ((t.degraded \/ found # {}) /\ ~Recovers(t, found))
  BY <1>1, <1>2, AlertedTyped
<1>5. tracker'[i] = Alerted(t, found) /\ \A j \in Instances \ {i} : tracker'[j] = tracker[j]
  BY <1>1, <1>3 DEF TrackerTypeOK
<1>6. /\ \A f \in disk' : f \in disk \/ f = File(i, t.buffer)
      /\ \A f \in disk : f \in disk' \/ (f.network = i /\ f.run = run /\ File(i, t.buffer) \in disk')
      /\ Reliable /\ found # {} /\ ~t.dumped_for_run => File(i, t.buffer) \in disk'
  <2>1. CASE found = {}
    BY <1>3, <2>1
  <2>2. CASE found # {}
    <3>1. disk' \in DumpOutcomes(i, t, FALSE)
      BY <1>3, <2>2
    <3>2. QED
      BY <1>1, <1>2, <3>1, DumpKeeps
  <2>3. QED
    BY <2>1, <2>2
<1>7. \A e \in events' : e \in events \/ e.run = run
  BY <1>3 DEF Event
<1>8. \A j \in Instances \ {i} : log_level'[j] = log_level[j] /\ sick_age'[j] = sick_age[j]
  BY <1>1, <1>3 DEF TrackerTypeOK
<1>9. Reliable /\ LevelIsRight(i) /\ (failures[i] > 0 => status[i] = "failed") => LevelIsRight(i)'
  <2> SUFFICES ASSUME Reliable, LevelIsRight(i), ~(failures[i] > 0)
               PROVE  LevelIsRight(i)'
    BY <1>1
  <2>1. /\ log_level'[i] = IF Degrades(t, found) THEN "trace"
                           ELSE IF Recovers(t, found) THEN "normal" ELSE log_level[i]
        /\ failures'[i] = failures[i]
    BY <1>1, <1>3 DEF LevelOutcomes, TrackerTypeOK
  <2>2. /\ tracker'[i].degraded = ((t.degraded \/ found # {}) /\ ~Recovers(t, found))
        /\ Degrades(t, found) <=> found # {} /\ ~t.degraded
        /\ Recovers(t, found) => found = {}
        /\ log_level[i] = IF t.degraded THEN "trace" ELSE "normal"
    BY <1>2, <1>4, <1>5 DEF Degrades, Recovers, LevelIsRight
  <2>3. LevelIsRight(i)' <=>
          IF tracker'[i].degraded \/ failures'[i] > 0 THEN log_level'[i] = "trace"
          ELSE log_level'[i] = "normal"
    BY DEF LevelIsRight
  <2>4. QED
    BY <2>1, <2>2, <2>3
<1>10. Reliable /\ tracker'[i].dumped_for_run =>
         tracker[i].dumped_for_run \/ File(i, t.buffer) \in disk'
  BY <1>2, <1>4, <1>5, <1>6
<1>11. Reliable /\ sick_age'[i] # sick_age[i] =>
         File(i, t.buffer) \in disk' \/ (tracker[i].dumped_for_run /\ status[i] # "failed")
  BY <1>1, <1>2, <1>3, <1>6
<1>12. tracker'[i].buffer = t.buffer
  BY <1>4, <1>5
<1>13. QED
  BY <1>2, <1>3, <1>5, <1>6, <1>7, <1>8, <1>9, <1>10, <1>11, <1>12 DEF Touched

LEMMA RecordTouches ==
  ASSUME TypeOK, NEW i \in Instances, NEW t \in Tracker, NEW levels \in SUBSET Levels, NEW types,
         RecordFailure(i, t, levels, types), status[i] = "failed",
         \A j \in Instances \ {i} : sick_age'[j] = sick_age[j],
         sick_age'[i] = sick_age[i] \/ t.buffer # <<>>,
         \A k \in 1..Len(t.buffer) : \/ t.buffer[k] = run
                                     \/ \E j \in 1..Len(tracker[i].buffer) : t.buffer[k] = tracker[i].buffer[j]
  PROVE  Touched(i)
<1>1. TrackerTypeOK
  BY DEF TypeOK
<1>2. /\ tracker'[i] = [t EXCEPT !.dumped_for_run = TRUE]
      /\ \A j \in Instances \ {i} : /\ tracker'[j] = tracker[j] /\ failures'[j] = failures[j]
                                    /\ log_level'[j] = log_level[j]
  BY <1>1 DEF RecordFailure, TrackerTypeOK
<1>3. tracker'[i].buffer = t.buffer
  BY <1>2 DEF Tracker
<1>4. disk' \in DumpOutcomes(i, t, TRUE)
  BY DEF RecordFailure
<1>5. /\ \A f \in disk' : f \in disk \/ f = File(i, t.buffer)
      /\ \A f \in disk : f \in disk' \/ (f.network = i /\ f.run = run /\ File(i, t.buffer) \in disk')
      /\ Reliable /\ t.buffer # <<>> => File(i, t.buffer) \in disk'
  BY <1>1, <1>4, DumpKeeps
<1>6. \A e \in events' : e \in events \/ e.run = run
  BY DEF RecordFailure, Event
<1>7. Reliable /\ MaxFailures # 0 => LevelIsRight(i)'
  <2> SUFFICES ASSUME Reliable, MaxFailures # 0 PROVE LevelIsRight(i)'
    OBVIOUS
  <2>1. log_level'[i] = "trace"
    BY <1>1 DEF RecordFailure, TrackerTypeOK
  <2>2. failures'[i] > 0
    BY <1>1, TrackerAssumption DEF RecordFailure, TrackerTypeOK
  <2>3. QED
    BY <2>1, <2>2 DEF LevelIsRight
<1>8. run' = run
  BY DEF RecordFailure
<1>9. QED
  BY <1>2, <1>3, <1>5, <1>6, <1>7, <1>8 DEF Touched

LEMMA PollTouches ==
  ASSUME TypeOK, NEW i \in Instances, poll(i) \/ (status[i] = "failed" /\ on_failure(i))
  PROVE  Touched(i)
<1>1. TrackerTypeOK /\ tracker[i] \in Tracker /\ 0 \in Age
  BY TrackerAssumption DEF TypeOK, TrackerTypeOK, Age, Unset
<1>2. CASE NotPolled(i)
  <2>1. UNCHANGED trackerVars
    BY <1>2 DEF NotPolled
  <2>2. QED
    BY <2>1 DEF trackerVars, Touched, LevelIsRight
<1>3. CASE Unanswered(i)
  <2>1. /\ tracker'[i] = [tracker[i] EXCEPT !.poll_age = 0]
        /\ \A j \in Instances \ {i} : tracker'[j] = tracker[j]
        /\ UNCHANGED <<events, failures, run, disk, log_level, sick_age>>
    BY <1>1, <1>3 DEF Unanswered, TrackerTypeOK
  <2>2. /\ tracker'[i].buffer = tracker[i].buffer /\ tracker'[i].degraded = tracker[i].degraded
        /\ tracker'[i].dumped_for_run = tracker[i].dumped_for_run
    BY <1>1, <2>1 DEF Tracker
  <2>3. QED
    BY <2>1, <2>2 DEF Touched, LevelIsRight
<1>4. ASSUME NEW found \in Found(tracker[i]), Snapshot(i, found)
      PROVE  Touched(i)
  BY <1>4, SnapshotTouches
<1>5. CASE /\ status[i] = "failed"
           /\ RecordFailure(i, [tracker[i] EXCEPT !.poll_age = 0], {log_level[i]}, {})
           /\ UNCHANGED sick_age
  <2> DEFINE t == [tracker[i] EXCEPT !.poll_age = 0]
  <2>1. t \in Tracker /\ t.buffer = tracker[i].buffer
    BY <1>1 DEF Tracker
  <2>2. RecordFailure(i, t, {log_level[i]}, {}) /\ {log_level[i]} \in SUBSET Levels
    BY <1>1, <1>5 DEF TrackerTypeOK
  <2> HIDE DEF t
  <2>3. QED
    BY <1>5, <2>1, <2>2, RecordTouches
<1>6. ASSUME status[i] = "failed", NEW found \in Found(tracker[i]),
             LET t == WithSnapshot(tracker[i]) IN
             /\ RecordFailure(i, Alerted(t, found), LevelOutcomes(log_level[i], t, found),
                              AlertEvents(t, found))
             /\ sick_age' = IF found = {} THEN sick_age ELSE [sick_age EXCEPT ![i] = 0]
      PROVE  Touched(i)
  <2> DEFINE t == WithSnapshot(tracker[i])
  <2>1. /\ RecordFailure(i, Alerted(t, found), LevelOutcomes(log_level[i], t, found),
                         AlertEvents(t, found))
        /\ sick_age' = IF found = {} THEN sick_age ELSE [sick_age EXCEPT ![i] = 0]
    BY <1>6
  <2>2. /\ t \in Tracker /\ t.buffer # <<>>
        /\ \A k \in 1..Len(t.buffer) :
             t.buffer[k] = run \/ \E j \in 1..Len(tracker[i].buffer) : t.buffer[k] = tracker[i].buffer[j]
    BY <1>1, SnapshotTyped
  <2> HIDE DEF t
  <2>3. Alerted(t, found) \in Tracker /\ Alerted(t, found).buffer = t.buffer
    BY <2>2, FoundTyped, AlertedTyped
  <2>4. LevelOutcomes(log_level[i], t, found) \in SUBSET Levels
    BY <1>1, LevelsTyped DEF TrackerTypeOK
  <2>5. \A j \in Instances \ {i} : sick_age'[j] = sick_age[j]
    BY <1>1, <2>1 DEF TrackerTypeOK
  <2>6. QED
    BY <1>6, <2>1, <2>2, <2>3, <2>4, <2>5, RecordTouches
<1>7. QED
  BY <1>2, <1>3, <1>4, <1>5, <1>6 DEF poll, on_failure

\* A step that leaves the tracker alone leaves a run what it was, whatever
\* becomes of the networks that have not failed.
LEMMA ApartKept ==
  ASSUME RunsAreApart, UNCHANGED trackerVars,
         Running' => Running /\ \A i \in Instances : status[i] = "failed" => status'[i] = "failed",
         history' = history
  PROVE  RunsAreApart'
BY DEF RunsAreApart, RunFilesAreItsOwn, OfThisRun, HasFile, LevelIsRight, trackerVars

LEMMA PollApart ==
  ASSUME TypeOK, RunsAreApart, Poll
  PROVE  RunsAreApart'
<1>0. PICK n \in Instances : n = next
  BY OrderAssumption DEF TypeOK
<1>1. pc = "poll" /\ UNCHANGED <<status, history>>
  BY DEF Poll
<1>2. Touched(n)
  BY <1>0, PollTouches DEF Poll, ReportsFailure
<1>3. Running /\ (\A e \in events : e.run = run) /\ \A i \in Instances : OfThisRun(i)
  BY <1>1 DEF RunsAreApart, Running
<1> DEFINE b == tracker'[n].buffer
<1>4. \A k \in 1..Len(b) : b[k] = run
  BY <1>1, <1>2, <1>3 DEF Touched, OfThisRun
<1>5. /\ File(n, b).network = n /\ File(n, b).run = run
      /\ File(n, b).holds \subseteq {run}
  <2> HIDE DEF b
  <2>1. QED
    BY <1>4 DEF File
<1>6. RunFilesAreItsOwn'
  <2>1. \A f \in disk' : f \in disk \/ f = File(n, b)
    BY <1>2 DEF Touched
  <2> HIDE DEF b
  <2>2. \A f \in disk' : f.holds \subseteq {f.run}
    BY <1>5, <2>1 DEF RunsAreApart, RunFilesAreItsOwn
  <2>3. QED
    BY <1>1, <2>2 DEF RunsAreApart, RunFilesAreItsOwn
<1>7. \A e \in events' : e.run = run'
  BY <1>2, <1>3 DEF Touched
<1>8. \A i \in Instances : HasFile(i) => HasFile(i)'
  <2>1. /\ run' = run
        /\ \A f \in disk : f \in disk' \/ (f.network = n /\ f.run = run /\ File(n, b) \in disk')
    BY <1>2 DEF Touched
  <2> HIDE DEF b
  <2>2. QED
    BY <1>5, <2>1 DEF HasFile
<1>9. File(n, b) \in disk' => HasFile(n)'
  <2>1. run' = run
    BY <1>2 DEF Touched
  <2> HIDE DEF b
  <2>2. QED
    BY <1>5, <2>1 DEF HasFile
<1>10. ASSUME NEW i \in Instances PROVE OfThisRun(i)'
  <2>1. CASE i # n
    <3>1. /\ tracker'[i] = tracker[i] /\ failures'[i] = failures[i] /\ run' = run
          /\ log_level'[i] = log_level[i] /\ sick_age'[i] = sick_age[i] /\ status'[i] = status[i]
      BY <1>1, <1>2, <2>1 DEF Touched
    <3>2. OfThisRun(i) /\ (HasFile(i) => HasFile(i)')
      BY <1>3, <1>8
    <3>3. QED
      BY <3>1, <3>2 DEF OfThisRun, LevelIsRight
  <2>2. CASE i = n
    <3>1. OfThisRun(n) /\ (HasFile(n) => HasFile(n)')
      BY <1>1, <1>3, <1>8
    <3>2. \A k \in 1..Len(tracker'[n].buffer) : tracker'[n].buffer[k] = run'
      BY <1>2, <1>4 DEF Touched
    <3>3. failures'[n] > 0 => status'[n] = "failed"
      BY <1>1, <1>2, <3>1 DEF Touched, OfThisRun
    <3>4. Reliable /\ tracker'[n].dumped_for_run => HasFile(n)' \/ status'[n] = "failed"
      BY <1>1, <1>2, <1>9, <3>1 DEF Touched, OfThisRun
    <3>5. Reliable /\ sick_age'[n] # Unset => HasFile(n)'
      BY <1>1, <1>2, <1>9, <3>1 DEF Touched, OfThisRun
    <3>6. Reliable /\ MaxFailures # 0 => LevelIsRight(n)'
      BY <1>2, <3>1 DEF Touched, OfThisRun
    <3>7. QED
      BY <2>2, <3>2, <3>3, <3>4, <3>5, <3>6 DEF OfThisRun
  <2>3. QED
    BY <2>1, <2>2
<1>11. QED
  BY <1>6, <1>7, <1>10 DEF RunsAreApart

LEMMA ApartStep ==
  ASSUME AutoUpdate = TRUE, TypeOK, RunsAreApart, [Next]_vars
  PROVE  RunsAreApart'
<1>1. CASE Poll
  BY <1>1, PollApart
<1>2. CASE UpdateChanges
  <2>1. next \in Instances /\ Running
    BY <1>2, OrderAssumption DEF UpdateChanges, TypeOK, Running
  <2>2. \A i \in Instances : status[i] = "failed" => status'[i] = "failed"
    <3>1. CASE LifecycleStep(next)
      BY <2>1, <3>1 DEF LifecycleStep, FirstAnswer, SyncCompleted, StartProcessing, Succeed,
         Fail, Move, TypeOK, LTypeOK, Active
    <3>2. CASE Validates(next)
      BY <3>2 DEF Validates
    <3>3. QED
      BY <1>2, <3>1, <3>2 DEF UpdateChanges
  <2>3. QED
    BY <1>2, <2>1, <2>2, ApartKept DEF UpdateChanges
<1>3. CASE UpdateKeeps \/ PollRaisesOut \/ StopOnFailure \/ ExitOnSuccess
  <2>1. /\ UNCHANGED <<status, history>> /\ UNCHANGED trackerVars
        /\ pc' = "stopped" \/ (pc = "update" /\ pc' \in {"update", "poll"})
    BY <1>3 DEF UpdateKeeps, PollRaisesOut, StopOnFailure, ExitOnSuccess
  <2>2. QED
    BY <2>1, ApartKept DEF Running
<1>4. CASE Prepare
  <2>1. CASE pc' = "stopped" /\ UNCHANGED trackerVars
    BY <1>4, <2>1, ApartKept DEF Prepare, Running
  <2>2. CASE /\ TrackerReset /\ NewContainers
             /\ sick_age' = [i \in Instances |-> Unset]
             /\ UNCHANGED <<run, disk>>
    <3>1. RunFilesAreItsOwn' /\ events' = {}
      BY <1>4, <2>2 DEF Prepare, RunsAreApart, RunFilesAreItsOwn, TrackerReset, ResetWith
    <3>2. ASSUME NEW i \in Instances PROVE OfThisRun(i)'
      <4>1. /\ tracker'[i] = NewTracker /\ failures'[i] = 0 /\ sick_age'[i] = Unset
            /\ log_level'[i] = "normal"
        BY <2>2 DEF TrackerReset, ResetWith, NewContainers
      <4>2. ~(0 > 0) /\ 1..0 = {}
        OBVIOUS
      <4>3. QED
        BY <4>1, <4>2, NewTrackerTyped DEF OfThisRun, LevelIsRight
    <3>3. QED
      BY <3>1, <3>2 DEF RunsAreApart
  <2>3. QED
    BY <1>4, <2>1, <2>2 DEF Prepare
<1>5. CASE NextRun \/ Restart
  <2>1. pc' \in {"prepare", "stopped"} /\ UNCHANGED <<history, disk>>
    BY <1>5 DEF NextRun, Restart, StartOfLoop
  <2>2. QED
    BY <2>1 DEF RunsAreApart, RunFilesAreItsOwn, Running
<1>6. CASE Sleep
  <2>1. /\ pc = "verdict"
        /\ UNCHANGED <<status, history, events, failures, run, disk, log_level>>
        /\ TrackersAge
    BY <1>6 DEF Sleep
  <2>2. RunFilesAreItsOwn' /\ (\A e \in events' : e.run = run') /\ \A i \in Instances : OfThisRun(i)
    BY <2>1 DEF RunsAreApart, RunFilesAreItsOwn, Running
  <2>3. ASSUME NEW i \in Instances PROVE OfThisRun(i)'
    <3>1. /\ tracker[i] \in Tracker /\ sick_age[i] \in Age
      BY DEF TypeOK, TrackerTypeOK
    <3>2. /\ tracker'[i].buffer = tracker[i].buffer /\ tracker'[i].degraded = tracker[i].degraded
          /\ tracker'[i].dumped_for_run = tracker[i].dumped_for_run
          /\ sick_age'[i] = Older(sick_age[i])
      BY <2>1, <3>1 DEF TrackersAge, Tracker
    <3>3. sick_age'[i] = Unset <=> sick_age[i] = Unset
      BY <3>1, <3>2, OlderAge
    <3>4. QED
      BY <2>1, <2>2, <3>2, <3>3 DEF OfThisRun, LevelIsRight, HasFile
  <2>4. QED
    BY <2>2, <2>3 DEF RunsAreApart
<1>7. CASE Report
  <2>1. UNCHANGED <<status, trackerVars>> /\ pc = "verdict"
    BY <1>7 DEF Report
  <2>2. (\A e \in events : e.run = run) /\ \A i \in Instances : OfThisRun(i)
    BY <2>1 DEF RunsAreApart, Running
  <2>3. \A e \in history' : e \in history \/ (e.of \subseteq {run} /\ e.run = run)
    <3> DEFINE of == {e.run : e \in events}
    <3>1. of \subseteq {run}
      BY <2>2
    <3>2. history' \in {history, history \cup {[number |-> run_count, run |-> run,
                                                 ok |-> AllSucceeded, of |-> of]}}
      BY <1>7 DEF Report
    <3> HIDE DEF of
    <3>3. QED
      BY <3>1, <3>2
  <2>4. RunFilesAreItsOwn'
    BY <2>1, <2>3 DEF RunsAreApart, RunFilesAreItsOwn, trackerVars
  <2>5. QED
    BY <2>1, <2>2, <2>4 DEF RunsAreApart, trackerVars, OfThisRun, HasFile, LevelIsRight
<1>8. CASE UNCHANGED vars
  <2>1. UNCHANGED <<status, history, pc>> /\ UNCHANGED trackerVars
    BY <1>8 DEF vars, loopVars
  <2>2. QED
    BY <2>1, ApartKept DEF Running
<1>9. QED
  BY <1>1, <1>2, <1>3, <1>4, <1>5, <1>6, <1>7, <1>8 DEF Next

LEMMA Apart ==
  ASSUME AutoUpdate = TRUE
  PROVE  Spec => []RunsAreApart
<1>1. Init => RunsAreApart
  BY DEF Init, TrackerInit, RunsAreApart, RunFilesAreItsOwn, Running, StartOfLoop
<1>2. TypeOK /\ NumbersFollowRuns /\ RunsAreApart /\ [Next]_vars => RunsAreApart'
  BY ApartStep
<1>3. QED
  BY <1>1, <1>2, TypeCorrect, PTL DEF Spec

\* With --auto-update no dump and no summary mixes two runs, for any number of
\* networks, of runs and of interruptions, and buffers of any length (reset).
THEOREM RunsDoNotMix ==
  ASSUME AutoUpdate = TRUE
  PROVE  Spec => []RunFilesAreItsOwn
<1>1. RunsAreApart => RunFilesAreItsOwn
  BY DEF RunsAreApart
<1>2. QED
  BY <1>1, Apart, PTL

\* With --auto-update the first degradation of every run is dumped: the flag
\* dumped_for_run is set only with a file of this run, or for a network that
\* failed with nothing to dump and is polled no more (_check_alert_conditions).
THEOREM DegradationsAreDumped ==
  ASSUME AutoUpdate = TRUE
  PROVE  Spec => []DegradationDumped
<1>1. RunsAreApart => DegradationDumped
  BY DEF RunsAreApart, DegradationDumped, OfThisRun, HasFile
<1>2. QED
  BY <1>1, Apart, PTL

\* With --auto-update the node logs at TRACE exactly in degraded mode and after a
\* failure, through any sequence of polls, relapses and failures (rpc_set_log_level).
THEOREM LevelFollows ==
  ASSUME AutoUpdate = TRUE, MaxFailures # 0
  PROVE  Spec => []LevelFollowsMode
<1>1. RunsAreApart => LevelFollowsMode
  BY DEF RunsAreApart, LevelFollowsMode, OfThisRun, LevelIsRight
<1>2. QED
  BY <1>1, Apart, PTL

-----------------------------------------------------------------------------
(* Starvation.                                                             *)

\* Changes network k can still make in this run.
StepsLeft(k) ==
  CASE status[k] = "waiting" -> 4
    [] status[k] = "syncing" -> 3
    [] status[k] = "synced" -> 2
    [] status[k] = "block_processing" -> 1
    [] OTHER -> 0

ChangesLeft(k) == StepsLeft(k) + (Stages - stage[k])

\* Those of the networks before i, one by one, so that they can be counted.
Before(i) == (1..i - 1) \X (1..4 + Stages)
Budget(i) == {p \in Before(i) : p[2] <= ChangesLeft(p[1])}

\* Every tick i missed was paid for by a change of a network before it.
Starved == \A i \in Instances : skipped[i] + Cardinality(Budget(i)) <= (i - 1) * (4 + Stages)

LEMMA BudgetBounded ==
  ASSUME NEW i \in Instances, NEW B \in SUBSET Before(i)
  PROVE  /\ IsFiniteSet(B) /\ Cardinality(B) \in Nat
         /\ Cardinality(B) <= (i - 1) * (4 + Stages)
         /\ (i - 1) * (4 + Stages) \in Nat
<1>1. /\ i \in Nat \ {0} /\ Stages \in Nat
  BY OrderAssumption, OptionAssumption
<1>2. /\ IsFiniteSet(1..i - 1) /\ Cardinality(1..i - 1) = i - 1
      /\ IsFiniteSet(1..4 + Stages) /\ Cardinality(1..4 + Stages) = 4 + Stages
  <2>1. IsFiniteSet(1..i - 1) /\ Cardinality(1..i - 1) = IF 1 > i - 1 THEN 0 ELSE i - 1 - 1 + 1
    BY <1>1, FS_Interval
  <2>2. IsFiniteSet(1..4 + Stages) /\ Cardinality(1..4 + Stages) = IF 1 > 4 + Stages THEN 0 ELSE 4 + Stages - 1 + 1
    BY <1>1, FS_Interval
  <2>3. QED
    BY <1>1, <2>1, <2>2
<1>3. IsFiniteSet(Before(i)) /\ Cardinality(Before(i)) = (i - 1) * (4 + Stages)
  BY <1>2, FS_Product DEF Before
<1>4. IsFiniteSet(B) /\ Cardinality(B) <= Cardinality(Before(i))
  BY <1>3, FS_Subset
<1>5. Cardinality(B) \in Nat /\ Cardinality(Before(i)) \in Nat
  BY <1>3, <1>4, FS_CardinalityType
<1>6. QED
  BY <1>3, <1>4, <1>5

\* A network that is not starved any more, or a budget that did not shrink unpaid.
LEMMA StarvedKept ==
  ASSUME TypeOK, Starved, status' = status, stage' = stage,
         \A i \in Instances : skipped'[i] = skipped[i] \/ skipped'[i] = 0
  PROVE  Starved'
<1>1. \A i \in Instances : Budget(i)' = Budget(i)
  BY DEF Budget, Before, ChangesLeft, StepsLeft
<1>2. ASSUME NEW i \in Instances
      PROVE  skipped'[i] + Cardinality(Budget(i)) <= (i - 1) * (4 + Stages)
  <2>1. CASE skipped'[i] = skipped[i]
    BY <2>1 DEF Starved
  <2>2. CASE skipped'[i] = 0
    <3>1. Budget(i) \in SUBSET Before(i)
      BY DEF Budget
    <3>2. QED
      BY <2>2, <3>1, BudgetBounded
  <2>3. QED
    BY <2>1, <2>2
<1>3. QED
  BY <1>1, <1>2 DEF Starved

\* A network that was updated in this tick owes nothing.
LEMMA NotStarved ==
  ASSUME \A i \in Instances : skipped'[i] = 0
  PROVE  Starved'
<1>1. ASSUME NEW i \in Instances
      PROVE  /\ Cardinality(Budget(i))' \in Nat
             /\ Cardinality(Budget(i))' <= (i - 1) * (4 + Stages)
  <2> DEFINE left == [k \in 1..i - 1 |-> ChangesLeft(k)']
             B == {p \in Before(i) : p[2] <= left[p[1]]}
  <2>1. B = Budget(i)'
    BY DEF Budget, Before
  <2>2. B \in SUBSET Before(i)
    OBVIOUS
  <2> HIDE DEF B
  <2>3. QED
    BY <2>1, <2>2, BudgetBounded
<1>2. QED
  BY <1>1 DEF Starved

\* A change uses one of the changes the network had left.
LEMMA ChangeIsPaid ==
  ASSUME TypeOK, NEW n \in Instances, (LifecycleStep(n) /\ UNCHANGED stage) \/ Validates(n)
  PROVE  /\ \A k \in Instances \ {n} : ChangesLeft(k)' = ChangesLeft(k)
         /\ ChangesLeft(n)' \in Nat /\ ChangesLeft(n) \in 1..4 + Stages
         /\ ChangesLeft(n)' < ChangesLeft(n)
<1>0. /\ stage[n] \in Nat /\ stage[n] <= Stages /\ Stages \in Nat
      /\ status \in [Instances -> Status] /\ stage \in [Instances -> 0..Stages]
  BY OptionAssumption DEF TypeOK, LTypeOK
<1>1. CASE LifecycleStep(n) /\ UNCHANGED stage
  <2>1. /\ \A k \in Instances \ {n} : status'[k] = status[k]
        /\ StepsLeft(n) \in 1..4 /\ StepsLeft(n)' \in 0..4 /\ StepsLeft(n)' < StepsLeft(n)
    <3>1. CASE FirstAnswer(n)
      BY <1>0, <3>1 DEF FirstAnswer, Move, StepsLeft
    <3>2. CASE SyncCompleted(n)
      BY <1>0, <3>2 DEF SyncCompleted, Move, StepsLeft
    <3>3. CASE StartProcessing(n)
      BY <1>0, <3>3 DEF StartProcessing, Move, StepsLeft
    <3>4. CASE Succeed(n)
      BY <1>0, <3>4 DEF Succeed, Move, StepsLeft
    <3>5. CASE Fail(n)
      BY <1>0, <3>5 DEF Fail, Move, StepsLeft, Active
    <3>6. QED
      BY <1>1, <3>1, <3>2, <3>3, <3>4, <3>5 DEF LifecycleStep
  <2>2. \A k \in Instances \ {n} : StepsLeft(k)' = StepsLeft(k)
    BY <2>1 DEF StepsLeft
  <2>3. QED
    BY <1>0, <1>1, <2>1, <2>2 DEF ChangesLeft
<1>2. CASE Validates(n)
  <2>1. /\ status' = status /\ StepsLeft(n) = 3 /\ stage[n] < Stages /\ stage'[n] = stage[n] + 1
        /\ \A k \in Instances \ {n} : stage'[k] = stage[k]
    BY <1>0, <1>2 DEF Validates, StepsLeft
  <2>2. \A k \in Instances : StepsLeft(k)' = StepsLeft(k)
    BY <2>1 DEF StepsLeft
  <2>3. QED
    BY <1>0, <2>1, <2>2 DEF ChangesLeft
<1>3. QED
  BY <1>1, <1>2

LEMMA ChangeStarves ==
  ASSUME TypeOK, Starved, UpdateChanges
  PROVE  Starved'
<1>0. PICK n \in Instances : n = next
  BY OrderAssumption DEF UpdateChanges, TypeOK
<1>1. /\ n \in Instances /\ n \in Nat
      /\ (LifecycleStep(n) /\ UNCHANGED stage) \/ Validates(n)
      /\ skipped' = [j \in Instances |-> IF j <= n THEN 0 ELSE skipped[j] + 1]
  BY <1>0, OrderAssumption DEF UpdateChanges, TypeOK
<1>2. /\ \A k \in Instances \ {n} : ChangesLeft(k)' = ChangesLeft(k)
      /\ ChangesLeft(n)' \in Nat /\ ChangesLeft(n) \in 1..4 + Stages
      /\ ChangesLeft(n)' < ChangesLeft(n)
  BY <1>1, ChangeIsPaid
<1>3. ASSUME NEW i \in Instances
      PROVE  skipped'[i] + Cardinality(Budget(i))' <= (i - 1) * (4 + Stages)
  <2> DEFINE left == [k \in 1..i - 1 |-> ChangesLeft(k)']
             B == {p \in Before(i) : p[2] <= left[p[1]]}
  <2>1. B = Budget(i)'
    BY DEF Budget, Before
  <2>2. B \in SUBSET Before(i) /\ Budget(i) \in SUBSET Before(i)
    BY DEF Budget
  <2>3. CASE i <= n
    <3>1. skipped'[i] = 0
      BY <1>1, <2>3
    <3> HIDE DEF B
    <3>2. QED
      BY <2>1, <2>2, <3>1, BudgetBounded
  <2>4. CASE ~(i <= n)
    <3>1. /\ i \in Nat /\ n \in 1..i - 1 /\ 1..i - 1 \subseteq Instances
          /\ Stages \in Nat /\ skipped'[i] = skipped[i] + 1 /\ skipped[i] \in Nat
      BY <1>1, <2>4, OrderAssumption, OptionAssumption DEF TypeOK
    <3>2. B \subseteq Budget(i)
      <4> SUFFICES ASSUME NEW k \in 1..i - 1, NEW c \in 1..4 + Stages, c <= ChangesLeft(k)'
                   PROVE  c <= ChangesLeft(k)
        BY DEF Budget, Before
      <4>1. CASE k = n
        BY <1>2, <3>1, <4>1
      <4>2. CASE k # n
        BY <1>2, <3>1, <4>2
      <4>3. QED
        BY <4>1, <4>2
    <3>3. <<n, ChangesLeft(n)>> \in Budget(i) /\ <<n, ChangesLeft(n)>> \notin B
      <4>1. <<n, ChangesLeft(n)>> \in Budget(i)
        BY <1>2, <3>1 DEF Budget, Before
      <4>2. left[n] = ChangesLeft(n)'
        BY <3>1
      <4>3. ~(ChangesLeft(n) <= left[n])
        BY <1>2, <4>2
      <4>4. QED
        BY <4>1, <4>3
    <3> HIDE DEF B
    <3>4. IsFiniteSet(Budget(i)) /\ Cardinality(Budget(i)) \in Nat /\ Cardinality(B) \in Nat
      BY <2>2, BudgetBounded
    <3>5. Cardinality(B) < Cardinality(Budget(i))
      BY <3>2, <3>3, <3>4, FS_Subset
    <3>6. skipped[i] + Cardinality(Budget(i)) <= (i - 1) * (4 + Stages) /\ (i - 1) * (4 + Stages) \in Nat
      BY <2>2, BudgetBounded DEF Starved
    <3>7. skipped[i] + 1 + Cardinality(B) <= (i - 1) * (4 + Stages)
      BY <3>1, <3>4, <3>5, <3>6
    <3>8. QED
      BY <2>1, <3>1, <3>7
  <2>5. QED
    BY <2>3, <2>4
<1>4. QED
  BY <1>3 DEF Starved

LEMMA StarvedStep ==
  ASSUME TypeOK, Starved, [Next]_vars
  PROVE  Starved'
<1>1. CASE UpdateChanges
  BY <1>1, ChangeStarves
<1>2. CASE UpdateKeeps
  <2>1. /\ status' = status /\ stage' = stage
        /\ \A i \in Instances : skipped'[i] = skipped[i] \/ skipped'[i] = 0
    BY <1>2 DEF UpdateKeeps, TypeOK
  <2>2. QED
    BY <2>1, StarvedKept
<1>3. CASE Prepare \/ NextRun \/ Restart
  <2>1. \/ skipped' = [i \in Instances |-> 0]
        \/ UNCHANGED <<status, stage, skipped>>
    BY <1>3 DEF Prepare, NextRun, Restart, ResetInstances
  <2>2. CASE skipped' = [i \in Instances |-> 0]
    BY <2>2, NotStarved
  <2>3. CASE UNCHANGED <<status, stage, skipped>>
    BY <2>3, StarvedKept
  <2>4. QED
    BY <2>1, <2>2, <2>3
<1>4. CASE \/ Poll \/ PollRaisesOut \/ Sleep \/ Report \/ StopOnFailure \/ ExitOnSuccess
           \/ UNCHANGED vars
  <2>1. UNCHANGED <<status, stage, skipped>>
    BY <1>4 DEF Poll, PollRaisesOut, Sleep, Report, StopOnFailure, ExitOnSuccess, vars
  <2>2. QED
    BY <2>1, StarvedKept
<1>5. QED
  BY <1>1, <1>2, <1>3, <1>4 DEF Next

\* A network behind others that change misses at most as many ticks of a run as those
\* before it have changes to make, for any number of networks and of validation
\* messages: every tick it missed was paid for by one of their changes (any() in main).
THEOREM StarvationIsBounded == Spec => []BoundedStarvation
<1>1. Init => Starved
  <2> SUFFICES ASSUME Init PROVE Starved
    OBVIOUS
  <2>1. ASSUME NEW i \in Instances
        PROVE  skipped[i] + Cardinality(Budget(i)) <= (i - 1) * (4 + Stages)
    <3>1. Budget(i) \in SUBSET Before(i) /\ skipped[i] = 0
      BY DEF Budget, Init
    <3>2. QED
      BY <3>1, BudgetBounded
  <2>2. QED
    BY <2>1 DEF Starved
<1>2. TypeOK /\ NumbersFollowRuns /\ Starved /\ [Next]_vars => Starved'
  BY StarvedStep
<1>3. TypeOK /\ Starved => BoundedStarvation
  <2> SUFFICES ASSUME TypeOK, Starved, NEW i \in Instances
               PROVE  skipped[i] <= (i - 1) * (4 + Stages)
    BY DEF BoundedStarvation
  <2>1. Budget(i) \in SUBSET Before(i) /\ skipped[i] \in Nat
    BY DEF Budget, TypeOK
  <2>2. Cardinality(Budget(i)) \in Nat /\ (i - 1) * (4 + Stages) \in Nat
    BY <2>1, BudgetBounded
  <2>3. skipped[i] + Cardinality(Budget(i)) <= (i - 1) * (4 + Stages)
    BY DEF Starved
  <2>4. QED
    BY <2>1, <2>2, <2>3
<1>4. QED
  BY <1>1, <1>2, <1>3, TypeCorrect, PTL DEF Spec
=============================================================================
