-------------------------- MODULE SyncInstanceProofs --------------------------
(***************************************************************************)
(* Proofs about SyncInstance, for every set of networks, every length of   *)
(* the timeouts and every chain.                                           *)
(***************************************************************************)
EXTENDS SyncInstance, TLAPS

\* An age is a number between Unset and MaxAge, and stays one when time passes.
LEMMA OlderAge ==
  ASSUME NEW a \in Age
  PROVE  /\ Older(a) \in Age
         /\ a = Unset <=> Older(a) = Unset
         /\ a <= Older(a)
BY TimeoutAssumption DEF Older, Age, Unset

\* Aging two timers keeps their order, and the difference between two running
\* timers never grows (saturation can only shrink it).
LEMMA OlderMonotone ==
  ASSUME NEW a \in Age, NEW b \in Age, a <= b, a # Unset
  PROVE  /\ Older(a) <= Older(b)
         /\ Older(b) - Older(a) <= b - a
BY TimeoutAssumption DEF Older, Age, Unset

\* A handler changes at most the record of its own network, and node not at all.
LEMMA FreshIsInstance == Fresh \in Instance
BY TimeoutAssumption, ChainAssumption
   DEF Fresh, Instance, Status, Error, Age, Unset, Complete

LEMMA DetectedIsInstance ==
  ASSUME NEW n \in Node
  PROVE  Detected(n) \subseteq Instance
<1>1. Fresh \in Instance
  BY FreshIsInstance
<1>2. 0..MaxAge \subseteq Age /\ 0 \in Age
  BY TimeoutAssumption DEF Age, Unset
<1>3. n.head \in 0..MaxBlock /\ 0 \in 0..MaxBlock
  BY ChainAssumption DEF Node
<1>4. \A a \in 0..MaxAge : Started(a) \in Instance
  BY <1>1, <1>2 DEF Started, Instance
<1>5. \A a \in 0..MaxAge : Syncing(a) \in Instance
  BY <1>4 DEF Syncing, Instance, Status
<1>6. \A a \in 0..MaxAge : Processing(a, n.head) \in Instance /\ Processing(a, 0) \in Instance
  BY <1>2, <1>3, <1>4 DEF Processing, Instance, Status
<1>7. QED
  BY <1>1, <1>4, <1>5, <1>6 DEF Detected

\* The records a handler computes are instances, with the fields it assigned.
LEMMA HandlersTyped ==
  ASSUME TypeOK, NEW i \in Instances, NEW block \in BlockNumber(i) \ {None}
  PROVE  /\ block = node[i].head /\ block \in 0..MaxBlock
         /\ Heard(i) \in Instance
         /\ Watch(Heard(i), block) \in Instance
         /\ Advanced(i, block) \in Instance
         /\ Heard(i).status = inst[i].status
         /\ Advanced(i, block).status = inst[i].status
<1>1. inst[i] \in Instance /\ node[i] \in Node
  BY DEF TypeOK
<1>2. 0 \in Age /\ Unset \in Age
  BY TimeoutAssumption DEF Age, Unset
<1>3. block = node[i].head /\ block \in 0..MaxBlock
  BY <1>1 DEF BlockNumber, Node
<1>4. Heard(i) \in Instance /\ Heard(i).status = inst[i].status
  BY <1>1, <1>2 DEF Heard, Instance
<1>5. Watch(Heard(i), block) \in Instance
  BY <1>2, <1>3, <1>4 DEF Watch, Instance
<1>6. Advanced(i, block) \in Instance /\ Advanced(i, block).status = inst[i].status
  BY <1>2, <1>3, <1>4 DEF Advanced, Instance
<1>7. QED
  BY <1>3, <1>4, <1>5, <1>6

\* Every record a handler may store is an Instance.
LEMMA UpdateTyped ==
  ASSUME TypeOK, NEW i \in Instances, update_instance(i)
  PROVE  TypeOK'
<1> USE TimeoutAssumption, ChainAssumption
<1>1. inst[i] \in Instance /\ node[i] \in Node
  BY DEF TypeOK
<1>2. 0 \in Age /\ Unset \in Age
  BY DEF Age, Unset
<1>3. ASSUME NEW r \in Instance, Set(i, r)
      PROVE  inst' \in [Instances -> Instance]
  BY <1>3 DEF Set, TypeOK
<1>4. CASE NoAnswer(i)
  <2>1. [inst[i] EXCEPT !.failure_age = 0] \in Instance
    BY <1>1, <1>2 DEF Instance
  <2>2. \A why \in Reasons(i) : [inst[i] EXCEPT !.status = "failed", !.error = why] \in Instance
    BY <1>1 DEF Instance, Reasons, Status, Error
  <2>3. inst' \in [Instances -> Instance]
    BY <1>3, <1>4, <2>1, <2>2 DEF NoAnswer
  <2>4. QED
    BY <1>4, <2>3 DEF NoAnswer, update_instance, TypeOK
<1>5. ASSUME NEW block \in BlockNumber(i) \ {None},
             AnswerWaiting(i) \/ AnswerSyncing(i, block)
               \/ AnswerSynced(i, block) \/ AnswerProcessing(i, block)
      PROVE  TypeOK'
  <2>2. Heard(i) \in Instance
    BY HandlersTyped
  <2>3. Watch(Heard(i), block) \in Instance
    BY HandlersTyped
  <2>4. Advanced(i, block) \in Instance
    BY HandlersTyped
  <2>5. base' \in [Instances -> 0..MaxBlock]
    <3>1. node[i].head \in 0..MaxBlock
      BY <1>1 DEF Node
    <3>2. QED
      BY <1>5, <3>1 DEF AnswerWaiting, AnswerSyncing, AnswerSynced, AnswerProcessing, TypeOK
  <2>6. CASE AnswerWaiting(i)
    <3>1. [Heard(i) EXCEPT !.status = "syncing", !.start_age = IF @ = Unset THEN 0 ELSE @] \in Instance
      BY <2>2, <1>2 DEF Instance, Status
    <3>2. QED
      BY <1>3, <2>5, <2>6, <3>1 DEF AnswerWaiting, update_instance, TypeOK
  <2>7. CASE AnswerSyncing(i, block)
    <3>1. [Heard(i) EXCEPT !.status = "failed", !.error = "sync_timeout"] \in Instance
      BY <2>2 DEF Instance, Status, Error
    <3>2. \A message \in ValidationProgress(i) :
            [Heard(i) EXCEPT !.validation_status = message] \in Instance
      BY <2>2, <1>1 DEF Instance, ValidationProgress, Node, Complete
    <3>3. [Watch(Heard(i), block) EXCEPT !.status = "synced"] \in Instance
      BY <2>3 DEF Instance, Status
    <3>4. inst' \in [Instances -> Instance]
      BY <1>3, <2>2, <2>7, <3>1, <3>2, <3>3 DEF AnswerSyncing
    <3>5. QED
      BY <2>5, <3>4 DEF update_instance, TypeOK
  <2>8. CASE AnswerSynced(i, block)
    <3>1. [Watch(Heard(i), block) EXCEPT !.status = "block_processing"] \in Instance
      BY <2>3 DEF Instance, Status
    <3>2. QED
      BY <1>3, <2>5, <2>8, <3>1 DEF AnswerSynced, update_instance, TypeOK
  <2>9. CASE AnswerProcessing(i, block)
    <3>1. [Heard(i) EXCEPT !.status = "failed", !.error = "stalled"] \in Instance
      BY <2>2 DEF Instance, Status, Error
    <3>2. [Advanced(i, block) EXCEPT !.status = "success",
             !.validation_status = IF @ = 0 THEN 0 ELSE Complete] \in Instance
      <4>1. 0 \in 0..Complete /\ Complete \in 0..Complete
        BY DEF Complete
      <4>2. QED
        BY <2>4, <4>1 DEF Instance, Status
    <3>3. [Advanced(i, block) EXCEPT !.status = "failed", !.error = "no_progress"] \in Instance
      BY <2>4 DEF Instance, Status, Error
    <3>4. inst' \in [Instances -> Instance]
      BY <1>3, <2>4, <2>9, <3>1, <3>2, <3>3 DEF AnswerProcessing
    <3>5. QED
      BY <2>5, <3>4 DEF update_instance, TypeOK
  <2>10. QED
    BY <1>5, <2>6, <2>7, <2>8, <2>9
<1>6. QED
  BY <1>4, <1>5 DEF update_instance, Answer

LEMMA EnvironmentTyped ==
  ASSUME TypeOK, (\E i \in Instances : NodeStep(i)) \/ Tick \/ restart_containers
  PROVE  TypeOK'
<1> USE TimeoutAssumption, ChainAssumption
<1>1. CASE Tick
  <2>1. ASSUME NEW i \in Instances
        PROVE  [inst[i] EXCEPT !.start_age = Older(@), !.check_age = Older(@),
                  !.block_age = Older(@), !.failure_age = Older(@)] \in Instance
    BY OlderAge DEF TypeOK, Instance
  <2>2. QED
    BY <1>1, <2>1 DEF Tick, TypeOK
<1>2. CASE restart_containers
  <2>1. NewNode \in Node
    BY DEF NewNode, Node, Container
  <2>2. QED
    BY <1>2, <2>1, FreshIsInstance DEF restart_containers, reset_instance, TypeOK
<1>3. ASSUME NEW i \in Instances, NodeStep(i)
      PROVE  TypeOK'
  <2>1. node[i] \in Node
    BY DEF TypeOK
  <2>2. ASSUME NEW r \in Node, SetNode(i, r)
        PROVE  TypeOK'
    BY <2>2 DEF SetNode, TypeOK
  <2>3. /\ [node[i] EXCEPT !.up = TRUE] \in Node
        /\ [node[i] EXCEPT !.up = FALSE] \in Node
        /\ [node[i] EXCEPT !.synced = TRUE] \in Node
        /\ node[i].head < MaxBlock => [node[i] EXCEPT !.head = @ + 1] \in Node
        /\ node[i].stage < Stages => [node[i] EXCEPT !.stage = @ + 1] \in Node
        /\ \A bad \in BOOLEAN :
             [node[i] EXCEPT !.up = FALSE, !.container = "exited", !.invalid = bad] \in Node
    <3>1. [node[i] EXCEPT !.up = TRUE] \in Node
      BY <2>1 DEF Node
    <3>2. [node[i] EXCEPT !.up = FALSE] \in Node
      BY <2>1 DEF Node
    <3>3. [node[i] EXCEPT !.synced = TRUE] \in Node
      BY <2>1 DEF Node
    <3>4. node[i].head < MaxBlock => [node[i] EXCEPT !.head = @ + 1] \in Node
      BY <2>1 DEF Node
    <3>5. node[i].stage < Stages => [node[i] EXCEPT !.stage = @ + 1] \in Node
      BY <2>1 DEF Node
    <3>6. \A bad \in BOOLEAN :
            [node[i] EXCEPT !.up = FALSE, !.container = "exited", !.invalid = bad] \in Node
      BY <2>1 DEF Node, Container
    <3>7. QED
      BY <3>1, <3>2, <3>3, <3>4, <3>5, <3>6
  <2>4. QED
    BY <1>3, <2>2, <2>3
       DEF NodeStep, NodeUp, NodeDown, NodeSyncs, NodeBlock, NodeValidates, NodeExits
<1>4. QED
  BY <1>1, <1>2, <1>3

LEMMA InitTyped == Init => TypeOK
<1>1. SUFFICES ASSUME Init PROVE TypeOK
  OBVIOUS
<1>2. \A i \in Instances : node[i] \in Node
  BY <1>1 DEF Init
<1>3. inst \in [Instances -> Instance]
  BY <1>1, <1>2, DetectedIsInstance DEF Init
<1>4. QED
  BY <1>1, <1>2, <1>3 DEF Init, TypeOK, Node

\* The instances and the nodes always have their types, for every value of the
\* constants (update_instance, reset_instance, main).
THEOREM TypeCorrect == Spec => []TypeOK
<1>1. Init => TypeOK
  BY InitTyped
<1>2. TypeOK /\ [Next]_vars => TypeOK'
  BY UpdateTyped, EnvironmentTyped DEF Next, vars, TypeOK
<1>3. QED
  BY <1>1, <1>2, PTL DEF Spec

-----------------------------------------------------------------------------
(* Refinement of InstanceLifecycle.                                        *)

LEMMA DetectedStatus ==
  ASSUME NEW n \in Node, NEW r \in Detected(n)
  PROVE  r.status \in {"waiting", "syncing", "block_processing"}
<1>1. Fresh.status = "waiting" /\ \A a : Started(a).status = "waiting"
  BY DEF Fresh, Started
<1>2. \A a : Syncing(a).status = "syncing"
  BY DEF Fresh, Started, Syncing
<1>3. \A a, b : Processing(a, b).status = "block_processing"
  BY DEF Fresh, Started, Processing
<1>4. QED
  BY <1>1, <1>2, <1>3 DEF Detected

LEMMA UpdateFollowsLifecycle ==
  ASSUME TypeOK, NEW i \in Instances, update_instance(i)
  PROVE  Lifecycle!LNext \/ UNCHANGED StatusOf
<1> USE DEF StatusOf
<1>1. ASSUME NEW r, Set(i, r)
      PROVE  StatusOf' = [StatusOf EXCEPT ![i] = r.status]
  BY <1>1 DEF Set, TypeOK
<1>2. ASSUME NEW r, Set(i, r), r.status = inst[i].status
      PROVE  UNCHANGED StatusOf
  BY <1>1, <1>2
<1>3. ASSUME NEW r, Set(i, r),
             \/ inst[i].status = "waiting" /\ r.status = "syncing"
             \/ inst[i].status = "syncing" /\ r.status = "synced"
             \/ inst[i].status = "synced" /\ r.status = "block_processing"
             \/ inst[i].status = "block_processing" /\ r.status = "success"
             \/ HeardOf(i) /\ r.status = "failed"
      PROVE  Lifecycle!LNext
  <2>1. StatusOf[i] = inst[i].status /\ StatusOf' = [StatusOf EXCEPT ![i] = r.status]
    BY <1>1, <1>3
  <2>2. Lifecycle!LifecycleStep(i)
    BY <1>3, <2>1
       DEF Lifecycle!LifecycleStep, Lifecycle!FirstAnswer, Lifecycle!SyncCompleted,
           Lifecycle!StartProcessing, Lifecycle!Succeed, Lifecycle!Fail, Lifecycle!Move,
           Lifecycle!Active, HeardOf
  <2>3. QED
    BY <2>2 DEF Lifecycle!LNext
<1>4. inst[i] \in Instance
  BY DEF TypeOK
<1>5. Heard(i).status = inst[i].status
  BY <1>4 DEF Heard, Instance
<1>6. CASE NoAnswer(i)
  <2>1. [inst[i] EXCEPT !.failure_age = 0].status = inst[i].status
    BY <1>4 DEF Instance
  <2>2. \A why : [inst[i] EXCEPT !.status = "failed", !.error = why].status = "failed"
    BY <1>4 DEF Instance
  <2>3. CASE Set(i, [inst[i] EXCEPT !.failure_age = 0])
    BY <1>2, <2>1, <2>3
  <2>4. ASSUME NEW why, Set(i, [inst[i] EXCEPT !.status = "failed", !.error = why])
        PROVE  Lifecycle!LNext
    <3>1. HeardOf(i)
      BY <1>6 DEF NoAnswer
    <3>2. QED
      BY <1>3, <2>2, <2>4, <3>1
  <2>5. QED
    BY <1>6, <2>3, <2>4 DEF NoAnswer
<1>7. ASSUME NEW block \in BlockNumber(i) \ {None},
             AnswerWaiting(i) \/ AnswerSyncing(i, block)
               \/ AnswerSynced(i, block) \/ AnswerProcessing(i, block)
      PROVE  Lifecycle!LNext \/ UNCHANGED StatusOf
  <2>1. /\ Heard(i) \in Instance /\ Watch(Heard(i), block) \in Instance
        /\ Advanced(i, block) \in Instance
        /\ Heard(i).status = inst[i].status /\ Advanced(i, block).status = inst[i].status
    BY HandlersTyped
  <2>2. CASE AnswerWaiting(i)
    <3>1. [Heard(i) EXCEPT !.status = "syncing",
                           !.start_age = IF @ = Unset THEN 0 ELSE @].status = "syncing"
      BY <2>1 DEF Instance
    <3>2. QED
      BY <1>3, <2>2, <3>1 DEF AnswerWaiting
  <2>3. CASE AnswerSyncing(i, block)
    <3>1. [Heard(i) EXCEPT !.status = "failed", !.error = "sync_timeout"].status = "failed"
      BY <2>1 DEF Instance
    <3>2. \A message : [Heard(i) EXCEPT !.validation_status = message].status = inst[i].status
      BY <2>1 DEF Instance
    <3>3. [Watch(Heard(i), block) EXCEPT !.status = "synced"].status = "synced"
      BY <2>1 DEF Instance
    <3>4. inst[i].status = "syncing" /\ HeardOf(i)
      BY <2>3 DEF AnswerSyncing, HeardOf
    <3>5. CASE Set(i, [Heard(i) EXCEPT !.status = "failed", !.error = "sync_timeout"])
      BY <1>3, <3>1, <3>4, <3>5
    <3>6. ASSUME NEW message, Set(i, [Heard(i) EXCEPT !.validation_status = message])
          PROVE  UNCHANGED StatusOf
      BY <1>2, <3>2, <3>6
    <3>7. CASE Set(i, [Watch(Heard(i), block) EXCEPT !.status = "synced"])
      BY <1>3, <3>3, <3>4, <3>7
    <3>8. CASE Set(i, Heard(i))
      BY <1>2, <2>1, <3>8
    <3>9. QED
      BY <2>3, <3>5, <3>6, <3>7, <3>8 DEF AnswerSyncing
  <2>4. CASE AnswerSynced(i, block)
    <3>1. [Watch(Heard(i), block) EXCEPT !.status = "block_processing"].status = "block_processing"
      BY <2>1 DEF Instance
    <3>2. QED
      BY <1>3, <2>4, <3>1 DEF AnswerSynced
  <2>5. CASE AnswerProcessing(i, block)
    <3>1. [Heard(i) EXCEPT !.status = "failed", !.error = "stalled"].status = "failed"
      BY <2>1 DEF Instance
    <3>2. [Advanced(i, block) EXCEPT !.status = "success",
             !.validation_status = IF @ = 0 THEN 0 ELSE Complete].status = "success"
      BY <2>1 DEF Instance
    <3>3. [Advanced(i, block) EXCEPT !.status = "failed", !.error = "no_progress"].status = "failed"
      BY <2>1 DEF Instance
    <3>4. inst[i].status = "block_processing" /\ HeardOf(i)
      BY <2>5 DEF AnswerProcessing, HeardOf
    <3>5. CASE Set(i, [Heard(i) EXCEPT !.status = "failed", !.error = "stalled"])
      BY <1>3, <3>1, <3>4, <3>5
    <3>6. CASE Set(i, Advanced(i, block))
      BY <1>2, <2>1, <3>6
    <3>7. CASE Set(i, [Advanced(i, block) EXCEPT !.status = "success",
                         !.validation_status = IF @ = 0 THEN 0 ELSE Complete])
      BY <1>3, <3>2, <3>4, <3>7
    <3>8. CASE Set(i, [Advanced(i, block) EXCEPT !.status = "failed", !.error = "no_progress"])
      BY <1>3, <3>3, <3>4, <3>8
    <3>9. QED
      BY <2>5, <3>5, <3>6, <3>7, <3>8 DEF AnswerProcessing
  <2>6. QED
    BY <1>7, <2>2, <2>3, <2>4, <2>5
<1>8. QED
  BY <1>6, <1>7 DEF update_instance, Answer

\* The detailed monitor implements the abstract lifecycle: whatever the nodes
\* answer and however slowly, update_instance moves a network only along the
\* lifecycle, and only a fleet that succeeded everywhere is reset.
THEOREM Refinement == Spec => ImplementsLifecycle
<1>1. Init => Lifecycle!LInit
  <2>1. ASSUME Init PROVE StatusOf \in [Instances -> {"waiting", "syncing", "block_processing"}]
    BY <2>1, DetectedStatus DEF Init, StatusOf
  <2>2. QED
    BY <2>1 DEF Lifecycle!LInit
<1>2. TypeOK /\ [Next]_vars => [Lifecycle!LNext]_StatusOf
  <2>1. ASSUME TypeOK, restart_containers PROVE Lifecycle!LNext
    <3>1. StatusOf' = [i \in Instances |-> "waiting"]
      BY <2>1 DEF restart_containers, reset_instance, Fresh, StatusOf
    <3>2. \A i \in Instances : StatusOf[i] = "success"
      BY <2>1 DEF restart_containers, StatusOf
    <3>3. QED
      BY <3>1, <3>2 DEF Lifecycle!LNext, Lifecycle!ResetAll, Lifecycle!AllSucceeded
  <2>2. ASSUME TypeOK, Tick PROVE UNCHANGED StatusOf
    <3>1. \A i \in Instances : inst'[i].status = inst[i].status
      BY <2>2 DEF Tick, TypeOK, Instance
    <3>2. QED
      BY <3>1 DEF StatusOf
  <2>3. ASSUME TypeOK, NEW i \in Instances, NodeStep(i) PROVE UNCHANGED StatusOf
    BY <2>3 DEF NodeStep, NodeUp, NodeDown, NodeSyncs, NodeBlock, NodeValidates, NodeExits, SetNode, StatusOf
  <2>4. ASSUME UNCHANGED vars PROVE UNCHANGED StatusOf
    BY <2>4 DEF vars, StatusOf
  <2>5. QED
    BY <2>1, <2>2, <2>3, <2>4, UpdateFollowsLifecycle DEF Next
<1>3. QED
  BY <1>1, <1>2, TypeCorrect, PTL DEF Spec, ImplementsLifecycle, Lifecycle!LSpec

-----------------------------------------------------------------------------
(* Timers, reported blocks and progress.                                   *)
(*                                                                         *)
(* That a success means progress is not inductive.  What makes it true is  *)
(* the age of the last block: Sound(r, h, b) relates the record r of a     *)
(* network to the head h of its node and to the head b it had when the     *)
(* watch began.  The watch starts at b, or at 0 when the number was not    *)
(* read; in the second case either no block was seen yet and both timers   *)
(* have the same age, or the first look was at b, less than a stall        *)
(* timeout after the start of the watch.                                   *)

Watched(r) == r.status \in {"synced", "block_processing"}

WatchedFrom(r, b) ==
  \/ r.initial_block = b
  \/ /\ r.initial_block = 0 /\ r.last_block = 0 /\ r.block_age = r.check_age
  \/ /\ r.initial_block = 0 /\ b <= r.last_block
     /\ r.last_block = b => r.check_age - r.block_age <= BlockStallTimeout

Sound(r, h, b) ==
  /\ b <= h /\ r.initial_block <= r.last_block /\ r.last_block <= h
  /\ r.status # "waiting" => r.start_age # Unset
  /\ Watched(r) => /\ r.block_age # Unset
                   /\ r.block_age <= r.check_age
                   /\ r.check_age <= r.start_age
                   /\ WatchedFrom(r, b)

IInv == TypeOK /\ \A i \in Instances : Sound(inst[i], node[i].head, base[i])

LEMMA DetectedSound ==
  ASSUME NEW n \in Node, NEW r \in Detected(n)
  PROVE  Sound(r, n.head, n.head)
<1> USE TimeoutAssumption, ChainAssumption DEF Sound, Watched, WatchedFrom, Unset
<1>1. n.head \in 0..MaxBlock
  BY DEF Node
<1>2. Sound(Fresh, n.head, n.head)
  BY <1>1 DEF Fresh
<1>3. \A a \in 0..MaxAge : Sound(Started(a), n.head, n.head)
  BY <1>1 DEF Fresh, Started
<1>4. \A a \in 0..MaxAge : Sound(Syncing(a), n.head, n.head)
  BY <1>1 DEF Fresh, Started, Syncing
<1>5. \A a \in 0..MaxAge : \A b \in {0, n.head} : Sound(Processing(a, b), n.head, n.head)
  BY <1>1 DEF Fresh, Started, Processing
<1>6. QED
  BY <1>2, <1>3, <1>4, <1>5 DEF Detected

\* Time and the nodes: the timers keep their order, heads only grow.
LEMMA TickSound ==
  ASSUME NEW r \in Instance, NEW h \in 0..MaxBlock, NEW b \in 0..MaxBlock, Sound(r, h, b)
  PROVE  Sound([r EXCEPT !.start_age = Older(@), !.check_age = Older(@),
                         !.block_age = Older(@), !.failure_age = Older(@)], h, b)
<1> DEFINE q == [r EXCEPT !.start_age = Older(@), !.check_age = Older(@),
                          !.block_age = Older(@), !.failure_age = Older(@)]
<1>1. /\ r.start_age \in Age /\ r.check_age \in Age /\ r.block_age \in Age
      /\ r.last_block \in 0..MaxBlock /\ r.initial_block \in 0..MaxBlock
  BY DEF Instance
<1>2. /\ q.status = r.status /\ q.last_block = r.last_block
      /\ q.initial_block = r.initial_block
      /\ q.start_age = Older(r.start_age) /\ q.check_age = Older(r.check_age)
      /\ q.block_age = Older(r.block_age)
  BY DEF Instance
<1>3. r.start_age # Unset => q.start_age # Unset
  BY <1>1, <1>2, OlderAge
<1>4. ASSUME Watched(r)
      PROVE  /\ q.block_age # Unset
             /\ q.block_age <= q.check_age /\ q.check_age <= q.start_age
             /\ r.block_age = r.check_age => q.block_age = q.check_age
             /\ q.check_age - q.block_age <= r.check_age - r.block_age
  <2>1. /\ r.block_age # Unset /\ r.block_age <= r.check_age /\ r.check_age <= r.start_age
        /\ r.check_age # Unset
    BY <1>4, <1>1 DEF Sound, Age, Unset
  <2>2. QED
    BY <1>1, <1>2, <2>1, OlderAge, OlderMonotone
<1>5. q.block_age \in Int /\ q.check_age \in Int /\ r.block_age \in Int /\ r.check_age \in Int
  BY <1>1, <1>2, OlderAge, TimeoutAssumption DEF Age, Unset
<1>6. Watched(r) => WatchedFrom(q, b)
  BY <1>2, <1>4, <1>5, TimeoutAssumption DEF Sound, WatchedFrom
<1>7. QED
  BY <1>2, <1>3, <1>4, <1>6 DEF Sound, Watched

LEMMA HeadSound ==
  ASSUME NEW r \in Instance, NEW h \in 0..MaxBlock, NEW k \in 0..MaxBlock,
         NEW b \in 0..MaxBlock, Sound(r, h, b), h <= k
  PROVE  Sound(r, k, b)
BY ChainAssumption DEF Sound, Instance

\* What update_instance leaves behind: the record of its network, still sound.
LEMMA UpdateSound ==
  ASSUME IInv, NEW i \in Instances, update_instance(i)
  PROVE  /\ Sound(inst'[i], node[i].head, base'[i])
         /\ \A j \in Instances \ {i} : inst'[j] = inst[j] /\ base'[j] = base[j]
<1> USE TimeoutAssumption, ChainAssumption
<1> DEFINE r == inst[i]
           h == node[i].head
           b == base[i]
<1>1. /\ TypeOK /\ r \in Instance /\ h \in 0..MaxBlock /\ b \in 0..MaxBlock /\ Sound(r, h, b)
  BY DEF IInv, TypeOK, Node
<1>2. ASSUME NEW x, Set(i, x)
      PROVE  inst'[i] = x /\ \A j \in Instances \ {i} : inst'[j] = inst[j]
  BY <1>1, <1>2 DEF Set, TypeOK
<1>3. ASSUME NEW x, Set(i, x), Sound(x, h, b), UNCHANGED base
      PROVE  /\ Sound(inst'[i], h, base'[i])
             /\ \A j \in Instances \ {i} : inst'[j] = inst[j] /\ base'[j] = base[j]
  BY <1>2, <1>3
\* A record that only loses its place in the lifecycle stays sound.
<1>4. ASSUME NEW q, NEW st, st \in {"failed", "success"}, q.status = st,
             q.start_age = r.start_age, r.status # "waiting",
             q.initial_block = r.initial_block, q.last_block \in 0..MaxBlock,
             r.last_block <= q.last_block, q.last_block <= h
      PROVE  Sound(q, h, b)
  BY <1>1, <1>4 DEF Sound, Watched, Instance
<1>5. CASE NoAnswer(i)
  <2>1. Sound([r EXCEPT !.failure_age = 0], h, b)
    BY <1>1 DEF Sound, Watched, WatchedFrom, Instance
  <2>2. CASE Set(i, [r EXCEPT !.failure_age = 0]) /\ UNCHANGED base
    BY <1>3, <2>1, <2>2
  <2>3. ASSUME NEW why, Set(i, [r EXCEPT !.status = "failed", !.error = why]), UNCHANGED base
        PROVE  /\ Sound(inst'[i], h, base'[i])
               /\ \A j \in Instances \ {i} : inst'[j] = inst[j] /\ base'[j] = base[j]
    <3>1. Sound([r EXCEPT !.status = "failed", !.error = why], h, b)
      BY <1>1, <1>5 DEF Sound, Watched, Instance, NoAnswer, HeardOf
    <3>2. QED
      BY <1>3, <2>3, <3>1
  <2>4. QED
    BY <1>5, <2>2, <2>3 DEF NoAnswer
<1>6. ASSUME NEW block \in BlockNumber(i) \ {None},
             AnswerWaiting(i) \/ AnswerSyncing(i, block)
               \/ AnswerSynced(i, block) \/ AnswerProcessing(i, block)
      PROVE  /\ Sound(inst'[i], h, base'[i])
             /\ \A j \in Instances \ {i} : inst'[j] = inst[j] /\ base'[j] = base[j]
  <2> DEFINE m == Heard(i)
             w == Watch(m, block)
             a == Advanced(i, block)
  <2>1. /\ block = h /\ m \in Instance /\ w \in Instance /\ a \in Instance
        /\ m.status = r.status /\ a.status = r.status
    BY <1>1, HandlersTyped
  <2>2. /\ m.start_age = r.start_age /\ m.check_age = r.check_age /\ m.block_age = r.block_age
        /\ m.last_block = r.last_block /\ m.initial_block = r.initial_block
    BY <1>1 DEF Heard, Instance
  <2>3. Sound(m, h, b)
    BY <1>1, <2>1, <2>2 DEF Sound, Watched, WatchedFrom
  <2>4. /\ w.start_age = r.start_age /\ w.check_age = 0 /\ w.block_age = 0
        /\ w.last_block = h /\ w.initial_block = h
    BY <2>1, <2>2 DEF Watch, Instance
  \* The watch starts: the base is the head, and so is the initial block.
  <2>5. ASSUME NEW q, q.start_age = w.start_age, q.check_age = w.check_age,
               q.block_age = w.block_age, q.last_block = w.last_block,
               q.initial_block = w.initial_block, r.status # "waiting"
        PROVE  Sound(q, h, h)
    BY <1>1, <2>4, <2>5 DEF Sound, Watched, WatchedFrom, Instance, Age, Unset
  <2>6. CASE AnswerWaiting(i)
    <3> DEFINE q == [m EXCEPT !.status = "syncing", !.start_age = IF @ = Unset THEN 0 ELSE @]
    <3>1. /\ q.status = "syncing" /\ q.start_age # Unset
          /\ q.last_block = m.last_block /\ q.initial_block = m.initial_block
      BY <2>1 DEF Instance, Unset
    <3>2. Sound(q, h, b)
      BY <2>3, <3>1 DEF Sound, Watched
    <3>3. QED
      BY <1>3, <2>6, <3>2 DEF AnswerWaiting
  <2>7. CASE AnswerSyncing(i, block)
    <3>1. CASE Set(i, [m EXCEPT !.status = "failed", !.error = "sync_timeout"]) /\ UNCHANGED base
      <4>1. Sound([m EXCEPT !.status = "failed", !.error = "sync_timeout"], h, b)
        BY <2>1, <2>3, <2>7 DEF Sound, Watched, Instance, AnswerSyncing
      <4>2. QED
        BY <1>3, <3>1, <4>1
    <3>2. ASSUME NEW message, Set(i, [m EXCEPT !.validation_status = message]), UNCHANGED base
          PROVE  /\ Sound(inst'[i], h, base'[i])
                 /\ \A j \in Instances \ {i} : inst'[j] = inst[j] /\ base'[j] = base[j]
      <4>1. Sound([m EXCEPT !.validation_status = message], h, b)
        BY <2>1, <2>3, <2>7 DEF Sound, Watched, Instance, AnswerSyncing
      <4>2. QED
        BY <1>3, <3>2, <4>1
    <3>3. CASE Set(i, [w EXCEPT !.status = "synced"]) /\ base' = [base EXCEPT ![i] = h]
      <4>1. Sound([w EXCEPT !.status = "synced"], h, h)
        BY <2>1, <2>5, <2>7 DEF Instance, AnswerSyncing
      <4>2. base'[i] = h /\ \A j \in Instances \ {i} : base'[j] = base[j]
        BY <1>1, <3>3 DEF TypeOK
      <4>3. QED
        BY <1>2, <3>3, <4>1, <4>2
    <3>4. CASE Set(i, m) /\ UNCHANGED base
      BY <1>3, <2>3, <3>4
    <3>5. QED
      BY <2>7, <3>1, <3>2, <3>3, <3>4 DEF AnswerSyncing
  <2>8. CASE AnswerSynced(i, block)
    <3>1. Sound([w EXCEPT !.status = "block_processing"], h, h)
      BY <2>1, <2>5, <2>8 DEF Instance, AnswerSynced
    <3>2. base'[i] = h /\ \A j \in Instances \ {i} : base'[j] = base[j]
      BY <1>1, <2>8 DEF TypeOK, AnswerSynced
    <3>3. QED
      BY <1>2, <2>8, <3>1, <3>2 DEF AnswerSynced
  <2>9. CASE AnswerProcessing(i, block)
    <3>1. r.status = "block_processing" /\ UNCHANGED base
      BY <2>9 DEF AnswerProcessing
    <3>2. /\ a.start_age = r.start_age /\ a.check_age = r.check_age
          /\ a.initial_block = r.initial_block
          /\ \/ h > r.last_block /\ a.last_block = h /\ a.block_age = 0
             \/ h <= r.last_block /\ a.last_block = r.last_block /\ a.block_age = r.block_age
      <4>1. r.last_block \in 0..MaxBlock
        BY <1>1 DEF Instance
      <4>2. CASE h > r.last_block
        <5>1. a = [m EXCEPT !.last_block = h, !.block_age = 0]
          BY <2>1, <4>2 DEF Advanced
        <5>2. QED
          BY <2>1, <2>2, <4>2, <5>1 DEF Instance
      <4>3. CASE h <= r.last_block
        <5>1. a = m
          BY <1>1, <2>1, <4>1, <4>3 DEF Advanced
        <5>2. QED
          BY <2>2, <4>3, <5>1
      <4>4. QED
        BY <1>1, <4>1, <4>2, <4>3
    <3>3. ~Stalled(i) => Sound(a, h, b)
      <4>1. CASE h <= r.last_block
        BY <1>1, <2>1, <3>1, <3>2, <4>1 DEF Sound, Watched, WatchedFrom, Instance
      <4>2. CASE h > r.last_block /\ ~Stalled(i)
        <5>1. r.block_age <= BlockStallTimeout
          BY <1>1, <4>2 DEF Stalled, Instance, Age, Unset
        <5>2. WatchedFrom(a, b)
          BY <1>1, <3>1, <3>2, <4>2, <5>1 DEF Sound, Watched, WatchedFrom, Instance, Age, Unset
        <5>3. QED
          BY <1>1, <2>1, <3>1, <3>2, <4>2, <5>2 DEF Sound, Watched, Instance, Age, Unset
      <4>3. QED
        BY <1>1, <4>1, <4>2 DEF Instance
    <3>4. r.last_block <= a.last_block /\ a.last_block <= h /\ a.last_block \in 0..MaxBlock
      BY <1>1, <2>1, <3>2 DEF Sound, Instance
    <3>5. CASE Set(i, [m EXCEPT !.status = "failed", !.error = "stalled"])
      <4>1. Sound([m EXCEPT !.status = "failed", !.error = "stalled"], h, b)
        BY <2>1, <2>3, <3>1 DEF Sound, Watched, Instance
      <4>2. QED
        BY <1>3, <3>1, <3>5, <4>1
    <3>6. CASE ~Stalled(i) /\ Set(i, a)
      BY <1>3, <3>1, <3>3, <3>6
    <3>7. CASE Set(i, [a EXCEPT !.status = "success",
                         !.validation_status = IF @ = 0 THEN 0 ELSE Complete])
      <4> DEFINE q == [a EXCEPT !.status = "success",
                        !.validation_status = IF @ = 0 THEN 0 ELSE Complete]
      <4>1. q.status = "success" /\ q.start_age = a.start_age
            /\ q.initial_block = a.initial_block /\ q.last_block = a.last_block
        BY <2>1 DEF Instance
      <4>2. Sound(q, h, b)
        BY <1>4, <3>1, <3>2, <3>4, <4>1
      <4>3. QED
        BY <1>3, <3>1, <3>7, <4>2
    <3>8. CASE Set(i, [a EXCEPT !.status = "failed", !.error = "no_progress"])
      <4> DEFINE q == [a EXCEPT !.status = "failed", !.error = "no_progress"]
      <4>1. q.status = "failed" /\ q.start_age = a.start_age
            /\ q.initial_block = a.initial_block /\ q.last_block = a.last_block
        BY <2>1 DEF Instance
      <4>2. Sound(q, h, b)
        BY <1>4, <3>1, <3>2, <3>4, <4>1
      <4>3. QED
        BY <1>3, <3>1, <3>8, <4>2
    <3>9. QED
      BY <2>9, <3>5, <3>6, <3>7, <3>8 DEF AnswerProcessing
  <2>10. QED
    BY <1>6, <2>6, <2>7, <2>8, <2>9
<1>7. QED
  BY <1>5, <1>6 DEF update_instance, Answer

\* The head of a node never moves back while its container lives.
LEMMA HeadsGrow ==
  ASSUME TypeOK, NEW i \in Instances, NEW j \in Instances, NodeStep(j)
  PROVE  node[i].head <= node'[i].head
<1>1. node \in [Instances -> Node] /\ node[j] \in Node /\ node[i].head \in 0..MaxBlock
  BY DEF TypeOK, Node
<1>2. ASSUME NEW x, SetNode(j, x),
             x.head = node[j].head \/ x.head = node[j].head + 1
      PROVE  node[i].head <= node'[i].head
  <2>1. node'[i].head = node[i].head \/ node'[i].head = node[i].head + 1
    BY <1>1, <1>2 DEF SetNode
  <2>2. QED
    BY <1>1, <2>1
<1>3. /\ [node[j] EXCEPT !.up = TRUE].head = node[j].head
      /\ [node[j] EXCEPT !.up = FALSE].head = node[j].head
      /\ [node[j] EXCEPT !.synced = TRUE].head = node[j].head
      /\ [node[j] EXCEPT !.head = @ + 1].head = node[j].head + 1
      /\ [node[j] EXCEPT !.stage = @ + 1].head = node[j].head
      /\ \A bad : [node[j] EXCEPT !.up = FALSE, !.container = "exited",
                                  !.invalid = bad].head = node[j].head
  BY <1>1 DEF Node
<1>4. CASE NodeExits(j)
  BY <1>2, <1>3, <1>4 DEF NodeExits
<1>5. QED
  BY <1>2, <1>3, <1>4 DEF NodeStep, NodeUp, NodeDown, NodeSyncs, NodeBlock, NodeValidates

\* The strengthened invariant holds, for every value of the constants.
LEMMA SoundAlways == Spec => []IInv
<1> USE TimeoutAssumption, ChainAssumption
<1>1. Init => IInv
  <2>1. ASSUME Init, TypeOK PROVE IInv
    BY <2>1, DetectedSound DEF Init, IInv, TypeOK
  <2>2. Init => TypeOK
    BY InitTyped
  <2>3. QED
    BY <2>1, <2>2
<1>2. IInv /\ TypeOK' /\ [Next]_vars => IInv'
  <2>1. SUFFICES ASSUME IInv, TypeOK', [Next]_vars, NEW i \in Instances
                 PROVE  Sound(inst'[i], node'[i].head, base'[i])
    BY DEF IInv
  <2>2. /\ inst[i] \in Instance /\ node[i].head \in 0..MaxBlock /\ base[i] \in 0..MaxBlock
        /\ Sound(inst[i], node[i].head, base[i])
    BY <2>1 DEF IInv, TypeOK, Node
  <2>3. ASSUME NEW j \in Instances, update_instance(j)
        PROVE  Sound(inst'[i], node'[i].head, base'[i])
    <3>1. node' = node
      BY <2>3 DEF update_instance
    <3>2. QED
      BY <2>1, <2>2, <2>3, <3>1, UpdateSound
  <2>4. CASE Tick
    <3>1. inst'[i] = [inst[i] EXCEPT !.start_age = Older(@), !.check_age = Older(@),
                        !.block_age = Older(@), !.failure_age = Older(@)]
      BY <2>4 DEF Tick
    <3>2. QED
      BY <2>2, <2>4, <3>1, TickSound DEF Tick
  <2>5. CASE restart_containers
    BY <2>5 DEF restart_containers, reset_instance, Fresh, NewNode, Sound, Watched
  <2>6. ASSUME NEW j \in Instances, NodeStep(j)
        PROVE  Sound(inst'[i], node'[i].head, base'[i])
    <3>1. inst' = inst /\ base' = base
      BY <2>6 DEF NodeStep, NodeUp, NodeDown, NodeSyncs, NodeBlock, NodeValidates, NodeExits, SetNode
    <3>2. node'[i].head \in 0..MaxBlock /\ node[i].head <= node'[i].head
      BY <2>1, <2>6, HeadsGrow DEF IInv, TypeOK, Node
    <3>3. QED
      BY <2>2, <3>1, <3>2, HeadSound
  <2>7. CASE UNCHANGED vars
    BY <2>2, <2>7 DEF vars
  <2>8. QED
    BY <2>1, <2>3, <2>4, <2>5, <2>6, <2>7 DEF Next
<1>3. QED
  BY <1>1, <1>2, TypeCorrect, PTL DEF Spec

\* The blocks an instance reports are its node's, and never fewer than none.
THEOREM ReportedBlocks == Spec => []ReportedBlocksAreReal
<1>1. IInv => ReportedBlocksAreReal
  BY DEF IInv, Sound, ReportedBlocksAreReal
<1>2. QED
  BY <1>1, SoundAlways, PTL

\* The timers of update_instance stay nested while blocks are watched.
THEOREM Timers == Spec => []TimersNested
<1>1. IInv => TimersNested
  BY DEF IInv, Sound, Watched, TimersNested
<1>2. QED
  BY <1>1, SoundAlways, PTL

\* The only way to success is the end of a watch that saw progress, and the
\* records before and after it are sound: when twice the stall timeout fits in
\* the watch, the second block cannot have been the base itself.
LEMMA SuccessStep ==
  ASSUME 2 * BlockStallTimeout <= BlockProcessingDuration,
         IInv, NEW i \in Instances, update_instance(i), inst'[i].status = "success"
  PROVE  node[i].head > base'[i]
<1> USE TimeoutAssumption, ChainAssumption
<1> DEFINE r == inst[i]
           h == node[i].head
           b == base[i]
<1>1. /\ TypeOK /\ r \in Instance /\ h \in 0..MaxBlock /\ b \in 0..MaxBlock /\ Sound(r, h, b)
  BY DEF IInv, TypeOK, Node
<1>2. ASSUME NEW x, Set(i, x)
      PROVE  x.status = "success"
  BY <1>1, <1>2 DEF Set, TypeOK
<1>3. ~NoAnswer(i)
  <2>1. SUFFICES ASSUME NoAnswer(i) PROVE FALSE
    OBVIOUS
  <2>2. [r EXCEPT !.failure_age = 0].status # "success"
    BY <1>1, <2>1 DEF NoAnswer, HeardOf, Instance
  <2>3. \A why : [r EXCEPT !.status = "failed", !.error = why].status = "failed"
    BY <1>1 DEF Instance
  <2>4. QED
    BY <1>2, <2>1, <2>2, <2>3 DEF NoAnswer
<1>4. PICK block \in BlockNumber(i) \ {None} :
        AnswerWaiting(i) \/ AnswerSyncing(i, block)
          \/ AnswerSynced(i, block) \/ AnswerProcessing(i, block)
  BY <1>3 DEF update_instance, Answer
<1> DEFINE m == Heard(i)
           w == Watch(m, block)
           a == Advanced(i, block)
<1>5. /\ block = h /\ m \in Instance /\ w \in Instance /\ a \in Instance
      /\ m.status = r.status /\ a.status = r.status
  BY <1>1, HandlersTyped
<1>6. ~AnswerWaiting(i)
  <2>1. [m EXCEPT !.status = "syncing",
                  !.start_age = IF @ = Unset THEN 0 ELSE @].status = "syncing"
    BY <1>5 DEF Instance
  <2>2. QED
    BY <1>2, <2>1 DEF AnswerWaiting
<1>7. ~AnswerSyncing(i, block)
  <2>1. [m EXCEPT !.status = "failed", !.error = "sync_timeout"].status = "failed"
    BY <1>5 DEF Instance
  <2>2. \A message : [m EXCEPT !.validation_status = message].status = r.status
    BY <1>5 DEF Instance
  <2>3. [w EXCEPT !.status = "synced"].status = "synced"
    BY <1>5 DEF Instance
  <2>4. SUFFICES ASSUME AnswerSyncing(i, block), r.status = "syncing" PROVE FALSE
    BY DEF AnswerSyncing
  <2>5. QED
    BY <1>2, <1>5, <2>1, <2>2, <2>3, <2>4 DEF AnswerSyncing
<1>8. ~AnswerSynced(i, block)
  <2>1. [w EXCEPT !.status = "block_processing"].status = "block_processing"
    BY <1>5 DEF Instance
  <2>2. QED
    BY <1>2, <2>1 DEF AnswerSynced
<1>9. /\ r.status = "block_processing" /\ UNCHANGED base
      /\ ~Stalled(i) /\ WatchIsOver(i) /\ MadeProgress(a)
  <2>1. [m EXCEPT !.status = "failed", !.error = "stalled"].status = "failed"
    BY <1>5 DEF Instance
  <2>2. [a EXCEPT !.status = "failed", !.error = "no_progress"].status = "failed"
    BY <1>5 DEF Instance
  <2>3. AnswerProcessing(i, block)
    BY <1>4, <1>6, <1>7, <1>8
  <2>4. r.status = "block_processing" /\ UNCHANGED base
    BY <2>3 DEF AnswerProcessing
  <2>5. QED
    BY <1>2, <1>5, <2>1, <2>2, <2>3, <2>4 DEF AnswerProcessing
<1>10. /\ r.block_age <= BlockStallTimeout /\ r.check_age > BlockProcessingDuration
  BY <1>1, <1>9 DEF Stalled, WatchIsOver, Instance, Age, Unset
<1>11. /\ a.initial_block = r.initial_block
       /\ (a.last_block = h \/ (a.last_block = r.last_block /\ h <= r.last_block))
  <2>0. m.initial_block = r.initial_block /\ m.last_block = r.last_block
    BY <1>1 DEF Instance, Heard
  <2>1. CASE h > r.last_block
    <3>1. a = [m EXCEPT !.last_block = h, !.block_age = 0]
      BY <1>5, <2>1 DEF Advanced
    <3>2. QED
      BY <1>5, <2>0, <3>1 DEF Instance
  <2>2. CASE ~(h > r.last_block)
    <3>1. a = m
      BY <1>5, <2>2 DEF Advanced
    <3>2. r.last_block \in 0..MaxBlock
      BY <1>1 DEF Instance
    <3>3. QED
      BY <1>1, <2>0, <2>2, <3>1, <3>2
  <2>3. QED
    BY <2>1, <2>2
<1>12. a.last_block = h
  BY <1>1, <1>11 DEF Sound, Instance
<1>13. h > r.initial_block
  BY <1>9, <1>11, <1>12 DEF MadeProgress
<1>14. WatchedFrom(r, b) /\ b <= h /\ r.last_block <= h
  BY <1>1, <1>9 DEF Sound, Watched
<1>15. r.check_age \in Int /\ r.block_age \in Int /\ r.last_block \in 0..MaxBlock
  BY <1>1 DEF Instance, Age, Unset
<1>16. h > b
  BY <1>1, <1>10, <1>13, <1>14, <1>15 DEF WatchedFrom
<1>17. QED
  BY <1>9, <1>16

\* A reported success means that the node got further than where it was when
\* its blocks began to be watched, whatever was read at startup, provided that
\* twice BLOCK_STALL_TIMEOUT fits in BLOCK_PROCESSING_DURATION (20 and 22
\* minutes by default).  With a longer stall timeout a node whose eth_blockNumber
\* failed at startup can succeed without importing a block.
THEOREM ProgressIsReal ==
  ASSUME 2 * BlockStallTimeout <= BlockProcessingDuration
  PROVE  Spec => []SuccessMeansProgress
<1> USE TimeoutAssumption, ChainAssumption
<1>1. Init => SuccessMeansProgress
  <2>1. ASSUME Init, NEW i \in Instances PROVE inst[i].status # "success"
    BY <2>1, DetectedStatus DEF Init
  <2>2. QED
    BY <2>1 DEF SuccessMeansProgress
<1>2. IInv /\ IInv' /\ SuccessMeansProgress /\ [Next]_vars => SuccessMeansProgress'
  <2>1. SUFFICES ASSUME IInv, IInv', SuccessMeansProgress, [Next]_vars,
                        NEW i \in Instances, inst'[i].status = "success"
                 PROVE  node'[i].head > base'[i]
    BY DEF SuccessMeansProgress
  <2>2. CASE inst[i].status = "success" /\ base'[i] = base[i] /\ node[i].head <= node'[i].head
    BY <2>1, <2>2 DEF SuccessMeansProgress, IInv, TypeOK, Node
  <2>3. ASSUME NEW j \in Instances, update_instance(j)
        PROVE  node'[i].head > base'[i]
    <3>1. node' = node
      BY <2>3 DEF update_instance
    <3>2. CASE j = i
      BY <2>1, <2>3, <3>1, <3>2, SuccessStep
    <3>3. CASE j # i
      BY <2>1, <2>3, <3>1, <3>3, UpdateSound DEF SuccessMeansProgress
    <3>4. QED
      BY <3>2, <3>3
  <2>4. CASE Tick
    <3>1. inst'[i].status = inst[i].status
      <4>1. inst[i] \in Instance
        BY <2>1 DEF IInv, TypeOK
      <4>2. QED
        BY <2>4, <4>1 DEF Tick, Instance
    <3>2. QED
      BY <2>1, <2>4, <3>1 DEF Tick, SuccessMeansProgress
  <2>5. ~restart_containers
    BY <2>1 DEF restart_containers, reset_instance, Fresh
  <2>6. ASSUME NEW j \in Instances, NodeStep(j)
        PROVE  node'[i].head > base'[i]
    <3>1. inst' = inst /\ base' = base
      BY <2>6 DEF NodeStep, NodeUp, NodeDown, NodeSyncs, NodeBlock, NodeValidates, NodeExits, SetNode
    <3>2. node[i].head <= node'[i].head
      BY <2>1, <2>6, HeadsGrow DEF IInv
    <3>3. QED
      BY <2>1, <2>2, <3>1, <3>2
  <2>7. CASE UNCHANGED vars
    BY <2>1, <2>7 DEF vars, SuccessMeansProgress
  <2>8. QED
    BY <2>1, <2>3, <2>4, <2>5, <2>6, <2>7 DEF Next
<1>3. QED
  BY <1>1, <1>2, SoundAlways, PTL DEF Spec

=============================================================================
