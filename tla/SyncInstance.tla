----------------------------- MODULE SyncInstance -----------------------------
(***************************************************************************)
(* sync/docker_monitor.py: the state of a monitored network (Instance),    *)
(* the handler the monitor runs on it at every tick (update_instance), the *)
(* detection of containers that already run (main) and the reset for a new *)
(* cycle (reset_instance, restart_containers).                             *)
(*                                                                         *)
(* Time.  The code stores the instants at which something began and        *)
(* compares now - instant with a timeout.  The model stores that           *)
(* difference, its age: Tick makes every age one unit older.  Ages stop    *)
(* growing at MaxAge, which is above every timeout, so no comparison can   *)
(* tell the difference and there is no horizon: a run may last for ever.   *)
(* 0 as "not set" in the code is Unset here.                               *)
(*                                                                         *)
(* Nodes.  The ethrex containers are the environment.  A node may be down, *)
(* may answer or time out on each call while it is up, and may exit.       *)
(***************************************************************************)
EXTENDS Integers, FiniteSets

CONSTANTS
  Instances,                  \* networks named by --networks
  SyncTimeout,                \* SYNC_TIMEOUT
  BlockProcessingDuration,    \* BLOCK_PROCESSING_DURATION
  BlockStallTimeout,          \* BLOCK_STALL_TIMEOUT
  NodeUnresponsiveTimeout,    \* NODE_UNRESPONSIVE_TIMEOUT
  Stages,                     \* messages of VALIDATION_PROGRESS_PATTERNS, 1..n in log order
  MaxAge,                     \* bound: ages saturate here
  MaxBlock                    \* bound: highest block the chain reaches

ASSUME TimeoutAssumption ==
  /\ SyncTimeout \in Nat
  /\ BlockProcessingDuration \in Nat
  /\ BlockStallTimeout \in Nat
  /\ NodeUnresponsiveTimeout \in Nat
  /\ MaxAge \in Nat
  /\ SyncTimeout < MaxAge
  /\ BlockProcessingDuration < MaxAge
  /\ BlockStallTimeout < MaxAge
  /\ NodeUnresponsiveTimeout < MaxAge

ASSUME ChainAssumption == MaxBlock \in Nat /\ Stages \in Nat

VARIABLES
  inst,     \* inst[i]: the dataclass Instance of network i
  node,     \* node[i]: the ethrex container of network i (environment)
  base      \* base[i]: observer, the node's head when its block processing began

vars == <<inst, node, base>>

Unset == -1
Age == Unset..MaxAge
None == -1
Complete == Stages + 1       \* validation_status = "complete"

Status == {"waiting", "syncing", "synced", "block_processing", "success", "failed"}
Terminal == {"success", "failed"}
Error == {"none", "sync_timeout", "unresponsive", "exited", "validation",
          "stalled", "no_progress"}

Instance ==
  [status             : Status,
   start_age          : Age,                \* now - start_time
   check_age          : Age,                \* now - block_check_start
   block_age          : Age,                \* now - last_block_time
   failure_age        : Age,                \* now - first_failure_time
   last_block         : 0..MaxBlock,
   initial_block      : 0..MaxBlock,
   validation_status  : 0..Complete,        \* 0 is the empty string
   error              : Error]

Container == {"running", "exited"}

Node ==
  [up         : BOOLEAN,           \* answers RPC
   container  : Container,         \* docker inspect .State.Status
   invalid    : BOOLEAN,           \* its log holds one of VALIDATION_ERROR_PATTERNS
   synced     : BOOLEAN,           \* eth_syncing is false
   stage      : 0..Stages,         \* last validation message in its log
   head       : 0..MaxBlock]       \* eth_blockNumber

TypeOK ==
  /\ inst \in [Instances -> Instance]
  /\ node \in [Instances -> Node]
  /\ base \in [Instances -> 0..MaxBlock]

-----------------------------------------------------------------------------
(* The instance before anything was heard of its node.                     *)
Fresh ==
  [status |-> "waiting", start_age |-> Unset, check_age |-> Unset,
   block_age |-> Unset, failure_age |-> Unset, last_block |-> 0,
   initial_block |-> 0, validation_status |-> 0, error |-> "none"]

NewNode ==
  [up |-> FALSE, container |-> "running", invalid |-> FALSE, synced |-> FALSE,
   stage |-> 0, head |-> 0]

\* main(): an instance whose container runs at startup has the age of the
\* container; eth_syncing false puts it in block processing with the block
\* number read next, or 0 when that second call fails.
Started(a) == [Fresh EXCEPT !.start_age = a]
Syncing(a) == [Started(a) EXCEPT !.status = "syncing"]
Processing(a, b) ==
  [Started(a) EXCEPT !.status = "block_processing", !.check_age = 0, !.block_age = 0,
                     !.last_block = b, !.initial_block = b]

Detected(n) ==
  {Fresh} \cup {Started(a) : a \in 0..MaxAge}
  \cup (IF n.up /\ ~n.synced THEN {Syncing(a) : a \in 0..MaxAge} ELSE {})
  \cup (IF n.up /\ n.synced
          THEN {Processing(a, n.head) : a \in 0..MaxAge} \cup {Processing(a, 0) : a \in 0..MaxAge}
          ELSE {})

Init ==
  /\ node \in [Instances -> {n \in Node : n.container = "running" /\ ~n.invalid /\ n.stage = 0}]
  /\ inst \in {f \in [Instances -> UNION {Detected(n) : n \in {node[j] : j \in Instances}}] :
                  \A i \in Instances : f[i] \in Detected(node[i])}
  /\ base = [i \in Instances |-> node[i].head]

-----------------------------------------------------------------------------
(* update_instance(i): one operator per outcome.  A call that fails or     *)
(* times out answers None.                                                 *)

BlockNumber(i) == {None} \cup (IF node[i].up THEN {node[i].head} ELSE {})
SyncingIsFalse(i) == node[i].up /\ node[i].synced

Set(i, record) == inst' = [inst EXCEPT ![i] = record]

\* The node is given up: container_exit_info and check_validation_failure say
\* why, and when docker cannot be asked the node just stopped responding.
Reasons(i) ==
  {"unresponsive"}
  \cup (IF node[i].container = "exited" THEN {"exited"} ELSE {})
  \cup (IF node[i].container = "exited" /\ node[i].invalid THEN {"validation"} ELSE {})

HeardOfOrWaiting(i) == inst[i].status \notin Terminal     \* mutant: waiting times out
HeardOf(i) == inst[i].status \in {"syncing", "synced", "block_processing"}

NoAnswer(i) ==
  /\ None \in BlockNumber(i)
  /\ HeardOf(i)
  /\ \/ /\ inst[i].failure_age = Unset
        /\ Set(i, [inst[i] EXCEPT !.failure_age = 0])
     \/ /\ inst[i].failure_age >= NodeUnresponsiveTimeout
        /\ inst[i].failure_age # Unset
        /\ \E why \in Reasons(i) :
              Set(i, [inst[i] EXCEPT !.status = "failed", !.error = why])
  /\ UNCHANGED base

\* The instance once eth_blockNumber was answered: first_failure_time = 0.
Heard(i) == [inst[i] EXCEPT !.failure_age = Unset]

AnswerWaiting(i) ==
  /\ inst[i].status = "waiting"
  /\ Set(i, [Heard(i) EXCEPT !.status = "syncing",
                             !.start_age = IF @ = Unset THEN 0 ELSE @])
  /\ UNCHANGED base

TimedOutInMinutes(i) == inst[i].start_age > 60 * MaxAge   \* mutant: seconds for minutes
SyncTimedOut(i) == inst[i].start_age > SyncTimeout

\* check_validation_progress: the last message in the log, or nothing when
\* docker logs fails; something is new when it is not the message shown.
ValidationProgress(i) == {0, node[i].stage}
NewProgress(i, message) == message \notin {0, inst[i].validation_status}

\* The watch over the node's blocks starts, at this block.
WatchKeepsBlockTime(record, block) ==                     \* mutant: last_block_time kept
  [record EXCEPT !.check_age = 0, !.last_block = block, !.initial_block = block]
Watch(record, block) ==
  [record EXCEPT !.check_age = 0, !.block_age = 0, !.last_block = block, !.initial_block = block]

\* "syncing" falls through to the end of the handler when nothing is new.
AnswerSyncing(i, block) ==
  /\ inst[i].status = "syncing"
  /\ \/ /\ SyncTimedOut(i)
        /\ Set(i, [Heard(i) EXCEPT !.status = "failed", !.error = "sync_timeout"])
        /\ UNCHANGED base
     \/ /\ ~SyncTimedOut(i)
        /\ \E message \in ValidationProgress(i) :
             /\ NewProgress(i, message)
             /\ Set(i, [Heard(i) EXCEPT !.validation_status = message])
        /\ UNCHANGED base
     \/ /\ ~SyncTimedOut(i)
        /\ \E message \in ValidationProgress(i) : ~NewProgress(i, message)
        /\ \/ /\ SyncingIsFalse(i)
              /\ Set(i, [Watch(Heard(i), block) EXCEPT !.status = "synced"])
              /\ base' = [base EXCEPT ![i] = node[i].head]
           \/ \* eth_syncing is true, or was not answered
              /\ Set(i, Heard(i))
              /\ UNCHANGED base

AnswerSynced(i, block) ==
  /\ inst[i].status = "synced"
  /\ Set(i, [Watch(Heard(i), block) EXCEPT !.status = "block_processing"])
  /\ base' = [base EXCEPT ![i] = node[i].head]

AdvancedAlways(i, block) ==                               \* mutant: >= for >
  IF block >= inst[i].last_block
  THEN [Heard(i) EXCEPT !.last_block = block, !.block_age = 0]
  ELSE Heard(i)

\* last_block and last_block_time once this tick's block was looked at.
Advanced(i, block) ==
  IF block > inst[i].last_block
  THEN [Heard(i) EXCEPT !.last_block = block, !.block_age = 0]
  ELSE Heard(i)

Stalled(i) == inst[i].block_age > BlockStallTimeout
WatchIsOver(i) == inst[i].check_age > BlockProcessingDuration
MadeProgress(record) == record.last_block > record.initial_block

AnswerProcessing(i, block) ==
  /\ inst[i].status = "block_processing"
  /\ \/ /\ Stalled(i)
        /\ Set(i, [Heard(i) EXCEPT !.status = "failed", !.error = "stalled"])
     \/ /\ ~Stalled(i) /\ ~WatchIsOver(i)
        /\ Set(i, Advanced(i, block))
     \/ /\ ~Stalled(i) /\ WatchIsOver(i)
        /\ MadeProgress(Advanced(i, block))
        /\ Set(i, [Advanced(i, block) EXCEPT
                     !.status = "success",
                     !.validation_status = IF @ = 0 THEN 0 ELSE Complete])
     \/ /\ ~Stalled(i) /\ WatchIsOver(i)
        /\ ~MadeProgress(Advanced(i, block))
        /\ Set(i, [Advanced(i, block) EXCEPT !.status = "failed", !.error = "no_progress"])
  /\ UNCHANGED base

Answer(i) ==
  \E block \in BlockNumber(i) \ {None} :
    \/ AnswerWaiting(i)
    \/ AnswerSyncing(i, block)
    \/ AnswerSynced(i, block)
    \/ AnswerProcessing(i, block)

update_instance(i) ==
  /\ NoAnswer(i) \/ Answer(i)
  /\ UNCHANGED node

reset_but_initial_block(i) ==                             \* mutant: one field forgotten
  [Fresh EXCEPT !.initial_block = inst[i].initial_block]
reset_instance(i) == Fresh

\* After a run that succeeded everywhere: down -v and up -d give every network
\* a new container without a database, reset_instance a new record.
restart_containers ==
  /\ \A i \in Instances : inst[i].status = "success"
  /\ inst' = [i \in Instances |-> reset_instance(i)]
  /\ node' = [i \in Instances |-> NewNode]
  /\ base' = [i \in Instances |-> 0]

-----------------------------------------------------------------------------
(* Environment: time and the nodes.                                        *)

Older(a) == IF a = Unset \/ a = MaxAge THEN a ELSE a + 1

Tick ==
  /\ inst' = [i \in Instances |->
                [inst[i] EXCEPT !.start_age = Older(@), !.check_age = Older(@),
                                !.block_age = Older(@), !.failure_age = Older(@)]]
  /\ UNCHANGED <<node, base>>

SetNode(i, record) ==
  /\ node' = [node EXCEPT ![i] = record]
  /\ UNCHANGED <<inst, base>>

NodeUp(i)    == ~node[i].up /\ node[i].container = "running" /\ SetNode(i, [node[i] EXCEPT !.up = TRUE])
NodeDown(i)  == node[i].up /\ SetNode(i, [node[i] EXCEPT !.up = FALSE])
NodeSyncs(i) == node[i].up /\ ~node[i].synced /\ SetNode(i, [node[i] EXCEPT !.synced = TRUE])
NodeBlock(i) == node[i].up /\ node[i].head < MaxBlock /\ SetNode(i, [node[i] EXCEPT !.head = @ + 1])

\* Validation runs inside the node before it reports that it is synced; when it
\* finds a bad trie the node exits with the message in its log.
NodeValidates(i) ==
  /\ node[i].up /\ ~node[i].synced /\ node[i].stage < Stages
  /\ SetNode(i, [node[i] EXCEPT !.stage = @ + 1])

NodeExits(i) ==
  /\ node[i].container = "running"
  /\ \E bad \in BOOLEAN :
       SetNode(i, [node[i] EXCEPT !.up = FALSE, !.container = "exited", !.invalid = bad])

NodeStep(i) ==
  NodeUp(i) \/ NodeDown(i) \/ NodeSyncs(i) \/ NodeBlock(i) \/ NodeValidates(i) \/ NodeExits(i)

-----------------------------------------------------------------------------
Next ==
  \/ \E i \in Instances : update_instance(i)
  \/ restart_containers
  \/ Tick
  \/ \E i \in Instances : NodeStep(i)

Spec == Init /\ [][Next]_vars

\* The monitor's loop visits every instance for ever and the clock advances.
\* Nothing is assumed of the nodes.
FairSpec ==
  /\ Spec
  /\ \A i \in Instances : WF_vars(update_instance(i))
  /\ WF_vars(Tick)

-----------------------------------------------------------------------------
(* Properties.                                                             *)

\* An instance is reported successful only if its node really got further than
\* where it was when the monitor began to watch its blocks (update_instance,
\* "only if we made progress").  An instance found synced at startup whose block
\* number could not be read is watched from block 0, so that reading the number
\* at all looks like progress: only the stall timeout then stands in the way,
\* and it does as long as twice BLOCK_STALL_TIMEOUT fits in the watch.
SuccessMeansProgress ==
  \A i \in Instances : inst[i].status = "success" => node[i].head > base[i]

\* The block an instance reports is never ahead of its node's, and the block
\* count of the report (last_block - initial_block) is never negative.
ReportedBlocksAreReal ==
  \A i \in Instances :
    inst[i].initial_block <= inst[i].last_block /\ inst[i].last_block <= node[i].head

\* While blocks are watched, the last new block is at most as old as the watch
\* itself and both began after the sync did: the three timers of
\* update_instance never get out of step.
TimersNested ==
  \A i \in Instances :
    inst[i].status \in {"synced", "block_processing"} =>
      /\ inst[i].block_age # Unset
      /\ inst[i].block_age <= inst[i].check_age
      /\ inst[i].check_age <= inst[i].start_age

\* Every instance that was heard of once reaches a verdict, whatever its node
\* does afterwards: answers, stalls, flaps or dies.
VerdictReached ==
  \A i \in Instances :
    inst[i].status \in {"syncing", "synced", "block_processing"} ~> inst[i].status \in Terminal

StatusOf == [i \in Instances |-> inst[i].status]
Lifecycle == INSTANCE InstanceLifecycle WITH status <- StatusOf

\* update_instance and the reset follow the lifecycle of InstanceLifecycle.
ImplementsLifecycle == Lifecycle!LSpec

=============================================================================
