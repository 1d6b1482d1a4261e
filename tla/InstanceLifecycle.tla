-------------------------- MODULE InstanceLifecycle --------------------------
(***************************************************************************)
(* What sync/docker_monitor.py promises about one monitored network,       *)
(* whatever the node answers and however slowly: the statuses of an        *)
(* Instance and the only ways one follows another.  SyncInstance, which    *)
(* has the timers and the RPC answers, is shown to implement it; Multisync *)
(* builds the monitoring loop of main() on it.                             *)
(***************************************************************************)
CONSTANT Instances     \* the networks named by --networks

VARIABLE status        \* status[i]: Instance.status

Active     == {"waiting", "syncing", "synced", "block_processing"}
Terminal   == {"success", "failed"}
Status     == Active \cup Terminal

LTypeOK == status \in [Instances -> Status]

AllSucceeded == \A i \in Instances : status[i] = "success"

\* Detection of containers that already run: one that is found synced enters
\* block processing directly, one that answers is syncing.
LInit == status \in [Instances -> {"waiting", "syncing", "block_processing"}]

Move(i, from, to) ==
  /\ status[i] = from
  /\ status' = [status EXCEPT ![i] = to]

FirstAnswer(i)     == Move(i, "waiting", "syncing")
SyncCompleted(i)   == Move(i, "syncing", "synced")
StartProcessing(i) == Move(i, "synced", "block_processing")
Succeed(i)         == Move(i, "block_processing", "success")

\* A timeout, a stall or an unresponsive node, in any status but "waiting":
\* the code has no way to give up on a node it has never heard from.
Fail(i) == \E from \in Active \ {"waiting"} : Move(i, from, "failed")

LifecycleStep(i) ==
  FirstAnswer(i) \/ SyncCompleted(i) \/ StartProcessing(i) \/ Succeed(i) \/ Fail(i)

\* The containers are only recreated, and the instances reset, once every
\* one of them has succeeded.
ResetAll ==
  /\ AllSucceeded
  /\ status' = [i \in Instances |-> "waiting"]

LNext == (\E i \in Instances : LifecycleStep(i)) \/ ResetAll

LSpec == LInit /\ [][LNext]_status

=============================================================================
