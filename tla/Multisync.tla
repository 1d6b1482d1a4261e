------------------------------ MODULE Multisync ------------------------------
(***************************************************************************)
(* sync/docker_monitor.py, main(): the monitoring loop over all networks.  *)
(* Each tick updates the instances in order and stops at the first one     *)
(* that changed (any() over a generator), then polls the diagnostics of    *)
(* every network and reports failures; a run ends when every network has a *)
(* verdict, is logged, and either a new one begins or the monitor stops.   *)
(*                                                                         *)
(* An instance is its place in InstanceLifecycle: what update_instance can *)
(* do to it, timers and answers included, is the business of SyncInstance, *)
(* which implements InstanceLifecycle.  The tracker is DiagnosticsTracker. *)
(***************************************************************************)
EXTENDS InstanceLifecycle, DiagnosticsTracker, FiniteSets

CONSTANTS
  AutoUpdate,      \* --auto-update
  Stages           \* bound: times the validation message of a network changes in a run

N == Cardinality(Instances)

ASSUME OrderAssumption == Instances = 1..N /\ N \in Nat \ {0}
ASSUME OptionAssumption == AutoUpdate \in BOOLEAN /\ Stages \in Nat

VARIABLES
  pc,          \* where the loop is
  next,        \* the instance it handles next
  changed,     \* changed, of the current tick
  stage,       \* stage[i]: last validation message shown (validation_status)
  run_count,   \* run_count
  history,     \* run_history.log: [number, run, ok, events] of each logged run
  skipped      \* skipped[i]: observer, ticks since i was last updated

loopVars == <<pc, next, changed, run_count, history>>
vars == <<status, stage, skipped, loopVars, trackerVars>>

Places == {"prepare", "update", "poll", "verdict", "decide", "stopped"}

TypeOK ==
  /\ LTypeOK
  /\ TrackerTypeOK
  /\ pc \in Places
  /\ next \in 1..N
  /\ changed \in BOOLEAN
  /\ stage \in [Instances -> 0..Stages]
  /\ run_count \in Nat
  /\ history \subseteq [number : Nat, run : Runs, ok : BOOLEAN, of : SUBSET Runs]
  /\ skipped \in [Instances -> Nat]

last_run_count ==                                         \* mutant: no + 1
  CHOOSE n \in 1..MaxRuns + 1 :
    /\ \A e \in history : e.number <= n
    /\ n = 1 \/ \E e \in history : e.number = n

\* get_next_run_count: one more than the highest number in the log.
get_next_run_count ==
  CHOOSE n \in 1..MaxRuns + 1 :
    /\ \A e \in history : e.number < n
    /\ n = 1 \/ \E e \in history : e.number = n - 1

StartOfLoop == IF AutoUpdate THEN "prepare" ELSE "update"

Init ==
  /\ LInit
  /\ TrackerInit
  /\ pc = StartOfLoop
  /\ next = 1
  /\ changed = FALSE
  /\ stage = [i \in Instances |-> 0]
  /\ run_count = 1
  /\ history = {}
  /\ skipped = [i \in Instances |-> 0]

-----------------------------------------------------------------------------
ResetInstances ==
  /\ status' = [i \in Instances |-> "waiting"]
  /\ stage' = [i \in Instances |-> 0]
  /\ skipped' = [i \in Instances |-> 0]

\* New containers start at the log level of the compose file.
NewContainers == log_level' = [i \in Instances |-> "normal"]

\* --auto-update: pull, build, restart; any of them may fail and stops the monitor.
Prepare ==
  /\ pc = "prepare"
  /\ \/ /\ pc' = "update"
        /\ ResetInstances
        /\ TrackerReset
        /\ NewContainers
        /\ sick_age' = [i \in Instances |-> Unset]
        /\ UNCHANGED <<run, disk>>
     \/ /\ pc' = "stopped"
        /\ UNCHANGED <<status, stage, skipped, trackerVars>>
  /\ next' = 1
  /\ changed' = FALSE
  /\ UNCHANGED <<run_count, history>>

\* update_instance(i) shows another message of the validation.
ValidatesAgain(i) ==                                      \* mutant: not compared
  status[i] = "syncing" /\ UNCHANGED <<stage, status>>
Validates(i) ==
  /\ status[i] = "syncing" /\ stage[i] < Stages
  /\ stage' = [stage EXCEPT ![i] = @ + 1]
  /\ UNCHANGED status

\* update_instance(next), which changed something: any() looks no further.
UpdateChanges ==
  /\ pc = "update" /\ next <= N
  /\ (LifecycleStep(next) /\ UNCHANGED stage) \/ Validates(next)
  /\ changed' = TRUE
  /\ skipped' = [j \in Instances |-> IF j <= next THEN 0 ELSE skipped[j] + 1]
  /\ pc' = "poll" /\ next' = 1
  /\ UNCHANGED <<run_count, history, trackerVars>>

\* update_instance(next), which returned False.
UpdateKeeps ==
  /\ pc = "update" /\ next <= N
  /\ changed' = FALSE
  /\ skipped' = [skipped EXCEPT ![next] = 0]
  /\ IF next = N THEN pc' = "poll" /\ next' = 1 ELSE pc' = "update" /\ next' = next + 1
  /\ UNCHANGED <<status, stage, run_count, history, trackerVars>>

\* tracker.poll(inst), then on_failure for a failed one if anything changed.
Advance(place) ==
  IF next = N THEN pc' = place /\ next' = 1 ELSE next' = next + 1 /\ UNCHANGED pc

ReportsLastOnly(i) == i = N /\ status[i] = "failed" /\ changed   \* mutant: after the loop
ReportsFailure(i) == status[i] = "failed" /\ changed

Poll ==
  /\ pc = "poll"
  /\ IF ReportsFailure(next) THEN on_failure(next) ELSE poll(next)
  /\ Advance("verdict")
  /\ UNCHANGED <<status, stage, skipped, changed, run_count, history>>

\* The same when the answers of the node make the poll raise.
PollRaisesOut ==
  /\ pc = "poll"
  /\ Polled(next) \/ ReportsFailure(next)
  /\ PollRaises(next)
  /\ pc' = "stopped"
  /\ UNCHANGED <<status, stage, skipped, next, changed, run_count, history, trackerVars>>

RunIsOver == \A i \in Instances : status[i] \in Terminal

\* time.sleep(CHECK_INTERVAL)
Sleep ==
  /\ pc = "verdict" /\ ~RunIsOver
  /\ TrackersAge
  /\ pc' = "update"
  /\ UNCHANGED <<status, stage, skipped, next, changed, run_count, history,
                 events, failures, run, disk, log_level>>

\* log_run_result appends the result and the events; a full disk loses it.
Report ==
  /\ pc = "verdict" /\ RunIsOver
  /\ history' \in {history,
                   history \cup {[number |-> run_count, run |-> run, ok |-> AllSucceeded,
                                  of |-> {e.run : e \in events}]}}
  /\ pc' = "decide"
  /\ UNCHANGED <<status, stage, skipped, next, changed, run_count, trackerVars>>

\* Every network failed or succeeded: the containers of a failed run are left
\* for inspection and the monitor exits.
StopOnFailure ==
  /\ pc = "decide" /\ ~AllSucceeded
  /\ pc' = "stopped"
  /\ UNCHANGED <<status, stage, skipped, next, changed, run_count, history, trackerVars>>

\* --exit-on-success
ExitOnSuccess ==
  /\ pc = "decide" /\ AllSucceeded
  /\ pc' = "stopped"
  /\ UNCHANGED <<status, stage, skipped, next, changed, run_count, history, trackerVars>>

\* A new run: with --auto-update the loop prepares it, else the containers are
\* restarted here, which may fail and stops the monitor.
NextRun ==
  /\ pc = "decide" /\ AllSucceeded /\ run < MaxRuns
  /\ run_count' = run_count + 1
  /\ run' = run + 1
  /\ sick_age' = [i \in Instances |-> Unset]
  /\ \/ /\ pc' = StartOfLoop
        /\ ResetInstances
        /\ IF AutoUpdate THEN UNCHANGED log_level ELSE NewContainers
     \/ /\ ~AutoUpdate
        /\ pc' = "stopped"
        /\ UNCHANGED <<status, stage, skipped, log_level>>
  /\ UNCHANGED <<next, changed, history, tracker, events, failures, disk>>

\* The monitor is interrupted anywhere, or has stopped, and is started again on
\* the same containers: a new process, a new run id, the number from the log.
Restart ==
  /\ run < MaxRuns
  /\ status' \in [Instances -> {"waiting", "syncing", "block_processing"}]
  /\ stage' = [i \in Instances |-> 0]
  /\ skipped' = [i \in Instances |-> 0]
  /\ TrackerReset
  /\ run' = run + 1
  /\ run_count' \in {get_next_run_count} \cup (IF Reliable THEN {} ELSE {1})
  /\ sick_age' = [i \in Instances |-> Unset]
  /\ pc' = StartOfLoop /\ next' = 1 /\ changed' = FALSE
  /\ UNCHANGED <<history, disk, log_level>>

Next ==
  \/ Prepare \/ UpdateChanges \/ UpdateKeeps \/ Poll \/ PollRaisesOut \/ Sleep
  \/ Report \/ StopOnFailure \/ ExitOnSuccess \/ NextRun \/ Restart

Spec == Init /\ [][Next]_vars

-----------------------------------------------------------------------------
(* Properties.                                                             *)

Running == pc \notin {"prepare", "stopped"}

\* README.md, "Run count persistence": later runs have higher numbers in the
\* log, across restarts of the monitor and results lost to a full disk (but not
\* when the log cannot be read, which starts again from 1).
HistoryOrdered ==
  \A e, f \in history : e.run < f.run => e.number < f.number

\* No verdict "failed" goes unreported: by the end of the tick in which a
\* network failed, on_failure has run for it (main, "Trigger dump on failure").
FailureReported ==
  pc \in {"verdict", "decide"} =>
    \A i \in Instances : status[i] = "failed" => failures[i] >= 1

\* any() starves the networks behind one that changes, but not for long: a
\* network misses at most one tick per change that those before it can make in
\* a run (four statuses and the validation messages).
BoundedStarvation ==
  \A i \in Instances : skipped[i] <= (i - 1) * (4 + Stages)

\* Once a poll of this run has found a reason, the snapshots of the network are
\* in the directory of this run (_check_alert_conditions, "Dump snapshots on
\* degradation / watched phase").
DegradationDumped ==
  Running /\ Reliable =>
    \A i \in Instances :
      sick_age[i] # Unset => \E f \in disk : f.network = i /\ f.run = run

\* Nothing of one run is left in another: the directory of a run holds snapshots
\* of that run only, its summary lists the events of that run only.
RunFilesAreItsOwn ==
  /\ \A f \in disk : f.holds \subseteq {f.run}
  /\ \A e \in history : e.of \subseteq {e.run}

\* The node logs at TRACE exactly while the tracker is in degraded mode, or
\* after its network failed.
LevelFollowsMode ==
  Running /\ Reliable =>
    \A i \in Instances :
      IF tracker[i].degraded \/ failures[i] > 0
      THEN log_level[i] = "trace"
      ELSE log_level[i] = "normal"

=============================================================================
