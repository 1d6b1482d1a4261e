-------------------------- MODULE DiagnosticsTracker --------------------------
(***************************************************************************)
(* sync/docker_monitor.py, class DiagnosticsTracker: the polls of the      *)
(* admin_* RPCs of every network, the degraded mode they switch on and     *)
(* off, the log level set on the node, the rolling buffer of snapshots and *)
(* its dump into the directory of the current run.                         *)
(*                                                                         *)
(* A snapshot is the id of the run it was taken in.  The reasons found in  *)
(* one (few eligible peers, a stale pivot, a watched phase) are a subset   *)
(* of Reasons, limited to what the calls that were answered can show.      *)
(* Instants are ages as in SyncInstance.  The operators say   *)
(* what one call does; Multisync, whose loop makes the calls, has the      *)
(* next-state relation.                                                    *)
(***************************************************************************)
EXTENDS InstanceLifecycle, Integers, Sequences

CONSTANTS
  PeerReasons,          \* what admin_peerScores can show wrong
  SyncReasons,          \* what admin_syncStatus can show wrong
  NormalInterval,       \* DIAGNOSTICS_NORMAL_INTERVAL
  DegradedInterval,     \* DIAGNOSTICS_DEGRADED_INTERVAL
  NormalBuffer,         \* DIAGNOSTICS_NORMAL_BUFFER_SIZE
  DegradedBuffer,       \* DIAGNOSTICS_DEGRADED_BUFFER_SIZE
  RecoveryTimeout,      \* DEGRADATION_RECOVERY_TIMEOUT
  MaxAge,               \* bound: ages saturate here
  Reliable,             \* admin_setLogLevel, writes of snapshots, reads of the log never fail
  MaxRuns,              \* bound: run ids drawn by generate_run_id
  MaxFailures           \* bound: failure events counted per network and run

ASSUME TrackerAssumption ==
  /\ MaxAge \in Nat
  /\ NormalInterval \in 0..MaxAge /\ DegradedInterval \in 0..MaxAge
  /\ RecoveryTimeout \in 0..MaxAge
  /\ NormalBuffer \in Nat \ {0} /\ DegradedBuffer \in Nat \ {0}
  /\ MaxRuns \in Nat \ {0} /\ MaxFailures \in Nat /\ Reliable \in BOOLEAN

VARIABLES
  tracker,    \* tracker[i]: the per-network dictionaries of the tracker
  events,     \* kinds of the events listed for the summary, and their run
  failures,   \* failures[i]: how many of them are failures of network i
  run,        \* run_id
  disk,       \* snapshot files: [network, run, holds (runs of its snapshots)]
  log_level,  \* log_level[i]: of node i (environment)
  sick_age    \* sick_age[i]: observer, age of the last poll of this run that found a reason

trackerVars == <<tracker, events, failures, run, disk, log_level, sick_age>>

Reasons == PeerReasons \cup SyncReasons

Unset == -1
Age == Unset..MaxAge
Levels == {"normal", "trace"}
EventType == {"degradation_start", "reasons_changed", "monitoring_normal", "failure"}
Runs == 1..MaxRuns

Tracker ==
  [degraded : BOOLEAN, healthy_age : Age, poll_age : Age, dumped_for_run : BOOLEAN,
   last_reasons : SUBSET Reasons, buffer : Seq(Runs)]

TrackerTypeOK ==
  /\ tracker \in [Instances -> Tracker]
  /\ \A i \in Instances : \E n \in {NormalBuffer, DegradedBuffer} : Len(tracker[i].buffer) <= n
  /\ events \subseteq [network : Instances, type : EventType, run : Runs]
  /\ failures \in [Instances -> 0..MaxFailures]
  /\ run \in Runs
  /\ disk \subseteq [network : Instances, run : Runs, holds : SUBSET Runs]
  /\ log_level \in [Instances -> Levels]
  /\ sick_age \in [Instances -> Age]

\* __init__ and reset(); last_poll = 0 is long ago, so the first poll is due.
NewTracker ==
  [degraded |-> FALSE, healthy_age |-> Unset, poll_age |-> MaxAge,
   dumped_for_run |-> FALSE, last_reasons |-> {}, buffer |-> <<>>]

TrackerInit ==
  /\ tracker = [i \in Instances |-> NewTracker]
  /\ events = {}
  /\ failures = [i \in Instances |-> 0]
  /\ run = 1
  /\ disk = {}
  /\ log_level = [i \in Instances |-> "normal"]
  /\ sick_age = [i \in Instances |-> Unset]

-----------------------------------------------------------------------------
Older(a) == IF a = Unset \/ a = MaxAge THEN a ELSE a + 1

TrackersAge ==
  /\ tracker' = [i \in Instances |->
                   [tracker[i] EXCEPT !.poll_age = Older(@), !.healthy_age = Older(@)]]
  /\ sick_age' = [i \in Instances |-> Older(sick_age[i])]

poll_interval(t) == IF t.degraded THEN DegradedInterval ELSE NormalInterval
buffer_limit(t)  == IF t.degraded THEN DegradedBuffer ELSE NormalBuffer
should_poll(t)   == t.poll_age >= poll_interval(t)

LastOf(s, n) == IF Len(s) <= n THEN s ELSE SubSeq(s, Len(s) - n + 1, Len(s))

\* The snapshot goes to the end of the buffer, which is trimmed from the front.
WithSnapshot(t) ==
  [t EXCEPT !.poll_age = 0, !.buffer = LastOf(Append(@, run), buffer_limit(t))]

Event(i, type) == [network |-> i, type |-> type, run |-> run]

\* _dump_snapshots overwrites the file of this network in the run's directory,
\* once per run unless forced.  A write that fails is reported and forgotten:
\* the run counts as dumped all the same, and so it does with nothing to dump.
File(i, buffer) ==
  [network |-> i, run |-> run, holds |-> {buffer[k] : k \in 1..Len(buffer)}]
Written(i, buffer) == {f \in disk : f.network # i \/ f.run # run} \cup {File(i, buffer)}

DumpOutcomes(i, t, force) ==
  IF (t.dumped_for_run /\ ~force) \/ t.buffer = <<>>
  THEN {disk}
  ELSE {Written(i, t.buffer)} \cup (IF Reliable THEN {} ELSE {disk})

(***************************************************************************)
(* _check_alert_conditions(found): what it makes of a tracker t that has   *)
(* the new snapshot, the events it appends and the log level it asks for.  *)
(***************************************************************************)
Degrades(t, found) == found # {} /\ ~t.degraded
Recovers(t, found) ==
  /\ found = {} /\ t.degraded
  /\ t.healthy_age # Unset /\ t.healthy_age >= RecoveryTimeout

Alerted(t, found) ==
  [t EXCEPT
     !.degraded = (@ \/ found # {}) /\ ~Recovers(t, found),
     !.healthy_age = IF Degrades(t, found) \/ Recovers(t, found) THEN Unset
                     ELSE IF found = {} /\ t.degraded /\ @ = Unset THEN 0 ELSE @,
     !.last_reasons = found,
     !.dumped_for_run = @ \/ found # {}]

AlertEvents(t, found) ==
  CASE Degrades(t, found) -> {"degradation_start"}
    [] t.degraded /\ found \notin {{}, t.last_reasons} -> {"reasons_changed"}
    [] Recovers(t, found) -> {"monitoring_normal"}
    [] OTHER -> {}

LevelOnlyRaised(level, t, found) ==                       \* mutant: never restored
  IF Degrades(t, found) THEN {"trace"} ELSE {level}

\* rpc_set_log_level may fail; the level of the node is then what it was.
LevelOutcomes(level, t, found) ==
  (IF Degrades(t, found) THEN {"trace"} ELSE IF Recovers(t, found) THEN {"normal"} ELSE {level})
  \cup (IF Reliable THEN {} ELSE {level})

Polled(i) == status[i] \notin {"success", "failed", "waiting"} /\ should_poll(tracker[i])

\* poll(inst) as the loop calls it: nothing, an unanswered poll, or a snapshot.
NotPolled(i) ==
  /\ ~Polled(i)
  /\ UNCHANGED trackerVars

Unanswered(i) ==
  /\ Polled(i)
  /\ tracker' = [tracker EXCEPT ![i].poll_age = 0]
  /\ UNCHANGED <<events, failures, run, disk, log_level, sick_age>>

\* What a snapshot can show, given the calls that were answered.
Answers == {"peer_scores", "sync_status"}
FoundIn(answers) ==
  (IF "peer_scores" \in answers THEN PeerReasons ELSE {})
  \cup (IF "sync_status" \in answers THEN SyncReasons ELSE {})

\* An event quotes both answers (a change of reasons, the second one) and the
\* call that was not answered left None in the snapshot: the quote raises.
Raises(t, answers, found) ==
  \/ "degradation_start" \in AlertEvents(t, found) /\ answers # Answers
  \/ "reasons_changed" \in AlertEvents(t, found) /\ "sync_status" \notin answers

Shows(t, answers) == {found \in SUBSET FoundIn(answers) : ~Raises(t, answers, found)}
Found(t) == UNION {Shows(t, answers) : answers \in SUBSET Answers \ {{}}}

\* The exception of a poll made in earnest leaves main(), which catches none.
PollRaises(i) ==
  \E answers \in SUBSET Answers \ {{}} :
    \E found \in SUBSET FoundIn(answers) : Raises(tracker[i], answers, found)

Snapshot(i, found) ==
  LET t == WithSnapshot(tracker[i]) IN
  /\ Polled(i)
  /\ tracker' = [tracker EXCEPT ![i] = Alerted(t, found)]
  /\ events' = events \cup {Event(i, type) : type \in AlertEvents(t, found)}
  /\ \E level \in LevelOutcomes(log_level[i], t, found) :
        log_level' = [log_level EXCEPT ![i] = level]
  /\ disk' \in IF found = {} THEN {disk} ELSE DumpOutcomes(i, t, FALSE)
  /\ sick_age' = IF found = {} THEN sick_age ELSE [sick_age EXCEPT ![i] = 0]
  /\ UNCHANGED <<failures, run>>

poll(i) ==
  \/ NotPolled(i)
  \/ Unanswered(i)
  \/ \E found \in Found(tracker[i]) : Snapshot(i, found)

\* on_failure(inst): a forced poll, which runs _check_alert_conditions like any
\* other, then the log level is raised, the buffer dumped again and the failure
\* recorded.
RecordFailure(i, t, levels, types) ==
  /\ tracker' = [tracker EXCEPT ![i] = [t EXCEPT !.dumped_for_run = TRUE]]
  /\ \E level \in {"trace"} \cup (IF Reliable THEN {} ELSE levels) : log_level' = [log_level EXCEPT ![i] = level]
  /\ disk' \in DumpOutcomes(i, t, TRUE)
  /\ events' = events \cup {Event(i, type) : type \in types \cup {"failure"}}
  /\ failures' = [failures EXCEPT ![i] = IF @ < MaxFailures THEN @ + 1 ELSE @]
  /\ UNCHANGED run

on_failure(i) ==
  \/ /\ RecordFailure(i, [tracker[i] EXCEPT !.poll_age = 0], {log_level[i]}, {})
     /\ UNCHANGED sick_age
  \/ \E found \in Found(tracker[i]) :
       LET t == WithSnapshot(tracker[i]) IN
       /\ RecordFailure(i, Alerted(t, found), LevelOutcomes(log_level[i], t, found),
                        AlertEvents(t, found))
       /\ sick_age' = IF found = {} THEN sick_age ELSE [sick_age EXCEPT ![i] = 0]

ResetWith(t, listed) ==
  /\ tracker' = t
  /\ events' = listed
  /\ failures' = [i \in Instances |-> 0]

ResetKeepsDumped ==                                       \* mutant: flag forgotten
  ResetWith([i \in Instances |-> [NewTracker EXCEPT !.dumped_for_run = tracker[i].dumped_for_run]], {})
ResetKeepsEvents ==                                       \* mutant: events forgotten
  ResetWith([i \in Instances |-> NewTracker], events)

\* reset(): everything but the run id and what is on disk.
TrackerReset == ResetWith([i \in Instances |-> NewTracker], {})

=============================================================================
