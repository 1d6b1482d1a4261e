------------------------------ MODULE MissedBlocks ------------------------------
(***************************************************************************)
(* dora_monitor/checks.py, check_missed_blocks and _handle_missed_slot,    *)
(* with the rest of the tick that touches their state: last_known_head,    *)
(* the trim of run_checks, save_state.                                     *)
(*                                                                         *)
(* A tick first ages out the misses of the window, resolves bursts and     *)
(* posts their periodic updates; then it scans the last slots of Dora.  A  *)
(* missed slot is posted on its own until Threshold of them are in the     *)
(* window of their proposer: that starts a burst, in which misses are only *)
(* counted.                                                                *)
(*                                                                         *)
(* Instants are ages (see SyncInstance): Clock makes all of them older and *)
(* they saturate at MaxAge.  The state file holds instants too, so what is *)
(* on disk ages as well.                                                   *)
(***************************************************************************)
EXTENDS Integers, FiniteSets, Sequences

CONSTANTS
  Proposers,     \* proposers that match client_match
  MaxSlot,       \* bound: slots of the chain
  ScanLimit,     \* slot_scan_limit
  Window,        \* missed_burst_window_minutes
  Threshold,     \* missed_burst_threshold
  Schedule,      \* missed_burst_update_schedule_minutes
  Keep,          \* slots kept in the reported sets, 10_000
  MaxAge,        \* bound: ages saturate here
  MaxKills       \* bound: kills, each between any two steps of a tick

ASSUME MissedAssumption ==
  /\ MaxSlot \in Nat /\ ScanLimit \in Nat /\ Keep \in Nat
  /\ Window \in Nat /\ Window < MaxAge /\ MaxAge \in Nat
  /\ Threshold \in Nat \ {0}
  /\ Schedule \in Seq(0..MaxAge) /\ Schedule # <<>>
  /\ MaxKills \in Nat

\* A scan does not go back behind the slots that are kept: 64 of 10_000 as shipped.
ASSUME ScanIsKept == ScanLimit <= Keep + 1

Slots == 1..MaxSlot
MaxTotal == 2 * MaxSlot     \* bound: total_misses saturates here

VARIABLES
  chain,      \* chain[s]: what Dora says of slot s (environment)
  pc,         \* where the tick is
  todo,       \* slots of the fetched page still to be looked at
  state,      \* State of the running monitor
  disk,       \* State in the state file
  handled,    \* observer: handled[s], times the miss of slot s was posted or counted
  posted,     \* observer: posted[p], ages of the posts of single misses
  fetched,    \* observer: head when the page was fetched, 0 without one
  scanned,    \* observer: the same of the last tick that was saved
  slept,      \* observer: more than ScanLimit slots passed between two scans
  kills       \* observer: kills of the monitor so far

observers == <<handled, posted, fetched, scanned, slept, kills>>
vars == <<chain, pc, todo, state, disk, observers>>

\* A slot that has not come, a block of another client, and the three ends of a
\* proposal of ours.
Slot == [status : {"none", "foreign"}] \cup
        [status : {"proposed", "missing", "orphaned"}, by : Proposers]

Age == 0..MaxAge
NoBurst == [on |-> FALSE, update_age |-> 0, update_count |-> 0, total |-> 0]

State ==
  [reported_missed : SUBSET Slots, reported_orphan : SUBSET Slots, last_known_head : 0..MaxSlot,
   recent : [Proposers -> SUBSET [age : Age, slot : Slots]],
   burst : [Proposers -> [on : BOOLEAN, update_age : Age, update_count : 0..Len(Schedule), total : 0..MaxTotal]]]

NoState ==
  [reported_missed |-> {}, reported_orphan |-> {}, last_known_head |-> 0,
   recent |-> [p \in Proposers |-> {}], burst |-> [p \in Proposers |-> NoBurst]]

TypeOK ==
  /\ chain \in [Slots -> Slot]
  /\ pc \in {"idle", "scan", "end"}
  /\ todo \subseteq Slots
  /\ state \in State
  /\ disk \in State
  /\ handled \in [Slots -> Nat]
  /\ posted \in [Proposers -> SUBSET [age : Age, slot : Slots]]
  /\ {fetched, scanned} \subseteq 0..MaxSlot
  /\ slept \in BOOLEAN
  /\ kills \in 0..MaxKills

HeadSlot == Cardinality({s \in Slots : chain[s].status # "none"})
Page(n) == {s \in Slots : s <= HeadSlot /\ s > HeadSlot - n}

Init ==
  /\ chain = [s \in Slots |-> [status |-> "none"]]
  /\ pc = "idle" /\ todo = {}
  /\ state = NoState /\ disk = NoState
  /\ handled = [s \in Slots |-> 0]
  /\ posted = [p \in Proposers |-> {}]
  /\ fetched = 0 /\ scanned = 0 /\ slept = FALSE /\ kills = 0

-----------------------------------------------------------------------------
(* Phase 1: the windows, the ends and the updates of bursts.               *)

OldestDropped(pairs) == {q \in pairs : q.age < Window}    \* mutant: < for <=
Recent(pairs) == {q \in pairs : q.age <= Window}

\* _burst_update_interval_s: the schedule in order, then its last value.
Interval(n) == Schedule[IF n < Len(Schedule) THEN n + 1 ELSE Len(Schedule)]

Updated(b) ==
  IF b.update_age < Interval(b.update_count) THEN b
  ELSE [b EXCEPT !.update_age = 0,
                 !.update_count = IF @ < Len(Schedule) THEN @ + 1 ELSE @]

NeverResolved(b, pairs) == IF b.on THEN Updated(b) ELSE b   \* mutant: window not looked at
BurstNow(b, pairs) ==
  IF ~b.on THEN b ELSE IF pairs = {} THEN NoBurst ELSE Updated(b)

\* The page is fetched next; when that fails phase 2 is left out.
BeginTick ==
  /\ pc = "idle"
  /\ LET recent == [p \in Proposers |-> Recent(state.recent[p])] IN
     state' = [state EXCEPT !.recent = recent,
                            !.burst = [p \in Proposers |-> BurstNow(@[p], recent[p])]]
  /\ \/ pc' = "end" /\ todo' = {} /\ UNCHANGED <<fetched, slept>>
     \/ /\ pc' = "scan" /\ todo' = Page(ScanLimit)
        /\ fetched' = HeadSlot
        /\ slept' = (slept \/ HeadSlot - scanned > ScanLimit)
  /\ UNCHANGED <<chain, disk, handled, posted, scanned, kills>>

-----------------------------------------------------------------------------
(* Phase 2: the slots of the page, newest first.  The times of a tick are   *)
(* all of its start, so the clock stands still in it.                       *)

Newest(s) == s \in todo /\ \A t \in todo : t <= s

\* _handle_missed_slot.
WithMiss(p, s) == Recent(state.recent[p] \cup {[age |-> 0, slot |-> s]})

StartsBurst(p, s) == ~state.burst[p].on /\ Cardinality(WithMiss(p, s)) >= Threshold

CountsFromOne(p, s) ==                       \* mutant: misses before the burst forgotten
  IF state.burst[p].on THEN [state.burst[p] EXCEPT !.total = IF @ < MaxTotal THEN @ + 1 ELSE @]
  ELSE IF StartsBurst(p, s) THEN [NoBurst EXCEPT !.on = TRUE, !.total = 1] ELSE NoBurst
BurstAfter(p, s) ==
  IF state.burst[p].on THEN [state.burst[p] EXCEPT !.total = IF @ < MaxTotal THEN @ + 1 ELSE @]
  ELSE IF StartsBurst(p, s)
       THEN [NoBurst EXCEPT !.on = TRUE, !.total = Cardinality(WithMiss(p, s))]
  ELSE NoBurst

MissAgain(s) == chain[s].status = "missing"               \* mutant: not looked up
AboveReported(s) ==                          \* mutant: a high-water mark for the set
  chain[s].status = "missing" /\ \A t \in state.reported_missed : t < s
NewMiss(s) == chain[s].status = "missing" /\ s \notin state.reported_missed

HandleMiss(p, s) ==
  /\ state' = [state EXCEPT !.reported_missed = @ \cup {s},
                            !.recent[p] = WithMiss(p, s),
                            !.burst[p] = BurstAfter(p, s)]
  /\ handled' = [handled EXCEPT ![s] = IF @ < MaxKills + 2 THEN @ + 1 ELSE @]
  /\ posted' = IF state.burst[p].on \/ StartsBurst(p, s) THEN posted
               ELSE [posted EXCEPT ![p] = @ \cup {[age |-> 0, slot |-> s]}]

HandleOrphan(s) ==
  /\ state' = [state EXCEPT !.reported_orphan = @ \cup {s}]
  /\ UNCHANGED <<handled, posted>>

HandleSlot(s) ==
  /\ pc = "scan" /\ Newest(s)
  /\ todo' = todo \ {s}
  /\ IF NewMiss(s) THEN HandleMiss(chain[s].by, s)
     ELSE IF chain[s].status = "orphaned" THEN HandleOrphan(s)
     ELSE UNCHANGED <<state, handled, posted>>
  /\ UNCHANGED <<chain, pc, disk, fetched, scanned, slept, kills>>

EndScan ==
  /\ pc = "scan" /\ todo = {}
  /\ pc' = "end"
  /\ UNCHANGED <<chain, todo, state, disk, observers>>

-----------------------------------------------------------------------------
(* The rest of the tick.                                                   *)

\* check_client_head_forks leaves last_known_head alone when it fails, else
\* raises it to the canonical head; then the trim of run_checks and save_state.
Trimmed(slots, head) == IF head > Keep THEN {s \in slots : s >= head - Keep} ELSE slots

EndTick ==
  /\ pc = "end"
  /\ \E head \in {state.last_known_head} \cup (IF HeadSlot > state.last_known_head THEN {HeadSlot} ELSE {}) :
       state' = [state EXCEPT !.last_known_head = head,
                              !.reported_missed = Trimmed(@, head),
                              !.reported_orphan = Trimmed(@, head)]
  /\ disk' = state'
  /\ scanned' = IF fetched = 0 THEN scanned ELSE fetched
  /\ fetched' = 0
  /\ pc' = "idle"
  /\ UNCHANGED <<chain, todo, handled, posted, slept, kills>>

Kill ==
  /\ kills < MaxKills
  /\ state' = disk /\ pc' = "idle" /\ todo' = {} /\ fetched' = 0 /\ kills' = kills + 1
  /\ UNCHANGED <<chain, disk, handled, posted, scanned, slept>>

-----------------------------------------------------------------------------
(* Environment: time and the chain.                                        *)

Older(a) == IF a = MaxAge THEN a ELSE a + 1
OlderPairs(pairs) == {[q EXCEPT !.age = Older(@)] : q \in pairs}
OlderBurst(b) == IF b.on THEN [b EXCEPT !.update_age = Older(@)] ELSE b
OlderState(st) ==
  [st EXCEPT !.recent = [p \in Proposers |-> OlderPairs(@[p])],
             !.burst  = [p \in Proposers |-> OlderBurst(@[p])]]

Clock ==
  /\ pc = "idle"
  /\ state' = OlderState(state) /\ disk' = OlderState(disk)
  /\ posted' = [p \in Proposers |-> OlderPairs(posted[p])]
  /\ UNCHANGED <<chain, pc, todo, handled, fetched, scanned, slept, kills>>

ChainGrows ==
  /\ HeadSlot < MaxSlot
  /\ \E slot \in Slot : slot.status # "none" /\ chain' = [chain EXCEPT ![HeadSlot + 1] = slot]
  /\ UNCHANGED <<pc, todo, state, disk, observers>>

\* A block of ours loses to another one at its slot.  The page is one answer, so
\* a reorg during its scan might as well come after it.
Reorg ==
  /\ pc # "scan"
  /\ \E s \in Slots :
       chain[s].status = "proposed" /\ chain' = [chain EXCEPT ![s].status = "orphaned"]
  /\ UNCHANGED <<pc, todo, state, disk, observers>>

Tick == BeginTick \/ (\E s \in Slots : HandleSlot(s)) \/ EndScan \/ EndTick
Next == Tick \/ Kill \/ Clock \/ ChainGrows \/ Reorg

Spec == Init /\ [][Next]_vars

\* The loop of main.py goes on and so does the clock.  Whether a fetch succeeds
\* is left open.
FairSpec == Spec /\ WF_vars(Tick) /\ SF_vars(Clock)

-----------------------------------------------------------------------------
(* Properties.                                                             *)

\* README.md, "restarts don't re-alert on already-reported missed slots": a miss
\* is posted or counted once, also when its slot was trimmed from the reported
\* ones; each kill before the state is saved can repeat it once.
MissHandledOnce == \A s \in Slots : handled[s] <= 1 + kills

\* No miss is lost: one that is behind the last saved scan was posted or counted,
\* unless the monitor or Dora was away for more slots than a scan covers.
NoMissLost ==
  slept \/ \A s \in 1..scanned : chain[s].status = "missing" => handled[s] >= 1

\* Storm mode: in any window of missed_burst_window_minutes fewer than
\* missed_burst_threshold misses of a proposer are posted on their own
\* (config.py, "per-slot alerts are suppressed"), once more for each kill.
PostsAreBounded ==
  \A p \in Proposers :
    Cardinality({q \in posted[p] : q.age <= Window}) <= (Threshold - 1) * (1 + kills)

\* A burst counts every miss since its window began: never fewer than those
\* still in the window.
BurstCountsAll ==
  \A p \in Proposers :
    state.burst[p].on => state.burst[p].total >= Cardinality(state.recent[p])

\* Every burst is resolved in the end: the chain of the model ends and with it
\* the misses.
BurstResolved == \A p \in Proposers : state.burst[p].on ~> ~state.burst[p].on

=============================================================================
