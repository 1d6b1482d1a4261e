--------------------------- MODULE DoraMonitorProofs ---------------------------
(***************************************************************************)
(* Proofs about the two checks of dora_monitor.  ClientAlerts: for every   *)
(* set of clients and of forks, every number of confirmations and every    *)
(* bound.  MissedBlocks: for every set of proposers, length of the chain,  *)
(* scan limit, window, threshold, schedule and number of kills.            *)
(***************************************************************************)
EXTENDS ClientAlerts, MissedBlocks, FiniteSetTheorems, TLAPS

(***************************************************************************)
(* ClientAlerts                                                            *)
(***************************************************************************)

-----------------------------------------------------------------------------
(* The counters.                                                           *)

\* A counter stays within its threshold; where the condition does not show it is
\* zero, so a confirmed client shows the condition in this very poll.
LEMMA CountIsDebounce ==
  ASSUME NEW most \in Nat \ {0}, NEW pending \in [Clients -> 0..most], NEW now
  PROVE  /\ Count(pending, now, most) \in [Clients -> 0..most]
         /\ Confirmed(Count(pending, now, most), most) \subseteq Clients \cap now
<1>1. Count(pending, now, most) \in [Clients -> 0..most]
  BY DEF Count
<1>2. ASSUME NEW c \in Clients, c \notin now
      PROVE  Count(pending, now, most)[c] = 0
  BY <1>2 DEF Count
<1>3. QED
  BY <1>1, <1>2 DEF Confirmed

\* What a tick finds is among what it saw: nobody found offline is online.
LEMMA FoundIsSeen ==
  ASSUME AlertsTypeOK, NEW f
  PROVE  /\ Found(f).offline \subseteq At("offline")
         /\ Found(f).forked \subseteq Forked(f)
         /\ Found(f).offline \cap At("online") = {}
         /\ \A k \in Kinds : Found(f)[k] \subseteq Clients
<1>1. /\ alertState.pending_offline \in [Clients -> 0..OfflineConfirm]
      /\ alertState.pending_fork \in [Clients -> 0..ForkConfirm]
  BY DEF AlertsTypeOK, AlertState
<1>2. Found(f).offline \subseteq At("offline")
  BY <1>1, CountIsDebounce, ClientAssumption DEF Found
<1>3. Found(f).forked \subseteq Forked(f)
  BY <1>1, CountIsDebounce, ClientAssumption DEF Found
<1>4. Found(f).lagging \subseteq Clients
  BY DEF Found, Lagging, At, Seen
<1>5. At("offline") \cap At("online") = {}
  BY DEF At
<1>6. At("offline") \subseteq Clients /\ Forked(f) \subseteq Clients
  BY DEF At, Seen, Forked
<1>7. QED
  BY <1>2, <1>3, <1>4, <1>5, <1>6 DEF Kinds

-----------------------------------------------------------------------------
(* Types.                                                                  *)

LEMMA AlertsInitTyped == AlertsInit => AlertsTypeOK
<1> SUFFICES ASSUME AlertsInit PROVE AlertsTypeOK
  OBVIOUS
<1>1. alertState \in AlertState
  BY ClientAssumption DEF AlertsInit, NoAlertState, AlertState
<1>2. QED
  BY <1>1, ClientAssumption DEF AlertsInit, AlertsTypeOK

\* The state a tick leaves behind has the form of the state file.
LEMMA CheckedTyped ==
  ASSUME AlertsTypeOK, NEW f
  PROVE  Checked(f) \in AlertState
<1>1. /\ alertState.pending_offline \in [Clients -> 0..OfflineConfirm]
      /\ alertState.pending_fork \in [Clients -> 0..ForkConfirm]
      /\ alertState.offline \subseteq Clients
  BY DEF AlertsTypeOK, AlertState
<1>2. /\ Count(alertState.pending_offline, At("offline"), OfflineConfirm) \in [Clients -> 0..OfflineConfirm]
      /\ Count(alertState.pending_fork, Forked(f), ForkConfirm) \in [Clients -> 0..ForkConfirm]
  BY <1>1, CountIsDebounce, ClientAssumption
<1>3. \A k \in Kinds : After(f, k) \subseteq Clients
  BY <1>1, FoundIsSeen DEF After, Kinds
<1>4. QED
  BY <1>2, <1>3 DEF Checked, AlertState, Kinds

LEMMA SentTyped ==
  ASSUME AlertsTypeOK, NEW f, NEW clients, Sent(f, clients)
  PROVE  told' \in [Kinds -> SUBSET Clients]
<1>1. \A k \in Kinds : Alerts(f)[k] \subseteq Clients
  BY FoundIsSeen DEF Alerts
<1>2. QED
  BY <1>1 DEF Sent, AlertsTypeOK

LEMMA AlertsNextTyped == AlertsTypeOK /\ [AlertsNext]_alertVars => AlertsTypeOK'
<1> SUFFICES ASSUME AlertsTypeOK, [AlertsNext]_alertVars PROVE AlertsTypeOK'
  OBVIOUS
<1> USE ClientAssumption
<1>1. CASE Check
  <2>1. PICK f \in Canonical : /\ alertState' = Checked(f)
                               /\ Sent(f, Clients)
                               /\ Observe(f)
                               /\ UNCHANGED <<view, tickKills>>
    BY <1>1 DEF Check
  <2>2. alertState' \in AlertState /\ told' \in [Kinds -> SUBSET Clients]
    BY <2>1, CheckedTyped, SentTyped
  <2>3. streak' \in [{"offline", "forked"} -> [Clients -> Nat]]
    BY <2>1 DEF Observe, AlertsTypeOK
  <2>4. QED
    BY <2>1, <2>2, <2>3 DEF AlertsTypeOK
<1>2. CASE Killed
  BY <1>2, SentTyped DEF Killed, AlertsTypeOK
<1>3. ASSUME NEW c \in Clients, NEW sight \in Sight, Moves(c, sight)
      PROVE  AlertsTypeOK'
  BY <1>3 DEF Moves, MonitorUnchanged, AlertsTypeOK, View
<1>4. ASSUME NEW o \in Others, NEW f \in Forks \cup {Absent}, OtherMoves(o, f)
      PROVE  AlertsTypeOK'
  BY <1>4 DEF OtherMoves, MonitorUnchanged, AlertsTypeOK, View
<1>5. ASSUME NEW f \in Forks, NEW n \in 1..MaxHead, HeadMoves(f, n)
      PROVE  AlertsTypeOK'
  BY <1>5 DEF HeadMoves, MonitorUnchanged, AlertsTypeOK, View
<1>6. CASE UNCHANGED alertVars
  BY <1>6 DEF AlertsTypeOK, alertVars
<1>7. QED
  BY <1>1, <1>2, <1>3, <1>4, <1>5, <1>6 DEF AlertsNext

\* The state file, the counters and the answers of Dora keep their form
\* (State in state.py, check_client_head_forks).
THEOREM AlertsTypeCorrect == AlertsSpec => []AlertsTypeOK
<1>1. AlertsInit => AlertsTypeOK
  BY AlertsInitTyped
<1>2. AlertsTypeOK /\ [AlertsNext]_alertVars => AlertsTypeOK'
  BY AlertsNextTyped
<1>3. QED
  BY <1>1, <1>2, PTL DEF AlertsSpec

-----------------------------------------------------------------------------
(* The channel.                                                            *)

\* A whole tick keeps the channel and the sets together.  The offline clients
\* need that nobody is found offline and seen online in the same poll.
LEMMA CheckTells ==
  ASSUME AlertsTypeOK, NEW f, \A k \in Kinds : told[k] = alertState[k],
         alertState' = Checked(f), Sent(f, Clients)
  PROVE  \A k \in Kinds : told'[k] = alertState'[k]
<1>1. \A k \in Kinds : alertState[k] \subseteq Clients /\ Found(f)[k] \subseteq Clients
  BY FoundIsSeen DEF AlertsTypeOK, AlertState, Kinds
<1>2. \A k \in Kinds : told'[k] = (alertState[k] \cup (Alerts(f)[k] \cap Clients))
                                     \ (Recoveries(f)[k] \cap Clients)
  BY DEF Sent
<1>3. \A k \in Kinds : told'[k] = After(f, k)
  <2> SUFFICES ASSUME NEW k \in Kinds PROVE told'[k] = After(f, k)
    OBVIOUS
  <2>1. CASE k = "offline"
    BY <1>1, <1>2, <2>1, FoundIsSeen DEF Alerts, Recoveries, After
  <2>2. CASE k # "offline"
    <3>1. /\ Alerts(f)[k] = Found(f)[k] \ alertState[k]
          /\ Recoveries(f)[k] = alertState[k] \ Found(f)[k]
          /\ After(f, k) = Found(f)[k]
      BY <2>2 DEF Alerts, Recoveries, After
    <3>2. QED
      BY <1>1, <1>2, <3>1, Zenon
  <2>3. QED
    BY <2>1, <2>2
<1>4. \A k \in Kinds : alertState'[k] = After(f, k)
  BY DEF Checked, Kinds
<1>5. QED
  BY <1>3, <1>4

\* The channel and the monitor agree as long as no tick was killed, for any
\* number of clients, forks and confirmations (check_client_head_forks: every
\* way into and out of the three sets sends its notice).
THEOREM ChannelAgrees == AlertsSpec => []ToldIsState
<1>1. AlertsInit => ToldIsState
  BY DEF AlertsInit, ToldIsState, NoAlertState, Kinds
<1>2. AlertsTypeOK /\ ToldIsState /\ [AlertsNext]_alertVars => ToldIsState'
  <2> SUFFICES ASSUME AlertsTypeOK, ToldIsState, [AlertsNext]_alertVars, tickKills' = 0
               PROVE  \A k \in Kinds : told'[k] = alertState'[k]
    BY DEF ToldIsState
  <2>1. CASE Check
    BY <2>1, CheckTells DEF Check, ToldIsState
  <2>2. CASE Killed
    BY <2>2 DEF Killed, AlertsTypeOK
  <2>3. CASE UNCHANGED <<alertState, told, tickKills>>
    BY <2>3 DEF ToldIsState
  <2>4. QED
    BY <2>1, <2>2, <2>3 DEF AlertsNext, Moves, OtherMoves, HeadMoves, MonitorUnchanged, alertVars
<1>3. QED
  BY <1>1, <1>2, AlertsTypeCorrect, PTL DEF AlertsSpec

-----------------------------------------------------------------------------
(* Confirmations.                                                          *)

\* The counters are the streaks: both go up and start again together.
CountersAreStreaks ==
  /\ streak["offline"] = alertState.pending_offline
  /\ streak["forked"] = alertState.pending_fork

LEMMA ChecksCount ==
  ASSUME AlertsTypeOK, CountersAreStreaks, NEW f, alertState' = Checked(f), Observe(f)
  PROVE  CountersAreStreaks'
<1>1. /\ alertState.pending_offline \in [Clients -> 0..OfflineConfirm]
      /\ alertState.pending_fork \in [Clients -> 0..ForkConfirm]
  BY DEF AlertsTypeOK, AlertState
<1>2. streak'["offline"] = Count(alertState.pending_offline, At("offline"), OfflineConfirm)
  <2>1. \A c \in Clients : alertState.pending_offline[c] < OfflineConfirm \/ alertState.pending_offline[c] = OfflineConfirm
    BY <1>1, ClientAssumption
  <2>2. QED
    BY <2>1 DEF Observe, Count, CountersAreStreaks
<1>3. streak'["forked"] = Count(alertState.pending_fork, Forked(f), ForkConfirm)
  <2>1. \A c \in Clients : alertState.pending_fork[c] < ForkConfirm \/ alertState.pending_fork[c] = ForkConfirm
    BY <1>1, ClientAssumption
  <2>2. QED
    BY <2>1 DEF Observe, Count, CountersAreStreaks
<1>4. QED
  BY <1>2, <1>3 DEF CountersAreStreaks, Checked

LEMMA CountersStep == AlertsTypeOK /\ CountersAreStreaks /\ [AlertsNext]_alertVars => CountersAreStreaks'
<1> SUFFICES ASSUME AlertsTypeOK, CountersAreStreaks, [AlertsNext]_alertVars PROVE CountersAreStreaks'
  OBVIOUS
<1>1. CASE Check
  BY <1>1, ChecksCount DEF Check
<1>2. CASE UNCHANGED <<alertState, streak>>
  BY <1>2 DEF CountersAreStreaks
<1>3. QED
  BY <1>1, <1>2 DEF AlertsNext, Killed, Moves, OtherMoves, HeadMoves, MonitorUnchanged, alertVars

\* No client is reported offline or forked before it was seen that way in as
\* many polls in a row as configured, vanishing and kills in between included
\* (the pending_*_ticks of check_client_head_forks).
THEOREM Debounced == AlertsSpec => AlertsConfirmed
<1>1. AlertsInit => CountersAreStreaks
  BY DEF AlertsInit, CountersAreStreaks, NoAlertState
<1>2. AlertsTypeOK /\ CountersAreStreaks /\ [AlertsNext]_alertVars
        => [\A c \in Clients :
              /\ c \in alertState'.offline \ alertState.offline => streak'["offline"][c] >= OfflineConfirm
              /\ c \in alertState'.forked \ alertState.forked => streak'["forked"][c] >= ForkConfirm]_alertVars
  <2> SUFFICES ASSUME AlertsTypeOK, CountersAreStreaks, [AlertsNext]_alertVars, NEW c \in Clients
               PROVE  /\ c \in alertState'.offline \ alertState.offline => streak'["offline"][c] >= OfflineConfirm
                      /\ c \in alertState'.forked \ alertState.forked => streak'["forked"][c] >= ForkConfirm
    OBVIOUS
  <2>1. CASE Check
    <3>1. PICK f \in Canonical : alertState' = Checked(f) /\ Observe(f)
      BY <2>1 DEF Check
    <3>2. CountersAreStreaks'
      BY <3>1, ChecksCount
    <3>3. c \in alertState'.offline \ alertState.offline => c \in Found(f).offline
      BY <3>1 DEF Checked, After
    <3>4. c \in alertState'.forked \ alertState.forked => c \in Found(f).forked
      BY <3>1 DEF Checked, After
    <3>5. QED
      BY <3>1, <3>2, <3>3, <3>4 DEF CountersAreStreaks, Checked, Found, Confirmed
  <2>2. CASE UNCHANGED alertState
    BY <2>2
  <2>3. QED
    BY <2>1, <2>2 DEF AlertsNext, Killed, Moves, OtherMoves, HeadMoves, MonitorUnchanged, alertVars
<1>3. QED
  BY <1>1, <1>2, CountersStep, AlertsTypeCorrect, PTL DEF AlertsSpec, AlertsConfirmed

-----------------------------------------------------------------------------
(* The majority.                                                           *)

LEMMA FollowersFinite ==
  ASSUME NEW f
  PROVE  IsFiniteSet(Followers(f)) /\ Cardinality(Followers(f)) \in Nat
<1>1. IsFiniteSet(Clients \cup Others)
  BY FS_Union, ClientAssumption
<1>2. Followers(f) \subseteq Clients \cup Others
  BY DEF Followers, Seen
<1>3. QED
  BY <1>1, <1>2, FS_Subset, FS_CardinalityType

\* A client is only added to the forked ones while another head has at least as
\* many followers as its own (check_client_head_forks: the canonical fork).
THEOREM MajorityStays == AlertsSpec => MajorityIsCanonical
<1>1. AlertsTypeOK /\ [AlertsNext]_alertVars
        => [\A c \in alertState'.forked \ alertState.forked :
              c \in Seen /\ \E g \in Forks \ {view.ours[c].fork} :
                Cardinality(Followers(view.ours[c].fork)) <= Cardinality(Followers(g))]_alertVars
  <2> SUFFICES ASSUME AlertsTypeOK, [AlertsNext]_alertVars, NEW c \in alertState'.forked \ alertState.forked
               PROVE  c \in Seen /\ \E g \in Forks \ {view.ours[c].fork} :
                        Cardinality(Followers(view.ours[c].fork)) <= Cardinality(Followers(g))
    OBVIOUS
  <2>1. CASE Check
    <3>1. PICK f \in Canonical : alertState' = Checked(f)
      BY <2>1 DEF Check
    <3>2. c \in Forked(f)
      BY <3>1, FoundIsSeen DEF Checked, After
    <3>3. c \in Seen /\ f \in Forks \ {view.ours[c].fork}
      BY <3>1, <3>2 DEF Forked, At, Canonical, ReportedForks
    <3>4. view.ours[c].fork \in ReportedForks
      <4>1. view.ours[c] \in Sight /\ view.ours[c].status # Absent
        BY <3>3 DEF AlertsTypeOK, View, Seen
      <4>2. view.ours[c].fork \in Forks
        BY <4>1 DEF Sight, NotListed
      <4>3. QED
        BY <3>3, <4>2 DEF ReportedForks, Followers
    <3>5. \/ Cardinality(Followers(f)) > Cardinality(Followers(view.ours[c].fork))
          \/ Cardinality(Followers(f)) = Cardinality(Followers(view.ours[c].fork))
      BY <3>1, <3>4 DEF Canonical
    <3>6. QED
      BY <3>3, <3>5, FollowersFinite
  <2>2. CASE UNCHANGED alertState
    BY <2>2
  <2>3. QED
    BY <2>1, <2>2 DEF AlertsNext, Killed, Moves, OtherMoves, HeadMoves, MonitorUnchanged, alertVars
<1>2. QED
  BY <1>1, AlertsTypeCorrect, PTL DEF AlertsSpec, MajorityIsCanonical

(***************************************************************************)
(* MissedBlocks                                                            *)
(***************************************************************************)

Pair == [age : Age, slot : Slots]
Burst == [on : BOOLEAN, update_age : Age, update_count : 0..Len(Schedule), total : 0..MaxTotal]

-----------------------------------------------------------------------------
(* The misses of a window.                                                 *)

\* No slot is in it twice.
Once(pairs) == \A q, r \in pairs : q.slot = r.slot => q = r

\* So there are no more of them than slots.
LEMMA OnceIsFinite ==
  ASSUME NEW pairs \in SUBSET Pair, Once(pairs)
  PROVE  /\ IsFiniteSet(pairs)
         /\ Cardinality(pairs) \in Nat
         /\ Cardinality(pairs) <= MaxSlot
<1> DEFINE slots == {q.slot : q \in pairs}
           f == [s \in slots |-> CHOOSE q \in pairs : q.slot = s]
<1>1. IsFiniteSet(Slots) /\ Cardinality(Slots) = MaxSlot
  <2>1. MaxSlot \in Nat
    BY MissedAssumption
  <2>2. IsFiniteSet(1..MaxSlot) /\ Cardinality(1..MaxSlot) = IF 1 > MaxSlot THEN 0 ELSE MaxSlot - 1 + 1
    BY <2>1, FS_Interval
  <2>3. QED
    BY <2>1, <2>2 DEF Slots
<1>2. slots \subseteq Slots
  BY DEF Pair
<1>3. IsFiniteSet(slots) /\ Cardinality(slots) <= MaxSlot /\ Cardinality(slots) \in Nat
  BY <1>1, <1>2, FS_Subset, FS_CardinalityType
<1>4. f \in Surjection(slots, pairs)
  <2>1. \A s \in slots : f[s] \in pairs /\ f[s].slot = s
    OBVIOUS
  <2>2. \A q \in pairs : f[q.slot] = q
    BY <2>1 DEF Once
  <2>3. \A q \in pairs : \E s \in slots : f[s] = q
    BY <2>2
  <2>4. f \in [slots -> pairs]
    BY <2>1
  <2> HIDE DEF f, slots
  <2>5. QED
    BY <2>3, <2>4 DEF Surjection
<1> HIDE DEF f, slots
<1>5. IsFiniteSet(pairs) /\ Cardinality(pairs) <= Cardinality(slots)
  BY <1>3, <1>4, FS_Surjection
<1>6. QED
  BY <1>3, <1>5, FS_CardinalityType, MissedAssumption

\* Time passes for each of them.
LEMMA OlderIsOnce ==
  ASSUME NEW pairs \in SUBSET Pair, Once(pairs)
  PROVE  /\ OlderPairs(pairs) \in SUBSET Pair
         /\ Once(OlderPairs(pairs))
         /\ \A q \in OlderPairs(pairs) : \E r \in pairs : q.slot = r.slot
         /\ Cardinality(OlderPairs(pairs)) <= Cardinality(pairs)
<1> DEFINE older(q) == [q EXCEPT !.age = Older(@)]
           f == [q \in pairs |-> older(q)]
<1>1. \A q \in pairs : older(q) \in Pair /\ older(q).slot = q.slot
  BY MissedAssumption DEF Pair, Older, Age
<1>2. OlderPairs(pairs) = {older(q) : q \in pairs}
  BY DEF OlderPairs
<1> HIDE DEF older
<1>3. f \in Surjection(pairs, OlderPairs(pairs))
  BY <1>2 DEF Surjection
<1>4. Cardinality(OlderPairs(pairs)) <= Cardinality(pairs)
  BY <1>3, OnceIsFinite, FS_Surjection
<1>5. QED
  BY <1>1, <1>2, <1>4 DEF Once

LEMMA RecentIsOnce ==
  ASSUME NEW pairs \in SUBSET Pair, Once(pairs)
  PROVE  /\ Recent(pairs) \in SUBSET pairs
         /\ Once(Recent(pairs))
         /\ Cardinality(Recent(pairs)) <= Cardinality(pairs)
<1>1. Recent(pairs) \in SUBSET pairs
  BY DEF Recent
<1>2. Cardinality(Recent(pairs)) <= Cardinality(pairs)
  BY <1>1, OnceIsFinite, FS_Subset
<1>3. QED
  BY <1>1, <1>2 DEF Once

-----------------------------------------------------------------------------
(* What holds of the state of the monitor, running or saved.               *)

\* The miss of s will not be handled again: it is among the reported ones or was
\* trimmed from them.
Gone(st, s) == s \in st.reported_missed \/ s < st.last_known_head - Keep

Good(st) ==
  \A p \in Proposers :
    /\ Once(st.recent[p])
    /\ \A q \in st.recent[p] : Gone(st, q.slot)
    /\ st.burst[p].on => st.burst[p].total >= Cardinality(st.recent[p])

\* Phase 1.
AfterWindows(st) ==
  LET recent == [p \in Proposers |-> Recent(st.recent[p])] IN
  [st EXCEPT !.recent = recent,
             !.burst = [p \in Proposers |-> BurstNow(@[p], recent[p])]]

LEMMA BurstsNow ==
  ASSUME NEW b \in Burst, NEW pairs
  PROVE  /\ BurstNow(b, pairs) \in Burst
         /\ BurstNow(b, pairs).on => b.on /\ BurstNow(b, pairs).total = b.total
<1>1. NoBurst \in Burst
  BY MissedAssumption DEF NoBurst, Burst, Age, MaxTotal
<1>2. Updated(b) \in Burst /\ Updated(b).on = b.on /\ Updated(b).total = b.total
  <2>1. Len(Schedule) \in Nat /\ 0 \in Age
    BY MissedAssumption DEF Age
  <2>2. b.update_count < Len(Schedule) => b.update_count + 1 \in 0..Len(Schedule)
    BY <2>1 DEF Burst
  <2>3. CASE b.update_age < Interval(b.update_count)
    BY <2>3 DEF Updated
  <2>4. CASE ~(b.update_age < Interval(b.update_count))
    <3> DEFINE n == IF b.update_count < Len(Schedule) THEN b.update_count + 1 ELSE b.update_count
    <3>1. Updated(b) = [b EXCEPT !.update_age = 0, !.update_count = n]
      BY <2>4 DEF Updated, Burst
    <3>2. n \in 0..Len(Schedule)
      BY <2>2 DEF Burst
    <3> HIDE DEF n
    <3>3. QED
      BY <2>1, <3>1, <3>2 DEF Burst
  <2>5. QED
    BY <2>3, <2>4
<1>3. QED
  BY <1>1, <1>2 DEF BurstNow, NoBurst

LEMMA WindowsGood ==
  ASSUME NEW st \in State, Good(st)
  PROVE  /\ AfterWindows(st) \in State /\ Good(AfterWindows(st))
         /\ AfterWindows(st).reported_missed = st.reported_missed
         /\ AfterWindows(st).last_known_head = st.last_known_head
<1> DEFINE new == AfterWindows(st)
<1>1. /\ st.recent \in [Proposers -> SUBSET Pair] /\ st.burst \in [Proposers -> Burst]
      /\ st.reported_missed \in SUBSET Slots
  BY DEF State, Pair, Burst
<1>2. \A p \in Proposers : new.recent[p] = Recent(st.recent[p])
                        /\ new.burst[p] = BurstNow(st.burst[p], Recent(st.recent[p]))
  BY DEF AfterWindows, State
<1>3. /\ new.reported_missed = st.reported_missed /\ new.last_known_head = st.last_known_head
      /\ new.recent = [p \in Proposers |-> Recent(st.recent[p])]
      /\ new.burst = [p \in Proposers |-> BurstNow(st.burst[p], Recent(st.recent[p]))]
  BY DEF AfterWindows, State
<1>4. \A p \in Proposers : new.recent[p] \in SUBSET Pair /\ new.burst[p] \in Burst
  <2>1. ASSUME NEW p \in Proposers PROVE new.recent[p] \in SUBSET Pair
    BY <1>1, <1>2 DEF Recent
  <2>2. ASSUME NEW p \in Proposers PROVE new.burst[p] \in Burst
    BY <1>1, <1>2, BurstsNow
  <2>3. QED
    BY <2>1, <2>2
<1>5. new \in State
  <2>1. new.recent \in [Proposers -> SUBSET Pair] /\ new.burst \in [Proposers -> Burst]
    BY <1>3, <1>4
  <2>2. new = [st EXCEPT !.recent = new.recent, !.burst = new.burst]
    BY DEF AfterWindows, State
  <2> HIDE DEF new
  <2>3. QED
    BY <2>1, <2>2 DEF State, Pair, Burst
<1>6. ASSUME NEW p \in Proposers
      PROVE  /\ Once(new.recent[p]) /\ \A q \in new.recent[p] : Gone(new, q.slot)
             /\ new.burst[p].on => new.burst[p].total >= Cardinality(new.recent[p])
  <2>1. Once(st.recent[p]) /\ st.recent[p] \in SUBSET Pair /\ st.burst[p] \in Burst
    BY <1>1 DEF Good
  <2>2. /\ new.recent[p] \in SUBSET st.recent[p] /\ Once(new.recent[p])
        /\ Cardinality(new.recent[p]) <= Cardinality(st.recent[p])
        /\ Cardinality(new.recent[p]) \in Nat /\ Cardinality(st.recent[p]) \in Nat
    BY <1>2, <1>4, <2>1, RecentIsOnce, OnceIsFinite
  <2>3. new.burst[p].on => st.burst[p].on /\ new.burst[p].total = st.burst[p].total
    BY <1>2, <2>1, BurstsNow
  <2>4. \A q \in new.recent[p] : Gone(new, q.slot)
    BY <1>3, <2>2 DEF Good, Gone
  <2>5. st.burst[p].total \in Int
    BY <2>1, MissedAssumption DEF Burst, MaxTotal
  <2>6. QED
    BY <2>2, <2>3, <2>4, <2>5 DEF Good
<1>7. QED
  BY <1>3, <1>5, <1>6 DEF Good

\* The clock.
LEMMA OlderGood ==
  ASSUME NEW st \in State, Good(st)
  PROVE  /\ OlderState(st) \in State /\ Good(OlderState(st))
         /\ OlderState(st).reported_missed = st.reported_missed
         /\ OlderState(st).last_known_head = st.last_known_head
<1> DEFINE new == OlderState(st)
<1>1. /\ st.recent \in [Proposers -> SUBSET Pair] /\ st.burst \in [Proposers -> Burst]
      /\ st.reported_missed \in SUBSET Slots
  BY DEF State, Pair, Burst
<1>2. \A b \in Burst : OlderBurst(b) \in Burst /\ OlderBurst(b).on = b.on /\ OlderBurst(b).total = b.total
  <2>1. \A a \in Age : Older(a) \in Age
    BY MissedAssumption DEF Older, Age
  <2>2. QED
    BY <2>1 DEF Burst, OlderBurst
<1>3. /\ new.reported_missed = st.reported_missed /\ new.last_known_head = st.last_known_head
      /\ new.recent = [p \in Proposers |-> OlderPairs(st.recent[p])]
      /\ new.burst = [p \in Proposers |-> OlderBurst(st.burst[p])]
  <2>1. new.reported_missed = st.reported_missed /\ new.last_known_head = st.last_known_head
    BY DEF OlderState, State
  <2>2. new.recent = [p \in Proposers |-> OlderPairs(st.recent[p])]
    BY DEF OlderState, State
  <2>3. new.burst = [p \in Proposers |-> OlderBurst(st.burst[p])]
    BY DEF OlderState, State
  <2>4. QED
    BY <2>1, <2>2, <2>3
<1>4. ASSUME NEW p \in Proposers PROVE new.recent[p] \in SUBSET Pair /\ new.burst[p] \in Burst
  <2>1. st.recent[p] \in SUBSET Pair /\ Once(st.recent[p])
    BY <1>1 DEF Good
  <2>2. new.recent[p] \in SUBSET Pair
    BY <1>3, <2>1, OlderIsOnce
  <2>3. new.burst[p] \in Burst
    BY <1>1, <1>2, <1>3
  <2>4. QED
    BY <2>2, <2>3
<1>5. new \in State
  <2>1. new.recent \in [Proposers -> SUBSET Pair] /\ new.burst \in [Proposers -> Burst]
    BY <1>3, <1>4
  <2>2. new = [st EXCEPT !.recent = new.recent, !.burst = new.burst]
    BY DEF OlderState, State
  <2> HIDE DEF new
  <2>3. QED
    BY <2>1, <2>2 DEF State, Pair, Burst
<1>6. ASSUME NEW p \in Proposers
      PROVE  /\ Once(new.recent[p]) /\ \A q \in new.recent[p] : Gone(new, q.slot)
             /\ new.burst[p].on => new.burst[p].total >= Cardinality(new.recent[p])
  <2>1. Once(st.recent[p]) /\ st.recent[p] \in SUBSET Pair /\ st.burst[p] \in Burst
    BY <1>1 DEF Good
  <2>2. /\ Once(new.recent[p]) /\ Cardinality(new.recent[p]) <= Cardinality(st.recent[p])
        /\ \A q \in new.recent[p] : \E r \in st.recent[p] : q.slot = r.slot
    BY <1>3, <2>1, OlderIsOnce
  <2>3. Cardinality(new.recent[p]) \in Nat /\ Cardinality(st.recent[p]) \in Nat
    BY <1>4, <2>1, <2>2, OnceIsFinite
  <2>4. new.burst[p].on = st.burst[p].on /\ new.burst[p].total = st.burst[p].total
    BY <1>2, <1>3, <2>1
  <2>5. \A q \in new.recent[p] : Gone(new, q.slot)
    BY <1>3, <2>2 DEF Good, Gone
  <2>6. st.burst[p].total \in Int
    BY <2>1, MissedAssumption DEF Burst, MaxTotal
  <2>7. QED
    BY <2>2, <2>3, <2>4, <2>5, <2>6 DEF Good
<1>7. QED
  BY <1>3, <1>5, <1>6 DEF Good

\* A miss that was neither reported nor trimmed is a new one of its window, so the
\* total never has to saturate below the misses it counts.
LEMMA MissGood ==
  ASSUME state \in State, Good(state), NEW p \in Proposers, NEW s \in Slots,
         ~Gone(state, s), HandleMiss(p, s)
  PROVE  /\ state' \in State /\ Good(state')
         /\ state'.reported_missed = state.reported_missed \cup {s}
         /\ state'.last_known_head = state.last_known_head
<1> DEFINE miss == [age |-> 0, slot |-> s]
           all == state.recent[p] \cup {miss}
<1>1. /\ state.recent \in [Proposers -> SUBSET Pair] /\ state.burst \in [Proposers -> Burst]
      /\ state.reported_missed \in SUBSET Slots
  BY DEF State, Pair, Burst
<1>2. Once(state.recent[p]) /\ state.recent[p] \in SUBSET Pair /\ state.burst[p] \in Burst
  BY <1>1 DEF Good
<1>3. all \in SUBSET Pair /\ Once(all)
  <2>1. miss \in Pair /\ miss.slot = s
    BY MissedAssumption DEF Pair, Age
  <2>2. \A q \in state.recent[p] : q.slot # s
    BY DEF Good
  <2> HIDE DEF miss
  <2>3. QED
    BY <1>2, <2>1, <2>2 DEF Once
<1>4. Cardinality(all) <= Cardinality(state.recent[p]) + 1
  <2>1. IsFiniteSet(state.recent[p]) /\ Cardinality(state.recent[p]) \in Nat
    BY <1>2, OnceIsFinite
  <2> HIDE DEF miss
  <2>2. Cardinality(all) = IF miss \in state.recent[p] THEN Cardinality(state.recent[p])
                           ELSE Cardinality(state.recent[p]) + 1
    BY <2>1, FS_AddElement
  <2>3. QED
    BY <2>1, <2>2
<1>5. /\ WithMiss(p, s) \in SUBSET all /\ Once(WithMiss(p, s))
      /\ Cardinality(WithMiss(p, s)) <= Cardinality(all)
  BY <1>3, RecentIsOnce DEF WithMiss
<1>6. /\ Cardinality(WithMiss(p, s)) \in Nat /\ Cardinality(WithMiss(p, s)) <= MaxSlot
      /\ Cardinality(state.recent[p]) \in Nat /\ Cardinality(all) \in Nat
  BY <1>2, <1>3, <1>5, OnceIsFinite
<1>7. /\ BurstAfter(p, s) \in Burst
      /\ BurstAfter(p, s).on => BurstAfter(p, s).total >= Cardinality(WithMiss(p, s))
  <2>1. /\ MaxTotal \in Nat /\ MaxSlot \in Nat /\ MaxSlot <= MaxTotal
        /\ 0 \in Age /\ 0 \in 0..Len(Schedule)
    BY MissedAssumption DEF MaxTotal, Age
  <2>2. CASE state.burst[p].on
    <3> DEFINE b == state.burst[p]
               n == IF b.total < MaxTotal THEN b.total + 1 ELSE b.total
    <3>1. BurstAfter(p, s) = [b EXCEPT !.total = n]
      BY <2>2, <1>2 DEF BurstAfter, Burst
    <3>2. b.total \in 0..MaxTotal /\ b.total >= Cardinality(state.recent[p])
      BY <1>2, <2>2 DEF Burst, Good
    <3>3. n \in 0..MaxTotal /\ n >= Cardinality(WithMiss(p, s))
      BY <1>4, <1>5, <1>6, <2>1, <3>2
    <3> HIDE DEF n
    <3>4. QED
      BY <1>2, <3>1, <3>3 DEF Burst
  <2>3. CASE ~state.burst[p].on /\ StartsBurst(p, s)
    <3> DEFINE n == Cardinality(WithMiss(p, s))
    <3>1. BurstAfter(p, s) = [on |-> TRUE, update_age |-> 0, update_count |-> 0, total |-> n]
      BY <2>3 DEF BurstAfter, NoBurst
    <3>2. n \in 0..MaxTotal
      BY <1>6, <2>1
    <3> HIDE DEF n
    <3>3. QED
      BY <2>1, <3>1, <3>2, <1>6 DEF Burst, n
  <2>4. CASE ~state.burst[p].on /\ ~StartsBurst(p, s)
    <3>1. BurstAfter(p, s) = NoBurst
      BY <2>4 DEF BurstAfter
    <3>2. QED
      BY <2>1, <3>1 DEF NoBurst, Burst
  <2>5. QED
    BY <2>2, <2>3, <2>4
<1>8. /\ state'.reported_missed = state.reported_missed \cup {s}
      /\ state'.last_known_head = state.last_known_head
      /\ state'.recent = [state.recent EXCEPT ![p] = WithMiss(p, s)]
      /\ state'.burst = [state.burst EXCEPT ![p] = BurstAfter(p, s)]
      /\ state' = [state EXCEPT !.reported_missed = state'.reported_missed,
                                !.recent = state'.recent, !.burst = state'.burst]
  BY DEF HandleMiss, State
<1> HIDE DEF all, miss
<1>9. /\ state'.recent \in [Proposers -> SUBSET Pair] /\ state'.burst \in [Proposers -> Burst]
      /\ state'.reported_missed \in SUBSET Slots
  BY <1>1, <1>3, <1>5, <1>7, <1>8
<1>10. state' \in State
  BY <1>8, <1>9 DEF State, Pair, Burst
<1>11. ASSUME NEW r \in Proposers
       PROVE  /\ Once(state'.recent[r]) /\ \A q \in state'.recent[r] : Gone(state', q.slot)
              /\ state'.burst[r].on => state'.burst[r].total >= Cardinality(state'.recent[r])
  <2>1. CASE r = p
    <3>1. state'.recent[r] = WithMiss(p, s) /\ state'.burst[r] = BurstAfter(p, s)
      BY <1>1, <1>8, <2>1
    <3>2. \A q \in all : q.slot = s \/ q \in state.recent[p]
      BY DEF all, miss
    <3>3. \A q \in WithMiss(p, s) : Gone(state', q.slot)
      BY <1>5, <1>8, <3>2 DEF Good, Gone
    <3>4. QED
      BY <1>5, <1>7, <3>1, <3>3
  <2>2. CASE r # p
    <3>1. state'.recent[r] = state.recent[r] /\ state'.burst[r] = state.burst[r]
      BY <1>1, <1>8, <2>2
    <3>2. QED
      BY <1>8, <3>1 DEF Good, Gone
  <2>3. QED
    BY <2>1, <2>2
<1>12. QED
  BY <1>8, <1>10, <1>11 DEF Good

\* The trim and the save.  A slot is only forgotten by moving behind what a scan
\* can reach.
AfterTrim(st, head) ==
  [st EXCEPT !.last_known_head = head,
             !.reported_missed = Trimmed(@, head),
             !.reported_orphan = Trimmed(@, head)]

LEMMA TrimGood ==
  ASSUME NEW st \in State, Good(st), NEW head \in 0..MaxSlot, head >= st.last_known_head
  PROVE  /\ AfterTrim(st, head) \in State /\ Good(AfterTrim(st, head))
         /\ AfterTrim(st, head).reported_missed \subseteq st.reported_missed
         /\ \A s \in Slots : Gone(st, s) => Gone(AfterTrim(st, head), s)
<1> DEFINE new == AfterTrim(st, head)
<1>1. /\ new.last_known_head = head /\ new.recent = st.recent /\ new.burst = st.burst
      /\ new.reported_missed = Trimmed(st.reported_missed, head)
      /\ new.reported_orphan = Trimmed(st.reported_orphan, head)
      /\ new = [st EXCEPT !.last_known_head = head, !.reported_missed = new.reported_missed,
                          !.reported_orphan = new.reported_orphan]
  BY DEF State, AfterTrim
<1> HIDE DEF new
<1>2. /\ st.reported_missed \in SUBSET Slots /\ st.reported_orphan \in SUBSET Slots
      /\ st.recent \in [Proposers -> SUBSET Pair] /\ st.last_known_head \in 0..MaxSlot
  BY DEF State, Pair
<1>3. \A slots \in SUBSET Slots : Trimmed(slots, head) \subseteq slots
  BY DEF Trimmed
<1>4. new \in State
  BY <1>1, <1>2, <1>3 DEF State
<1>5. \A s \in Slots : Gone(st, s) => Gone(new, s)
  BY <1>1, <1>2, MissedAssumption DEF Gone, Trimmed, Slots
<1>6. \A p \in Proposers : \A q \in st.recent[p] : q.slot \in Slots
  BY <1>2 DEF Pair
<1>7. Good(new)
  BY <1>1, <1>5, <1>6 DEF Good
<1>8. QED
  BY <1>1, <1>2, <1>3, <1>4, <1>5, <1>7 DEF new

-----------------------------------------------------------------------------
(* The chain.                                                              *)

Come == {s \in Slots : chain[s].status # "none"}
ChainInv == Come = 1..HeadSlot

LEMMA HeadInRange ==
  ASSUME TypeOK
  PROVE  HeadSlot \in 0..MaxSlot
<1>1. MaxSlot \in Nat
  BY MissedAssumption
<1>2. IsFiniteSet(Slots) /\ Cardinality(Slots) = MaxSlot
  BY <1>1, FS_Interval DEF Slots
<1>3. HeadSlot = Cardinality(Come) /\ Come \in SUBSET Slots
  BY DEF HeadSlot, Come
<1>4. IsFiniteSet(Come) /\ Cardinality(Come) <= MaxSlot
  BY <1>2, <1>3, FS_Subset
<1>5. QED
  BY <1>1, <1>3, <1>4, FS_CardinalityType

\* The head never goes back, and what has come and is no miss never becomes one.
LEMMA ChainStep ==
  ASSUME TypeOK, ChainInv, [Next]_vars
  PROVE  /\ chain' \in [Slots -> Slot] /\ ChainInv'
         /\ HeadSlot \in 0..MaxSlot /\ HeadSlot' \in Nat /\ HeadSlot <= HeadSlot'
         /\ \A s \in 1..HeadSlot : chain'[s].status = "missing" => chain[s].status = "missing"
<1> USE DEF TypeOK
<1>1. HeadSlot \in 0..MaxSlot /\ MaxSlot \in Nat
  BY HeadInRange, MissedAssumption
<1>2. HeadSlot' = Cardinality(Come')
  BY DEF HeadSlot, Come
<1>3. CASE ChainGrows
  <2>1. PICK slot \in Slot : slot.status # "none" /\ chain' = [chain EXCEPT ![HeadSlot + 1] = slot]
    BY <1>3 DEF ChainGrows
  <2>2. HeadSlot + 1 \in Slots /\ HeadSlot + 1 \in 1..MaxSlot
    BY <1>1, <1>3 DEF ChainGrows, Slots
  <2>3. \A s \in Slots : chain'[s] = IF s = HeadSlot + 1 THEN slot ELSE chain[s]
    BY <2>1
  <2>4. Come' = Come \cup {HeadSlot + 1}
    BY <2>1, <2>2, <2>3 DEF Come
  <2>5. Come' = 1..(HeadSlot + 1)
    BY <1>1, <2>4 DEF ChainInv
  <2>6. HeadSlot' = HeadSlot + 1
    BY <1>1, <1>2, <2>5, FS_Interval
  <2>7. \A s \in 1..HeadSlot : chain'[s] = chain[s]
    BY <1>1, <2>3 DEF Slots
  <2>8. chain' \in [Slots -> Slot]
    BY <2>1
  <2>9. QED
    BY <1>1, <2>5, <2>6, <2>7, <2>8 DEF ChainInv
<1>4. CASE Reorg
  <2>1. PICK s \in Slots : /\ chain[s].status = "proposed"
                           /\ chain' = [chain EXCEPT ![s].status = "orphaned"]
    BY <1>4 DEF Reorg
  <2>2. chain[s] \in [status : {"proposed", "missing", "orphaned"}, by : Proposers]
    BY <2>1 DEF Slot
  <2>3. [chain[s] EXCEPT !.status = "orphaned"] \in Slot
    BY <2>2 DEF Slot
  <2>4. /\ chain' \in [Slots -> Slot] /\ chain'[s].status = "orphaned"
        /\ \A t \in Slots : t # s => chain'[t] = chain[t]
    <3>1. chain' = [chain EXCEPT ![s] = [chain[s] EXCEPT !.status = "orphaned"]]
      BY <2>1
    <3>2. [chain[s] EXCEPT !.status = "orphaned"].status = "orphaned"
      BY <2>2
    <3>3. QED
      BY <2>3, <3>1, <3>2
  <2>5. Come' = Come
    BY <2>1, <2>4 DEF Come
  <2>6. HeadSlot' = HeadSlot
    BY <1>2, <2>5 DEF HeadSlot, Come
  <2>7. QED
    BY <1>1, <2>4, <2>5, <2>6 DEF ChainInv, Slots
<1>5. CASE UNCHANGED chain
  BY <1>1, <1>5 DEF ChainInv, Come, HeadSlot
<1>6. Next /\ ~ChainGrows /\ ~Reorg => UNCHANGED chain
  BY DEF Next, Tick, BeginTick, HandleSlot, EndScan, EndTick, Kill, Clock
<1>7. QED
  BY <1>3, <1>4, <1>5, <1>6 DEF vars

-----------------------------------------------------------------------------
(* The invariant.                                                          *)

Sound(st) == Good(st) /\ st.last_known_head <= HeadSlot
Reported(st) == \A s \in st.reported_missed : handled[s] >= 1

StatesInv == Sound(state) /\ Sound(disk) /\ Reported(state) /\ Reported(disk)

\* One handling per kill, and one more only where the miss will not come up again.
HandledInv ==
  \A s \in Slots : handled[s] <= 1 + kills /\ (~Gone(state, s) => handled[s] <= kills)

\* A scan under way leaves no miss of its page behind, and its page does not reach
\* a trimmed slot.
ScanInv ==
  /\ fetched <= HeadSlot /\ scanned <= HeadSlot
  /\ pc = "idle" => fetched = 0
  /\ pc # "scan" => todo = {}
  /\ \A s \in todo : s >= state.last_known_head - Keep
  /\ ~slept => \A s \in 1..fetched : chain[s].status = "missing" => handled[s] >= 1 \/ s \in todo
  /\ NoMissLost

Inv == TypeOK /\ ChainInv /\ StatesInv /\ HandledInv /\ ScanInv

LEMMA Numbers ==
  ASSUME TypeOK
  PROVE  /\ MaxSlot \in Nat /\ Keep \in Nat /\ ScanLimit \in Nat /\ MaxKills \in Nat
         /\ HeadSlot \in 0..MaxSlot /\ kills \in Nat /\ fetched \in Nat /\ scanned \in Nat
         /\ \A s \in Slots : s \in Int /\ handled[s] \in Nat
         /\ \A st \in {state, disk} : st.last_known_head \in Nat
         /\ \A st \in {state, disk} : st.reported_missed \in SUBSET Slots
<1>1. /\ MaxSlot \in Nat /\ Keep \in Nat /\ ScanLimit \in Nat /\ MaxKills \in Nat
      /\ HeadSlot \in 0..MaxSlot
  BY HeadInRange, MissedAssumption
<1>2. kills \in Nat /\ fetched \in Nat /\ scanned \in Nat
  BY <1>1 DEF TypeOK
<1>3. \A s \in Slots : s \in Int /\ handled[s] \in Nat
  BY <1>1 DEF TypeOK, Slots
<1>4. \A st \in State : st.last_known_head \in Nat /\ st.reported_missed \in SUBSET Slots
  BY <1>1 DEF State
<1>5. QED
  BY <1>1, <1>2, <1>3, <1>4 DEF TypeOK

LEMMA InvInit ==
  ASSUME Init
  PROVE  Inv
<1> USE MissedAssumption DEF Init
<1>1. NoState \in State
  <2>1. NoBurst \in Burst
    BY DEF NoBurst, Burst, Age, MaxTotal
  <2>2. QED
    BY <2>1 DEF NoState, State, Burst
<1>2. TypeOK
  <2>1. [status |-> "none"] \in Slot
    BY DEF Slot
  <2>2. chain \in [Slots -> Slot]
    BY <2>1
  <2>3. handled \in [Slots -> Nat] /\ posted \in [Proposers -> SUBSET [age : Age, slot : Slots]]
    OBVIOUS
  <2>4. {fetched, scanned} \subseteq 0..MaxSlot /\ kills \in 0..MaxKills
    <3>1. fetched = 0 /\ scanned = 0 /\ kills = 0 /\ 0 \in 0..MaxSlot /\ 0 \in 0..MaxKills
      OBVIOUS
    <3>2. QED
      BY <3>1
  <2>5. slept \in BOOLEAN
    BY Zenon
  <2>6. QED
    BY <1>1, <2>2, <2>3, <2>4, <2>5 DEF TypeOK
<1>3. HeadSlot = 0 /\ ChainInv
  <2>1. Come = {} /\ HeadSlot = Cardinality(Come)
    BY DEF Come, HeadSlot
  <2>2. HeadSlot = 0
    BY <2>1, FS_EmptySet
  <2>3. QED
    BY <2>1, <2>2 DEF ChainInv
<1>4. \A p \in Proposers : NoState.recent[p] = {} /\ ~NoState.burst[p].on
  BY DEF NoState, NoBurst
<1>5. StatesInv
  BY <1>3, <1>4 DEF StatesInv, Sound, Reported, Good, Once, NoState
<1>6. HandledInv /\ ScanInv
  BY <1>3 DEF HandledInv, ScanInv, NoMissLost, NoState
<1>7. QED
  BY <1>2, <1>3, <1>5, <1>6 DEF Inv

\* What the environment does to the chain, and what does not touch the monitor,
\* leaves the rest as it is.
LEMMA InvChain ==
  ASSUME Inv, [Next]_vars, UNCHANGED <<pc, todo, state, disk, observers>>
  PROVE  Inv'
<1>1. /\ chain' \in [Slots -> Slot] /\ ChainInv'
      /\ HeadSlot \in 0..MaxSlot /\ HeadSlot' \in Nat /\ HeadSlot <= HeadSlot'
      /\ \A s \in 1..HeadSlot : chain'[s].status = "missing" => chain[s].status = "missing"
  BY ChainStep DEF Inv
<1>2. TypeOK'
  BY <1>1 DEF Inv, TypeOK, observers
<1>3. StatesInv'
  <2>1. \A st \in {state, disk} : st.last_known_head <= HeadSlot /\ st.last_known_head \in Nat
    BY Numbers DEF Inv, StatesInv, Sound
  <2>2. \A st \in {state, disk} : st.last_known_head <= HeadSlot'
    BY <1>1, <2>1
  <2>3. QED
    BY <2>2 DEF Inv, StatesInv, Sound, Reported, observers
<1>4. HandledInv'
  BY DEF Inv, HandledInv, observers
<1>5. ScanInv'
  <2>1. /\ fetched \in Nat /\ scanned \in Nat /\ fetched <= HeadSlot /\ scanned <= HeadSlot
    BY Numbers DEF Inv, ScanInv
  <2>2. \A s \in 1..fetched : s \in 1..HeadSlot
    BY <1>1, <2>1
  <2>3. \A s \in 1..scanned : s \in 1..HeadSlot
    BY <1>1, <2>1
  <2>4. QED
    BY <1>1, <2>1, <2>2, <2>3 DEF Inv, ScanInv, NoMissLost, observers
<1>6. QED
  BY <1>1, <1>2, <1>3, <1>4, <1>5 DEF Inv

LEMMA InvBegin ==
  ASSUME Inv, BeginTick
  PROVE  Inv'
<1>1. /\ UNCHANGED <<chain, disk, handled, posted, scanned, kills>> /\ pc = "idle" /\ fetched = 0
      /\ state' = AfterWindows(state)
  BY DEF BeginTick, AfterWindows, Inv, ScanInv
<1>2. /\ state' \in State /\ Good(state')
      /\ state'.reported_missed = state.reported_missed
      /\ state'.last_known_head = state.last_known_head
  BY <1>1, WindowsGood DEF Inv, TypeOK, StatesInv, Sound
<1>3. HeadSlot' = HeadSlot /\ ChainInv' /\ HeadSlot \in 0..MaxSlot
  BY <1>1, HeadInRange DEF Inv, HeadSlot, ChainInv, Come
<1>4. StatesInv' /\ HandledInv'
  BY <1>1, <1>2, <1>3 DEF Inv, StatesInv, Sound, Reported, HandledInv, Gone
<1>5. CASE pc' = "end" /\ todo' = {} /\ UNCHANGED <<fetched, slept>>
  <2>1. TypeOK'
    BY <1>1, <1>2, <1>5 DEF Inv, TypeOK
  <2>2. ScanInv'
    BY <1>1, <1>3, <1>5 DEF Inv, ScanInv, NoMissLost
  <2>3. QED
    BY <1>3, <1>4, <2>1, <2>2 DEF Inv
<1>6. CASE /\ pc' = "scan" /\ todo' = Page(ScanLimit)
           /\ fetched' = HeadSlot
           /\ slept' = (slept \/ HeadSlot - scanned > ScanLimit)
  <2>1. slept' \in BOOLEAN /\ todo' \subseteq Slots /\ (slept => slept')
    BY <1>6 DEF Inv, TypeOK, Page
  <2>2. TypeOK'
    BY <1>1, <1>2, <1>3, <1>6, <2>1 DEF Inv, TypeOK
  <2>3. \A s \in todo' : s >= state'.last_known_head - Keep
    BY <1>2, <1>6, Numbers, ScanIsKept DEF Inv, StatesInv, Sound, Page
  <2>4. ASSUME ~slept', NEW s \in 1..HeadSlot, chain[s].status = "missing"
        PROVE  handled[s] >= 1 \/ s \in todo'
    <3>1. ~(HeadSlot - scanned > ScanLimit) /\ ~slept
      BY <1>6, <2>4, Zenon
    <3>2. CASE s \in 1..scanned
      BY <2>4, <3>1, <3>2 DEF Inv, ScanInv, NoMissLost
    <3>3. CASE s \notin 1..scanned
      BY <1>3, <1>6, <2>4, <3>1, <3>3, Numbers DEF Inv, Page, Slots
    <3>4. QED
      BY <3>2, <3>3
  <2>5. ScanInv'
    BY <1>1, <1>3, <1>6, <2>1, <2>3, <2>4 DEF Inv, ScanInv, NoMissLost
  <2>6. QED
    BY <1>3, <1>4, <2>2, <2>5 DEF Inv
<1>7. QED
  BY <1>5, <1>6 DEF BeginTick

\* A miss that is new is none of the reported and, being of the page, none of the
\* trimmed ones, so it was never handled but by a run that was killed.
LEMMA InvMiss ==
  ASSUME Inv, NEW s \in Slots, HandleSlot(s), NewMiss(s)
  PROVE  Inv'
<1> DEFINE p == chain[s].by
<1>1. /\ pc = "scan" /\ s \in todo /\ todo' = todo \ {s} /\ HandleMiss(p, s)
      /\ UNCHANGED <<chain, pc, disk, fetched, scanned, slept, kills>>
  BY DEF HandleSlot, Newest
<1>2. p \in Proposers
  <2>1. chain[s] \in Slot /\ chain[s].status = "missing"
    BY DEF Inv, TypeOK, NewMiss
  <2>2. QED
    BY <2>1 DEF Slot
<1> HIDE DEF p
<1>3. ~Gone(state, s)
  BY <1>1, Numbers DEF Inv, ScanInv, NewMiss, Gone
<1>4. /\ state' \in State /\ Good(state')
      /\ state'.reported_missed = state.reported_missed \cup {s}
      /\ state'.last_known_head = state.last_known_head
  BY <1>1, <1>2, <1>3, MissGood DEF Inv, TypeOK, StatesInv, Sound
<1>5. /\ handled' \in [Slots -> Nat] /\ handled'[s] >= 1 /\ handled'[s] <= handled[s] + 1
      /\ \A t \in Slots : handled'[t] >= handled[t] /\ (t # s => handled'[t] = handled[t])
  <2>1. handled \in [Slots -> Nat] /\ handled[s] \in Nat /\ MaxKills \in Nat
    BY Numbers DEF Inv, TypeOK
  <2>2. handled' = [handled EXCEPT ![s] = IF handled[s] < MaxKills + 2 THEN handled[s] + 1 ELSE handled[s]]
    BY <1>1 DEF HandleMiss
  <2>3. QED
    BY <2>1, <2>2
<1>6. TypeOK'
  <2>1. posted' \in [Proposers -> SUBSET [age : Age, slot : Slots]]
    <3>1. [age |-> 0, slot |-> s] \in [age : Age, slot : Slots]
      BY MissedAssumption DEF Age
    <3>2. posted' = posted \/ posted' = [posted EXCEPT ![p] = @ \cup {[age |-> 0, slot |-> s]}]
      BY <1>1 DEF HandleMiss
    <3>3. QED
      BY <1>2, <3>1, <3>2 DEF Inv, TypeOK
  <2>2. QED
    BY <1>1, <1>4, <1>5, <2>1 DEF Inv, TypeOK
<1>7. HeadSlot' = HeadSlot /\ ChainInv'
  BY <1>1 DEF Inv, HeadSlot, ChainInv, Come
<1>8. StatesInv'
  <2>1. Sound(state)' /\ Sound(disk)'
    BY <1>1, <1>4, <1>7 DEF Inv, StatesInv, Sound
  <2>2. Reported(state)' /\ Reported(disk)'
    BY <1>1, <1>4, <1>5, Numbers DEF Inv, StatesInv, Reported
  <2>3. QED
    BY <2>1, <2>2 DEF StatesInv
<1>9. HandledInv'
  BY <1>1, <1>3, <1>4, <1>5, Numbers DEF Inv, HandledInv, Gone
<1>10. ScanInv'
  <2>1. \A t \in 1..fetched : t \in Slots
    BY Numbers DEF Inv, ScanInv, Slots
  <2>2. \A t \in 1..scanned : t \in Slots
    BY Numbers DEF Inv, ScanInv, Slots
  <2>3. \A t \in Slots : handled[t] >= 1 => handled'[t] >= 1
    BY <1>5, Numbers DEF Inv
  <2>4. QED
    BY <1>1, <1>4, <1>5, <1>7, <2>1, <2>2, <2>3 DEF Inv, ScanInv, NoMissLost
<1>11. QED
  BY <1>6, <1>7, <1>8, <1>9, <1>10 DEF Inv

\* A slot that is no miss, or a reported one.
LEMMA InvOther ==
  ASSUME Inv, NEW s \in Slots, HandleSlot(s), ~NewMiss(s)
  PROVE  Inv'
<1>1. /\ pc = "scan" /\ todo' = todo \ {s}
      /\ UNCHANGED <<chain, pc, disk, handled, posted, fetched, scanned, slept, kills>>
      /\ \/ UNCHANGED state
         \/ state' = [state EXCEPT !.reported_orphan = @ \cup {s}]
  BY DEF HandleSlot, HandleOrphan
<1>2. /\ state' \in State /\ state'.recent = state.recent /\ state'.burst = state.burst
      /\ state'.reported_missed = state.reported_missed
      /\ state'.last_known_head = state.last_known_head
  <2>1. state \in State /\ s \in Slots
    BY DEF Inv, TypeOK
  <2>2. CASE state' = [state EXCEPT !.reported_orphan = @ \cup {s}]
    BY <2>1, <2>2 DEF State
  <2>3. CASE UNCHANGED state
    BY <2>1, <2>3
  <2>4. QED
    BY <1>1, <2>2, <2>3
<1>3. TypeOK'
  BY <1>1, <1>2 DEF Inv, TypeOK
<1>4. HeadSlot' = HeadSlot /\ ChainInv'
  BY <1>1 DEF Inv, HeadSlot, ChainInv, Come
<1>5. StatesInv' /\ HandledInv'
  BY <1>1, <1>2, <1>4 DEF Inv, StatesInv, Sound, Reported, Good, HandledInv, Gone
<1>6. chain[s].status = "missing" => handled[s] >= 1
  BY DEF Inv, StatesInv, Reported, NewMiss
<1>7. ScanInv'
  BY <1>1, <1>2, <1>4, <1>6 DEF Inv, ScanInv, NoMissLost
<1>8. QED
  BY <1>3, <1>4, <1>5, <1>7 DEF Inv

LEMMA InvEndTick ==
  ASSUME Inv, EndTick
  PROVE  Inv'
<1>1. /\ pc = "end" /\ pc' = "idle" /\ disk' = state' /\ fetched' = 0
      /\ scanned' = IF fetched = 0 THEN scanned ELSE fetched
      /\ UNCHANGED <<chain, todo, handled, posted, slept, kills>>
  BY DEF EndTick
<1>2. PICK head \in {state.last_known_head} \cup
                    (IF HeadSlot > state.last_known_head THEN {HeadSlot} ELSE {}) :
        state' = AfterTrim(state, head)
  BY DEF EndTick, AfterTrim
<1>3. head \in 0..MaxSlot /\ head >= state.last_known_head /\ head <= HeadSlot
  <2>1. state.last_known_head \in 0..MaxSlot /\ state.last_known_head <= HeadSlot
    BY DEF Inv, TypeOK, State, StatesInv, Sound
  <2>2. HeadSlot \in 0..MaxSlot
    BY HeadInRange DEF Inv
  <2>3. head = state.last_known_head \/ (head = HeadSlot /\ HeadSlot > state.last_known_head)
    BY <1>2
  <2>4. CASE head = state.last_known_head
    BY <2>1, <2>4
  <2>5. CASE head = HeadSlot /\ HeadSlot > state.last_known_head
    BY <2>1, <2>2, <2>5
  <2>6. QED
    BY <2>3, <2>4, <2>5
<1>4. /\ state' \in State /\ Good(state') /\ state'.reported_missed \subseteq state.reported_missed
      /\ \A s \in Slots : Gone(state, s) => Gone(state', s)
  <2>1. state \in State /\ Good(state)
    BY DEF Inv, TypeOK, StatesInv, Sound
  <2>2. QED
    BY <1>2, <1>3, <2>1, TrimGood
<1>5. state'.last_known_head = head
  BY <1>2 DEF Inv, TypeOK, State, AfterTrim
<1>6. scanned' \in {scanned, fetched}
  BY <1>1
<1>7. TypeOK'
  BY <1>1, <1>4, <1>6, Numbers DEF Inv, TypeOK
<1>8. HeadSlot' = HeadSlot /\ ChainInv'
  BY <1>1 DEF Inv, HeadSlot, ChainInv, Come
<1>9. StatesInv' /\ HandledInv'
  BY <1>1, <1>3, <1>4, <1>5, <1>8 DEF Inv, StatesInv, Sound, Reported, HandledInv
<1>10. ScanInv'
  <2>1. todo = {} /\ fetched <= HeadSlot /\ scanned <= HeadSlot
    BY <1>1 DEF Inv, ScanInv
  <2>2. NoMissLost'
    BY <1>1, <1>6, <2>1 DEF Inv, ScanInv, NoMissLost
  <2>3. scanned' <= HeadSlot' /\ fetched' <= HeadSlot'
    BY <1>1, <1>6, <1>8, <2>1, Numbers DEF Inv
  <2>4. QED
    BY <1>1, <2>1, <2>2, <2>3 DEF ScanInv
<1>11. QED
  BY <1>7, <1>8, <1>9, <1>10 DEF Inv

\* A kill forgets what was not saved, which may then be handled a second time.
LEMMA InvKill ==
  ASSUME Inv, Kill
  PROVE  Inv'
<1>1. /\ state' = disk /\ pc' = "idle" /\ todo' = {} /\ fetched' = 0
      /\ kills < MaxKills /\ kills' = kills + 1
      /\ UNCHANGED <<chain, disk, handled, posted, scanned, slept>>
  BY DEF Kill
<1>2. TypeOK'
  BY <1>1, Numbers DEF Inv, TypeOK
<1>3. HeadSlot' = HeadSlot /\ ChainInv'
  BY <1>1 DEF Inv, HeadSlot, ChainInv, Come
<1>4. StatesInv'
  BY <1>1, <1>3 DEF Inv, StatesInv, Sound, Reported
<1>5. HandledInv'
  BY <1>1, Numbers DEF Inv, HandledInv
<1>6. ScanInv'
  BY <1>1, <1>3, Numbers DEF Inv, ScanInv, NoMissLost
<1>7. QED
  BY <1>2, <1>3, <1>4, <1>5, <1>6 DEF Inv

LEMMA InvClock ==
  ASSUME Inv, Clock
  PROVE  Inv'
<1>1. /\ state' = OlderState(state) /\ disk' = OlderState(disk)
      /\ posted' = [p \in Proposers |-> OlderPairs(posted[p])]
      /\ UNCHANGED <<chain, pc, todo, handled, fetched, scanned, slept, kills>>
  BY DEF Clock
<1>2. \A st \in {state, disk} :
        /\ OlderState(st) \in State /\ Good(OlderState(st))
        /\ OlderState(st).reported_missed = st.reported_missed
        /\ OlderState(st).last_known_head = st.last_known_head
  BY OlderGood DEF Inv, TypeOK, StatesInv, Sound
<1>3. TypeOK'
  <2>1. \A a \in Age : Older(a) \in Age
    BY MissedAssumption DEF Older, Age
  <2>2. \A p \in Proposers : OlderPairs(posted[p]) \in SUBSET [age : Age, slot : Slots]
    BY <2>1 DEF Inv, TypeOK, OlderPairs
  <2>3. QED
    BY <1>1, <1>2, <2>2 DEF Inv, TypeOK
<1>4. HeadSlot' = HeadSlot /\ ChainInv'
  BY <1>1 DEF Inv, HeadSlot, ChainInv, Come
<1>5. StatesInv' /\ HandledInv'
  BY <1>1, <1>2, <1>4 DEF Inv, StatesInv, Sound, Reported, HandledInv, Gone
<1>6. ScanInv'
  BY <1>1, <1>2, <1>4 DEF Inv, ScanInv, NoMissLost
<1>7. QED
  BY <1>3, <1>4, <1>5, <1>6 DEF Inv

LEMMA InvAlways == Spec => []Inv
<1>1. Init => Inv
  BY InvInit
<1>2. Inv /\ [Next]_vars => Inv'
  <2> SUFFICES ASSUME Inv, [Next]_vars PROVE Inv'
    OBVIOUS
  <2>1. CASE BeginTick
    BY <2>1, InvBegin
  <2>2. ASSUME NEW s \in Slots, HandleSlot(s) PROVE Inv'
    BY <2>2, InvMiss, InvOther
  <2>3. CASE EndScan
    <3>1. /\ todo = {} /\ pc' = "end" /\ UNCHANGED <<chain, todo, state, disk, observers>>
      BY <2>3 DEF EndScan
    <3>2. HeadSlot' = HeadSlot /\ ChainInv'
      BY <3>1 DEF Inv, HeadSlot, ChainInv, Come
    <3>3. TypeOK' /\ StatesInv' /\ HandledInv' /\ ScanInv'
      BY <3>1, <3>2 DEF Inv, TypeOK, StatesInv, Sound, Reported, HandledInv, ScanInv, NoMissLost,
                        observers
    <3>4. QED
      BY <3>2, <3>3 DEF Inv
  <2>4. CASE EndTick
    BY <2>4, InvEndTick
  <2>5. CASE Kill
    BY <2>5, InvKill
  <2>6. CASE Clock
    BY <2>6, InvClock
  <2>7. CASE ChainGrows \/ Reorg
    BY <2>7, InvChain DEF ChainGrows, Reorg
  <2>8. CASE UNCHANGED vars
    BY <2>8, InvChain DEF vars
  <2>9. QED
    BY <2>1, <2>2, <2>3, <2>4, <2>5, <2>6, <2>7, <2>8 DEF Next, Tick
<1>3. QED
  BY <1>1, <1>2, PTL DEF Spec

-----------------------------------------------------------------------------
(* Posts of single misses.                                                 *)

\* Of the posts in a window those before the last kill are fewer than Threshold for
\* each kill, and those after it are among the misses the monitor remembers.
Covered(posts, recent, killed) ==
  /\ IsFiniteSet(posts)
  /\ \E lost \in SUBSET posts :
       /\ Cardinality(Recent(lost)) <= (Threshold - 1) * killed
       /\ Recent(posts \ lost) \subseteq recent
       /\ Cardinality(Recent(posts \ lost)) <= Threshold - 1

LEMMA CoveredBound ==
  ASSUME NEW posts, NEW recent, NEW killed \in Nat, Covered(posts, recent, killed)
  PROVE  Cardinality(Recent(posts)) <= (Threshold - 1) * (1 + killed)
<1>1. PICK lost \in SUBSET posts :
        /\ Cardinality(Recent(lost)) <= (Threshold - 1) * killed
        /\ Cardinality(Recent(posts \ lost)) <= Threshold - 1
  BY DEF Covered
<1>2. Recent(posts) = Recent(lost) \cup Recent(posts \ lost)
  BY DEF Recent
<1>3. IsFiniteSet(Recent(lost)) /\ IsFiniteSet(Recent(posts \ lost))
  BY FS_Subset DEF Covered, Recent
<1>4. Cardinality(Recent(posts)) <= Cardinality(Recent(lost)) + Cardinality(Recent(posts \ lost))
  <2>1. /\ IsFiniteSet(Recent(lost) \cap Recent(posts \ lost))
        /\ Cardinality(Recent(posts)) = Cardinality(Recent(lost)) + Cardinality(Recent(posts \ lost))
                                        - Cardinality(Recent(lost) \cap Recent(posts \ lost))
    BY <1>2, <1>3, FS_Union, FS_Subset
  <2>2. /\ Cardinality(Recent(lost)) \in Nat /\ Cardinality(Recent(posts \ lost)) \in Nat
        /\ Cardinality(Recent(lost) \cap Recent(posts \ lost)) \in Nat
    BY <1>3, <2>1, FS_CardinalityType
  <2>3. QED
    BY <2>1, <2>2
<1>5. /\ Cardinality(Recent(lost)) \in Nat /\ Cardinality(Recent(posts \ lost)) \in Nat
      /\ Cardinality(Recent(posts)) \in Nat
  BY <1>2, <1>3, FS_CardinalityType, FS_Union
<1>6. Threshold - 1 \in Nat /\ (Threshold - 1) * killed \in Nat
      /\ (Threshold - 1) * (1 + killed) = (Threshold - 1) * killed + (Threshold - 1)
  BY MissedAssumption
<1>7. QED
  BY <1>1, <1>4, <1>5, <1>6

\* After a kill every post may be one the monitor has forgotten.
LEMMA CoveredKill ==
  ASSUME NEW posts, NEW recent, NEW killed \in Nat, Covered(posts, recent, killed), NEW saved
  PROVE  Covered(posts, saved, killed + 1)
<1>1. Cardinality(Recent(posts)) <= (Threshold - 1) * (killed + 1)
  <2>1. 1 + killed = killed + 1
    OBVIOUS
  <2>2. QED
    BY <2>1, CoveredBound
<1>2. Recent(posts \ posts) = {}
  BY DEF Recent
<1>3. Cardinality(Recent(posts \ posts)) <= Threshold - 1
  <2>1. Cardinality({}) = 0
    BY FS_EmptySet
  <2>2. 0 <= Threshold - 1
    BY MissedAssumption
  <2>3. QED
    BY <1>2, <2>1, <2>2
<1>4. QED
  BY <1>1, <1>2, <1>3 DEF Covered

LEMMA CoveredMore ==
  ASSUME NEW posts, NEW recent, NEW killed, Covered(posts, recent, killed),
         NEW more, Recent(recent) \subseteq more
  PROVE  Covered(posts, more, killed)
<1>1. PICK lost \in SUBSET posts :
        /\ Cardinality(Recent(lost)) <= (Threshold - 1) * killed
        /\ Recent(posts \ lost) \subseteq recent
        /\ Cardinality(Recent(posts \ lost)) <= Threshold - 1
  BY DEF Covered
<1>2. Recent(posts \ lost) \subseteq more
  BY <1>1 DEF Recent
<1>3. QED
  BY <1>1, <1>2 DEF Covered

\* One more post below the threshold.
LEMMA CoveredPost ==
  ASSUME NEW posts, NEW recent, NEW killed, Covered(posts, recent, killed), NEW post,
         NEW all, Recent(recent) \subseteq all, post \in all,
         IsFiniteSet(all), Cardinality(all) < Threshold
  PROVE  Covered(posts \cup {post}, all, killed)
<1>1. PICK lost \in SUBSET posts :
        /\ Cardinality(Recent(lost)) <= (Threshold - 1) * killed
        /\ Recent(posts \ lost) \subseteq recent
  BY DEF Covered
<1>2. Recent((posts \cup {post}) \ lost) \in SUBSET all
  BY <1>1 DEF Recent
<1>3. Cardinality(Recent((posts \cup {post}) \ lost)) <= Threshold - 1
  <2>1. /\ Cardinality(Recent((posts \cup {post}) \ lost)) <= Cardinality(all)
        /\ IsFiniteSet(Recent((posts \cup {post}) \ lost))
    BY <1>2, FS_Subset
  <2>2. Cardinality(all) \in Nat /\ Cardinality(Recent((posts \cup {post}) \ lost)) \in Nat
    BY <2>1, FS_CardinalityType
  <2>3. QED
    BY <2>1, <2>2, MissedAssumption
<1>4. IsFiniteSet(posts \cup {post})
  BY FS_AddElement DEF Covered
<1>5. QED
  BY <1>1, <1>2, <1>3, <1>4 DEF Covered

LEMMA OlderShrinks ==
  ASSUME NEW pairs \in SUBSET Pair, IsFiniteSet(pairs)
  PROVE  /\ IsFiniteSet(OlderPairs(pairs))
         /\ Recent(OlderPairs(pairs)) \subseteq OlderPairs(Recent(pairs))
         /\ Cardinality(Recent(OlderPairs(pairs))) <= Cardinality(Recent(pairs))
         /\ Cardinality(Recent(OlderPairs(pairs))) \in Nat /\ Cardinality(Recent(pairs)) \in Nat
<1> DEFINE older(q) == [q EXCEPT !.age = Older(@)]
<1>1. \A q \in pairs : older(q).age <= Window => q.age <= Window
  BY MissedAssumption DEF Pair, Older, Age
<1>2. \A set : OlderPairs(set) = {older(q) : q \in set}
  BY DEF OlderPairs
<1> HIDE DEF older
<1>3. ASSUME NEW set \in SUBSET pairs
      PROVE  IsFiniteSet(OlderPairs(set)) /\ Cardinality(OlderPairs(set)) <= Cardinality(set)
  <2> DEFINE f == [q \in set |-> older(q)]
  <2>1. f \in Surjection(set, OlderPairs(set))
    BY <1>2 DEF Surjection
  <2>2. IsFiniteSet(set)
    BY FS_Subset
  <2>3. QED
    BY <2>1, <2>2, FS_Surjection
<1>4. Recent(OlderPairs(pairs)) \subseteq OlderPairs(Recent(pairs))
  BY <1>1, <1>2 DEF Recent
<1>5. Recent(pairs) \in SUBSET pairs /\ IsFiniteSet(Recent(pairs))
  BY FS_Subset DEF Recent
<1>6. /\ IsFiniteSet(OlderPairs(Recent(pairs)))
      /\ Cardinality(OlderPairs(Recent(pairs))) <= Cardinality(Recent(pairs))
  BY <1>3, <1>5
<1>7. /\ IsFiniteSet(Recent(OlderPairs(pairs)))
      /\ Cardinality(Recent(OlderPairs(pairs))) <= Cardinality(OlderPairs(Recent(pairs)))
  BY <1>4, <1>6, FS_Subset
<1>8. /\ Cardinality(Recent(OlderPairs(pairs))) \in Nat /\ Cardinality(Recent(pairs)) \in Nat
      /\ Cardinality(OlderPairs(Recent(pairs))) \in Nat
  BY <1>5, <1>6, <1>7, FS_CardinalityType
<1>9. QED
  BY <1>3, <1>4, <1>6, <1>7, <1>8

LEMMA CoveredOlder ==
  ASSUME NEW posts \in SUBSET Pair, NEW recent, NEW killed \in Nat, Covered(posts, recent, killed)
  PROVE  Covered(OlderPairs(posts), OlderPairs(recent), killed)
<1>1. PICK lost \in SUBSET posts :
        /\ Cardinality(Recent(lost)) <= (Threshold - 1) * killed
        /\ Recent(posts \ lost) \subseteq recent
        /\ Cardinality(Recent(posts \ lost)) <= Threshold - 1
  BY DEF Covered
<1> DEFINE kept == posts \ lost
           gone == OlderPairs(lost)
           rest == OlderPairs(posts) \ gone
<1>2. IsFiniteSet(posts) /\ IsFiniteSet(lost) /\ IsFiniteSet(kept)
  BY FS_Subset DEF Covered
<1>3. gone \in SUBSET OlderPairs(posts) /\ rest \subseteq OlderPairs(kept)
  BY DEF OlderPairs
<1>4. Threshold - 1 \in Nat /\ (Threshold - 1) * killed \in Nat
  BY MissedAssumption
<1>5. Cardinality(Recent(gone)) <= (Threshold - 1) * killed
  BY <1>1, <1>2, <1>4, OlderShrinks
<1>6. /\ Recent(OlderPairs(kept)) \subseteq OlderPairs(Recent(kept))
      /\ Cardinality(Recent(OlderPairs(kept))) <= Threshold - 1
      /\ IsFiniteSet(Recent(OlderPairs(kept))) /\ Cardinality(Recent(OlderPairs(kept))) \in Nat
  <2>1. IsFiniteSet(OlderPairs(kept))
    BY <1>2, OlderShrinks
  <2>2. IsFiniteSet(Recent(OlderPairs(kept)))
    BY <2>1, FS_Subset DEF Recent
  <2>3. QED
    BY <1>1, <1>2, <1>4, <2>2, OlderShrinks
<1> HIDE DEF rest, kept, gone
<1>7. Recent(rest) \in SUBSET Recent(OlderPairs(kept))
  BY <1>3 DEF Recent
<1>8. Cardinality(Recent(rest)) <= Threshold - 1
  <2>1. /\ Cardinality(Recent(rest)) <= Cardinality(Recent(OlderPairs(kept)))
        /\ IsFiniteSet(Recent(rest))
    BY <1>6, <1>7, FS_Subset
  <2>2. QED
    BY <1>4, <1>6, <2>1, FS_CardinalityType
<1>9. Recent(rest) \subseteq OlderPairs(recent)
  BY <1>1, <1>6, <1>7 DEF OlderPairs, kept
<1>10. IsFiniteSet(OlderPairs(posts))
  BY <1>2, OlderShrinks
<1>11. QED
  BY <1>3, <1>5, <1>8, <1>9, <1>10 DEF Covered, rest

PostsInv == \A p \in Proposers : Covered(posted[p], state.recent[p], kills)

LEMMA PostsStep ==
  ASSUME Inv, PostsInv, [Next]_vars
  PROVE  PostsInv'
<1>1. /\ kills \in Nat /\ posted \in [Proposers -> SUBSET Pair]
      /\ state.recent \in [Proposers -> SUBSET Pair]
  BY Numbers DEF Inv, TypeOK, State, Pair
<1>2. CASE UNCHANGED <<posted, state, kills>>
  BY <1>2 DEF PostsInv
<1>3. CASE BeginTick
  <2>1. ASSUME NEW p \in Proposers PROVE state'.recent[p] = Recent(state.recent[p])
    BY <1>3 DEF BeginTick, Inv, TypeOK, State
  <2>2. UNCHANGED <<posted, kills>>
    BY <1>3 DEF BeginTick
  <2>3. QED
    BY <2>1, <2>2, CoveredMore DEF PostsInv
<1>4. ASSUME NEW s \in Slots, HandleSlot(s), NewMiss(s) PROVE PostsInv'
  <2> DEFINE b == chain[s].by
             miss == [age |-> 0, slot |-> s]
  <2>1. HandleMiss(b, s) /\ UNCHANGED kills
    BY <1>4 DEF HandleSlot
  <2>2. b \in Proposers
    <3>1. chain[s] \in Slot /\ chain[s].status = "missing"
      BY <1>4 DEF Inv, TypeOK, NewMiss
    <3>2. QED
      BY <3>1 DEF Slot
  <2> HIDE DEF b
  <2>3. /\ state'.recent = [state.recent EXCEPT ![b] = WithMiss(b, s)]
        /\ posted' = IF state.burst[b].on \/ StartsBurst(b, s) THEN posted
                     ELSE [posted EXCEPT ![b] = @ \cup {miss}]
    BY <2>1 DEF HandleMiss, Inv, TypeOK, State
  <2>4. /\ Recent(state.recent[b]) \subseteq WithMiss(b, s) /\ miss \in WithMiss(b, s)
    BY MissedAssumption DEF WithMiss, Recent
  <2>5. IsFiniteSet(WithMiss(b, s)) /\ Cardinality(WithMiss(b, s)) \in Nat
    <3>1. IsFiniteSet(state.recent[b])
      BY <1>1, <2>2, OnceIsFinite DEF Inv, StatesInv, Sound, Good
    <3>2. IsFiniteSet(state.recent[b] \cup {miss})
      BY <3>1, FS_AddElement
    <3>3. WithMiss(b, s) \in SUBSET (state.recent[b] \cup {miss})
      BY DEF WithMiss, Recent
    <3>4. QED
      BY <3>2, <3>3, FS_Subset, FS_CardinalityType
  <2> HIDE DEF miss
  <2>6. ASSUME NEW p \in Proposers PROVE Covered(posted'[p], state'.recent[p], kills)
    <3>1. Covered(posted[p], state.recent[p], kills)
      BY DEF PostsInv
    <3>2. CASE p # b
      <4>1. posted'[p] = posted[p] /\ state'.recent[p] = state.recent[p]
        BY <1>1, <2>3, <3>2
      <4>2. QED
        BY <3>1, <4>1
    <3>3. CASE p = b /\ (state.burst[b].on \/ StartsBurst(b, s))
      <4>1. posted'[p] = posted[b] /\ state'.recent[p] = WithMiss(b, s)
        BY <1>1, <2>2, <2>3, <3>3
      <4>2. QED
        BY <2>4, <3>1, <3>3, <4>1, CoveredMore
    <3>4. CASE p = b /\ ~(state.burst[b].on \/ StartsBurst(b, s))
      <4>1. posted'[p] = posted[b] \cup {miss} /\ state'.recent[p] = WithMiss(b, s)
        BY <1>1, <2>2, <2>3, <3>4
      <4>2. Cardinality(WithMiss(b, s)) < Threshold
        BY <2>5, <3>4, MissedAssumption DEF StartsBurst
      <4>3. QED
        BY <2>4, <2>5, <3>1, <3>4, <4>1, <4>2, CoveredPost
    <3>5. QED
      BY <3>2, <3>3, <3>4
  <2>7. QED
    BY <2>1, <2>6 DEF PostsInv
<1>5. ASSUME NEW s \in Slots, HandleSlot(s), ~NewMiss(s) PROVE PostsInv'
  <2>1. UNCHANGED <<posted, kills>> /\ state'.recent = state.recent
    BY <1>5 DEF HandleSlot, HandleOrphan, Inv, TypeOK, State
  <2>2. QED
    BY <2>1 DEF PostsInv
<1>6. CASE EndTick
  <2>1. UNCHANGED <<posted, kills>> /\ state'.recent = state.recent
    BY <1>6 DEF EndTick, Inv, TypeOK, State
  <2>2. QED
    BY <2>1 DEF PostsInv
<1>7. CASE Kill
  <2>1. posted' = posted /\ kills' = kills + 1
    BY <1>7 DEF Kill
  <2>2. QED
    BY <1>1, <2>1, CoveredKill DEF PostsInv
<1>8. CASE Clock
  <2>1. UNCHANGED kills /\ posted' = [p \in Proposers |-> OlderPairs(posted[p])]
    BY <1>8 DEF Clock
  <2>2. state'.recent = [p \in Proposers |-> OlderPairs(state.recent[p])]
    BY <1>8 DEF Clock, OlderState, Inv, TypeOK, State
  <2>3. QED
    BY <1>1, <2>1, <2>2, CoveredOlder DEF PostsInv
<1>9. QED
  BY <1>2, <1>3, <1>4, <1>5, <1>6, <1>7, <1>8
  DEF Next, Tick, EndScan, ChainGrows, Reorg, vars, observers

LEMMA PostsAlways == Spec => []PostsInv
<1>1. Init => PostsInv
  <2> SUFFICES ASSUME Init, NEW p \in Proposers
               PROVE  Covered(posted[p], state.recent[p], kills)
    BY DEF PostsInv
  <2>1. posted[p] = {} /\ kills = 0
    BY DEF Init
  <2>2. Recent({}) = {} /\ Recent({} \ {}) = {} /\ Cardinality({}) = 0 /\ IsFiniteSet({})
    BY FS_EmptySet DEF Recent
  <2>3. QED
    <3>1. 0 <= (Threshold - 1) * 0 /\ 0 <= Threshold - 1
      BY MissedAssumption
    <3>2. {} \in SUBSET {} /\ Recent({} \ {}) \subseteq state.recent[p]
      BY <2>2
    <3>3. Covered({}, state.recent[p], 0)
      BY <2>2, <3>1, <3>2 DEF Covered
    <3>4. QED
      BY <2>1, <3>3
<1>2. QED
  BY <1>1, PostsStep, InvAlways, PTL DEF Spec

-----------------------------------------------------------------------------
(* The theorems.                                                           *)

\* Every variable keeps its type; the total of a burst does because no slot is
\* twice in its window.
THEOREM TypeCorrect == Spec => []TypeOK
BY InvAlways, PTL DEF Inv

\* However slots are trimmed, a miss is posted or counted once, and once more for a
\* kill before the save (checks.py, _handle_missed_slot and the trim of run_checks).
THEOREM MissesHandledOnce == Spec => []MissHandledOnce
<1>1. Inv => MissHandledOnce
  BY DEF Inv, HandledInv, MissHandledOnce
<1>2. QED
  BY <1>1, InvAlways, PTL

\* Every miss behind a saved scan was handled, unless more slots than a scan covers
\* passed between two (checks.py, check_missed_blocks).
THEOREM MissesAreFound == Spec => []NoMissLost
BY InvAlways, PTL DEF Inv, ScanInv

\* A burst that is on counts at least the misses of its window (checks.py,
\* _handle_missed_slot).
THEOREM BurstsCountAll == Spec => []BurstCountsAll
<1>1. Inv => BurstCountsAll
  BY DEF Inv, StatesInv, Sound, Good, BurstCountsAll
<1>2. QED
  BY <1>1, InvAlways, PTL

\* In no window are more misses of a proposer posted on their own than the threshold
\* allows, once more for each kill (checks.py, _handle_missed_slot; config.py).
THEOREM PostsBounded == Spec => []PostsAreBounded
<1>1. Inv /\ PostsInv => PostsAreBounded
  <2> SUFFICES ASSUME Inv, PostsInv, NEW p \in Proposers
               PROVE  Cardinality({q \in posted[p] : q.age <= Window}) <= (Threshold - 1) * (1 + kills)
    BY DEF PostsAreBounded
  <2>1. kills \in Nat /\ Covered(posted[p], state.recent[p], kills)
    BY Numbers DEF Inv, PostsInv
  <2>2. Cardinality(Recent(posted[p])) <= (Threshold - 1) * (1 + kills)
    BY <2>1, CoveredBound
  <2>3. QED
    BY <2>2 DEF Recent
<1>2. QED
  BY <1>1, InvAlways, PostsAlways, PTL

=============================================================================
