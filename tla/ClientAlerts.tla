------------------------------ MODULE ClientAlerts ------------------------------
(***************************************************************************)
(* dora_monitor/checks.py, check_client_head_forks, with the part of       *)
(* State it keeps, run_checks around it and the state file of main.py.     *)
(*                                                                         *)
(* Every tick asks Dora which head each consensus client follows and       *)
(* derives three kinds of alerts for the clients that match client_match:  *)
(* offline, forked, lagging.  Offline and forked are debounced over        *)
(* consecutive ticks.  A notice is sent when a client enters or leaves one *)
(* of the three sets; the sets and the debounce counters are written to    *)
(* the state file at the end of the tick and read back at start.           *)
(*                                                                         *)
(* Not modelled: the text of a notice, what the webhook does with it (a    *)
(* notice that is refused is logged and dropped) and the fork-independent  *)
(* fields of the payload.                                                  *)
(***************************************************************************)
EXTENDS Naturals, FiniteSets

CONSTANTS
  Clients,           \* names that match client_match and are not excluded
  Others,            \* names that do not
  Forks,             \* heads (head_root) Dora can report
  MaxHead,           \* bound: head slots; heads of forks are past genesis
  ForkConfirm,       \* fork_confirm_ticks
  OfflineConfirm,    \* offline_confirm_ticks
  LagThreshold,      \* sync_lag_threshold
  MaxTickKills       \* bound: kills, each in the middle of a tick

ASSUME ClientAssumption ==
  /\ IsFiniteSet(Clients) /\ IsFiniteSet(Others)
  /\ MaxHead \in Nat /\ LagThreshold \in Nat
  /\ ForkConfirm \in Nat \ {0} /\ OfflineConfirm \in Nat \ {0}
  /\ MaxTickKills \in Nat

VARIABLES
  view,        \* what /v1/network/client_head_forks answers (environment)
  alertState,  \* State of the monitor and, between ticks, of its state file
  told,        \* observer: told[kind], clients whose last notice of that kind was an alert
  streak,      \* observer: streak[kind][c], last completed polls in a row that showed it
  tickKills    \* observer: kills so far

alertVars == <<view, alertState, told, streak, tickKills>>

Kinds == {"offline", "forked", "lagging"}
Absent == "absent"
Statuses == {"online", "syncing", "offline"}   \* "syncing": synchronizing, optimistic

\* A client in the payload, or one that is not there.
NotListed == [fork |-> CHOOSE f \in Forks : TRUE, status |-> Absent, slot |-> 0]
Sight == [fork : Forks, status : Statuses, slot : 0..MaxHead] \cup {NotListed}
View ==
  [ours : [Clients -> Sight], others : [Others -> Forks \cup {Absent}],
   head : [Forks -> 1..MaxHead]]

\* pending_*_ticks[c] = 0 stands for no entry; a counter only matters up to its
\* threshold and saturates there.
AlertState ==
  [pending_offline : [Clients -> 0..OfflineConfirm], pending_fork : [Clients -> 0..ForkConfirm],
   offline : SUBSET Clients, forked : SUBSET Clients, lagging : SUBSET Clients]

NoAlertState ==
  [pending_offline |-> [c \in Clients |-> 0], pending_fork |-> [c \in Clients |-> 0],
   offline |-> {}, forked |-> {}, lagging |-> {}]

AlertsTypeOK ==
  /\ view \in View
  /\ alertState \in AlertState
  /\ told \in [Kinds -> SUBSET Clients]
  /\ streak \in [{"offline", "forked"} -> [Clients -> Nat]]
  /\ tickKills \in 0..MaxTickKills

-----------------------------------------------------------------------------
(* Reading the payload.                                                    *)

Seen == {c \in Clients : view.ours[c].status # Absent}
At(s) == {c \in Seen : view.ours[c].status = s}

Followers(f) ==
  {c \in Seen : view.ours[c].fork = f} \cup {o \in Others : view.others[o] = f}

ReportedForks == {f \in Forks : Followers(f) # {}}

\* The fork with the most clients, the highest head among those; max() takes
\* the first of the payload when both are equal.
HighestHead == {f \in ReportedForks : \A g \in ReportedForks : view.head[g] <= view.head[f]}  \* mutant: by head
Canonical ==
  {f \in ReportedForks : \A g \in ReportedForks :
     \/ Cardinality(Followers(f)) > Cardinality(Followers(g))
     \/ /\ Cardinality(Followers(f)) = Cardinality(Followers(g))
        /\ view.head[f] >= view.head[g]}

\* A client without a head slot of its own (0) is taken to be at its fork's.
HeadOf(c) == IF view.ours[c].slot = 0 THEN view.head[view.ours[c].fork] ELSE view.ours[c].slot

\* Only a client that is online is judged for forks and lag.
Forked(f)  == {c \in At("online") : view.ours[c].fork # f}
Lagging(f) == {c \in At("online") : HeadOf(c) + LagThreshold <= view.head[f]}

-----------------------------------------------------------------------------
(* One tick, with f the canonical fork.                                    *)

\* Counters: one more for those that show the condition, none for the others,
\* the clients that vanished from the payload among them.
CountSurvivesAbsence(pending, now, most) ==               \* mutant: vanished keeps its count
  [c \in Clients |-> IF c \in now THEN IF pending[c] < most THEN pending[c] + 1 ELSE most
                     ELSE IF c \in Seen THEN 0 ELSE pending[c]]
Count(pending, now, most) ==
  [c \in Clients |-> IF c \notin now THEN 0
                     ELSE IF pending[c] < most THEN pending[c] + 1 ELSE most]

MoreThanConfirmed(pending, most) == {c \in Clients : pending[c] > most}   \* mutant: > for >=
Confirmed(pending, most) == {c \in Clients : pending[c] >= most}

\* What this tick finds of each kind.
Found(f) ==
  [offline |-> Confirmed(Count(alertState.pending_offline, At("offline"), OfflineConfirm), OfflineConfirm),
   forked  |-> Confirmed(Count(alertState.pending_fork, Forked(f), ForkConfirm), ForkConfirm),
   lagging |-> Lagging(f)]

\* Its notices.  A client that was reported offline is back when it is seen
\* online: "a vanish is never a recovery".  It has left the other two sets as
\* soon as it is not found in them.
Alerts(f) == [k \in Kinds |-> Found(f)[k] \ alertState[k]]
Recoveries(f) ==
  [k \in Kinds |-> IF k = "offline" THEN alertState.offline \cap At("online")
                   ELSE alertState[k] \ Found(f)[k]]

AfterSetIsFound(f, k) == Found(f)[k]                      \* mutant: offline treated alike
After(f, k) ==
  IF k = "offline" THEN (alertState.offline \cup Found(f).offline) \ At("online") ELSE Found(f)[k]

Checked(f) ==
  [pending_offline |-> Count(alertState.pending_offline, At("offline"), OfflineConfirm),
   pending_fork    |-> Count(alertState.pending_fork, Forked(f), ForkConfirm),
   offline |-> After(f, "offline"), forked |-> After(f, "forked"), lagging |-> After(f, "lagging")]

\* The notices of a set of clients were sent.
Sent(f, clients) ==
  told' = [k \in Kinds |-> (told[k] \cup (Alerts(f)[k] \cap clients))
                              \ (Recoveries(f)[k] \cap clients)]

Observe(f) ==
  streak' = [k \in {"offline", "forked"} |->
              [c \in Clients |->
                 IF c \notin (IF k = "offline" THEN At("offline") ELSE Forked(f)) THEN 0
                 ELSE IF streak[k][c] < (IF k = "offline" THEN OfflineConfirm ELSE ForkConfirm)
                 THEN streak[k][c] + 1
                 ELSE streak[k][c]]]

\* run_checks and save_state.  An empty payload or a failed request changes
\* nothing.
Check ==
  \E f \in Canonical :
    /\ alertState' = Checked(f)
    /\ Sent(f, Clients)
    /\ Observe(f)
    /\ UNCHANGED <<view, tickKills>>

\* Killed while the notices of the tick are being sent, and started again from the
\* state file, which the tick before wrote.
Killed ==
  /\ tickKills < MaxTickKills
  /\ tickKills' = tickKills + 1
  /\ \E f \in Canonical : \E clients \in SUBSET Clients : Sent(f, clients)
  /\ UNCHANGED <<view, alertState, streak>>

-----------------------------------------------------------------------------
(* Environment: the clients and the explorer's view of them.               *)

MonitorUnchanged == UNCHANGED <<alertState, told, streak, tickKills>>
Moves(c, sight) == view' = [view EXCEPT !.ours[c] = sight] /\ MonitorUnchanged
OtherMoves(o, f) == view' = [view EXCEPT !.others[o] = f] /\ MonitorUnchanged
HeadMoves(f, n) == view' = [view EXCEPT !.head[f] = n] /\ MonitorUnchanged

AlertsInit ==
  /\ view \in View
  /\ alertState = NoAlertState
  /\ told = [k \in Kinds |-> {}]
  /\ streak = [k \in {"offline", "forked"} |-> [c \in Clients |-> 0]]
  /\ tickKills = 0

AlertsNext ==
  \/ Check
  \/ Killed
  \/ \E c \in Clients : \E sight \in Sight : Moves(c, sight)
  \/ \E o \in Others : \E f \in Forks \cup {Absent} : OtherMoves(o, f)
  \/ \E f \in Forks : \E n \in 1..MaxHead : HeadMoves(f, n)

AlertsSpec == AlertsInit /\ [][AlertsNext]_alertVars

\* Ticks go on and requests to Dora do not fail for ever.
AlertsFairSpec == AlertsSpec /\ WF_alertVars(Check)

-----------------------------------------------------------------------------
(* Properties.                                                             *)

\* The channel and the monitor agree as long as no tick was killed: an open alert
\* has not been withdrawn, a closed one has, whichever way the client left the set.
ToldIsState == tickKills = 0 => \A k \in Kinds : told[k] = alertState[k]

\* A client is reported only after it was seen that way in as many polls in a row
\* as config.py asks for ("Number of consecutive polls"), also over a kill: one
\* that vanishes from the payload in between starts again, and propagation
\* jitter is not reported as a fork.
AlertsConfirmed ==
  [][\A c \in Clients :
       /\ c \in alertState'.offline \ alertState.offline => streak'["offline"][c] >= OfflineConfirm
       /\ c \in alertState'.forked \ alertState.forked => streak'["forked"][c] >= ForkConfirm]_alertVars

\* The majority is never reported to be forked off: a client is only added to
\* the forked ones while some other head has at least as many followers as its
\* own (check_client_head_forks, "Canonical = fork followed by the most clients").
MajorityIsCanonical ==
  [][\A c \in alertState'.forked \ alertState.forked :
       c \in Seen /\ \E g \in Forks \ {view.ours[c].fork} :
         Cardinality(Followers(view.ours[c].fork)) <= Cardinality(Followers(g))]_alertVars

\* A client that stays offline for good is reported.
OfflineReported ==
  \A c \in Clients :
    <>[](view.ours[c].status = "offline") => <>(c \in told["offline"])

=============================================================================
