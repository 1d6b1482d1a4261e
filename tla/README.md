# Formal models of ethrex-tooling

ethrex-tooling is a collection of operator tools around the ethrex Ethereum
client: monitors, loaders, test runners, simulators. They share no code and no
process; each is a program of its own that talks to nodes, explorers, docker,
GitHub or a database. This directory keeps, for the ones that hold state worth
arguing about, a TLA+ model translated from the source, TLC configurations that
check it on small instances, and TLAPS proofs of what matters most for every
value of the constants. `PROJECT.json` lists every component, run, mutant, the
lines each definition models, the hazards and the theorems.

## 1. Inventory

| Tool (path) | State it keeps | Operations | Hard behaviour |
|---|---|---|---|
| `sync/docker_monitor.py` | one `Instance` per network (status, timers, blocks), a `DiagnosticsTracker` (mode, buffer, events), the run number and log | tick (`update_instance` of every network), diagnostics poll, failure report, run log, restart | time-outs against late answers, a node that flaps, a tick that stops early, state that leaks from one run into the next, restarts of the monitor |
| `dora_monitor` | reported slots and sets of clients in trouble, a debounce counter per alert, a burst per client, `state.json` | tick, one check per kind of alert, notification | alerts lost or repeated across failures of the notifier and restarts, bursts, clients that vanish |
| `devnets_monitor/devnets` | sqlite tables of events, blobs, node rows, forks, ... | detectors, collectors, deploy actions, CLI | events that resolve and reopen, one detector of several failing, gaps left by an interrupted collection |
| `devnets_monitor/web` | none (reads the database) | pages, aggregation | none of its own |
| `archive_sync` | `checkpoint.json`, dump files, the state trie | dump reader and writer, checkpoint, resume, final fork choice | abort and resume at any point, dumps that are missing, a torn checkpoint |
| `benchmarkoor-dashboard` | database of suites, runs and phases | snapshot sync, queries, log parser | commits between the steps of a sync, API failures, superseded runs |
| `sync/server_runner.py` | the state of one node run | execution, verification, block production loops | time-outs, swallowed exceptions |
| `monitor` (TUI) | one mailbox, rows and progress of every widget, which table is selected | tick of every widget, keys | a later request failing after the progress has moved, ticks slower than their rate, selection kept in several fields |
| `load_test` | one task per account with its nonces, the targets of a round | set up, send, wait until included, start over | nonce gaps, a failed round whose requests are still under way, endless wait |
| `reorgs` | child processes and their waiters, chains of the script | start, build, announce, update fork choice, stop | branches that do not differ, peers without the block, nodes that outlive a test that panicked |
| `migrations` | source and target store | block-wise migration, resume | restart in the middle |
| `repl` | variables, the line being typed, the call under way | tokenize, parse, resolve, convert, send, assign | a number that changes base and width on its way, one of several requests failing |
| `ef_tests` (blockchain, engine, state, state_v2) | reports of a run, report files | parse a fixture, run on LEVM, compare, run failures again on REVM, write reports | combinations of outcome and expectation, aborts in the middle, two runners that disagree |
| `hive_report`, `loc`, `log_analysis`, `import_benchmark`, `trace_compare`, `hardhat`, `l2/dev` | none | fetch, count, format | sequential, stateless |

How components interact. `docker_monitor` polls `eth_blockNumber`,
`eth_syncing`, `admin_peerScores` and `admin_syncStatus` of each node, asks
docker for the state and logs of its container, and commands both
(`admin_setLogLevel`, `docker compose`); the nodes never call back.
`dora_monitor` and `devnets_monitor` poll an explorer (Dora), the latter also
nodes over ssh and RPC, Loki and spamoor; the first sends to Slack or Discord,
the second writes sqlite, which `web` reads. `archive_sync` reads an archive
node over IPC or a directory that another `archive_sync` wrote, and writes the
store of an ethrex node. `benchmarkoor-dashboard` reads an HTTP API and GitHub
and writes a database that its pages read.

What makes each component correct. `docker_monitor`: every network gets a verdict
and only a deserved one; nothing of one run leaks into the next; every failure is
reported. `dora_monitor`: a condition is reported when it is confirmed and not
again, and the channel knows what the monitor believes; no miss is lost and a storm
of misses is a bounded number of posts. `archive_sync`: however often it is cut and
resumed, the state it ends with is the state of the block and the directory it wrote
is complete. `devnets_monitor`: an event is active as long as its condition holds;
the slots stored have no gaps. `benchmarkoor-dashboard`: a reader never sees a suite
without its current run, and that run is the newest complete one. `monitor`: a table
is a window on its chain, keys do not wait behind ticks. `server_runner`: every run gets a
verdict. `load_test`: the load has no hole and a round measures its own transactions.
`reorgs`: a script that passes did reorganise, and leaves no process. `repl`: the node is
asked what the user wrote. `ef_tests`: green means that the fixture is met, and the
harnesses agree. `migrations`: functional correctness of one pass.

## 2. Plan

The tools share nothing, so each gets a module (or a pair, when an abstract
specification says more clearly what it promises) and there is no module of the whole.
The order is by how much state outlives a step. What is done:

| module | of | composes / implements | runs | proofs |
|---|---|---|---|---|
| `InstanceLifecycle` | abstract lifecycle of a network | | | |
| `SyncInstance` | `update_instance` | implements `InstanceLifecycle` | `sync_instance` | `SyncInstanceProofs` |
| `DiagnosticsTracker` | class of that name | | | with `Multisync` |
| `Multisync` | `main()` of docker_monitor | extends `DiagnosticsTracker`, uses the lifecycle | `multisync_auto_update`, `multisync_networks` | `MultisyncProofs` |
| `ClientAlerts` | head alerts of dora_monitor | | `client_alerts` | `DoraMonitorProofs` |
| `MissedBlocks` | missed slots and bursts of dora_monitor | | `missed_blocks` | `DoraMonitorProofs` |
| `ArchiveSync` | archive_sync | | `archive_sync` | `ArchiveSyncProofs` |
| `Reorgs` | the simulator and scripts of reorgs | | `reorgs` | `EthrexClientsProofs` |
| `LoadTest` | load_test | | `load_test` | `EthrexClientsProofs` |
| `Monitor` | the TUI of monitor | | `monitor` | `MonitorProofs` |
| `Repl`, `ReplCommands` | repl, from the line to the request | | `repl`, `repl_ens` | `ReplProofs` |
| `StateTests` | the runners of ef_tests/state and state_v2 | | `state_tests` | `StateTestsProofs` |

What is left, in this order: `EventStore` (`record_event`, `resolve_stale`,
`run_detectors` of devnets_monitor, against an abstract set of conditions),
`SlotCollector` (`collect_blobs`: no gap below the watermark), `BenchmarkSync` (`sync()`
of benchmarkoor-dashboard: what a reader sees between two commits), `ServerRunner`
(server_runner.py), and the version drift of dora_monitor.

Runs are kept few: one for each question, bounds at the smallest instance in which
every action happens and every comparison is met from both sides.

## 3. sync: the multisync monitor

### Modules

* `InstanceLifecycle` – the abstract specification: the six statuses of a
  network and the only ways one follows another.
* `SyncInstance` – one network as `update_instance` sees it, with all timers.
  State: `inst[i]` (the dataclass `Instance`; an instant of the code is an age
  here), `node[i]` (environment: the ethrex container), `base[i]` (an observer:
  the node's head when its block processing began). Actions:
  `update_instance(i)` (`NoAnswer`, or `Answer` by status),
  `restart_containers`, `Tick`, and the steps of a node.
* `DiagnosticsTracker` – class `DiagnosticsTracker`: what a poll, a failure
  report and a reset do to the tracker, the dump files and the log levels.
* `Multisync` – `main()`: the loop, one action per step of it. It is built on
  `InstanceLifecycle` instead of `SyncInstance`: the loop cares for what an
  update did to the status of a network, and `SyncInstance` implements the
  lifecycle (run `sync_instance`, theorem `Refinement`), so every interleaving
  of the real timers is among those of `Multisync`. An update may change
  nothing in any status (no answer), which is why `UpdateKeeps` has no guard.
* `SyncInstanceProofs`, `MultisyncProofs` – the theorems.

Time. Every age saturates at `MaxAge`, above every timeout, so comparisons are
exact and runs are unbounded. `Tick` may happen any number of times between
two updates: a tick of the loop that was delayed by slow RPCs, or an instance
that `any()` skipped, is one of those behaviours.

Auto-update resets the instances once more before the first run; from the
point of view of one network this is the initial state again and
`SyncInstance` has no action for it.

### Runs

| run | question | result |
|---|---|---|
| `sync_instance` | are statuses, timers and verdicts of one network right for every node behaviour? | holds; 30240 states |
| `multisync_auto_update` | does anything leak from one run to the next, over interruptions and failed commands? | holds with `--auto-update`; 229458 states |
| `multisync_networks` | does stopping a tick at the first change lose reports or starve a network? | no; 230564 states |

What the model also shows, and no property claims otherwise (`PROJECT.json`, notes of
the hazards): a network that never answers stays `waiting`, for which no timer runs;
without `--auto-update` the tracker is not reset between runs, so that the second run's
degradation is not dumped; a relapse does not restart the recovery timer; a degradation
seen while one of the two diagnostics calls failed raises out of `main`.

Bounds. One network is enough for `SyncInstance`: networks do not interact
except in `restart_containers`, whose guard and effect are those of one. The
timeouts 2, 2, 1, 1 keep the relations of the defaults (watch >= twice the
stall timeout) and every comparison is reached with both outcomes; a success
takes two new blocks during the watch, so `MaxBlock` 3 lets a node advance
before it as well; one validation
message distinguishes none, shown and complete. In `Multisync` two networks
give "a network before and a network behind"; three runs let something survive
over a run in the middle; buffers of 1 and 2 make the trim happen in both
modes; `RecoveryTimeout` 2 is longer than both poll intervals. `MaxFailures` 2
is where `failures` saturates; no property looks beyond it. `Reliable` removes
failures of the log-level RPC, of dump writes and of reading the run log, where
the code offers no repair.

Fairness. `FairSpec` assumes that the loop visits every instance for ever
(weak fairness of `update_instance(i)`: the `while True` of `main`, whose calls
all have timeouts) and that the clock advances. Nothing is assumed of nodes.
`Multisync` has safety properties only and needs no fairness.
`CHECK_DEADLOCK FALSE` there: the monitor exits on failure, on
`--exit-on-success` and when it cannot restart.

### Proofs

`SyncInstanceProofs` proves for every set of networks, every timeout and every
bound: `TypeCorrect`, `Refinement` (each step of `SyncInstance` is a step of
`InstanceLifecycle` or leaves the statuses alone), `ReportedBlocks`, `Timers`
and `ProgressIsReal`. The inductive invariant `IInv` joins types, the nesting
of the timers, `base <= head`, and the baseline facts: an instance under watch
has `initial_block >= base` or the damaged baseline 0 of the startup, in which
case a block seen later than the start of the watch is needed. Assumptions are
`TimeoutAssumption` and `ChainAssumption` (the constants are naturals,
`MaxAge` above every timeout), and for `ProgressIsReal` that twice
`BlockStallTimeout` is at most `BlockProcessingDuration` (1200 <= 1320 by
default). The condition is needed: with a longer stall timeout a node whose
`eth_blockNumber` failed at startup succeeds without importing anything.
`VerdictReached` is liveness and stays with TLC.

`MultisyncProofs` proves about the loop and the tracker, for any number of networks, runs,
intervals, buffers and time-outs (`OrderAssumption`, `TrackerAssumption`,
`OptionAssumption`: the constants are naturals, the networks are `1..N`):

* `TypeCorrect`: types, and `NumbersFollowRuns`, by which no number is higher than the
  number of runs so far, so that the next one exists.
* `LogIsOrdered` (`HistoryOrdered`), from `LoggedBehind`: what is logged of earlier runs
  is behind the number in use. It needs `Reliable`: with a log that cannot be read
  `get_next_run_count` starts from one again.
* `FailuresAreReported` (`FailureReported`), from `FailuresAreCounted`: in the middle of a
  tick a network that failed has been counted, or is still to be looked at and `changed` is
  set. It needs `MaxFailures # 0`, or the count could not be seen.
* `RunsDoNotMix` (`RunFilesAreItsOwn`), `DegradationsAreDumped` (`DegradationDumped`) and
  `LevelFollows` (`LevelFollowsMode`), all from `RunsAreApart`: while a run is in
  progress, its buffers and events are of this run, a network marked as dumped has its
  file or failed with nothing to dump, and the level of a node follows. They assume
  `AutoUpdate`, without which `reset` is not called and they are false. What a poll or a
  failure report of one network may do to these is `Touched`, and the proof goes through
  it once instead of through every branch of `_check_alert_conditions`.

* `StarvationIsBounded` (`BoundedStarvation`), from `Starved`: the ticks a network was
  skipped and the changes that the networks before it still have to make (`Budget`, a set,
  so that it can be counted) are together at most `(i - 1) * (4 + Stages)`. A tick skips a
  network only behind one that changes, and a change uses up one of the budget; `any()`
  in `main` is fair enough because no network changes for ever. It needs no `AutoUpdate`:
  a new run gives all budgets back and skips nobody.

## 4. dora_monitor

### ClientAlerts

`ClientAlerts` is `check_client_head_forks`. `view` is the answer of
`/v1/network/client_head_forks` and may be any payload over the given clients and
forks; it changes between ticks in single moves of a client or a head. One `Check` is
one tick: the canonical fork (`Canonical`, two forks when `max()` meets a tie), the
clients that are offline, forked or lagging, the debounce counters (`Count`), the
notices (`Alerts`, `Recoveries`), the three sets, the save. `Killed` is a kill while
the notices go out: any part of them was sent, and the next process starts from the sets of
the tick before, which the state file holds. `alertState` is the part of `State` this
check keeps; the other check of the program, `MissedBlocks`, has `state` for its own part,
so the names of this module do not meet those of that one.
A request that fails or an answer without forks changes nothing and is a stutter.
Counters saturate at their thresholds, which is all the code compares them with.

Two observers belong to the model and not to the code: `told`, the last notice of each
kind per client, and `streak`, the polls in a row that showed a condition.

| run | question |
|---|---|
| client_alerts | `ToldIsState`: does the channel always know what the monitor believes, whatever the order of vanishing, coming back and changing forks? `AlertsConfirmed`: are the confirmations really polls in a row, over vanished clients and over a kill? `MajorityIsCanonical`: is a client of the larger fork ever called forked? `OfflineReported`: is a client that stays offline reported in the end? All hold; 43092 states. |

`ToldIsState` is stated for a monitor that was not killed: a kill after an alert and
before the save leaves an alert in the channel that the next process knows nothing of,
and it sends it again or, when the condition has gone, never withdraws it.

Fairness: `WF_vars(Check)`. The loop of `main.py` always starts another tick, and
weak fairness of `Check` says in addition that Dora answers again; without an answer
nothing can be reported, so `OfflineReported` needs it.

Bounds: one of our clients and two foreign ones on two forks (so either side can be the
majority, or both), confirmations of two polls, one kill. Clients of ours do not
interact except through the majority, in which a foreign one counts the same; two forks
are enough for a majority and a tie, two polls for a streak to be broken.

The text of a withdrawal is not modelled as a promise: "back on canonical head"
(checks.py:309) is also said of a forked client that went offline or vanished.

### Proofs

The first part of `DoraMonitorProofs` proves for any finite sets of clients and forks, any
confirmations, lag and number of kills (`ClientAssumption`) `AlertsTypeCorrect`,
`ChannelAgrees` (`ToldIsState`), `Debounced` (`AlertsConfirmed`) and `MajorityStays`
(`MajorityIsCanonical`). The first three rest on `CountIsDebounce`: a counter is positive
only for a client that shows the condition now, so the confirmed are among the seen, and
what a tick finds offline is not online. `ChannelAgrees` is inductive with the types once
the notices of a tick are split into who entered a set and who left it. `Debounced` uses
that a counter never exceeds the streak of polls the observer counts. `MajorityStays` is
a statement about the followers of two forks, for which cardinalities must be finite.
`OfflineReported` is liveness.

### MissedBlocks

`MissedBlocks` is `check_missed_blocks` and `_handle_missed_slot`, with the trim at the
end of `run_checks`. A tick is cut into `BeginTick` (windows, ends and updates of
bursts, the request), one `HandleSlot` per slot of the page, newest first, `EndScan`
and `EndTick` (head, trim, save), so that a kill may fall between any two slots. The
times of a tick are all taken at its start, so the clock moves between ticks only.
The chain behind Dora grows slot by slot and proposed blocks may still be orphaned. A
state file that could not be written is a kill at the next restart with more ticks lost;
it is not modelled, and neither is a network that is launched again from genesis under
the same state file (`PROJECT.json` lists that hazard: the trim then forgets every slot at once).

`handled`, `posted`, `fetched`, `scanned`, `slept` and `kills` are observers. `slept`
records that more slots than `slot_scan_limit` passed between two scans: those are lost
by design and `NoMissLost` does not speak of them.

| run | question |
|---|---|
| missed_blocks | `MissHandledOnce`: is a miss reported twice although its slot was trimmed, other than by a kill before the save? `NoMissLost`: does every miss of a saved scan get handled, with a kill in the middle of the page? `PostsAreBounded`: fewer than the threshold of single posts in any window. `BurstCountsAll`: is every miss of the window in the total of the burst, the ones before it began too? `BurstResolved`: does every burst end? All hold; 171908 states. |

Fairness: the loop goes on (`WF_vars(Tick)`) and time passes between ticks
(`SF_vars(Clock)`, strong because a tick in progress disables it again and again).
Whether a fetch succeeds is left to chance: `BurstResolved` holds without any.

Bounds: three slots, a page of two, threshold two, a window of one unit, one kill:
enough for a miss before, at and after the start of a burst, for a trim and for a miss
that leaves the page. The totals saturate at `MaxTotal`, the ages at `MaxAge`, one above
the window.

### Proofs

The second part of `DoraMonitorProofs` proves for any proposers, length of the chain, scan limit, window,
threshold, schedule and number of kills the four safety properties of the run:
`MissesHandledOnce` (`MissHandledOnce`), `MissesAreFound` (`NoMissLost`), `BurstsCountAll`
(`BurstCountsAll`) and `PostsBounded` (`PostsAreBounded`), and `TypeCorrect`.

The invariant (`Inv`) says: the slots that have come are a prefix of the chain
(`ChainInv`); a slot in a window is there once, and is reported or was trimmed (`Good`,
`Gone`), so a window has no more misses than there are slots and a total never saturates
below them; what is reported was handled (`Reported`); a miss that may still come up has
been handled once per kill at most (`HandledInv`); the page of a scan does not reach a
trimmed slot, and every miss of it is handled or still to be looked at (`ScanInv`). It
holds of the saved state as of the running one, because a kill makes the one the other.
`PostsInv` splits the posts of a window into those before the last kill and those the
monitor remembers (`Covered`); a kill moves all of them to the first part.

Assumptions: `MissedAssumption`, and `ScanIsKept`: a scan does not go back behind the
slots that are kept. The code fixes the second (10 000, checks.py:757) and leaves the
first to the configuration (`slot_scan_limit`, 64 as shipped) without comparing them; with
a scan that is wider a trimmed miss would be reported again. `BurstResolved` is liveness
and model-checked only.

## 5. archive_sync

### ArchiveSync

`ArchiveSync` is one state directory in the hands of a sequence of runs of the command.
`flags` are the options of the current run, `pc` the step of `archive_sync()` it is at:

| action | code |
|---|---|
| `Start` | `load_checkpoint` and the construction of reader, writer and processor (`Fresh` or `Resumed`); refuses what `Accepted` refuses |
| `ReadDump` | `DumpIpcReader::read_dump` (`Page`, `NextStart`), `DumpDirReader::read_dump` |
| `ProcessDump` | `DumpProcessor::process_dump`: comparison of state roots, dump file, storages and codes, trie |
| `SaveCheckpoint` | the checkpoint every `DUMPS_BEFORE_CHECKPOINT` dumps and after the last |
| `FinishBlock` | the block and the fork choice, or the refusal of a wrong root |
| `Abort` | the run ends anywhere, by a kill or an error; in the middle of a dump its file is cut or part of its storages is stored, in the middle of a checkpoint the file is empty |
| `Handover` | the finished directory is the input of later runs |

An account is its hashed address and, for its content, the block it belongs to. A trie
is the set of accounts under its root, so a root names its content, as a hash does. The
dump of the archive node is the first `MaxAccounts` accounts from `start` on and is
last when nothing follows, which is what geth's `next` says. Every run of the model has
a checkpoint file: without one a run that is cut starts afresh, the case `None`. The
confirmations asked for on the terminal are given or end the run. The block hashes
stored next to the block are left out, and so is a node that answers for another block.

| run | question |
|---|---|
| archive_sync | `CheckpointCovers`: is everything before the resumed position really there, in the trie and in whole files, for any sequence of cuts and options? `StorageIsThere`: does a trie that can be resumed, or the head, point to a storage that is missing? `ResultIsWhole`: does the trie that is compared with the root of the block in the end hold every account, whatever runs it took, and is a finished directory complete, nothing cut, nothing missing? `ResumesToTheEnd`: does a sync that is started again often enough end? All hold; 627092 states. |

`ResumesToTheEnd` excepts what the code cannot get out of: a checkpoint cut while it was
written (`Torn`), the checkpoint after the last dump of a directory (`Stuck`), a trie or
directory in which two blocks are mixed (`Mixed`; the README of the tool asks for the
same block). The second one is a sync from a directory that was cut after its last
checkpoint: it looks for a file after the last one, in this run and in every later one. With an archive node the second case is harmless: the node answers with an
empty dump and the run ends.

Fairness: a run takes its steps, and somebody starts the command again after it was cut.
Cuts are bounded by `MaxAborts`; without a bound no run need ever end.
`CHECK_DEADLOCK FALSE`: a sync that is done, or whose checkpoint is cut, stops.

Bounds: three accounts in dumps of one and a checkpoint every two dumps give a dump
before, at and after a checkpoint and one that is last; two cuts can fall in two
different runs; two blocks are enough to mix.

### Proofs

`ArchiveSyncProofs` proves, for any accounts, blocks, dump size, checkpoint interval and
number of cuts, `TypeCorrect`, `StoragesAreThere`, `CheckpointsCover` and
`ResultsAreWhole` (`ResultIsWhole`).

`StorageIsThere` is inductive together with the same fact about the trie of the run in
progress (`StoreInv`). `CheckpointCovers` needs more: what a checkpoint will claim must
hold of the run at any time, up to the dump in hand (`PositionInv`), and the files an
older checkpoint relies on must be behind the writer of the run that may be cut
(`WriterInv`), or a rewritten file would take them away; both hold only because a run
without output, or without sync, cannot be continued with it (`Accepted`). The step that
reads a dump uses `PageIsContiguous`: a page leaves no key out between its start and the
next start, for which the largest key of a page must exist (`HighestExists`, from the
well-founded order of the naturals). `RunOK` says that a run without `--ipc_path` has an
input directory and that the counter stays below the interval. Assumptions: `ArchiveAssumption` (keys are positive naturals,
finitely many) and `NoneAssumption` (the markers are none of the values).

`ResultIsWhole` rests on `CoverInv` and on `WholeInv`: the files below the writer are
contiguous and whole, and one of them that is the last closes the set (`OutputInv`); the
same holds up to the file a checkpoint names, and what a run from a directory had read
before the checkpoint is in its trie and files (`ResumedInv`); what the current run has
read is safe but for the dump in hand, and everything is when that dump is the last
(`ReadInv`); an input directory was whole when it was handed over (`InputInv`).
`FilesKept` and `DumpAdded` are the two facts about writing a file: those behind it keep
what they hold, and the dump in hand becomes safe. `ResumesToTheEnd` is liveness and
model-checked only.
## 6. reorgs

`Reorgs` is the `Simulator` with the seven scripts of `main.rs`, one after another in the
order `main` runs them. A script is a sequence of steps (`Step`), one per call of the
source, with its loops unrolled `Blocks` times, ten in the source. `test`, `pc` and `stage`
say where the program is; `nodes` are the child processes with their waiter, `chains` the
`Chain` values of the script.

| action | code |
|---|---|
| `SpawnNode`, `NodeStarted`, `StartTimesOut` | `start_node`: the child is spawned, waited for, and only then tracked |
| `fork`, `build_payload`, `notify_new_payload` | `Chain::fork`, `Node::build_payload` with its asserted fork choice, `notify_new_payload` |
| `update_forkchoice`, `SyncTimesOut`, `AskPeer` | the fork choice repeated until the answer is VALID, up to its deadline; the node asks one peer after another |
| `SendTransaction`, `CheckState`, `NodeUnreachable` | transactions, the assertions on balances and slots, `unwrap` on a node that is gone |
| `TestEnds`, `WaiterPanics`, `StopNode`, `StopPanics`, `NextTest` | `run_test` and `stop`: cancel, SIGTERM, await each waiter; exit or go on with a new `Simulator` |

The nodes are ethrex and external: they keep a block whose parent they know, move to a
head they know, and look for one they do not. A block is who built it and its
transactions, a chain stands for its last hash.

Run `reorgs` (187818 states). `ScriptsHold`: are the scripts' assertions true of any such
node, and do scripts fail only by a fault or a wrong peer? `ReorgsAsNamed`: does a script
that passes make its nodes reorganise as often as its name says? It would not if the
branches built on one parent were equal, which only the fee recipient prevents.
`NothingLeftRunning`: are the nodes of a test gone before the next one starts, also when
the test panicked? The last one is stated without faults: `stop` unwraps a waiter that
panicked because its node died, and a node whose start timed out was never tracked.

Bounds: none that the program does not have. Stretches are of ten blocks, as in the
source, and 16 faults are as many as can happen: the seven tests start 15 nodes, each of
which can crash once, and one slow start ends the program. The state space is small because the
scripts are sequential; what branches is the peers and the faults. Safety only, no
fairness. `CHECK_DEADLOCK FALSE`: the program ends.

`EthrexClientsProofs` proves `NodesAreStopped` (`NothingLeftRunning`) for any script: it
does not use what `Tests` holds, so the clean-up does not depend on what the tests do. The
invariant (`NodesInv`) relates a process, its waiter and its place in the list: a waiter is
done only when its process has ended and panics only when it failed, a process is told to end
only when it is tracked, and without a fault a node that is not tracked is the last one
and the script waits for its start (`FaultlessOK`). The last part is what makes the
clean-up complete: the task cannot end, nor panic, between the spawn and the registration.

`OnlyTheseAreLeft` drops the condition on faults, from the same invariant. Whatever crashes,
a node outlives its test in two ways only: it was slow to start and never tracked, or it comes
after one that had crashed, whose waiter `stop` unwraps, and that is the end of the program.

## 7. load_test

`LoadTest` is `main.rs` for the three kinds of transactions. `tasks` has one record per
account (state, start nonce, number sent), `targets` what `load_test` returned, `watch`
the loop of `wait_until_all_included`, `outcome` how every round ended. The node, external,
keeps the transactions it took and how many are in blocks; `late` are the requests of
tasks that were dropped and which may still arrive.

| action | code |
|---|---|
| `Deploy`, `SendMint`, `MintUnsent`, `MintReceipt`, `claim_erc20_balances` | the set-up of the Erc20 and contract tests |
| `get_nonce`, `send_generic_transaction`, `NodeTakes`, `NodeRefuses`, `RequestLost`, `TaskEnds` | a sender: the pending nonce once, then one request at a time |
| `RoundFails` (in the last ones) | the first error ends `load_test` and drops the other tasks where they are |
| `AllSent`, `Reached`, `KeepWaiting`, `GivesUp`, `RoundFinished`, `NonceUnknown` | the wait, account after account, with `last_updated` per account |
| `run_round` | `--endless`: another round whatever became of this one |

Run `load_test` (82304 states). `NoNonceGap`: can a failed round and its late requests
leave a hole below the transactions of the next round, so that nothing is included any
more? `RoundMeasuresItsOwn`: does a round that finishes have all of its own transactions in
blocks, none of a round before? `RoundsEnd`: does every round end? All hold.

Bounds: two accounts (so that one task can fail while another is under way), two
transactions each, two rounds, one lost request. Fairness: the program's tasks run, the
node answers and includes what it took; that is what the tool is used on, and without it
`--wait 0` never ends by design. `CHECK_DEADLOCK FALSE`: the program ends, or the bound on
the rounds is reached.

`EthrexClientsProofs` proves `NoncesHaveNoGap` (`NoNonceGap`) for any sequence of accounts, one
listed twice included, any number of transactions, rounds and lost requests. The invariant
(`NonceInv`) says that the nonces taken are the first ones and that every nonce that is on
its way, will be sent next, or is late is at most the one after them; the pending nonce is
that one (`PendingIsNext`). The number of nonces taken only grows, so what was at most the
next one stays so.

`RoundsMeasureThemselves` proves `RoundMeasuresItsOwn` under the same assumptions. The
invariant (`MeasureInv`) has four parts: what the node has of the round is exactly what its
tasks were answered, each transaction of one task (`OwnSent`); every task that is done sent
`tx_amount` and has its target in the list (`Ended`); the requests still on their way are of
earlier rounds; and the accounts before the one that is watched have reached their targets.
That the number is then `tx_amount` times the tasks of the account is a bijection from the
pairs of a task and a number below `tx_amount` to the transactions. Reasoning about
`Accounts` needs that it is a sequence, which `LoadTestAssumption` now says. `RoundsEnd` is
liveness and stays with TLC.

## 8. monitor

`Monitor` is the actor of `app.rs` with its mailbox, and the eight widgets. `tables[w]` has
the rows of a widget, its progress (`last`), its cursor and whether it is selected; `stage`
is the widget the tick under way refreshes; `ui` the tab, `overview_selected_widget` and
flags. The two chains are one counter, because no widget relates them: block `b` of
L2 is batch `b` and so on (header of the module).

| action | code |
|---|---|
| `TimerFires`, `handle_tick`, `TickEnds` | `send_after` at the end of each tick; `handle_tick` runs `on_tick` and draws |
| `NodeStatusTick` .. `RichAccountsTick` | `on_tick` of each widget, one step each, well or cut by a failing request at any of its awaits |
| `KeyPressed`, `handle_event` | keys, `on_key_event`, stop after Q |

Run `monitor` (3172031 states). `NoTickBacklog`: does a key ever wait for more than one
tick, however slow? `TablesAreWindows`: does a table repeat a row or outgrow its window after
ticks that failed half way, and are the batches, while nothing failed, exactly the latest
ones? `HighlightIsScrolled`: is the highlighted table the one that the keys scroll? All hold.
The part of `TablesAreWindows` on the latest rows is for the batches only: the other tables
drain the newest rows and keep the oldest when they are full (a hazard with a note), and a
failed request loses rows that were fetched, because the progress has moved.

Bounds: windows and chunks of two rows over chains of three blocks, so a table fills, drains
and a chunk ends in the middle of a fetch; one failing request, two keys. Safety only.
`CHECK_DEADLOCK FALSE`: the monitor stops after Q.

`MonitorProofs` proves `NoBacklog` (`NoTickBacklog`), from `OneTick`: a tick is scheduled,
waiting or handled, and only one of the three; and `HighlightIsTrue` (`HighlightIsScrolled`),
from `OneBorder`: the one table with a border is the one of `overview_selected_widget`. Both
hold for any chains, windows, keys and failures.

`TablesStayWindows` proves `TablesAreWindows` for every size of window, chunk and chain. The
invariant (`Windowed`) adds to the property what the next tick relies on: no table has
looked further than its chain (`last <= chain`), every row is of a block up to `last` and
none twice, so what is fetched next, from `last + 1` on, is new; and as long as nothing failed
the batches are the numbers from `last` down without a hole (`Unbroken`). The lemmas before it
say what each way of refreshing does to a window: rows read again keep their numbers
(`Refreshed`, `PartlyRefreshed`), a drain or a truncation keeps some rows and at most
`Window` of them (`Drained`, `Truncated`), and a fetch that is cut moves `last` only.

## 9. repl

`Repl` takes a line from its lexemes to the request and the answer; `ReplCommands` has the
values, the registry of all methods and `validate_and_convert`/`build_params`. State:
`variables`, `buffer` (the multi-line buffer), `call` (the RPC call under way with its
arguments as given and as resolved), `sent`, `shown`, and the options.

| action | code |
|---|---|
| `TypeLine` | `run`: a line is added to the buffer, and when it is balanced tokenized, parsed and executed up to its first request |
| `Interrupted`, `Eof`, `Killed` | Ctrl-C, Ctrl-D, the end of the process |
| `LookUp` | `resolve_ens_in_args`: the two `eth_call`s of every ENS name |
| `Send`, `Answer` | `build_params`, `send_request`: a result, or any of its errors |

Pure functions of the source (`tokenize`, `parse_rpc_args`, `resolve_var_args`,
`apply_offset`, `execute_utility`, ...) are operators of the same name. Numbers keep their
width: `MaxInt` stands for `i64::MAX`, `MaxWide` for `u128::MAX`, `Base` for 10^9. A 0x string
of 20 or 32 bytes may be a small number with zeros before it (`Padded`), which
`apply_offset` takes for a number like any other; the other ones stand for values too large for
every integer type. JSON is read by `serde_json` without `arbitrary_precision`: an
integer that is neither an i64 nor a u64 becomes a float (`JsonInteger`), in a block
of JSON, in a string given for an object or an array, and in the result of a utility that is
assigned.

| run | question |
|---|---|
| repl | `SentAsMeant`: is the node asked for the number the user wrote, through variables, fields, offsets, defaults and hexadecimal, and for nothing more or less? Two ways to another number are named in the property, and it says that there is no third: `$x - 1` of `0x0` is sent as the u64 with the bits of -1, and `eth.call 18446744073709551617` sends a float. `AddressesAreAddresses`: does a method that takes an address get one, after any failure of a look-up? `FailuresAssignNothing`: does a variable keep its value when the call assigned to it fails at any request? All hold; 505503 states. |
| repl_ens | `EnsNamesAreAccepted`, violated: the README gives `eth.getBalance vitalik.eth` as an example of a name that is looked up; the tokenizer cuts the bare name at its point, the call has too many arguments, and no request is made |

Bounds: every method of the registry once, and thirty-four lines on two variables, in any order of
three, with every request answered in seven ways or failing; three lines are an assignment, a
use and a use of what it assigned. Safety only. `CHECK_DEADLOCK FALSE`: the prompt ends.
Left out: escapes in strings, JSON blocks within blocks, colours, the completer.

`ReplProofs` proves the three properties of the run (`AskedAsMeant`, `AskedForAddresses`,
`FailedCallsAssignNothing`) for any lines, any answers, any names of variables and of ENS,
any widths of integers and any number of lines. `ReplAssumption` says what they rely on: a
line is a sequence of lexemes, and no node answers with the error text of the program. The
invariant (`CallInv`) follows an argument on its way: what was typed, what it was resolved
to and what is sent stand for the same number (`StandsFor`, `SentFor`). A step of its own says so of the
variables and offsets (`ResolvedStandsFor`), of a look-up, which only touches names
(`LookUpKeeps`), and of the conversions of every parameter type (`ConvertedNumber`,
`ConvertedWrapped`, `ConvertedStandsFor`, `ConvertedAddress`, `BuiltParams`, `SendKeeps`). `RegistryWellFormed` goes through the
registry: every method has a list of parameters of known types.

Both ends of that way are loops over a line or over the arguments, written as recursive
functions. `ChainExists` and `ChainTyped` show once, by the least place where it could go
wrong, that such a loop is defined and gives a sequence; `TokensIsSeq`, `RawArgsIsSeq` and
`ArgsIsSeq` are instances of it. Which lexemes make which arguments is not claimed: what the
user means is stated of the parsed arguments, not of the characters of the line.

Two more theorems have no run. `WeiThereAndBack`: an amount that `fromWei` writes in any
unit is read back by `toWei` as the same amount, digit for digit, up to `u128::MAX`; a rounding
anywhere would break it. `StrayBracketStaysOpen`: once a line closes a bracket that was not
open (`Overclosed`), the buffer stays unbalanced whatever is typed after it, and nothing is
executed, printed or assigned until Ctrl-C; the hazard at `repl.rs:708`, stated as what the
code does.

## 10. ef_tests: the state-test runners

`StateTests` runs commands of the two harnesses over one set of fixtures and one build of
LEVM: the runner of `ef_tests/state` (with or without `--summary`, its re-run of failures on
REVM, and `--revm`), the bulk and block modes of `state_v2` and its `statetest`. `levm[c]` is
what the build does with a case, chosen once; REVM answers when it is asked. `reports` and
`files` are what the runs report and write, `exit` the status; `verdict` is an observer of
what every run said of every case, by which harnesses are compared. The conversions of
fixtures and the wording of reports are left out.

What a case must do is said by `Meets`, from its fixture and from what LEVM did, and by none of
the runners: the state root is judged with the block hashes the fixtures expect
(`state_v2/src/modules/utils.rs:21`), and the names of exceptions have their meaning from a
table that no state-test runner uses, the one of the engine harness
(`ef_tests/engine/src/exception_mapper.rs`, here `Meaning`, with the older name of the floor cost).

Run `state_tests` (2947789 states). `GreenIsEarned`: does a vector that the first runner's
report leaves out meet its fixture, and does one it lists not? The code errs on three kinds
of vector, and the property excepts each by name and no other:

* green, `Guessed`: one of the expected names is unknown to the runner and becomes
  `Other`, which any validation error matches (`ef_tests/state/deserialize.rs:80`, a TODO there);
* red, `Mistaken`: the result depends on BLOCKHASH, and the database of this runner does
  not answer with the hashes of the fixtures, as the one of `state_v2` does;
* red, `Mistaken`: the floor cost is met where `INTRINSIC_GAS_TOO_LOW` is expected. The
  engine harness takes the one for the other, the runner's table of names does not.

Each of the three is reached in the run: without it TLC finds the property violated.
`NoFalseAlarms`: is what the strictest harness passed, naming every exception, reported by no
other? `FailuresAreExplained`: does the report hold exactly the failing vectors, also when REVM
cannot be set up and the run ends in an error (`uncached`), and was otherwise each that failed
its post state compared with REVM? `StatusIsTrue`: does status 0 of `statetest` say that there
was a case to run and that every root is right, and that of `--summary` that every chosen
vector meets its fixture or was guessed? All hold.

Bounds: six cases in four fixtures (a plain one, one that expects exceptions by names the
two runners know differently, one that depends on BLOCKHASH, one with an unknown name, one gated
out of the allowlist, one of a fork that `state_v2` and `statetest` do not read), 128 builds of
LEVM, two runs, so that what one leaves behind meets the other. Safety only; the end of a
campaign is the explicit step `Done`.

`StateTestsProofs` proves the four properties (`GreenIsEarnedHolds`, `NoFalseAlarmsHolds`,
`FailuresAreExplainedHolds`, `StatusIsTrueHolds`) for any set of fixtures, any build of LEVM,
any answers of REVM and campaigns of any length. It assumes that there are finitely many cases
(the tests to go are a sequence made of a set) and the types of what LEVM and REVM give
(`CasesAssumption`, `OutcomesAssumption`, `RevmAssumption`). The invariant `IInv`:

* `VerdictOK`: what is on record of a case is what one of the harnesses says of it. With it
  `NoFalseAlarms` is a comparison of verdicts, case by case (`PassIsPasses`, `OverrideHelps`).
* `ReportsOK`: while the first runner runs, every chosen test is reported or still to go, every
  report holds the failures of its test, has its verdicts on record, and, once run again,
  notes of exactly the vectors that failed their post state. `GreenIsEarned` follows from
  `VerdictIsTrue`, which compares the verdict on a vector with its fixture: `PassIsEarned`
  and `MeetsIsPassed` rest on the two tables of names, `KnownMeans` (a name the runner knows
  means what it takes it for) and `MeaningIsKnown` (the converse, but for the floor cost).
* `EndOK`: what is left of this when the process has ended: all chosen tests were registered,
  the status of `--summary` is that of the failures, and the report file holds them
  (`RowsOK`), with the notes of each unless REVM could not be set up (`NotesOK`).
* `StatetestOK`, and the types and the order of the stages (`LevmOK`, `ShapeOK`).

The attempt to prove `NoFalseAlarms` showed that it was too strong and the model too coarse. The
second runner does not build a transaction with blobs that creates a contract
(`state_v2/src/modules/runner.rs:213`), the first one builds it as an EIP-1559 transaction. When a fixture
expects just this refusal the first runner passes the case and block mode prints an
error; bulk mode and `statetest` end with it and judge nothing. The same holds of an EIP-7702
creation. Both are outcomes of LEVM now, and the property names the exception.

## 11. What is not modelled, and what is out of reach

* Messages to people (Slack, Discord, terminal), HTML, tables and charts: layout. Of
  dora_monitor also the version drift, the heartbeat and the transport: one value per
  client, one time stamp, one request.
* `devnets_monitor`, `benchmarkoor-dashboard`, `server_runner.py`: not modelled yet, see
  section 2. `web` and the pages of the dashboard read and render only.
* `peer_top.py`, the completer of `repl`, `migrations`, `hive_report`, `loc`,
  `log_analysis`, `import_benchmark`, `trace_compare`, `hardhat`, `l2/dev`: one pass over
  their input, or nothing kept between refreshes.
* The blockchain and engine harnesses of `ef_tests`: one fixture, one chain, one
  comparison, the shape of the block mode of `StateTests`, with the client doing the work.
* The programs at the other end (ethrex, docker, Dora, LEVM and REVM, an archive node)
  appear only as far as the code reads them, as environment actions without any promise
  but the one their protocol makes (an answer is complete, a head does not go back under
  the monitor of `sync`).

Only TLC speaks of liveness (`VerdictReached`, `OfflineReported`, `BurstResolved`,
`ResumesToTheEnd`, `RoundsEnd`): the prover has neither fairness nor `ENABLED`. Of the safety
properties `ScriptsHold` and `ReorgsAsNamed` of `Reorgs` are model-checked only: they are about
seven fixed programs without parameters, and the run has all of their behaviour, at the
source's own number of blocks and with as many faults as there can be. All other safety
properties of the passing runs are theorems. What `tokenize` computes for every line would need
induction over data, and is not claimed; that it gives a sequence is proved. The modules
declare no recursive operator, so every one of them can carry theorems; recursion (the
tokenizer of `Repl`) is written as recursive functions, and induction over data is avoided
by well-founded minima and by properties of sets.

The one run that expects a violation, `repl_ens`, shows where the program does not do what
its own text says; it is listed under `findings` with the quoted line.
