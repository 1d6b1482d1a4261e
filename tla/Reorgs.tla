------------------------------- MODULE Reorgs -------------------------------
(***************************************************************************)
(* reorgs: the integration tests for chain reorganisations.  A Simulator   *)
(* starts ethrex nodes as child processes, and each test is a script that  *)
(* makes the nodes build, announce and adopt blocks over the engine API;   *)
(* run_test runs the script in a task of its own and stops the nodes when  *)
(* the task ends, also when it panics.                                     *)
(*                                                                         *)
(* A block is who built it and the transactions in it; a chain is the      *)
(* sequence of its blocks after genesis, and stands for the hash of its    *)
(* last block too.  The nodes are ethrex, outside this repository: they    *)
(* are modelled by what the scripts rely on (NodeKnows .. AskPeer).        *)
(***************************************************************************)
EXTENDS Integers, Sequences, SequencesExt, FiniteSets

CONSTANTS
    Blocks,        \* blocks in a stretch of chain; the scripts use 10
    MaxFaults      \* nodes that may crash, or be slow to start, in one run

ASSUME BlocksAssumption == Blocks \in Nat \ {0}
ASSUME FaultsAssumption == MaxFaults \in Nat

VARIABLES
    test,      \* the test that runs, an index in Tests
    pc,        \* the next step of its script
    stage,     \* "run", then "stop"; "finished" and "exited" end the program
    chains,    \* the Chain values of the script, by the name of the variable
    nodes,     \* the nodes started by this Simulator, in order
    waited,    \* PEER_REPLY_TIMEOUTs spent by the update_forkchoice under way
    result,    \* "ok", or why the test's task panicked
    reorgs,    \* reorganisations the nodes made in this test
    faults     \* faults so far

reorgVars == <<test, pc, stage, chains, nodes, waited, result, reorgs, faults>>

-----------------------------------------------------------------------------
(* The scripts of main.rs.                                                 *)

Step(op, node, from, to) == [op |-> op, node |-> node, from |-> from, to |-> to]

Start == <<Step("start", 0, "", "")>>
Fork(from, to) == <<Step("fork", 0, from, to)>>
Build(n, from, to) == <<Step("build", n, from, to)>>
Notify(n, c) == <<Step("notify", n, c, c)>>
Sync(n, c) == <<Step("sync", n, c, c)>>
Send(n, tx) == <<Step("send", n, tx, tx)>>
Holds(n, tx) == <<Step("holds", n, tx, tx)>>
Lacks(n, tx) == <<Step("lacks", n, tx, tx)>>

Repeat(steps) == FlattenSeq([i \in 1 .. Blocks |-> steps])

extend_chain(n, c) == Repeat(Build(n, c, c) \o Notify(n, c)) \o Sync(n, c)

\* One block of chain c, built, announced and adopted by node n.
Mine(n, c) == Build(n, c, c) \o Notify(n, c) \o Sync(n, c)
Announce(n, c) == Notify(n, c) \o Sync(n, c)

no_reorgs_full_sync_smoke_test ==
    Start \o Start \o extend_chain(0, "base") \o Sync(1, "base")

test_reorg_back_to_base ==
    Start \o Start \o Fork("base", "side") \o extend_chain(1, "base")
      \o extend_chain(0, "side") \o Sync(0, "base")

test_reorg_back_to_base_with_common_ancestor ==
    Start \o Start \o extend_chain(1, "base") \o Sync(0, "base")
      \o Fork("base", "side") \o extend_chain(1, "base")
      \o extend_chain(0, "side") \o Sync(0, "base")

test_chain_split ==
    Start \o Start \o Start \o Fork("base", "side") \o extend_chain(1, "base")
      \o extend_chain(2, "side") \o Sync(0, "base")

test_one_block_reorg_and_back ==
    Start \o Start \o Repeat(Mine(0, "base") \o Announce(1, "base"))
      \o Fork("base", "side") \o Mine(0, "base") \o Build(0, "base", "extended")
      \o Send(1, "transfer") \o Mine(1, "side") \o Lacks(0, "transfer")
      \o Announce(0, "side") \o Holds(0, "transfer")
      \o Announce(0, "extended") \o Lacks(0, "transfer")

test_many_blocks_reorg ==
    Start \o Start \o Repeat(Mine(0, "base") \o Announce(1, "base"))
      \o Fork("base", "side") \o Repeat(Mine(0, "side")) \o Lacks(0, "transfer")
      \o Repeat(Mine(1, "base")) \o Lacks(0, "transfer")
      \o Send(1, "transfer") \o Mine(1, "base")
      \o Announce(0, "base") \o Holds(0, "transfer")

test_storage_slots_reorg ==
    Start \o Start \o Send(0, "deploy")
      \o Repeat(Mine(0, "base") \o Announce(1, "base"))
      \o Lacks(0, "call0") \o Lacks(0, "call1")
      \o Fork("base", "side") \o Repeat(Mine(0, "side")) \o Repeat(Mine(1, "base"))
      \o Send(0, "call0") \o Send(1, "call1")
      \o Mine(0, "side") \o Mine(1, "base")
      \o Holds(0, "call0") \o Lacks(0, "call1")
      \o Lacks(1, "call0") \o Holds(1, "call1")
      \o Announce(0, "base") \o Lacks(0, "call0") \o Holds(0, "call1")

\* In the order main runs them, each with the reorganisations it is about.
Tests ==
    << [script |-> no_reorgs_full_sync_smoke_test, reorgs |-> 0],
       [script |-> test_reorg_back_to_base, reorgs |-> 1],
       [script |-> test_chain_split, reorgs |-> 0],
       [script |-> test_one_block_reorg_and_back, reorgs |-> 2],
       [script |-> test_reorg_back_to_base_with_common_ancestor, reorgs |-> 1],
       [script |-> test_storage_slots_reorg, reorgs |-> 1],
       [script |-> test_many_blocks_reorg, reorgs |-> 1] >>

ChainNames == {"base", "side", "extended"}

-----------------------------------------------------------------------------
(* Chains.  The nonce of the one signer is the number of its transactions. *)

Txs(chain) == UNION {chain[i].txs : i \in DOMAIN chain}
NextNonce(chain) == Cardinality(Txs(chain))

\* A call sets its slot only where the contract was deployed before it.
Applied(chain, tx) ==
    /\ \E t \in Txs(chain) : t.kind = tx
    /\ tx \in {"call0", "call1"} => \E t \in Txs(chain) : t.kind = "deploy"

\* safe_height is zero in every Chain, so genesis is what is finalized.
get_fork_choice_state(chain) == [head |-> chain, finalized |-> <<>>]

-----------------------------------------------------------------------------
(* The nodes.  proc is the child process: "up", or how it ended.  tracked  *)
(* says that its token and its waiter are in cancellation_tokens.          *)

NewNode == [proc |-> "up", tracked |-> FALSE, waiter |-> "waiting",
            known |-> {<<>>}, head |-> <<>>, pool |-> {}, target |-> <<>>]

Node(n) == nodes[n + 1]
NodeUp(n) == Node(n).proc = "up"

NodeKnows(n, chain) == chain \in Node(n).known

\* A payload is executed and kept when its parent is known, ignored otherwise.
NewPayload(n, chain) ==
    IF Front(chain) \in Node(n).known
    THEN [nodes EXCEPT ![n + 1].known = @ \cup {chain}]
    ELSE nodes

\* VALID: the head is known and becomes the node's; SYNCING: it is looked for.
ForkchoiceUpdated(n, state) ==
    IF NodeKnows(n, state.head) /\ IsPrefix(state.finalized, state.head)
    THEN /\ nodes' = [nodes EXCEPT ![n + 1].head = state.head, ![n + 1].target = <<>>]
         /\ reorgs' = IF IsPrefix(Node(n).head, state.head) THEN reorgs ELSE reorgs + 1
    ELSE /\ nodes' = [nodes EXCEPT ![n + 1].target = state.head]
         /\ UNCHANGED reorgs

\* What the node puts in a block on top of chain: the transaction that is due.
PayloadTxs(n, chain) == {t \in Node(n).pool : t.nonce = NextNonce(chain)}

\* A node that looks for a block asks a peer; a peer without it costs a
\* PEER_REPLY_TIMEOUT, and another is asked.
AskPeer(n, peer) ==
    /\ n # peer
    /\ NodeUp(n) /\ Node(n).target # <<>>
    /\ IF NodeUp(peer) /\ NodeKnows(peer, Node(n).target)
       THEN /\ nodes' = [nodes EXCEPT
                  ![n + 1].known = @ \cup {SubSeq(Node(n).target, 1, i) :
                                           i \in 1 .. Len(Node(n).target)},
                  ![n + 1].target = <<>>]
            /\ UNCHANGED waited
       ELSE /\ waited <= 2
            /\ waited' = waited + 1
            /\ UNCHANGED nodes
    /\ UNCHANGED <<test, pc, stage, chains, result, reorgs, faults>>

Crash(n) ==
    /\ faults < MaxFaults
    /\ NodeUp(n)
    /\ nodes' = [nodes EXCEPT ![n + 1].proc = "failed"]
    /\ faults' = faults + 1
    /\ UNCHANGED <<test, pc, stage, chains, waited, result, reorgs>>

-----------------------------------------------------------------------------
(* The steps of a script.                                                  *)

script == Tests[test].script
Current == script[pc]
ScriptOver == pc > Len(script)

Running(op) == /\ stage = "run" /\ result = "ok"
               /\ ~ScriptOver /\ Current.op = op

Advance == pc' = pc + 1 /\ UNCHANGED <<test, stage, result, faults>>

\* unwrap, expect and assert: the test's task ends.
Panic(why) == /\ result' = why
              /\ UNCHANGED <<test, pc, stage, chains, nodes, waited, reorgs>>

\* The child is spawned before anything of the Simulator refers to it.
SpawnNode ==
    /\ Running("start")
    /\ \A i \in DOMAIN nodes : nodes[i].tracked
    /\ nodes' = Append(nodes, NewNode)
    /\ UNCHANGED <<test, pc, stage, chains, waited, result, reorgs, faults>>

Starting == nodes # <<>> /\ ~Last(nodes).tracked

\* wait_for_initialization found the line in the log.
NodeStarted ==
    /\ Running("start")
    /\ Starting /\ Last(nodes).proc = "up"
    /\ nodes' = [nodes EXCEPT ![Len(nodes)].tracked = TRUE]
    /\ Advance
    /\ UNCHANGED <<chains, waited, reorgs>>

\* Five seconds went by: the node is slow, or it is gone.
StartTimesOut ==
    /\ Running("start")
    /\ Starting
    /\ IF Last(nodes).proc = "up"
       THEN faults < MaxFaults /\ faults' = faults + 1
       ELSE UNCHANGED faults
    /\ Panic("start")

fork ==
    /\ Running("fork")
    /\ chains' = [chains EXCEPT ![Current.to] = chains[Current.from]]
    /\ Advance
    /\ UNCHANGED <<nodes, waited, reorgs>>

\* Mutant: every node builds with the same fee recipient.
build_payload_alike ==
    LET n == Current.node
        chain == chains[Current.from]
        block == [by |-> 0, txs |-> PayloadTxs(n, chain)]
    IN /\ Running("build") /\ NodeUp(n)
       /\ IF NodeKnows(n, chain)
          THEN /\ ForkchoiceUpdated(n, get_fork_choice_state(chain))
               /\ chains' = [chains EXCEPT ![Current.to] = Append(chain, block)]
               /\ Advance
               /\ UNCHANGED waited
          ELSE Panic("assert") /\ UNCHANGED faults

\* The fee recipient, the index of the node, tells its blocks from the others'.
\* The answer to the fork choice is asserted to be VALID.
build_payload ==
    LET n == Current.node
        chain == chains[Current.from]
        block == [by |-> n, txs |-> PayloadTxs(n, chain)]
    IN /\ Running("build") /\ NodeUp(n)
       /\ IF NodeKnows(n, chain)
          THEN /\ ForkchoiceUpdated(n, get_fork_choice_state(chain))
               /\ chains' = [chains EXCEPT ![Current.to] = Append(chain, block)]
               /\ Advance
               /\ UNCHANGED waited
          ELSE Panic("assert") /\ UNCHANGED faults

\* The status of the answer is not looked at.
notify_new_payload ==
    /\ Running("notify")
    /\ NodeUp(Current.node)
    /\ nodes' = NewPayload(Current.node, chains[Current.from])
    /\ Advance
    /\ UNCHANGED <<chains, waited, reorgs>>

\* Mutant: the fork choice is sent once and its answer not looked at.
update_forkchoice_once ==
    /\ Running("sync")
    /\ NodeUp(Current.node)
    /\ ForkchoiceUpdated(Current.node, get_fork_choice_state(chains[Current.from]))
    /\ Advance
    /\ UNCHANGED <<chains, waited>>

\* wait_until_synced: the fork choice is repeated until the answer is VALID.
update_forkchoice ==
    /\ Running("sync")
    /\ LET n == Current.node
           state == get_fork_choice_state(chains[Current.from])
       IN /\ NodeUp(n)
          /\ ForkchoiceUpdated(n, state)
          /\ IF NodeKnows(n, state.head)
             THEN Advance /\ waited' = 0
             ELSE UNCHANGED <<test, pc, stage, result, faults, waited>>
    /\ UNCHANGED chains

\* The deadline is two PEER_REPLY_TIMEOUTs and a slack of ten seconds.
SyncTimesOut ==
    /\ Running("sync")
    /\ NodeUp(Current.node) /\ ~NodeKnows(Current.node, chains[Current.from])
    /\ waited > 2
    /\ Panic("sync")
    /\ UNCHANGED faults

\* send_eth_transfer, send_call and send_contract_deploy sign with the nonce
\* of the node's latest block; a second transaction with it is refused.
SendTransaction ==
    /\ Running("send")
    /\ NodeUp(Current.node)
    /\ LET n == Current.node
           tx == [kind |-> Current.from, nonce |-> NextNonce(Node(n).head)]
       IN IF \E t \in Node(n).pool : t.nonce = tx.nonce
          THEN Panic("rpc") /\ UNCHANGED faults
          ELSE /\ nodes' = [nodes EXCEPT ![n + 1].pool = @ \cup {tx}]
               /\ Advance
               /\ UNCHANGED <<chains, waited, reorgs>>

\* assert_eq on get_balance or get_storage_at.
CheckState ==
    /\ Running("holds") \/ Running("lacks")
    /\ NodeUp(Current.node)
    /\ IF Applied(Node(Current.node).head, Current.from) = (Current.op = "holds")
       THEN Advance /\ UNCHANGED <<chains, nodes, waited, reorgs>>
       ELSE Panic("assert") /\ UNCHANGED faults

\* Every answer of a node is unwrapped.
NodeUnreachable ==
    /\ stage = "run" /\ result = "ok" /\ ~ScriptOver
    /\ Current.op \notin {"start", "fork"}
    /\ ~NodeUp(Current.node)
    /\ Panic("rpc")
    /\ UNCHANGED faults

-----------------------------------------------------------------------------
(* run_test and stop.                                                      *)

Tracked(i) == i \in DOMAIN nodes /\ nodes[i].tracked

\* The waiter asserts that a child that ends by itself succeeded.
WaiterPanics(i) ==
    /\ Tracked(i) /\ nodes[i].proc = "failed" /\ nodes[i].waiter = "waiting"
    /\ nodes' = [nodes EXCEPT ![i].waiter = "panicked"]
    /\ UNCHANGED <<test, pc, stage, chains, waited, result, reorgs, faults>>

TestEnds ==
    /\ stage = "run"
    /\ result # "ok" \/ ScriptOver
    /\ stage' = "stop"
    /\ UNCHANGED <<test, pc, chains, nodes, waited, result, reorgs, faults>>

\* Mutant: the token is cancelled and the child not signalled.
StopNode_unsignalled(i) ==
    /\ stage = "stop"
    /\ Tracked(i) /\ nodes[i].waiter = "waiting"
    /\ \A j \in 1 .. i - 1 : Tracked(j) => nodes[j].waiter = "done"
    /\ nodes' = [nodes EXCEPT ![i].waiter = "done"]
    /\ UNCHANGED <<test, pc, stage, chains, waited, result, reorgs, faults>>

\* One turn of the loop in stop: cancel, SIGTERM, and the waiter is awaited.
StopNode(i) ==
    /\ stage = "stop"
    /\ Tracked(i) /\ nodes[i].waiter = "waiting"
    /\ \A j \in 1 .. i - 1 : Tracked(j) => nodes[j].waiter = "done"
    /\ nodes' = [nodes EXCEPT ![i].waiter = "done",
                              ![i].proc = IF @ = "up" THEN "ended" ELSE @]
    /\ UNCHANGED <<test, pc, stage, chains, waited, result, reorgs, faults>>

\* unwrap on a waiter that panicked takes main down.
StopPanics(i) ==
    /\ stage = "stop"
    /\ Tracked(i) /\ nodes[i].waiter = "panicked"
    /\ \A j \in 1 .. i - 1 : Tracked(j) => nodes[j].waiter = "done"
    /\ stage' = "exited"
    /\ UNCHANGED <<test, pc, chains, nodes, waited, result, reorgs, faults>>

Stopped == /\ stage = "stop"
           /\ \A i \in DOMAIN nodes : Tracked(i) => nodes[i].waiter = "done"

\* exit(1) when the task panicked; a new Simulator for the next test otherwise.
NextTest ==
    /\ Stopped
    /\ IF result # "ok" \/ test = Len(Tests)
       THEN /\ stage' = IF result = "ok" THEN "finished" ELSE "exited"
            /\ UNCHANGED <<test, pc, chains, nodes, waited, result, reorgs>>
       ELSE /\ test' = test + 1
            /\ pc' = 1
            /\ stage' = "run"
            /\ chains' = [c \in ChainNames |-> <<>>]
            /\ nodes' = <<>>
            /\ waited' = 0
            /\ reorgs' = 0
            /\ UNCHANGED result
    /\ UNCHANGED faults

ReorgsInit ==
    /\ test = 1 /\ pc = 1 /\ stage = "run"
    /\ chains = [c \in ChainNames |-> <<>>]
    /\ nodes = <<>>
    /\ waited = 0 /\ result = "ok" /\ reorgs = 0 /\ faults = 0

Script ==
    \/ SpawnNode \/ NodeStarted \/ StartTimesOut \/ fork \/ build_payload
    \/ notify_new_payload \/ update_forkchoice \/ SyncTimesOut
    \/ SendTransaction \/ CheckState \/ NodeUnreachable \/ TestEnds \/ NextTest

Indices == 0 .. Len(nodes) - 1

ReorgsNext ==
    \/ Script
    \/ \E n, peer \in Indices : AskPeer(n, peer)
    \/ \E n \in Indices : Crash(n)
    \/ \E i \in DOMAIN nodes : WaiterPanics(i) \/ StopNode(i) \/ StopPanics(i)

ReorgsSpec == ReorgsInit /\ [][ReorgsNext]_reorgVars

-----------------------------------------------------------------------------
(* Properties.                                                             *)

\* The assertions of the scripts hold of any nodes that do what the engine API
\* promises: balances and slots are those of the branch a node was moved to,
\* whatever the nodes mined before and in which order they learnt of the blocks
\* (main.rs, the assert_eq of the last three tests).  Without a fault a test
\* fails only where a node has a wrong peer to ask.
ScriptsHold ==
    /\ result # "assert"
    /\ faults = 0 => result = "ok" \/ (result = "sync" /\ Len(nodes) > 2)

\* A test that passes made its nodes reorganise as often as its name says: the
\* branches it builds on the same parent really differ, so that adopting one
\* leaves the other (build_payload, "to differentiate between nodes").
ReorgsAsNamed ==
    stage = "stop" /\ result = "ok" => reorgs = Tests[test].reorgs

\* The nodes of a test are gone before the next one starts and before the
\* program ends, also when the test panicked (run_test, stop).
NothingLeftRunning ==
    [][stage = "stop" /\ stage' # "stop" /\ faults = 0
         => \A i \in DOMAIN nodes : nodes[i].proc # "up"]_reorgVars
=============================================================================
