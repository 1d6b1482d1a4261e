------------------------------ MODULE LoadTest ------------------------------
(***************************************************************************)
(* load_test: sends tx_amount transactions from every account of a file to *)
(* a node, all accounts at once, and waits until the node has included     *)
(* them; with --endless it starts over.                                    *)
(*                                                                         *)
(* The node is outside this repository.  It keeps, of each account, the    *)
(* transactions it took (txs) and how many of them are in blocks           *)
(* (included).  A transaction is the round that made it and its nonce; the *)
(* calldata of build_tx is left out.                                       *)
(***************************************************************************)
EXTENDS Integers, Sequences, SequencesExt, FiniteSets, FiniteSetsExt

CONSTANTS
    Accounts,      \* the signers, a sequence: one task each, in file order
    tx_amount,     \* -N
    Timeout,       \* -w, in turns of the waiting loop; 0 waits indefinitely
    Endless,       \* --endless
    MaxRounds,     \* rounds of an endless run that are looked at
    MaxLost        \* requests the node does not take, or does not answer

ASSUME LoadTestAssumption ==
    /\ Len(Accounts) \in Nat /\ DOMAIN Accounts = 1 .. Len(Accounts)
    /\ tx_amount \in Nat \ {0} /\ Timeout \in Nat
    /\ Endless \in BOOLEAN /\ MaxRounds \in Nat \ {0}
    /\ MaxLost \in Nat

VARIABLES
    test_type,   \* --test-type
    phase,       \* "deploy", "claim", "send", "wait", "finished", "panicked"
    round,       \* the round that runs
    tasks,       \* one per account: its state, start nonce and transactions sent
    targets,     \* the tuples load_test returned, in the order tasks ended
    watch,       \* the waiting loop: which target, last_nonce, turns since last_updated
    outcome,     \* of each round that ended: "finished", "refused" or "stuck"
    txs,         \* the node: the transactions it took, by account
    included,    \* the node: the latest nonce, by account
    late,        \* requests of tasks that were dropped and may still arrive
    lost         \* requests lost so far

node == <<txs, included, late>>
vars == <<test_type, phase, round, tasks, targets, watch, outcome, node, lost>>

Tasks == DOMAIN Accounts
Signers == {Accounts[i] : i \in Tasks}

\* IOHeavy differs from Fibonacci in its contract only.
TestTypes == {"Erc20", "EthTransfers", "Fibonacci"}

-----------------------------------------------------------------------------
(* The node.                                                               *)

Used(a) == {t.nonce : t \in txs[a]}

\* BlockTag::Pending: the first nonce the node has no transaction for.
PendingNonce(a) == Min((0 .. Cardinality(Used(a))) \ Used(a))

\* A nonce that is taken is refused: the fees of all transactions are equal.
Takes(t) == t.nonce \notin Used(t.from)
Take(t) == txs' = [txs EXCEPT ![t.from] = @ \cup {t}]

IncludeNext(a) ==
    /\ included[a] \in Used(a)
    /\ included' = [included EXCEPT ![a] = @ + 1]
    /\ UNCHANGED <<test_type, phase, round, tasks, targets, watch, outcome, txs,
                   late, lost>>

\* The request of a task that is gone reaches the node, or never does.
LateArrives(t) ==
    /\ t \in late
    /\ IF Takes(t) THEN Take(t) ELSE UNCHANGED txs
    /\ late' = late \ {t}
    /\ UNCHANGED <<test_type, phase, round, tasks, targets, watch, outcome,
                   included, lost>>

-----------------------------------------------------------------------------
(* Tasks.  "nonce" asks for the pending nonce, "next" builds a transaction *)
(* and "sent" awaits the answer to it.                                     *)

NewTask == [state |-> "nonce", start |-> 0, sent |-> 0]

Transaction(i) == [from |-> Accounts[i], nonce |-> tasks[i].start + tasks[i].sent,
                   round |-> round]

Finish(i) == tasks[i].sent = tx_amount

\* After the await: one more transaction was sent.
Answered(i) == tasks' = [tasks EXCEPT ![i].state = "next", ![i].sent = @ + 1]

get_nonce(i) ==
    /\ phase = "send" /\ tasks[i].state = "nonce"
    /\ tasks' = [tasks EXCEPT ![i] = [state |-> "next", sent |-> 0,
                                      start |-> PendingNonce(Accounts[i])]]
    /\ UNCHANGED <<test_type, phase, round, targets, watch, outcome, node, lost>>

\* unwrap on the answer: the load test is over, an endless one too.
NonceUnknown ==
    /\ \/ phase = "wait" /\ watch.target <= Len(targets)
       \/ phase = "send" /\ \E i \in Tasks : tasks[i].state = "nonce"
    /\ lost < MaxLost
    /\ lost' = lost + 1
    /\ phase' = "panicked"
    /\ UNCHANGED <<test_type, round, tasks, targets, watch, outcome, node>>

send_generic_transaction(i) ==
    /\ phase = "send" /\ tasks[i].state = "next" /\ ~Finish(i)
    /\ tasks' = [tasks EXCEPT ![i].state = "sent"]
    /\ UNCHANGED <<test_type, phase, round, targets, watch, outcome, node, lost>>

NodeTakes(i) ==
    /\ phase = "send" /\ tasks[i].state = "sent"
    /\ Takes(Transaction(i))
    /\ Take(Transaction(i))
    /\ Answered(i)
    /\ UNCHANGED <<test_type, phase, round, targets, watch, outcome, included,
                   late, lost>>

\* The first error ends load_test: the other tasks are dropped where they are,
\* and what they had sent may reach the node later.
RoundFails(i, mine) ==
    /\ late' = late \cup mine
                 \cup {Transaction(j) : j \in {k \in Tasks \ {i} : tasks[k].state = "sent"}}
    /\ outcome' = Append(outcome, "refused")
    /\ phase' = IF Endless THEN "idle" ELSE "panicked"
    /\ UNCHANGED <<test_type, round, tasks, targets, watch, txs, included>>

NodeRefuses(i) ==
    /\ phase = "send" /\ tasks[i].state = "sent"
    /\ ~Takes(Transaction(i))
    /\ RoundFails(i, {})
    /\ UNCHANGED lost

\* Mutant: the error of a request is logged, and the next one sent.
RequestLost_ignored(i) ==
    /\ phase = "send" /\ tasks[i].state = "sent"
    /\ lost < MaxLost
    /\ lost' = lost + 1
    /\ Answered(i)
    /\ UNCHANGED <<test_type, phase, round, targets, watch, outcome, node>>

\* The connection breaks, before or after the node has the request.
RequestLost(i) ==
    /\ phase = "send" /\ tasks[i].state = "sent"
    /\ lost < MaxLost
    /\ lost' = lost + 1
    /\ RoundFails(i, {Transaction(i)})

\* Mutant: the target is the nonce of the last transaction, not the one after.
TaskEnds_early(i) ==
    /\ phase = "send" /\ tasks[i].state = "next" /\ Finish(i)
    /\ tasks' = [tasks EXCEPT ![i].state = "done"]
    /\ targets' = Append(targets, [src |-> Accounts[i],
                                   start |-> tasks[i].start,
                                   target |-> tasks[i].start + tx_amount - 1])
    /\ UNCHANGED <<test_type, phase, round, watch, outcome, node, lost>>

TaskEnds(i) ==
    /\ phase = "send" /\ tasks[i].state = "next" /\ Finish(i)
    /\ tasks' = [tasks EXCEPT ![i].state = "done"]
    /\ targets' = Append(targets, [src |-> Accounts[i],
                                   start |-> tasks[i].start,
                                   target |-> tasks[i].start + tx_amount])
    /\ UNCHANGED <<test_type, phase, round, watch, outcome, node, lost>>

-----------------------------------------------------------------------------
(* The setup of the Erc20 test: the contract, and a mint per account; the  *)
(* receipts of all are awaited before one is looked at.                    *)

EnterRound(n) ==
    /\ phase' = "send"
    /\ round' = n
    /\ tasks' = [i \in Tasks |-> NewTask]
    /\ targets' = <<>>

\* expect on the deployment; a plain transfer needs no contract.
Deploy ==
    /\ phase = "deploy"
    /\ \/ /\ test_type = "Erc20"
          /\ phase' = "claim"
          /\ UNCHANGED <<round, tasks, targets, lost>>
       \/ /\ test_type # "Erc20"
          /\ EnterRound(1)
          /\ UNCHANGED lost
       \/ /\ test_type # "EthTransfers" /\ lost < MaxLost
          /\ lost' = lost + 1
          /\ phase' = "panicked"
          /\ UNCHANGED <<round, tasks, targets>>
    /\ UNCHANGED <<test_type, watch, outcome, node>>

SendMint(i) ==
    /\ phase = "claim" /\ tasks[i].state = "nonce"
    /\ LET mint == [from |-> Accounts[i], nonce |-> PendingNonce(Accounts[i]), round |-> 0]
       IN /\ Take(mint)
          /\ tasks' = [tasks EXCEPT ![i].state = "sent", ![i].start = mint.nonce]
    /\ UNCHANGED <<test_type, phase, round, targets, watch, outcome, included,
                   late, lost>>

\* unwrap in a task: join_all panics, whatever the other tasks do.
MintUnsent(i) ==
    /\ phase = "claim" /\ tasks[i].state = "nonce"
    /\ lost < MaxLost
    /\ lost' = lost + 1
    /\ phase' = "panicked"
    /\ UNCHANGED <<test_type, round, tasks, targets, watch, outcome, node>>

\* wait_for_transaction_receipt; the mint may have reverted, or RETRIES run out.
MintReceipt(i) ==
    /\ phase = "claim" /\ tasks[i].state = "sent"
    /\ \/ /\ included[Accounts[i]] > tasks[i].start
          /\ tasks' = [tasks EXCEPT ![i].state = "done"]
          /\ UNCHANGED lost
       \/ /\ lost < MaxLost
          /\ lost' = lost + 1
          /\ tasks' = [tasks EXCEPT ![i].state = "failed"]
    /\ UNCHANGED <<test_type, phase, round, targets, watch, outcome, node>>

\* Mutant: a mint that failed is waited for again.
claim_erc20_balances_patient ==
    /\ phase = "claim"
    /\ \A i \in Tasks : tasks[i].state = "done"
    /\ EnterRound(1)
    /\ UNCHANGED <<test_type, watch, outcome, node, lost>>

claim_erc20_balances ==
    /\ phase = "claim"
    /\ \A i \in Tasks : tasks[i].state \in {"done", "failed"}
    /\ IF \E i \in Tasks : tasks[i].state = "failed"
       THEN phase' = "panicked" /\ UNCHANGED <<round, tasks, targets>>
       ELSE EnterRound(1)
    /\ UNCHANGED <<test_type, watch, outcome, node, lost>>

-----------------------------------------------------------------------------
(* wait_until_all_included: the targets one after another.                 *)

Watch(k) == [target |-> k, last_nonce |-> 0, stale |-> 0]

AllSent ==
    /\ phase = "send" /\ \A i \in Tasks : tasks[i].state = "done"
    /\ phase' = "wait"
    /\ watch' = Watch(1)
    /\ UNCHANGED <<test_type, round, tasks, targets, outcome, node, lost>>

Awaited == targets[watch.target]
Nonce == included[Awaited.src]
Waiting == phase = "wait" /\ watch.target <= Len(targets)

Reached ==
    /\ Waiting
    /\ Nonce >= Awaited.target
    /\ watch' = Watch(watch.target + 1)
    /\ UNCHANGED <<test_type, phase, round, tasks, targets, outcome, node, lost>>

\* Nothing new of this account for longer than the timeout.
TimesOut == Timeout > 0 /\ watch.last_nonce = Nonce /\ watch.stale > Timeout

\* A turn of the loop, with the five seconds it sleeps.
KeepWaiting ==
    /\ Waiting
    /\ Nonce < Awaited.target
    /\ ~TimesOut
    /\ watch' = IF watch.last_nonce = Nonce
                THEN [watch EXCEPT !.stale = Min({@ + 1, Timeout + 1})]
                ELSE [watch EXCEPT !.last_nonce = Nonce, !.stale = 1]
    /\ UNCHANGED <<test_type, phase, round, tasks, targets, outcome, node, lost>>

GivesUp ==
    /\ Waiting
    /\ Nonce < Awaited.target
    /\ TimesOut
    /\ outcome' = Append(outcome, "stuck")
    /\ phase' = IF Endless THEN "idle" ELSE "panicked"
    /\ UNCHANGED <<test_type, round, tasks, targets, watch, node, lost>>

RoundFinished ==
    /\ phase = "wait" /\ watch.target > Len(targets)
    /\ outcome' = Append(outcome, "finished")
    /\ phase' = IF Endless THEN "idle" ELSE "finished"
    /\ UNCHANGED <<test_type, round, tasks, targets, watch, node, lost>>

\* An endless run starts over whatever became of the round.
run_round ==
    /\ phase = "idle" /\ round < MaxRounds
    /\ EnterRound(round + 1)
    /\ UNCHANGED <<test_type, watch, outcome, node, lost>>

-----------------------------------------------------------------------------
Init ==
    /\ test_type \in TestTypes
    /\ phase = "deploy"
    /\ round = 0
    /\ tasks = [i \in Tasks |-> NewTask]
    /\ targets = <<>>
    /\ watch = Watch(1)
    /\ outcome = <<>>
    /\ txs = [a \in Signers |-> {}]
    /\ included = [a \in Signers |-> 0]
    /\ late = {}
    /\ lost = 0

Program ==
    \/ \E i \in Tasks : \/ get_nonce(i) \/ send_generic_transaction(i) \/ TaskEnds(i)
                        \/ SendMint(i) \/ MintReceipt(i)
    \/ Deploy \/ claim_erc20_balances \/ AllSent \/ Reached \/ KeepWaiting
    \/ GivesUp \/ RoundFinished \/ run_round

Answers == \E i \in Tasks : NodeTakes(i) \/ NodeRefuses(i)

Next ==
    \/ Program
    \/ Answers
    \/ NonceUnknown
    \/ \E i \in Tasks : RequestLost(i) \/ MintUnsent(i)
    \/ \E a \in Signers : IncludeNext(a)
    \/ \E t \in late : LateArrives(t)

\* The node answers, and includes what it took.
Spec ==
    /\ Init /\ [][Next]_vars
    /\ WF_vars(Program) /\ WF_vars(Answers)
    /\ \A a \in Signers : WF_vars(IncludeNext(a))

-----------------------------------------------------------------------------
(* Properties.                                                             *)

\* The load is not cut off by a hole: the transactions a node has of an account
\* are those of its first nonces, so every one can be included, also when a
\* round failed, its requests arrive late and another round starts (load_test:
\* the pending nonce, one request at a time, the error that ends the task).
NoNonceGap == \A a \in Signers : Used(a) = 0 .. Cardinality(Used(a)) - 1

\* A round that finishes measured its own transactions: tx_amount of each
\* account, all in blocks, none of them a leftover of an earlier round.
RoundMeasuresItsOwn ==
    phase = "wait" /\ watch.target > Len(targets) =>
        \A i \in Tasks :
            Cardinality({t \in txs[Accounts[i]] : /\ t.round = round
                                                 /\ t.nonce < included[Accounts[i]]})
              = tx_amount * Cardinality({j \in Tasks : Accounts[j] = Accounts[i]})

\* With a node that includes what it took, every round ends.
RoundsEnd ==
    <>(phase \in {"finished", "panicked"} \/ (phase = "idle" /\ round = MaxRounds))
=============================================================================
