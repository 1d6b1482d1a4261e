------------------------- MODULE EthrexClientsProofs -------------------------
(***************************************************************************)
(* Proofs about the two programs that drive ethrex nodes from outside,     *)
(* load_test and reorgs.                                                   *)
(*                                                                         *)
(* LoadTest: the nonces of an account have no hole, and a round that       *)
(* finishes measured its own transactions, for any accounts (also one that *)
(* is listed twice), any number of transactions, of rounds and of lost     *)
(* requests.                                                               *)
(*                                                                         *)
(* Reorgs: which nodes a test leaves behind, whatever its script, for any  *)
(* number of blocks, crashes and slow starts.                              *)
(***************************************************************************)
EXTENDS LoadTest, Reorgs, SequenceTheorems, FiniteSetTheorems, TLAPS

-----------------------------------------------------------------------------
(* load_test.                                                              *)

TaskState == {"nonce", "next", "sent", "done", "failed"}

TypeOK ==
    /\ tasks \in [Tasks -> [state : TaskState, start : Nat, sent : Nat]]
    /\ round \in Nat
    /\ txs \in [Signers -> SUBSET [from : Signers, nonce : Nat, round : Nat]]
    /\ late \subseteq [from : Signers, nonce : Nat, round : Nat]

\* How many nonces of account a are taken.
Height(a) == Cardinality(Used(a))

\* The nonces taken are the first ones, and nothing that was sent, or will be
\* sent next, is further than the one after them.
NonceInv ==
    /\ \A a \in Signers : \E n \in Nat : Used(a) = 0 .. n - 1
    /\ phase = "send" =>
         \A i \in Tasks : tasks[i].state \in {"next", "sent"} =>
             tasks[i].start + tasks[i].sent <= Height(Accounts[i])
    /\ \A t \in late : t.nonce <= Height(t.from)

LEMMA HeightOf ==
  ASSUME NEW a, NEW n \in Nat, Used(a) = 0 .. n - 1
  PROVE  Height(a) = n
BY FS_Interval DEF Height

LEMMA Heights ==
  ASSUME NonceInv, NEW a \in Signers
  PROVE  Height(a) \in Nat /\ Used(a) = 0 .. Height(a) - 1
<1>1. PICK n \in Nat : Used(a) = 0 .. n - 1
  BY DEF NonceInv
<1>2. QED
  BY <1>1, HeightOf

\* The pending nonce is the one after those that are taken.
LEMMA PendingIsNext ==
  ASSUME NonceInv, NEW a \in Signers
  PROVE  PendingNonce(a) = Height(a)
<1> DEFINE n == Height(a)
<1>1. n \in Nat /\ Used(a) = 0 .. n - 1
  BY Heights
<1>2. PendingNonce(a) = Min((0 .. n) \ Used(a))
  BY DEF PendingNonce, Height
<1> HIDE DEF n
<1>3. (0 .. n) \ Used(a) = {n}
  BY <1>1
<1>4. Min({n}) = n
  BY <1>1 DEF Min
<1>5. QED
  BY <1>2, <1>3, <1>4 DEF n

\* A transaction that is not too far and not refused has the next nonce.
LEMMA TakenIsNext ==
  ASSUME NonceInv, NEW a \in Signers, NEW k \in Nat, k <= Height(a), k \notin Used(a)
  PROVE  k = Height(a)
BY Heights

\* Taking it raises the height of its account, and of no other.
LEMMA TakeNext ==
  ASSUME TypeOK, NonceInv, NEW t \in [from : Signers, nonce : Nat, round : Nat],
         t.nonce = Height(t.from), Take(t)
  PROVE  /\ txs' \in [Signers -> SUBSET [from : Signers, nonce : Nat, round : Nat]]
         /\ \A a \in Signers : \E n \in Nat : Used(a)' = 0 .. n - 1
         /\ \A a \in Signers : Height(a)' \in Nat /\ Height(a)' >= Height(a)
         /\ Height(t.from)' = Height(t.from) + 1
<1> DEFINE n == Height(t.from)
<1>1. t.from \in Signers /\ n \in Nat /\ Used(t.from) = 0 .. n - 1
  BY Heights
<1>2. /\ txs' = [txs EXCEPT ![t.from] = @ \cup {t}]
      /\ txs' \in [Signers -> SUBSET [from : Signers, nonce : Nat, round : Nat]]
  BY <1>1 DEF Take, TypeOK
<1>3. \A a \in Signers \ {t.from} : Used(a)' = Used(a) /\ Height(a)' = Height(a)
  <2>1. \A a \in Signers \ {t.from} : txs'[a] = txs[a]
    BY <1>2 DEF TypeOK
  <2>2. QED
    BY <2>1 DEF Used, Height
<1>4. Used(t.from)' = Used(t.from) \cup {t.nonce}
  <2>1. txs'[t.from] = txs[t.from] \cup {t}
    BY <1>1, <1>2 DEF TypeOK
  <2>2. QED
    BY <2>1 DEF Used
<1>5. t.nonce = n
  OBVIOUS
<1> HIDE DEF n
<1>6. Used(t.from)' = 0 .. (n + 1) - 1
  BY <1>1, <1>4, <1>5
<1>7. Height(t.from)' = n + 1
  <2>1. Cardinality(0 .. (n + 1) - 1) = n + 1
    BY <1>1, FS_Interval
  <2>2. QED
    BY <1>6, <2>1 DEF Height
<1>8. \A a \in Signers : \E m \in Nat : Used(a)' = 0 .. m - 1
  BY <1>1, <1>3, <1>6, Heights
<1>9. \A a \in Signers : Height(a)' \in Nat /\ Height(a)' >= Height(a)
  BY <1>1, <1>3, <1>7, Heights DEF n
<1>10. QED
  BY <1>2, <1>7, <1>8, <1>9 DEF n

\* What a step of the program that leaves the node alone has to keep.
LEMMA NodeKept ==
  ASSUME NonceInv, UNCHANGED <<txs, late>>,
         phase' = "send" =>
           \A i \in Tasks : tasks'[i].state \in {"next", "sent"} =>
             tasks'[i].start + tasks'[i].sent <= Height(Accounts[i])
  PROVE  NonceInv'
<1>1. \A a : Used(a)' = Used(a) /\ Height(a)' = Height(a)
  BY DEF Used, Height
<1>2. QED
  BY <1>1 DEF NonceInv

LEMMA NextTyped ==
  ASSUME TypeOK, NonceInv, [Next]_vars
  PROVE  TypeOK'
<1>1. \A i \in Tasks : Accounts[i] \in Signers
  BY DEF Signers
<1>2. \A i \in Tasks : PendingNonce(Accounts[i]) \in Nat
  BY <1>1, PendingIsNext, Heights
<1>3. \A i \in Tasks : Transaction(i) \in [from : Signers, nonce : Nat, round : Nat]
  BY <1>1 DEF Transaction, TypeOK
<1>4. [i \in Tasks |-> NewTask] \in [Tasks -> [state : TaskState, start : Nat, sent : Nat]]
  BY DEF NewTask, TaskState
<1>5. ASSUME NEW i \in Tasks,
             \/ get_nonce(i) \/ send_generic_transaction(i) \/ TaskEnds(i)
             \/ MintReceipt(i) \/ MintUnsent(i)
      PROVE  TypeOK'
  <2>1. CASE get_nonce(i)
    <3>1. [state |-> "next", sent |-> 0, start |-> PendingNonce(Accounts[i])]
            \in [state : TaskState, start : Nat, sent : Nat]
      BY <1>2 DEF TaskState
    <3>2. QED
      BY <2>1, <3>1 DEF get_nonce, TypeOK, node
  <2>2. CASE send_generic_transaction(i) \/ TaskEnds(i)
    <3>1. \/ tasks' = [tasks EXCEPT ![i].state = "sent"]
          \/ tasks' = [tasks EXCEPT ![i].state = "done"]
      BY <2>2, Zenon DEF send_generic_transaction, TaskEnds
    <3>2. UNCHANGED <<round, txs, late>>
      BY <2>2 DEF send_generic_transaction, TaskEnds, node
    <3>3. QED
      BY <3>1, <3>2 DEF TypeOK, TaskState
  <2>3. CASE MintReceipt(i)
    <3>1. \/ tasks' = [tasks EXCEPT ![i].state = "done"]
          \/ tasks' = [tasks EXCEPT ![i].state = "failed"]
      BY <2>3, Zenon DEF MintReceipt
    <3>2. UNCHANGED <<round, txs, late>>
      BY <2>3 DEF MintReceipt, node
    <3>3. QED
      BY <3>1, <3>2 DEF TypeOK, TaskState
  <2>4. CASE MintUnsent(i)
    BY <2>4 DEF MintUnsent, TypeOK, node
  <2>5. QED
    BY <1>5, <2>1, <2>2, <2>3, <2>4
<1>6. ASSUME NEW i \in Tasks, SendMint(i) \/ NodeTakes(i)
      PROVE  TypeOK'
  <2>1. PICK t \in [from : Signers, nonce : Nat, round : Nat] : Take(t)
    <3>1. CASE SendMint(i)
      <4>1. [from |-> Accounts[i], nonce |-> PendingNonce(Accounts[i]), round |-> 0]
              \in [from : Signers, nonce : Nat, round : Nat]
        BY <1>1, <1>2
      <4>2. QED
        BY <3>1, <4>1 DEF SendMint
    <3>2. CASE NodeTakes(i)
      BY <1>3, <3>2 DEF NodeTakes
    <3>3. QED
      BY <1>6, <3>1, <3>2
  <2>2. txs' \in [Signers -> SUBSET [from : Signers, nonce : Nat, round : Nat]]
    BY <2>1 DEF Take, TypeOK
  <2>3. tasks' \in [Tasks -> [state : TaskState, start : Nat, sent : Nat]]
    BY <1>2, <1>6 DEF SendMint, NodeTakes, Answered, TypeOK, TaskState
  <2>4. QED
    BY <1>6, <2>2, <2>3 DEF SendMint, NodeTakes, TypeOK
<1>7. ASSUME NEW i \in Tasks, NodeRefuses(i) \/ RequestLost(i)
      PROVE  TypeOK'
  BY <1>3, <1>7 DEF NodeRefuses, RequestLost, RoundFails, TypeOK
<1>8. CASE Deploy \/ claim_erc20_balances \/ run_round
  BY <1>4, <1>8 DEF Deploy, claim_erc20_balances, run_round, EnterRound, TypeOK, node
<1>9. CASE AllSent \/ Reached \/ KeepWaiting \/ GivesUp \/ RoundFinished \/ NonceUnknown
  BY <1>9 DEF AllSent, Reached, KeepWaiting, GivesUp, RoundFinished, NonceUnknown, TypeOK, node
<1>10. ASSUME NEW a \in Signers, IncludeNext(a)
       PROVE  TypeOK'
  BY <1>10 DEF IncludeNext, TypeOK
<1>11. ASSUME NEW t \in late, LateArrives(t)
       PROVE  TypeOK'
  BY <1>11 DEF LateArrives, Take, TypeOK
<1>12. CASE UNCHANGED vars
  BY <1>12 DEF vars, node, TypeOK
<1>13. QED
  BY <1>5, <1>6, <1>7, <1>8, <1>9, <1>10, <1>11, <1>12 DEF Next, Program, Answers

LEMMA NonceStep ==
  ASSUME TypeOK, NonceInv, [Next]_vars
  PROVE  NonceInv'
<1>1. \A i \in Tasks : Accounts[i] \in Signers
  BY DEF Signers
<1>2. \A i \in Tasks : /\ Transaction(i) \in [from : Signers, nonce : Nat, round : Nat]
                       /\ Transaction(i).from = Accounts[i]
                       /\ Transaction(i).nonce = tasks[i].start + tasks[i].sent
  BY <1>1 DEF Transaction, TypeOK
<1>3. ASSUME NEW i \in Tasks, get_nonce(i)
      PROVE  NonceInv'
  <2>1. tasks' = [tasks EXCEPT ![i] = [state |-> "next", sent |-> 0, start |-> Height(Accounts[i])]]
    BY <1>1, <1>3, PendingIsNext DEF get_nonce
  <2>2. phase = "send" /\ Height(Accounts[i]) \in Nat
    BY <1>1, <1>3, Heights DEF get_nonce
  <2>3. \A j \in Tasks : tasks'[j].state \in {"next", "sent"} =>
          tasks'[j].start + tasks'[j].sent <= Height(Accounts[j])
    BY <2>1, <2>2 DEF TypeOK, NonceInv
  <2>4. UNCHANGED <<txs, late>>
    BY <1>3 DEF get_nonce, node
  <2>5. QED
    BY <2>3, <2>4, NodeKept
<1>4. ASSUME NEW i \in Tasks, send_generic_transaction(i) \/ TaskEnds(i)
      PROVE  NonceInv'
  <2>1. /\ phase = "send" /\ tasks[i].state = "next"
        /\ \E s \in {"sent", "done"} : tasks' = [tasks EXCEPT ![i].state = s]
        /\ UNCHANGED <<txs, late>>
    BY <1>4 DEF send_generic_transaction, TaskEnds, node
  <2>2. \A j \in Tasks : tasks'[j].state \in {"next", "sent"} =>
          tasks'[j].start + tasks'[j].sent <= Height(Accounts[j])
    BY <2>1 DEF TypeOK, NonceInv
  <2>3. QED
    BY <2>1, <2>2, NodeKept
<1>5. ASSUME NEW i \in Tasks, MintReceipt(i) \/ MintUnsent(i)
      PROVE  NonceInv'
  <2>1. phase' # "send" /\ UNCHANGED <<txs, late>>
    BY <1>5 DEF MintReceipt, MintUnsent, node
  <2>2. QED
    BY <2>1, NodeKept
<1>6. ASSUME NEW i \in Tasks, SendMint(i)
      PROVE  NonceInv'
  <2> DEFINE t == [from |-> Accounts[i], nonce |-> Height(Accounts[i]), round |-> 0]
  <2>1. t \in [from : Signers, nonce : Nat, round : Nat]
    BY <1>1, Heights
  <2>2. t.nonce = Height(t.from)
    OBVIOUS
  <2>3. Take(t) /\ phase' # "send" /\ UNCHANGED late
    BY <1>1, <1>6, PendingIsNext DEF SendMint
  <2> HIDE DEF t
  <2>4. /\ \A a \in Signers : \E n \in Nat : Used(a)' = 0 .. n - 1
        /\ \A a \in Signers : Height(a)' \in Nat /\ Height(a)' >= Height(a)
    BY <2>1, <2>2, <2>3, TakeNext
  <2>5. \A x \in late' : x.nonce <= Height(x.from)'
    BY <2>3, <2>4, Heights DEF NonceInv, TypeOK
  <2>6. QED
    BY <2>3, <2>4, <2>5 DEF NonceInv
<1>7. ASSUME NEW i \in Tasks, NodeTakes(i)
      PROVE  NonceInv'
  <2>0. PICK t \in [from : Signers, nonce : Nat, round : Nat] : t = Transaction(i)
    BY <1>2
  <2>1. /\ t \in [from : Signers, nonce : Nat, round : Nat]
        /\ t.from = Accounts[i] /\ t.nonce = tasks[i].start + tasks[i].sent
    BY <1>2, <2>0
  <2>2. /\ phase = "send" /\ tasks[i].state = "sent" /\ t.nonce \notin Used(t.from)
        /\ Take(t) /\ phase' = phase /\ UNCHANGED late
        /\ tasks' = [tasks EXCEPT ![i].state = "next", ![i].sent = @ + 1]
    BY <1>7, <2>0 DEF NodeTakes, Takes, Answered
  <2>3. t.nonce = Height(t.from)
    BY <1>1, <2>1, <2>2, TakenIsNext DEF NonceInv
  <2>4. /\ \A a \in Signers : \E n \in Nat : Used(a)' = 0 .. n - 1
        /\ \A a \in Signers : Height(a)' \in Nat /\ Height(a)' >= Height(a)
        /\ Height(t.from)' = Height(t.from) + 1
    BY <2>1, <2>2, <2>3, TakeNext
  <2>5. \A x \in late' : x.nonce <= Height(x.from)'
    <3>1. \A x \in late : /\ x.from \in Signers /\ x.nonce \in Nat
                          /\ x.nonce <= Height(x.from) /\ Height(x.from) \in Nat
      BY Heights DEF NonceInv, TypeOK
    <3>2. QED
      BY <2>2, <2>4, <3>1
  <2>6. ASSUME NEW j \in Tasks, tasks'[j].state \in {"next", "sent"}
        PROVE  tasks'[j].start + tasks'[j].sent <= Height(Accounts[j])'
    <3>1. Accounts[j] \in Signers /\ Height(Accounts[j]) \in Nat
      BY <1>1, Heights
    <3>2. CASE j = i
      <4>1. tasks'[i].start + tasks'[i].sent = t.nonce + 1
        <5>1. /\ tasks[i] \in [state : TaskState, start : Nat, sent : Nat]
              /\ tasks'[i] = [tasks[i] EXCEPT !.state = "next", !.sent = @ + 1]
          BY <2>2 DEF TypeOK
        <5>2. tasks'[i].start = tasks[i].start /\ tasks'[i].sent = tasks[i].sent + 1
          BY <5>1
        <5>3. QED
          BY <2>1, <5>1, <5>2
      <4>2. Height(Accounts[i])' = Height(Accounts[i]) + 1
        BY <2>1, <2>4
      <4>3. QED
        BY <2>1, <2>3, <3>1, <3>2, <4>1, <4>2
    <3>3. CASE j # i
      <4>1. tasks'[j] = tasks[j]
        BY <2>2, <3>3 DEF TypeOK
      <4>2. tasks[j].start + tasks[j].sent <= Height(Accounts[j])
        BY <2>2, <2>6, <4>1 DEF NonceInv
      <4>3. tasks[j].start + tasks[j].sent \in Nat
        BY DEF TypeOK
      <4>4. QED
        BY <2>4, <3>1, <4>1, <4>2, <4>3
    <3>4. QED
      BY <3>2, <3>3
  <2>7. QED
    BY <2>4, <2>5, <2>6 DEF NonceInv
<1>8. ASSUME NEW i \in Tasks, NodeRefuses(i) \/ RequestLost(i)
      PROVE  NonceInv'
  <2>1. /\ phase = "send" /\ tasks[i].state = "sent" /\ phase' # "send" /\ UNCHANGED txs
        /\ \A t \in late' :
             t \in late \/ \E j \in Tasks : tasks[j].state = "sent" /\ t = Transaction(j)
    BY <1>8 DEF NodeRefuses, RequestLost, RoundFails
  <2>2. \A t \in late' : t.nonce <= Height(t.from)
    BY <1>2, <2>1 DEF NonceInv
  <2>3. \A a : Used(a)' = Used(a) /\ Height(a)' = Height(a)
    BY <2>1 DEF Used, Height
  <2>4. QED
    BY <2>1, <2>2, <2>3 DEF NonceInv
<1>9. CASE Deploy \/ claim_erc20_balances \/ run_round
  <2>1. /\ UNCHANGED <<txs, late>>
        /\ phase' = "send" => tasks' = [j \in Tasks |-> NewTask]
    BY <1>9 DEF Deploy, claim_erc20_balances, run_round, EnterRound, node
  <2>2. QED
    BY <2>1, NodeKept DEF NewTask
<1>10. CASE AllSent \/ Reached \/ KeepWaiting \/ GivesUp \/ RoundFinished \/ NonceUnknown
  <2>1. phase' # "send" /\ UNCHANGED <<txs, late>>
    BY <1>10 DEF AllSent, Reached, KeepWaiting, GivesUp, RoundFinished, NonceUnknown,
                 Waiting, node
  <2>2. QED
    BY <2>1, NodeKept
<1>11. ASSUME NEW a \in Signers, IncludeNext(a)
       PROVE  NonceInv'
  <2>1. UNCHANGED <<phase, tasks, txs, late>>
    BY <1>11 DEF IncludeNext
  <2>2. QED
    BY <2>1, NodeKept DEF NonceInv
<1>12. ASSUME NEW t \in late, LateArrives(t)
       PROVE  NonceInv'
  <2>1. /\ t \in [from : Signers, nonce : Nat, round : Nat] /\ t.nonce <= Height(t.from)
        /\ late' \subseteq late /\ UNCHANGED <<phase, tasks>>
    BY <1>12 DEF LateArrives, TypeOK, NonceInv
  <2>2. CASE Takes(t)
    <3>1. t.nonce = Height(t.from) /\ Take(t)
      BY <1>12, <2>1, <2>2, TakenIsNext DEF Takes, LateArrives
    <3>2. /\ \A a \in Signers : \E n \in Nat : Used(a)' = 0 .. n - 1
          /\ \A a \in Signers : Height(a)' \in Nat /\ Height(a)' >= Height(a)
      BY <2>1, <3>1, TakeNext
    <3>3. \A x \in late' : x.nonce <= Height(x.from)'
      BY <2>1, <3>2, Heights DEF NonceInv, TypeOK
    <3>4. ASSUME NEW j \in Tasks, phase' = "send", tasks'[j].state \in {"next", "sent"}
          PROVE  tasks'[j].start + tasks'[j].sent <= Height(Accounts[j])'
      <4>1. tasks[j].start + tasks[j].sent <= Height(Accounts[j])
        BY <2>1, <3>4 DEF NonceInv
      <4>2. tasks[j].start + tasks[j].sent \in Nat
        BY DEF TypeOK
      <4>3. Height(Accounts[j])' \in Nat /\ Height(Accounts[j])' >= Height(Accounts[j])
        BY <1>1, <3>2
      <4>4. Height(Accounts[j]) \in Nat
        BY <1>1, Heights
      <4>5. QED
        BY <2>1, <4>1, <4>2, <4>3, <4>4
    <3>5. QED
      BY <3>2, <3>3, <3>4 DEF NonceInv
  <2>3. CASE ~Takes(t)
    <3>1. UNCHANGED txs
      BY <1>12, <2>3 DEF LateArrives
    <3>2. \A a : Used(a)' = Used(a) /\ Height(a)' = Height(a)
      BY <3>1 DEF Used, Height
    <3>3. QED
      BY <2>1, <3>2 DEF NonceInv
  <2>4. QED
    BY <2>2, <2>3
<1>13. CASE UNCHANGED vars
  <2>1. UNCHANGED <<phase, tasks, txs, late>>
    BY <1>13 DEF vars, node
  <2>2. QED
    BY <2>1, NodeKept DEF NonceInv
<1>14. QED
  BY <1>3, <1>4, <1>5, <1>6, <1>7, <1>8, <1>9, <1>10, <1>11, <1>12, <1>13
     DEF Next, Program, Answers

\* No hole in the nonces of an account, whatever is refused, lost, dropped with its
\* task or late: one request at a time, counted from the pending nonce, and an
\* error ends the task (load_test).
THEOREM NoncesHaveNoGap == Spec => []NoNonceGap
<1>1. Init => TypeOK /\ NonceInv
  <2> SUFFICES ASSUME Init PROVE TypeOK /\ NonceInv
    OBVIOUS
  <2>1. TypeOK
    BY DEF Init, TypeOK, NewTask, TaskState
  <2>2. \A a \in Signers : Used(a) = 0 .. 0 - 1
    BY DEF Init, Used
  <2>3. QED
    BY <2>1, <2>2 DEF Init, NonceInv
<1>2. TypeOK /\ NonceInv /\ [Next]_vars => TypeOK' /\ NonceInv'
  BY NextTyped, NonceStep
<1>3. NonceInv => NoNonceGap
  BY Heights DEF NoNonceGap, Height
<1>4. QED
  BY <1>1, <1>2, <1>3, PTL DEF Spec

-----------------------------------------------------------------------------
(* What a round measures.                                                  *)

\* The progress of the waiting loop.
IsWatch == watch = [target |-> watch.target, last_nonce |-> watch.last_nonce, stale |-> watch.stale]
               /\ watch.target \in Nat \ {0}

Sent(i, k) == [from |-> Accounts[i], nonce |-> tasks[i].start + k, round |-> round]

\* What a node has of this round is what its tasks were answered, each nonce once.
OwnSent ==
    /\ \A i \in Tasks : \A k \in 0 .. tasks[i].sent - 1 : Sent(i, k) \in txs[Accounts[i]]
    /\ \A a \in Signers : \A t \in txs[a] : t.round = round =>
          \E i \in Tasks : \E k \in 0 .. tasks[i].sent - 1 : Accounts[i] = a /\ t = Sent(i, k)
    /\ \A i, j \in Tasks : \A k \in 0 .. tasks[i].sent - 1 : \A l \in 0 .. tasks[j].sent - 1 :
          Sent(i, k) = Sent(j, l) => i = j

Target(i) == [src |-> Accounts[i], start |-> tasks[i].start, target |-> tasks[i].start + tx_amount]

Ended ==
    \A i \in Tasks :
        /\ tasks[i].state = "nonce" => tasks[i].sent = 0
        /\ tasks[i].state = "done" =>
             tasks[i].sent = tx_amount /\ \E n \in DOMAIN targets : targets[n] = Target(i)

InRound == phase \in {"send", "wait"}

MeasureInv ==
    /\ included \in [Signers -> Nat]
    /\ IsWatch
    /\ targets \in Seq([src : Signers, start : Nat, target : Nat])
    /\ phase \in {"deploy", "claim"} => round = 0
    /\ \A a \in Signers : \A t \in txs[a] : t.from = a /\ t.round <= round
    /\ \A t \in late : t.round <= round /\ (InRound => t.round < round)
    /\ InRound => OwnSent /\ Ended
    /\ phase = "wait" =>
         /\ \A i \in Tasks : tasks[i].state = "done"
         /\ \A n \in DOMAIN targets : n < watch.target => included[targets[n].src] >= targets[n].target

Transactions == [from : Signers, nonce : Nat, round : Nat]

LEMMA TaskTypes ==
  ASSUME TypeOK, NEW i \in Tasks
  PROVE  /\ Accounts[i] \in Signers /\ tasks[i].start \in Nat /\ tasks[i].sent \in Nat
         /\ tasks[i].state \in TaskState
BY DEF TypeOK, Signers

\* Tasks that go on without an answer: what was sent stays.
LEMMA OwnKept ==
  ASSUME TypeOK, OwnSent, UNCHANGED <<txs, round>>,
         \A i \in Tasks : /\ tasks'[i].sent = tasks[i].sent
                          /\ tasks[i].sent # 0 => tasks'[i].start = tasks[i].start
  PROVE  OwnSent'
<1>1. ASSUME NEW i \in Tasks, NEW k \in 0 .. tasks'[i].sent - 1
      PROVE  k \in 0 .. tasks[i].sent - 1 /\ Sent(i, k)' = Sent(i, k)
  <2>1. tasks[i].sent \in Nat /\ tasks'[i].sent = tasks[i].sent
    BY TaskTypes
  <2>2. tasks[i].sent # 0
    BY <2>1
  <2>3. QED
    BY <2>1, <2>2 DEF Sent
<1>2. ASSUME NEW a \in Signers, NEW t \in txs'[a], t.round = round'
      PROVE  \E i \in Tasks : \E k \in 0 .. tasks'[i].sent - 1 : Accounts[i] = a /\ t = Sent(i, k)'
  <2>1. PICK i \in Tasks : \E k \in 0 .. tasks[i].sent - 1 : Accounts[i] = a /\ t = Sent(i, k)
    BY <1>2 DEF OwnSent
  <2>2. PICK k \in 0 .. tasks[i].sent - 1 : Accounts[i] = a /\ t = Sent(i, k)
    BY <2>1
  <2>3. k \in 0 .. tasks'[i].sent - 1
    BY <2>2
  <2>4. Sent(i, k)' = Sent(i, k)
    BY <1>1, <2>3
  <2>5. QED
    BY <2>2, <2>3, <2>4
<1>3. ASSUME NEW i \in Tasks, NEW k \in 0 .. tasks'[i].sent - 1
      PROVE  Sent(i, k)' \in txs'[Accounts[i]]
  BY <1>1, <1>3 DEF OwnSent
<1>4. ASSUME NEW i \in Tasks, NEW j \in Tasks, NEW k \in 0 .. tasks'[i].sent - 1,
             NEW l \in 0 .. tasks'[j].sent - 1, Sent(i, k)' = Sent(j, l)'
      PROVE  i = j
  BY <1>1, <1>4 DEF OwnSent
<1>5. QED
  BY <1>2, <1>3, <1>4 DEF OwnSent

\* A transaction of an earlier round that arrives is not one of this round.
LEMMA OwnWhenLate ==
  ASSUME TypeOK, OwnSent, NEW t \in Transactions, t.round < round, Take(t), UNCHANGED <<tasks, round>>
  PROVE  OwnSent'
<1>1. t.from \in Signers /\ t.round # round
  BY DEF Transactions, TypeOK
<1>2. \A a \in Signers : txs[a] \subseteq txs'[a] /\ \A x \in txs'[a] : x \in txs[a] \/ x = t
  BY <1>1 DEF Take, TypeOK
<1>3. \A i \in Tasks : \A k : Sent(i, k)' = Sent(i, k)
  BY DEF Sent
<1>4. \A i \in Tasks : Accounts[i] \in Signers
  BY DEF Signers
<1>5. ASSUME NEW a \in Signers, NEW x \in txs'[a], x.round = round'
      PROVE  \E i \in Tasks : \E k \in 0 .. tasks'[i].sent - 1 : Accounts[i] = a /\ x = Sent(i, k)'
  <2>1. x \in txs[a] /\ x.round = round
    BY <1>1, <1>2, <1>5
  <2>2. QED
    BY <1>3, <2>1 DEF OwnSent
<1>6. \A i \in Tasks : \A k \in 0 .. tasks'[i].sent - 1 : Sent(i, k)' \in txs'[Accounts[i]]
  BY <1>2, <1>3, <1>4 DEF OwnSent
<1>7. \A i, j \in Tasks : \A k \in 0 .. tasks'[i].sent - 1 : \A l \in 0 .. tasks'[j].sent - 1 :
          Sent(i, k)' = Sent(j, l)' => i = j
  BY <1>3 DEF OwnSent
<1>8. QED
  BY <1>5, <1>6, <1>7 DEF OwnSent

\* The answer to a task: its transaction is one more of the round.
LEMMA OwnWhenTaken ==
  ASSUME TypeOK, OwnSent, NEW i \in Tasks, Takes(Transaction(i)), Take(Transaction(i)), Answered(i),
         round' = round
  PROVE  OwnSent'
<1> DEFINE n == tasks[i].sent
           mine == Sent(i, n)
<1>0. n \in Nat /\ tasks[i].start \in Nat /\ Accounts[i] \in Signers
  BY TaskTypes
<1>1. Transaction(i) = mine /\ mine.from = Accounts[i] /\ mine.nonce = tasks[i].start + n
  BY DEF Transaction, Sent
<1>2. /\ tasks'[i].sent = n + 1 /\ tasks'[i].start = tasks[i].start
      /\ \A j \in Tasks \ {i} : tasks'[j] = tasks[j]
  BY DEF Answered, TypeOK
<1>3. \A j \in Tasks : \A k : Sent(j, k)' = Sent(j, k)
  BY <1>2 DEF Sent
<1>4. txs' = [txs EXCEPT ![Accounts[i]] = @ \cup {mine}]
  BY <1>1 DEF Take
<1>5. \A a \in Signers : /\ txs[a] \subseteq txs'[a]
                         /\ \A x \in txs'[a] : x \in txs[a] \/ (x = mine /\ a = Accounts[i])
  BY <1>0, <1>4 DEF TypeOK
<1>6. mine \in txs'[Accounts[i]] /\ mine \notin txs[Accounts[i]]
  <2>1. mine.nonce \notin Used(Accounts[i])
    BY <1>1 DEF Takes
  <2>2. QED
    BY <1>0, <1>4, <2>1 DEF Used, TypeOK
<1> HIDE DEF mine
<1>7. ASSUME NEW j \in Tasks, NEW k \in 0 .. tasks'[j].sent - 1
      PROVE  k \in 0 .. tasks[j].sent - 1 \/ (j = i /\ k = n)
  <2>1. CASE j = i
    BY <1>0, <1>2, <2>1
  <2>2. CASE j # i
    BY <1>2, <2>2
  <2>3. QED
    BY <2>1, <2>2
<1>8. \A j \in Tasks : Accounts[j] \in Signers
  BY DEF Signers
<1>9. ASSUME NEW j \in Tasks, NEW k \in 0 .. tasks'[j].sent - 1
      PROVE  Sent(j, k)' \in txs'[Accounts[j]]
  <2>1. CASE k \in 0 .. tasks[j].sent - 1
    <3>1. Sent(j, k) \in txs[Accounts[j]]
      BY <2>1 DEF OwnSent
    <3>2. QED
      BY <1>3, <1>5, <1>8, <3>1
  <2>2. CASE j = i /\ k = n
    BY <1>3, <1>6, <2>2 DEF mine
  <2>3. QED
    BY <1>7, <2>1, <2>2
<1>10. ASSUME NEW j \in Tasks, NEW k \in 0 .. tasks'[j].sent - 1, mine = Sent(j, k)
       PROVE  j = i
  <2>1. CASE k \in 0 .. tasks[j].sent - 1
    <3>1. Sent(j, k) \in txs[Accounts[j]]
      BY <2>1 DEF OwnSent
    <3>2. Accounts[j] = Accounts[i]
      BY <1>10 DEF Sent, mine
    <3>3. QED
      BY <1>6, <1>10, <3>1, <3>2
  <2>2. QED
    BY <1>7, <2>1
<1>11. ASSUME NEW j \in Tasks, NEW m \in Tasks, NEW k \in 0 .. tasks'[j].sent - 1,
              NEW l \in 0 .. tasks'[m].sent - 1, Sent(j, k)' = Sent(m, l)'
       PROVE  j = m
  <2>1. Sent(j, k) = Sent(m, l)
    BY <1>3, <1>11
  <2>2. CASE k \in 0 .. tasks[j].sent - 1 /\ l \in 0 .. tasks[m].sent - 1
    BY <2>1, <2>2 DEF OwnSent
  <2>3. CASE j = i /\ k = n
    <3>1. mine = Sent(m, l)
      BY <2>1, <2>3 DEF mine
    <3>2. QED
      BY <1>10, <2>3, <3>1
  <2>4. CASE m = i /\ l = n
    <3>1. mine = Sent(j, k)
      BY <2>1, <2>4 DEF mine
    <3>2. QED
      BY <1>10, <2>4, <3>1
  <2>5. QED
    BY <1>7, <2>2, <2>3, <2>4
<1>12. ASSUME NEW a \in Signers, NEW t \in txs'[a], t.round = round'
       PROVE  \E j \in Tasks : \E k \in 0 .. tasks'[j].sent - 1 : Accounts[j] = a /\ t = Sent(j, k)'
  <2>1. CASE t = mine /\ a = Accounts[i]
    <3>1. n \in 0 .. tasks'[i].sent - 1
      BY <1>0, <1>2
    <3>2. QED
      BY <1>3, <2>1, <3>1 DEF mine
  <2>2. CASE t \in txs[a]
    <3>1. PICK j \in Tasks : \E k \in 0 .. tasks[j].sent - 1 : Accounts[j] = a /\ t = Sent(j, k)
      BY <1>12, <2>2 DEF OwnSent
    <3>2. PICK k \in 0 .. tasks[j].sent - 1 : Accounts[j] = a /\ t = Sent(j, k)
      BY <3>1
    <3>3. k \in 0 .. tasks'[j].sent - 1
      <4>1. tasks[j].sent \in Nat
        BY TaskTypes
      <4>2. CASE j = i
        BY <1>0, <1>2, <4>2
      <4>3. CASE j # i
        BY <1>2, <4>3
      <4>4. QED
        BY <4>2, <4>3
    <3>4. QED
      BY <1>3, <3>2, <3>3
  <2>3. QED
    BY <1>5, <2>1, <2>2
<1>13. QED
  BY <1>9, <1>11, <1>12 DEF OwnSent

LEMMA EndedKept ==
  ASSUME Ended, targets' = targets,
         \A i \in Tasks : tasks'[i] = tasks[i] \/ tasks'[i].state \in {"next", "sent"}
  PROVE  Ended'
<1> SUFFICES ASSUME NEW i \in Tasks
             PROVE  /\ tasks'[i].state = "nonce" => tasks'[i].sent = 0
                    /\ tasks'[i].state = "done" =>
                         tasks'[i].sent = tx_amount /\ \E n \in DOMAIN targets : targets[n] = Target(i)'
  BY DEF Ended
<1>1. CASE tasks'[i] = tasks[i]
  BY <1>1 DEF Ended, Target
<1>2. CASE tasks'[i].state \in {"next", "sent"}
  BY <1>2
<1>3. QED
  BY <1>1, <1>2

\* A task that ends adds its target.
LEMMA EndedWhenEnds ==
  ASSUME TypeOK, Ended, targets \in Seq([src : Signers, start : Nat, target : Nat]),
         NEW i \in Tasks, TaskEnds(i)
  PROVE  Ended' /\ targets' \in Seq([src : Signers, start : Nat, target : Nat])
<1>0. tasks[i].start \in Nat /\ tasks[i].sent \in Nat /\ Accounts[i] \in Signers
  BY TaskTypes
<1>1. /\ tasks[i].sent = tx_amount /\ tasks' = [tasks EXCEPT ![i].state = "done"]
      /\ targets' = Append(targets, Target(i))
  BY DEF TaskEnds, Finish, Target
<1>2. Target(i) \in [src : Signers, start : Nat, target : Nat]
  BY <1>0, LoadTestAssumption DEF Target
<1>3. /\ targets' \in Seq([src : Signers, start : Nat, target : Nat])
      /\ DOMAIN targets \subseteq DOMAIN targets'
      /\ \A n \in DOMAIN targets : targets'[n] = targets[n]
      /\ \E n \in DOMAIN targets' : targets'[n] = Target(i)
  <2>1. /\ targets' \in Seq([src : Signers, start : Nat, target : Nat])
        /\ Len(targets) \in Nat /\ DOMAIN targets = 1 .. Len(targets)
        /\ DOMAIN targets' = 1 .. Len(targets) + 1
        /\ \A n \in 1 .. Len(targets) : targets'[n] = targets[n]
        /\ targets'[Len(targets) + 1] = Target(i)
    BY <1>1, <1>2, AppendProperties
  <2>2. QED
    BY <2>1
<1>4. /\ tasks'[i].sent = tasks[i].sent /\ tasks'[i].start = tasks[i].start /\ tasks'[i].state = "done"
      /\ \A j \in Tasks \ {i} : tasks'[j] = tasks[j]
  BY <1>1 DEF TypeOK
<1>5. ASSUME NEW j \in Tasks
      PROVE  /\ tasks'[j].state = "nonce" => tasks'[j].sent = 0
             /\ tasks'[j].state = "done" =>
                  tasks'[j].sent = tx_amount /\ \E n \in DOMAIN targets' : targets'[n] = Target(j)'
  <2>1. CASE j = i
    <3>1. Target(i)' = Target(i)
      BY <1>4 DEF Target
    <3>2. QED
      BY <1>1, <1>3, <1>4, <2>1, <3>1
  <2>2. CASE j # i
    <3>1. Target(j)' = Target(j) /\ tasks'[j] = tasks[j]
      BY <1>4, <2>2 DEF Target
    <3>2. QED
      BY <1>3, <3>1 DEF Ended
  <2>3. QED
    BY <2>1, <2>2
<1>6. QED
  BY <1>3, <1>5 DEF Ended

\* A new round has nothing of its own yet.
LEMMA NewRound ==
  ASSUME TypeOK, MeasureInv, NEW n \in Nat, round < n, EnterRound(n),
         UNCHANGED <<watch, included, txs, late>>
  PROVE  MeasureInv'
<1>1. /\ phase' = "send" /\ round' = n /\ targets' = <<>> /\ tasks' = [i \in Tasks |-> NewTask]
      /\ round \in Nat
  BY DEF EnterRound, TypeOK
<1>2. /\ \A a \in Signers : \A t \in txs[a] : t.from = a /\ t.round <= n /\ t.round # n
      /\ \A t \in late : t.round <= n /\ t.round < n
  <2>1. /\ \A a \in Signers : \A t \in txs[a] : t.round \in Nat
        /\ \A t \in late : t.round \in Nat
    BY DEF TypeOK
  <2>2. QED
    BY <1>1, <2>1 DEF MeasureInv
<1>3. \A i \in Tasks : tasks'[i].sent = 0 /\ tasks'[i].state = "nonce"
  BY <1>1 DEF NewTask
<1>4. OwnSent'
  BY <1>1, <1>2, <1>3 DEF OwnSent
<1>5. Ended'
  BY <1>1, <1>3 DEF Ended
<1>6. targets' \in Seq([src : Signers, start : Nat, target : Nat])
  BY <1>1
<1>7. QED
  BY <1>1, <1>2, <1>4, <1>5, <1>6 DEF MeasureInv, IsWatch

\* What a step that sends, answers or includes nothing has to keep.
LEMMA MeasureKept ==
  ASSUME TypeOK, MeasureInv, UNCHANGED <<txs, late, included, round>>,
         phase' \in {"send", "wait"} => phase \in {"send", "wait"} /\ OwnSent' /\ Ended',
         phase' \in {"deploy", "claim"} => phase \in {"deploy", "claim"},
         targets' \in Seq([src : Signers, start : Nat, target : Nat]),
         IsWatch',
         phase' = "wait" =>
            /\ \A i \in Tasks : tasks'[i].state = "done"
            /\ \A n \in DOMAIN targets' : n < watch'.target => included[targets'[n].src] >= targets'[n].target
  PROVE  MeasureInv'
BY DEF MeasureInv, InRound

\* The waiting loop looks at another target only when this one is reached.
LEMMA WatchStep ==
  ASSUME IsWatch, targets \in Seq([src : Signers, start : Nat, target : Nat]),
         \A n \in DOMAIN targets : n < watch.target => included[targets[n].src] >= targets[n].target,
         Reached \/ KeepWaiting \/ UNCHANGED watch
  PROVE  /\ IsWatch'
         /\ \A n \in DOMAIN targets : n < watch'.target => included[targets[n].src] >= targets[n].target
<1> DEFINE w == watch.target
           x == watch.last_nonce
           y == watch.stale
<1>1. watch = [target |-> w, last_nonce |-> x, stale |-> y] /\ w \in Nat \ {0}
  BY DEF IsWatch
<1>2. DOMAIN targets \subseteq Nat
  BY LenProperties
<1>3. CASE Reached
  <2>1. watch' = [target |-> w + 1, last_nonce |-> 0, stale |-> 0]
    BY <1>3 DEF Reached, Watch
  <2>2. IsWatch' /\ watch'.target = w + 1
    BY <1>1, <2>1 DEF IsWatch
  <2>3. included[targets[w].src] >= targets[w].target
    BY <1>3 DEF Reached, Nonce, Awaited
  <2>4. \A n \in DOMAIN targets : n < w + 1 => n < w \/ n = w
    BY <1>1, <1>2
  <2>5. QED
    BY <2>2, <2>3, <2>4
<1>4. CASE KeepWaiting
  <2>1. \/ \E z : watch' = [watch EXCEPT !.stale = z]
        \/ \E z : watch' = [watch EXCEPT !.last_nonce = z, !.stale = 1]
    BY <1>4 DEF KeepWaiting
  <2> HIDE DEF w, x, y
  <2>2. \E u, v : watch' = [target |-> w, last_nonce |-> u, stale |-> v]
    BY <1>1, <2>1
  <2>3. IsWatch' /\ watch'.target = w
    BY <1>1, <2>2 DEF IsWatch
  <2>4. QED
    BY <2>3 DEF w
<1>5. CASE UNCHANGED watch
  BY <1>5 DEF IsWatch
<1>6. QED
  BY <1>3, <1>4, <1>5

LEMMA MeasureStep ==
  ASSUME TypeOK, MeasureInv, [Next]_vars
  PROVE  MeasureInv'
<1>0. /\ InRound <=> phase \in {"send", "wait"}
      /\ targets \in Seq([src : Signers, start : Nat, target : Nat]) /\ IsWatch
      /\ InRound => OwnSent /\ Ended
  BY DEF MeasureInv, InRound
<1>1. ASSUME NEW i \in Tasks, get_nonce(i)
      PROVE  MeasureInv'
  <2>1. /\ phase = "send" /\ phase' = "send" /\ tasks[i].state = "nonce"
        /\ tasks' = [tasks EXCEPT ![i] = [state |-> "next", sent |-> 0, start |-> PendingNonce(Accounts[i])]]
        /\ UNCHANGED <<round, targets, watch, txs, included, late>>
    BY <1>1 DEF get_nonce, node
  <2>2. OwnSent /\ Ended /\ tasks[i].sent = 0
    BY <1>0, <2>1 DEF Ended
  <2>3. /\ \A j \in Tasks \ {i} : tasks'[j] = tasks[j]
        /\ tasks'[i].sent = 0 /\ tasks'[i].state = "next"
    BY <2>1 DEF TypeOK
  <2>4. OwnSent'
    BY <2>1, <2>2, <2>3, OwnKept
  <2>5. Ended'
    BY <2>1, <2>2, <2>3, EndedKept
  <2>6. QED
    BY <1>0, <2>1, <2>4, <2>5, MeasureKept DEF IsWatch
<1>2. ASSUME NEW i \in Tasks, send_generic_transaction(i) \/ TaskEnds(i)
      PROVE  MeasureInv'
  <2>1. /\ phase = "send" /\ phase' = "send"
        /\ \E s \in {"sent", "done"} : tasks' = [tasks EXCEPT ![i].state = s]
        /\ UNCHANGED <<round, watch, txs, included, late>>
    BY <1>2 DEF send_generic_transaction, TaskEnds, node
  <2>2. OwnSent /\ Ended
    BY <1>0, <2>1
  <2>3. OwnSent'
    <3>1. \A j \in Tasks : tasks'[j].sent = tasks[j].sent /\ tasks'[j].start = tasks[j].start
      BY <2>1 DEF TypeOK
    <3>2. QED
      BY <2>1, <2>2, <3>1, OwnKept
  <2>4. Ended' /\ targets' \in Seq([src : Signers, start : Nat, target : Nat])
    <3>1. CASE send_generic_transaction(i)
      <4>1. targets' = targets /\ tasks' = [tasks EXCEPT ![i].state = "sent"]
        BY <3>1 DEF send_generic_transaction
      <4>2. \A j \in Tasks : tasks'[j] = tasks[j] \/ tasks'[j].state = "sent"
        BY <4>1 DEF TypeOK
      <4>3. QED
        BY <1>0, <2>2, <4>1, <4>2, EndedKept
    <3>2. CASE TaskEnds(i)
      BY <1>0, <2>2, <3>2, EndedWhenEnds
    <3>3. QED
      BY <1>2, <3>1, <3>2
  <2>5. IsWatch'
    BY <1>0, <2>1 DEF IsWatch
  <2>6. QED
    BY <1>0, <2>1, <2>3, <2>4, <2>5, MeasureKept
<1>3. ASSUME NEW i \in Tasks, NodeTakes(i)
      PROVE  MeasureInv'
  <2> DEFINE mine == Transaction(i)
  <2>1. /\ phase = "send" /\ phase' = "send" /\ Takes(mine) /\ Take(mine) /\ Answered(i)
        /\ UNCHANGED <<round, targets, watch, included, late>>
    BY <1>3 DEF NodeTakes
  <2>2. OwnSent /\ Ended
    BY <1>0, <2>1
  <2>3. OwnSent'
    BY <2>1, <2>2, OwnWhenTaken
  <2>4. Ended'
    <3>1. \A j \in Tasks : tasks'[j] = tasks[j] \/ tasks'[j].state = "next"
      BY <2>1 DEF Answered, TypeOK
    <3>2. QED
      BY <2>1, <2>2, <3>1, EndedKept
  <2>5. mine.from = Accounts[i] /\ mine.round = round /\ round \in Nat
    BY DEF Transaction, TypeOK
  <2> HIDE DEF mine
  <2>6. \A a \in Signers : \A t \in txs'[a] : t.from = a /\ t.round <= round
    <3>1. \A a \in Signers : \A t \in txs'[a] : t \in txs[a] \/ (t = mine /\ a = Accounts[i])
      BY <2>1, <2>5 DEF Take, TypeOK
    <3>2. QED
      BY <2>5, <3>1 DEF MeasureInv
  <2>7. QED
    BY <2>1, <2>3, <2>4, <2>6 DEF MeasureInv, IsWatch, InRound
<1>4. ASSUME NEW i \in Tasks, SendMint(i)
      PROVE  MeasureInv'
  <2> DEFINE mint == [from |-> Accounts[i], nonce |-> PendingNonce(Accounts[i]), round |-> 0]
  <2>1. /\ phase = "claim" /\ phase' = "claim" /\ Take(mint)
        /\ UNCHANGED <<round, targets, watch, included, late>>
    BY <1>4 DEF SendMint
  <2>2. mint.from = Accounts[i] /\ mint.round = 0
    OBVIOUS
  <2> HIDE DEF mint
  <2>3. \A a \in Signers : \A t \in txs'[a] : t.from = a /\ t.round <= round
    <3>1. \A a \in Signers : \A t \in txs'[a] : t \in txs[a] \/ (t = mint /\ a = Accounts[i])
      BY <2>1, <2>2 DEF Take, TypeOK
    <3>2. QED
      BY <2>1, <2>2, <3>1 DEF MeasureInv
  <2>4. QED
    BY <2>1, <2>3 DEF MeasureInv, IsWatch, InRound
<1>5. ASSUME NEW i \in Tasks, MintReceipt(i) \/ MintUnsent(i)
      PROVE  MeasureInv'
  <2>1. /\ phase = "claim" /\ phase' \in {"claim", "panicked"}
        /\ UNCHANGED <<round, targets, watch, txs, included, late>>
    BY <1>5 DEF MintReceipt, MintUnsent, node
  <2>2. QED
    BY <1>0, <2>1, MeasureKept DEF IsWatch
<1>6. ASSUME NEW i \in Tasks, NodeRefuses(i) \/ RequestLost(i)
      PROVE  MeasureInv'
  <2>1. /\ phase' \in {"idle", "panicked"}
        /\ \A t \in late' : t \in late \/ \E j \in Tasks : t = Transaction(j)
        /\ UNCHANGED <<round, targets, watch, txs, included>>
    BY <1>6 DEF NodeRefuses, RequestLost, RoundFails
  <2>2. \A t \in late' : t.round <= round
    BY <2>1 DEF MeasureInv, Transaction, TypeOK
  <2>3. QED
    BY <2>1, <2>2 DEF MeasureInv, IsWatch, InRound
<1>7. CASE Deploy \/ claim_erc20_balances
  <2>1. /\ phase \in {"deploy", "claim"} /\ UNCHANGED <<watch, txs, included, late>>
        /\ \/ EnterRound(1)
           \/ phase' \in {"claim", "panicked"} /\ UNCHANGED <<round, tasks, targets>>
    BY <1>7 DEF Deploy, claim_erc20_balances, node
  <2>2. CASE EnterRound(1)
    <3>1. round < 1
      BY <2>1 DEF MeasureInv
    <3>2. QED
      BY <2>1, <2>2, <3>1, NewRound
  <2>3. CASE phase' \in {"claim", "panicked"} /\ UNCHANGED <<round, tasks, targets>>
    BY <1>0, <2>1, <2>3, MeasureKept DEF IsWatch
  <2>4. QED
    BY <2>1, <2>2, <2>3
<1>8. CASE run_round
  <2>1. EnterRound(round + 1) /\ UNCHANGED <<watch, txs, included, late>>
    BY <1>8 DEF run_round, node
  <2>2. round + 1 \in Nat /\ round < round + 1
    BY DEF TypeOK
  <2>3. QED
    BY <2>1, <2>2, NewRound
<1>9. CASE AllSent
  <2>1. /\ phase = "send" /\ phase' = "wait" /\ \A i \in Tasks : tasks[i].state = "done"
        /\ watch' = [target |-> 1, last_nonce |-> 0, stale |-> 0]
        /\ UNCHANGED <<round, tasks, targets, txs, included, late>>
    BY <1>9 DEF AllSent, Watch, node
  <2>2. OwnSent' /\ Ended'
    BY <1>0, <2>1, OwnKept, EndedKept
  <2>3. IsWatch' /\ watch'.target = 1
    BY <2>1 DEF IsWatch
  <2>4. \A n \in DOMAIN targets : ~(n < 1)
    BY <1>0, LenProperties
  <2>5. QED
    BY <1>0, <2>1, <2>2, <2>3, <2>4, MeasureKept
<1>10. CASE Reached \/ KeepWaiting
  <2>1. /\ phase = "wait" /\ phase' = "wait"
        /\ UNCHANGED <<round, tasks, targets, txs, included, late>>
    BY <1>10 DEF Reached, KeepWaiting, Waiting, node
  <2>2. OwnSent' /\ Ended'
    BY <1>0, <2>1, OwnKept, EndedKept
  <2>3. /\ IsWatch'
        /\ \A n \in DOMAIN targets : n < watch'.target => included[targets[n].src] >= targets[n].target
    <3>1. \A n \in DOMAIN targets : n < watch.target => included[targets[n].src] >= targets[n].target
      BY <2>1 DEF MeasureInv
    <3>2. QED
      BY <1>0, <1>10, <3>1, WatchStep
  <2>4. \A i \in Tasks : tasks'[i].state = "done"
    BY <2>1 DEF MeasureInv
  <2>5. QED
    BY <1>0, <2>1, <2>2, <2>3, <2>4, MeasureKept
<1>11. CASE GivesUp \/ RoundFinished \/ NonceUnknown
  <2>1. /\ phase' \in {"idle", "panicked", "finished"}
        /\ UNCHANGED <<round, targets, watch, txs, included, late>>
    BY <1>11 DEF GivesUp, RoundFinished, NonceUnknown, node
  <2>2. QED
    BY <1>0, <2>1, MeasureKept DEF IsWatch
<1>12. ASSUME NEW a \in Signers, IncludeNext(a)
       PROVE  MeasureInv'
  <2>1. /\ included' = [included EXCEPT ![a] = @ + 1] /\ included \in [Signers -> Nat]
        /\ UNCHANGED <<phase, round, tasks, targets, watch, txs, late>>
    BY <1>12 DEF IncludeNext, MeasureInv
  <2>2. InRound' => OwnSent' /\ Ended'
    BY <1>0, <2>1, OwnKept, EndedKept DEF InRound
  <2>3. included' \in [Signers -> Nat] /\ \A x \in Signers : included'[x] >= included[x]
    BY <2>1
  <2>4. \A n \in DOMAIN targets : targets[n].src \in Signers /\ targets[n].target \in Nat
    <3>1. \A n \in DOMAIN targets : targets[n] \in [src : Signers, start : Nat, target : Nat]
      BY <1>0, LenProperties, ElementOfSeq
    <3>2. QED
      BY <3>1
  <2>5. phase = "wait" =>
          \A n \in DOMAIN targets : n < watch.target => included'[targets[n].src] >= targets[n].target
    BY <2>1, <2>3, <2>4 DEF MeasureInv
  <2>6. QED
    BY <2>1, <2>2, <2>3, <2>5 DEF MeasureInv, IsWatch, InRound
<1>13. ASSUME NEW t \in late, LateArrives(t)
       PROVE  MeasureInv'
  <2>1. /\ Take(t) \/ UNCHANGED txs
        /\ late' \subseteq late /\ t \in Transactions
        /\ UNCHANGED <<phase, round, tasks, targets, watch, included>>
    BY <1>13 DEF LateArrives, TypeOK, Transactions
  <2>2. t.round \in Nat /\ t.round <= round /\ (InRound => t.round < round) /\ t.from \in Signers
    BY <2>1 DEF MeasureInv, Transactions
  <2>3. InRound' => OwnSent'
    <3>1. CASE Take(t)
      BY <1>0, <2>1, <2>2, <3>1, OwnWhenLate DEF InRound
    <3>2. CASE UNCHANGED txs
      BY <1>0, <2>1, <3>2, OwnKept DEF InRound
    <3>3. QED
      BY <2>1, <3>1, <3>2
  <2>4. InRound' => Ended'
    BY <1>0, <2>1, EndedKept DEF InRound
  <2>5. \A a \in Signers : \A x \in txs'[a] : x.from = a /\ x.round <= round
    <3>1. \A a \in Signers : \A x \in txs'[a] : x \in txs[a] \/ (x = t /\ a = t.from)
      BY <2>1, <2>2 DEF Take, TypeOK
    <3>2. QED
      BY <2>2, <3>1 DEF MeasureInv
  <2>6. QED
    BY <2>1, <2>3, <2>4, <2>5 DEF MeasureInv, IsWatch, InRound
<1>14. CASE UNCHANGED vars
  <2>1. UNCHANGED <<phase, round, tasks, targets, watch, txs, included, late>>
    BY <1>14 DEF vars, node
  <2>2. InRound' => OwnSent' /\ Ended'
    BY <1>0, <2>1, OwnKept, EndedKept DEF InRound
  <2>3. QED
    BY <2>1, <2>2 DEF MeasureInv, IsWatch, InRound
<1>15. QED
  BY <1>1, <1>2, <1>3, <1>4, <1>5, <1>6, <1>7, <1>8, <1>9, <1>10, <1>11, <1>12, <1>13, <1>14
     DEF Next, Program, Answers

\* What the node has of this round and an account, counted.
LEMMA OwnCounted ==
  ASSUME TypeOK, OwnSent, \A i \in Tasks : tasks[i].sent = tx_amount, NEW a \in Signers
  PROVE  Cardinality({t \in txs[a] : t.round = round})
           = tx_amount * Cardinality({i \in Tasks : Accounts[i] = a})
<1> DEFINE own == {t \in txs[a] : t.round = round}
           mine == {i \in Tasks : Accounts[i] = a}
           steps == 0 .. tx_amount - 1
           f == [p \in steps \X mine |-> Sent(p[2], p[1])]
<1>1. IsFiniteSet(steps) /\ Cardinality(steps) = tx_amount
  <2>1. tx_amount \in Nat
    BY LoadTestAssumption
  <2>2. /\ IsFiniteSet(0 .. tx_amount - 1)
        /\ Cardinality(0 .. tx_amount - 1)
             = IF 0 > tx_amount - 1 THEN 0 ELSE tx_amount - 1 - 0 + 1
    BY <2>1, FS_Interval
  <2>3. QED
    BY <2>1, <2>2
<1>2. IsFiniteSet(mine)
  <2>1. IsFiniteSet(Tasks)
    BY FS_Interval, LoadTestAssumption DEF Tasks
  <2>2. QED
    BY <2>1, FS_Subset
<1>3. \A p \in steps \X mine : /\ p[1] \in 0 .. tasks[p[2]].sent - 1 /\ p[2] \in Tasks
                               /\ Accounts[p[2]] = a /\ f[p] = Sent(p[2], p[1])
  OBVIOUS
<1>4. \A p \in steps \X mine : f[p] \in own
  BY <1>3 DEF OwnSent, Sent
<1>5. \A t \in own : \E p \in steps \X mine : f[p] = t
  <2> SUFFICES ASSUME NEW t \in own PROVE \E p \in steps \X mine : f[p] = t
    OBVIOUS
  <2>1. PICK i \in Tasks : \E k \in 0 .. tasks[i].sent - 1 : Accounts[i] = a /\ t = Sent(i, k)
    BY DEF OwnSent
  <2>2. PICK k \in 0 .. tasks[i].sent - 1 : Accounts[i] = a /\ t = Sent(i, k)
    BY <2>1
  <2>3. <<k, i>> \in steps \X mine
    BY <2>1, <2>2
  <2>4. f[<<k, i>>] = t
    BY <2>2, <2>3
  <2>5. QED
    BY <2>3, <2>4
<1>6. \A p, q \in steps \X mine : f[p] = f[q] => p = q
  <2> SUFFICES ASSUME NEW k \in steps, NEW i \in mine, NEW l \in steps, NEW j \in mine,
                      Sent(i, k) = Sent(j, l)
               PROVE  i = j /\ k = l
    BY <1>3
  <2>1. i = j
    BY DEF OwnSent
  <2>2. tasks[i].start + k = tasks[i].start + l
    BY <2>1 DEF Sent
  <2>3. tasks[i].start \in Nat /\ k \in Int /\ l \in Int
    BY TaskTypes
  <2>4. QED
    BY <2>1, <2>2, <2>3
<1>7. f \in [steps \X mine -> own]
  BY <1>4
<1> HIDE DEF f, own, mine, steps
<1>8. ExistsBijection(steps \X mine, own)
  <2>1. f \in Bijection(steps \X mine, own)
    BY <1>5, <1>6, <1>7 DEF Bijection, Injection, Surjection, IsInjective
  <2>2. QED
    BY <2>1 DEF ExistsBijection
<1>9. /\ IsFiniteSet(steps \X mine)
      /\ Cardinality(steps \X mine) = Cardinality(steps) * Cardinality(mine)
  BY <1>1, <1>2, FS_Product
<1>10. Cardinality(own) = Cardinality(steps \X mine)
  BY <1>8, <1>9, FS_Bijection
<1>11. Cardinality(own) = tx_amount * Cardinality(mine)
  BY <1>1, <1>9, <1>10
<1>12. QED
  BY <1>11 DEF own, mine

\* A round that finishes measured itself: of each account the node included exactly
\* the transactions this round sent, however many accounts share a key, and none that
\* an earlier round left behind (load_test, wait_until_all_included).
THEOREM RoundsMeasureThemselves == Spec => []RoundMeasuresItsOwn
<1>1. Init => TypeOK /\ NonceInv /\ MeasureInv
  <2> SUFFICES ASSUME Init PROVE TypeOK /\ NonceInv /\ MeasureInv
    OBVIOUS
  <2>1. TypeOK
    BY DEF Init, TypeOK, NewTask, TaskState
  <2>2. \A a \in Signers : Used(a) = 0 .. 0 - 1
    BY DEF Init, Used
  <2>3. NonceInv
    BY <2>1, <2>2 DEF Init, NonceInv
  <2>4. IsWatch
    BY DEF Init, IsWatch, Watch
  <2>5. targets \in Seq([src : Signers, start : Nat, target : Nat])
    BY DEF Init
  <2>6. QED
    BY <2>1, <2>3, <2>4, <2>5 DEF Init, MeasureInv, InRound
<1>2. TypeOK /\ NonceInv /\ MeasureInv /\ [Next]_vars => TypeOK' /\ NonceInv' /\ MeasureInv'
  BY NextTyped, NonceStep, MeasureStep
<1>3. TypeOK /\ MeasureInv => RoundMeasuresItsOwn
  <2> SUFFICES ASSUME TypeOK, MeasureInv, phase = "wait", watch.target > Len(targets), NEW i \in Tasks
               PROVE  Cardinality({t \in txs[Accounts[i]] : t.round = round
                                                             /\ t.nonce < included[Accounts[i]]})
                        = tx_amount * Cardinality({j \in Tasks : Accounts[j] = Accounts[i]})
    BY DEF RoundMeasuresItsOwn
  <2>1. OwnSent /\ Ended /\ \A j \in Tasks : tasks[j].state = "done"
    BY DEF MeasureInv, InRound
  <2>2. \A j \in Tasks : included[Accounts[j]] >= tasks[j].start + tx_amount
    <3> SUFFICES ASSUME NEW j \in Tasks PROVE included[Accounts[j]] >= tasks[j].start + tx_amount
      OBVIOUS
    <3>1. PICK n \in DOMAIN targets : targets[n] = Target(j)
      BY <2>1 DEF Ended
    <3>2. n < watch.target
      <4>1. DOMAIN targets = 1 .. Len(targets) /\ Len(targets) \in Nat /\ watch.target \in Nat
        BY LenProperties DEF MeasureInv, IsWatch
      <4>2. QED
        BY <4>1
    <3>3. included[targets[n].src] >= targets[n].target
      BY <3>2 DEF MeasureInv
    <3>4. QED
      BY <3>1, <3>3 DEF Target
  <2>3. \A t \in txs[Accounts[i]] : t.round = round => t.nonce < included[Accounts[i]]
    <3> SUFFICES ASSUME NEW t \in txs[Accounts[i]], t.round = round
                 PROVE  t.nonce < included[Accounts[i]]
      OBVIOUS
    <3>1. Accounts[i] \in Signers /\ included[Accounts[i]] \in Nat
      BY DEF MeasureInv, Signers
    <3>2. PICK j \in Tasks : \E k \in 0 .. tasks[j].sent - 1 : Accounts[j] = Accounts[i] /\ t = Sent(j, k)
      BY <2>1, <3>1 DEF OwnSent
    <3>3. PICK k \in 0 .. tasks[j].sent - 1 : Accounts[j] = Accounts[i] /\ t = Sent(j, k)
      BY <3>2
    <3>4. t.nonce = tasks[j].start + k /\ tasks[j].sent = tx_amount
      BY <2>1, <3>3 DEF Ended, Sent
    <3>5. tasks[j].start \in Nat /\ tx_amount \in Nat /\ k \in Nat /\ k < tx_amount
      BY <3>3, <3>4, TaskTypes, LoadTestAssumption
    <3>6. QED
      BY <2>2, <3>1, <3>3, <3>4, <3>5
  <2>4. {t \in txs[Accounts[i]] : t.round = round /\ t.nonce < included[Accounts[i]]}
          = {t \in txs[Accounts[i]] : t.round = round}
    BY <2>3
  <2>5. Accounts[i] \in Signers /\ \A j \in Tasks : tasks[j].sent = tx_amount
    BY <2>1 DEF Ended, Signers
  <2>6. QED
    BY <2>1, <2>4, <2>5, OwnCounted
<1>4. QED
  BY <1>1, <1>2, <1>3, PTL DEF Spec

-----------------------------------------------------------------------------
(* reorgs: the child processes and their waiters.                          *)

NodeFields == {"proc", "tracked", "waiter", "known", "head", "pool", "target"}

\* A process ends well only when stop told it to, and is told only when it is
\* tracked; a waiter is done when its process has ended, and panics only when it failed.
NodeOK(m) ==
    /\ DOMAIN m = NodeFields
    /\ m.proc \in {"up", "ended", "failed"} /\ m.tracked \in BOOLEAN
    /\ m.waiter = "done" => m.proc # "up"
    /\ m.waiter = "panicked" => m.proc = "failed"
    /\ m.waiter \in {"waiting", "panicked", "done"}
    /\ ~m.tracked => m.proc # "ended"

IsSeq(s) == \E S : s \in Seq(S)

NodesOK ==
    /\ IsSeq(nodes)
    /\ \A i \in 1 .. Len(nodes) : NodeOK(nodes[i])

\* Without a fault no process fails by itself, and a node that is not tracked yet
\* is the last one, and the script waits for it.
FaultlessOK ==
    faults = 0 =>
        \A i \in 1 .. Len(nodes) :
            /\ nodes[i].proc # "failed"
            /\ ~nodes[i].tracked => i = Len(nodes) /\ Running("start")

NodesInv == faults \in Nat /\ NodesOK /\ FaultlessOK

\* A sequence of nodes of which one is replaced.
Replaced(s, k, v) == [s EXCEPT ![k] = v]

LEMMA OneReplaced ==
  ASSUME NEW S, NEW s \in Seq(S), NEW k, NEW v
  PROVE  /\ IsSeq(Replaced(s, k, v))
         /\ Len(Replaced(s, k, v)) = Len(s)
         /\ \A i \in 1 .. Len(s) : Replaced(s, k, v)[i] = IF i = k THEN v ELSE s[i]
<1> DEFINE T == S \cup {v}
           t == Replaced(s, k, v)
<1>1. s \in [1 .. Len(s) -> S] /\ Len(s) \in Nat
  OBVIOUS
<1>2. DOMAIN t = 1 .. Len(s) /\ t = [i \in 1 .. Len(s) |-> t[i]]
  BY <1>1 DEF Replaced
<1>3. \A i \in 1 .. Len(s) : t[i] = IF i = k THEN v ELSE s[i]
  BY <1>1 DEF Replaced
<1> HIDE DEF t
<1>4. \A i \in 1 .. Len(s) : t[i] \in T
  BY <1>1, <1>3
<1> HIDE DEF T
<1>5. t \in [1 .. Len(s) -> T]
  BY <1>2, <1>4
<1>6. t \in Seq(T)
  <2>1. t \in UNION {[1 .. n -> T] : n \in Nat}
    BY <1>1, <1>5
  <2>2. QED
    BY <2>1, SeqDef
<1>7. Len(t) \in Nat /\ 1 .. Len(t) = 1 .. Len(s)
  <2>1. Len(t) \in Nat /\ DOMAIN t = 1 .. Len(t)
    BY <1>6, LenProperties
  <2>2. DOMAIN t = 1 .. Len(s)
    BY <1>2
  <2>3. QED
    BY <2>1, <2>2
<1>8. Len(t) = Len(s)
  BY <1>1, <1>7
<1>9. QED
  BY <1>3, <1>6, <1>8 DEF IsSeq, t

\* What a node knows, its head, its pool and its target are no part of the invariant.
Alike(a, b) ==
    /\ DOMAIN a = DOMAIN b
    /\ a.proc = b.proc /\ a.tracked = b.tracked /\ a.waiter = b.waiter

NodesAlike ==
    /\ IsSeq(nodes')
    /\ Len(nodes') = Len(nodes)
    /\ \A i \in 1 .. Len(nodes) : Alike(nodes[i], nodes'[i])

LEMMA OneAlike ==
  ASSUME NodesOK, NEW k, NEW v, nodes' = [nodes EXCEPT ![k] = v],
         k \in 1 .. Len(nodes) => Alike(nodes[k], v)
  PROVE  NodesAlike
<1>1. PICK S : nodes \in Seq(S)
  BY DEF NodesOK, IsSeq
<1>2. nodes' = Replaced(nodes, k, v)
  BY DEF Replaced
<1>3. /\ IsSeq(nodes')
      /\ Len(nodes') = Len(nodes)
      /\ \A i \in 1 .. Len(nodes) : nodes'[i] = IF i = k THEN v ELSE nodes[i]
  <2>1. /\ IsSeq(Replaced(nodes, k, v))
        /\ Len(Replaced(nodes, k, v)) = Len(nodes)
        /\ \A i \in 1 .. Len(nodes) : Replaced(nodes, k, v)[i] = IF i = k THEN v ELSE nodes[i]
    BY ONLY <1>1, OneReplaced
  <2>2. QED
    BY ONLY <1>2, <2>1
<1>4. ASSUME NEW i \in 1 .. Len(nodes)
      PROVE  Alike(nodes[i], nodes'[i])
  <2>1. CASE i = k
    BY <1>3, <2>1
  <2>2. CASE i # k
    <3>1. nodes'[i] = nodes[i]
      BY <1>3, <2>2
    <3>2. QED
      BY <3>1 DEF Alike
  <2>3. QED
    BY <2>1, <2>2
<1>5. QED
  BY <1>3, <1>4 DEF NodesAlike

LEMMA SameAlike == ASSUME NodesOK, nodes' = nodes PROVE NodesAlike
BY DEF NodesOK, NodesAlike, Alike

LEMMA AlikeKeeps ==
  ASSUME NodesInv, NodesAlike
  PROVE  /\ NodesOK'
         /\ \A i \in 1 .. Len(nodes') : /\ nodes'[i].proc = nodes[i].proc
                                         /\ nodes'[i].tracked = nodes[i].tracked
<1>1. \A i \in 1 .. Len(nodes') : NodeOK(nodes'[i])
  BY DEF NodesInv, NodesOK, NodesAlike, Alike, NodeOK
<1>2. QED
  BY <1>1 DEF NodesInv, NodesOK, NodesAlike, Alike

LEMMA KnownAlike ==
  ASSUME NodesOK, NEW k, NEW X, nodes' = [nodes EXCEPT ![k].known = X]
  PROVE  NodesAlike
<1>1. nodes' = [nodes EXCEPT ![k] = [nodes[k] EXCEPT !.known = X]]
  OBVIOUS
<1>2. k \in 1 .. Len(nodes) => Alike(nodes[k], [nodes[k] EXCEPT !.known = X])
  BY DEF NodesOK, NodeOK, NodeFields, Alike
<1>3. QED
  BY <1>1, <1>2, OneAlike

LEMMA ForkchoiceAlike ==
  ASSUME NodesOK, NEW n, NEW state, ForkchoiceUpdated(n, state)
  PROVE  NodesAlike
<1>1. CASE nodes' = [nodes EXCEPT ![n + 1].head = state.head, ![n + 1].target = <<>>]
  <2> DEFINE v == [[nodes[n + 1] EXCEPT !.head = state.head] EXCEPT !.target = <<>>]
  <2>1. nodes' = [nodes EXCEPT ![n + 1] = v]
    BY <1>1
  <2>2. n + 1 \in 1 .. Len(nodes) => Alike(nodes[n + 1], v)
    BY DEF NodesOK, NodeOK, NodeFields, Alike
  <2> HIDE DEF v
  <2>3. QED
    BY <2>1, <2>2, OneAlike
<1>2. CASE nodes' = [nodes EXCEPT ![n + 1].target = state.head]
  <2> DEFINE v == [nodes[n + 1] EXCEPT !.target = state.head]
  <2>1. nodes' = [nodes EXCEPT ![n + 1] = v]
    BY <1>2
  <2>2. n + 1 \in 1 .. Len(nodes) => Alike(nodes[n + 1], v)
    BY DEF NodesOK, NodeOK, NodeFields, Alike
  <2> HIDE DEF v
  <2>3. QED
    BY <2>1, <2>2, OneAlike
<1>3. QED
  BY <1>1, <1>2 DEF ForkchoiceUpdated

\* A step that leaves the processes and their waiters alone.
LEMMA AlikeInv ==
  ASSUME NodesInv, NodesAlike, faults' = faults, Running("start") => Running("start")'
  PROVE  NodesInv'
<1>1. NodesOK'
  BY AlikeKeeps
<1>2. FaultlessOK'
  BY AlikeKeeps DEF NodesInv, FaultlessOK, NodesAlike
<1>3. QED
  BY <1>1, <1>2 DEF NodesInv

\* A step that changes one node.
LEMMA ChangedKeeps ==
  ASSUME NodesInv, NEW k \in 1 .. Len(nodes), NEW v,
         nodes' = [nodes EXCEPT ![k] = v], NodeOK(v)
  PROVE  /\ NodesOK'
         /\ Len(nodes') = Len(nodes)
         /\ \A i \in 1 .. Len(nodes) : nodes'[i] = IF i = k THEN v ELSE nodes[i]
<1>1. PICK S : nodes \in Seq(S)
  BY DEF NodesInv, NodesOK, IsSeq
<1>2. nodes' = Replaced(nodes, k, v)
  BY DEF Replaced
<1>3. /\ IsSeq(Replaced(nodes, k, v))
      /\ Len(Replaced(nodes, k, v)) = Len(nodes)
      /\ \A i \in 1 .. Len(nodes) : Replaced(nodes, k, v)[i] = IF i = k THEN v ELSE nodes[i]
  BY ONLY <1>1, OneReplaced
<1>4. /\ IsSeq(nodes')
      /\ Len(nodes') = Len(nodes)
      /\ \A i \in 1 .. Len(nodes) : nodes'[i] = IF i = k THEN v ELSE nodes[i]
  BY ONLY <1>2, <1>3
<1>5. \A i \in 1 .. Len(nodes) : NodeOK(nodes[i])
  BY DEF NodesInv, NodesOK
<1>6. \A i \in 1 .. Len(nodes) : NodeOK(nodes'[i])
  BY <1>4, <1>5
<1>7. QED
  BY <1>4, <1>6 DEF NodesOK

LEMMA SpawnKeeps == ASSUME NodesInv, SpawnNode PROVE NodesInv'
<1>1. PICK S : nodes \in Seq(S)
  BY DEF NodesInv, NodesOK, IsSeq
<1>2. NodeOK(NewNode) /\ NewNode.proc = "up" /\ ~NewNode.tracked
  BY DEF NodeOK, NewNode, NodeFields
<1> DEFINE T == S \cup {NewNode}
<1>3. nodes \in Seq(T) /\ NewNode \in T
  BY <1>1, SeqMonotonic
<1> HIDE DEF T
<1>4. /\ Append(nodes, NewNode) \in Seq(T)
      /\ Len(Append(nodes, NewNode)) = Len(nodes) + 1
      /\ \A i \in 1 .. Len(nodes) : Append(nodes, NewNode)[i] = nodes[i]
      /\ Append(nodes, NewNode)[Len(nodes) + 1] = NewNode
  BY <1>3
<1>5. nodes' = Append(nodes, NewNode) /\ faults' = faults /\ Running("start")'
  BY DEF SpawnNode, Running, ScriptOver, Current, script
<1>6. Len(nodes) \in Nat /\ DOMAIN nodes = 1 .. Len(nodes)
  BY <1>1, LenProperties
<1>7. \A i \in 1 .. Len(nodes') : i = Len(nodes) + 1 \/ i \in 1 .. Len(nodes)
  BY <1>4, <1>5, <1>6
<1>8. NodesOK'
  BY <1>2, <1>4, <1>5, <1>7 DEF NodesInv, NodesOK, IsSeq
<1>9. FaultlessOK'
  <2> SUFFICES ASSUME faults = 0, NEW i \in 1 .. Len(nodes')
               PROVE  /\ nodes'[i].proc # "failed"
                      /\ ~nodes'[i].tracked => i = Len(nodes') /\ Running("start")'
    BY <1>5 DEF FaultlessOK
  <2>1. CASE i \in 1 .. Len(nodes)
    BY <1>4, <1>5, <1>6, <2>1 DEF SpawnNode, NodesInv, FaultlessOK
  <2>2. CASE i = Len(nodes) + 1
    BY <1>2, <1>4, <1>5, <2>2
  <2>3. QED
    BY <1>7, <2>1, <2>2
<1>10. QED
  BY <1>5, <1>8, <1>9 DEF NodesInv

LEMMA LastNode ==
  ASSUME NodesInv, Starting
  PROVE  /\ Len(nodes) \in 1 .. Len(nodes) /\ Last(nodes) = nodes[Len(nodes)]
         /\ NodeOK(nodes[Len(nodes)]) /\ ~nodes[Len(nodes)].tracked
<1>1. PICK S : nodes \in Seq(S)
  BY DEF NodesInv, NodesOK, IsSeq
<1>2. Len(nodes) \in Nat \ {0}
  BY <1>1 DEF Starting
<1>3. Last(nodes) = nodes[Len(nodes)]
  BY DEF Last
<1>4. QED
  BY <1>2, <1>3 DEF Starting, NodesInv, NodesOK

LEMMA StartedKeeps == ASSUME NodesInv, NodeStarted PROVE NodesInv'
<1> DEFINE k == Len(nodes)
           v == [nodes[k] EXCEPT !.tracked = TRUE]
<1>1. k \in 1 .. Len(nodes) /\ NodeOK(nodes[k]) /\ nodes[k].proc = "up"
  BY LastNode DEF NodeStarted
<1>2. nodes' = [nodes EXCEPT ![k] = v] /\ faults' = faults
  BY DEF NodeStarted, Advance
<1>3. NodeOK(v) /\ v.proc = "up" /\ v.tracked = TRUE
  BY <1>1 DEF NodeOK, NodeFields
<1> HIDE DEF v
<1>4. /\ NodesOK'
      /\ Len(nodes') = Len(nodes)
      /\ \A i \in 1 .. Len(nodes) : nodes'[i] = IF i = k THEN v ELSE nodes[i]
  BY <1>1, <1>2, <1>3, ChangedKeeps
<1>5. FaultlessOK'
  <2> SUFFICES ASSUME faults = 0, NEW i \in 1 .. Len(nodes)
               PROVE  nodes'[i].proc # "failed" /\ nodes'[i].tracked
    BY <1>2, <1>4 DEF FaultlessOK
  <2>1. CASE i = k
    BY <1>3, <1>4, <2>1
  <2>2. CASE i # k
    <3>1. nodes'[i] = nodes[i]
      BY <1>4, <2>2
    <3>2. QED
      BY <2>2, <3>1 DEF NodesInv, NodesOK, NodeOK, FaultlessOK
  <2>3. QED
    BY <2>1, <2>2
<1>6. QED
  BY <1>2, <1>4, <1>5 DEF NodesInv

LEMMA TimeoutKeeps == ASSUME NodesInv, StartTimesOut PROVE NodesInv'
<1>1. nodes' = nodes /\ faults \in Nat
  BY DEF StartTimesOut, Panic, NodesInv
<1>2. faults' \in Nat /\ faults' # 0
  <2>1. CASE Last(nodes).proc = "up"
    BY <1>1, <2>1 DEF StartTimesOut
  <2>2. CASE Last(nodes).proc # "up"
    BY <1>1, <2>2, LastNode DEF StartTimesOut, NodesInv, FaultlessOK, NodeOK
  <2>3. QED
    BY <2>1, <2>2
<1>3. QED
  BY <1>1, <1>2 DEF NodesInv, NodesOK, FaultlessOK

LEMMA CrashKeeps ==
  ASSUME NodesInv, NEW n \in Indices, Crash(n)
  PROVE  NodesInv'
<1> DEFINE k == n + 1
           v == [nodes[k] EXCEPT !.proc = "failed"]
<1>1. k \in 1 .. Len(nodes)
  <2>1. PICK S : nodes \in Seq(S)
    BY DEF NodesInv, NodesOK, IsSeq
  <2>2. Len(nodes) \in Nat
    BY <2>1
  <2>3. QED
    BY <2>2 DEF Indices
<1>2. nodes' = [nodes EXCEPT ![k] = v] /\ nodes[k].proc = "up" /\ faults' = faults + 1
  BY DEF Crash, NodeUp, Node
<1>3. NodeOK(nodes[k])
  BY <1>1 DEF NodesInv, NodesOK
<1>4. NodeOK(v)
  BY <1>2, <1>3 DEF NodeOK, NodeFields
<1> HIDE DEF k, v
<1>5. NodesOK'
  BY <1>1, <1>2, <1>4, ChangedKeeps
<1>6. faults' \in Nat /\ faults' # 0
  BY <1>2 DEF NodesInv
<1>7. QED
  BY <1>5, <1>6 DEF NodesInv, FaultlessOK

LEMMA WaiterKeeps ==
  ASSUME NodesInv, NEW i \in DOMAIN nodes, WaiterPanics(i)
  PROVE  NodesInv'
<1> DEFINE v == [nodes[i] EXCEPT !.waiter = "panicked"]
<1>1. i \in 1 .. Len(nodes)
  BY LenProperties DEF NodesInv, NodesOK, IsSeq
<1>2. nodes' = [nodes EXCEPT ![i] = v] /\ nodes[i].proc = "failed" /\ faults' = faults
  BY DEF WaiterPanics
<1>3. NodeOK(nodes[i])
  BY <1>1 DEF NodesInv, NodesOK
<1>4. NodeOK(v)
  BY <1>2, <1>3 DEF NodeOK, NodeFields
<1> HIDE DEF v
<1>5. NodesOK'
  BY <1>1, <1>2, <1>4, ChangedKeeps
<1>6. faults \in Nat /\ faults # 0
  BY <1>1, <1>2 DEF NodesInv, FaultlessOK
<1>7. QED
  BY <1>2, <1>5, <1>6 DEF NodesInv, FaultlessOK

LEMMA StopKeeps ==
  ASSUME NodesInv, NEW i \in DOMAIN nodes, StopNode(i)
  PROVE  NodesInv'
<1> DEFINE ended == IF nodes[i].proc = "up" THEN "ended" ELSE nodes[i].proc
           v == [[nodes[i] EXCEPT !.waiter = "done"] EXCEPT !.proc = ended]
<1>1. i \in 1 .. Len(nodes)
  BY LenProperties DEF NodesInv, NodesOK, IsSeq
<1>2. NodeOK(nodes[i]) /\ nodes[i].tracked
  BY <1>1 DEF NodesInv, NodesOK, StopNode, Tracked
<1>3. nodes' = [nodes EXCEPT ![i] = v] /\ faults' = faults /\ stage = "stop"
  BY <1>2 DEF StopNode, NodeOK, NodeFields
<1>4. NodeOK(v) /\ v.tracked /\ (v.proc = "failed" => nodes[i].proc = "failed")
  BY <1>2 DEF NodeOK, NodeFields
<1> HIDE DEF v
<1>5. /\ NodesOK'
      /\ Len(nodes') = Len(nodes)
      /\ \A j \in 1 .. Len(nodes) : nodes'[j] = IF j = i THEN v ELSE nodes[j]
  BY <1>1, <1>3, <1>4, ChangedKeeps
<1>6. FaultlessOK'
  <2> SUFFICES ASSUME faults = 0, NEW j \in 1 .. Len(nodes)
               PROVE  nodes'[j].proc # "failed" /\ nodes'[j].tracked
    BY <1>3, <1>5 DEF FaultlessOK
  <2>1. CASE j = i
    BY <1>1, <1>4, <1>5, <2>1 DEF NodesInv, FaultlessOK
  <2>2. CASE j # i
    BY <1>3, <1>5, <2>2 DEF NodesInv, NodesOK, NodeOK, FaultlessOK, Running
  <2>3. QED
    BY <2>1, <2>2
<1>7. QED
  BY <1>3, <1>5, <1>6 DEF NodesInv

\* The other steps of a script come when every node that was started is tracked.
LEMMA NodesInductive == ASSUME NodesInv, [ReorgsNext]_reorgVars PROVE NodesInv'
<1>0. NodesOK
  BY DEF NodesInv
<1>1. ASSUME fork PROVE NodesInv'
  BY <1>0, <1>1, SameAlike, AlikeInv DEF fork, Advance, Running
<1>2. ASSUME build_payload PROVE NodesInv'
  <2>1. NodesAlike
    BY <1>0, <1>2, SameAlike, ForkchoiceAlike DEF build_payload, Panic
  <2>2. faults' = faults /\ ~Running("start")
    BY <1>2 DEF build_payload, Panic, Advance, Running
  <2>3. QED
    BY <2>1, <2>2, AlikeInv
<1>3. ASSUME notify_new_payload PROVE NodesInv'
  <2>1. NodesAlike
    BY <1>0, <1>3, SameAlike, KnownAlike DEF notify_new_payload, NewPayload
  <2>2. faults' = faults /\ ~Running("start")
    BY <1>3 DEF notify_new_payload, Advance, Running
  <2>3. QED
    BY <2>1, <2>2, AlikeInv
<1>4. ASSUME update_forkchoice PROVE NodesInv'
  <2>1. NodesAlike
    BY <1>0, <1>4, ForkchoiceAlike DEF update_forkchoice
  <2>2. faults' = faults /\ ~Running("start")
    BY <1>4 DEF update_forkchoice, Advance, Running
  <2>3. QED
    BY <2>1, <2>2, AlikeInv
<1>5. ASSUME SyncTimesOut \/ CheckState PROVE NodesInv'
  <2>1. nodes' = nodes /\ faults' = faults /\ ~Running("start")
    BY <1>5 DEF SyncTimesOut, CheckState, Panic, Advance, Running
  <2>2. QED
    BY <1>0, <2>1, SameAlike, AlikeInv
<1>6. ASSUME SendTransaction PROVE NodesInv'
  <2>1. NodesAlike
    <3> DEFINE n == Current.node
               tx == [kind |-> Current.from, nonce |-> NextNonce(Node(n).head)]
    <3>1. nodes' = nodes \/ nodes' = [nodes EXCEPT ![n + 1].pool = @ \cup {tx}]
      BY <1>6 DEF SendTransaction, Panic
    <3> HIDE DEF n, tx
    <3>2. CASE nodes' = [nodes EXCEPT ![n + 1].pool = @ \cup {tx}]
      <4> DEFINE v == [nodes[n + 1] EXCEPT !.pool = nodes[n + 1].pool \cup {tx}]
      <4>1. nodes' = [nodes EXCEPT ![n + 1] = v]
        BY <3>2
      <4>2. n + 1 \in 1 .. Len(nodes) => Alike(nodes[n + 1], v)
        BY <1>0 DEF NodesOK, NodeOK, NodeFields, Alike
      <4> HIDE DEF v
      <4>3. QED
        BY <1>0, <4>1, <4>2, OneAlike
    <3>3. QED
      BY <1>0, <3>1, <3>2, SameAlike
  <2>2. faults' = faults /\ ~Running("start")
    BY <1>6 DEF SendTransaction, Panic, Advance, Running
  <2>3. QED
    BY <2>1, <2>2, AlikeInv
<1>7. ASSUME NodeUnreachable \/ TestEnds \/ (\E i \in DOMAIN nodes : StopPanics(i))
      PROVE  NodesInv'
  <2>1. nodes' = nodes /\ faults' = faults /\ ~Running("start")
    BY <1>7 DEF NodeUnreachable, TestEnds, StopPanics, Panic, Running
  <2>2. QED
    BY <1>0, <2>1, SameAlike, AlikeInv
<1>8. ASSUME NextTest PROVE NodesInv'
  <2>1. faults' = faults /\ ~Running("start")
    BY <1>8 DEF NextTest, Stopped, Running
  <2>2. CASE nodes' = nodes
    BY <1>0, <2>1, <2>2, SameAlike, AlikeInv
  <2>3. CASE nodes' = <<>>
    <3>1. IsSeq(<<>>) /\ 1 .. Len(<<>>) = {}
      <4>1. <<>> \in Seq({})
        OBVIOUS
      <4>2. QED
        BY <4>1 DEF IsSeq
    <3>2. QED
      BY <2>1, <2>3, <3>1 DEF NodesInv, NodesOK, FaultlessOK
  <2>4. QED
    BY <1>8, <2>2, <2>3 DEF NextTest
<1>9. ASSUME NEW n \in Indices, NEW peer \in Indices, AskPeer(n, peer) PROVE NodesInv'
  <2>1. faults' = faults /\ (Running("start") => Running("start")')
    BY <1>9 DEF AskPeer, Running, ScriptOver, Current, script
  <2>2. NodesAlike
    <3> DEFINE more == {SubSeq(Node(n).target, 1, i) : i \in 1 .. Len(Node(n).target)}
               v == [[nodes[n + 1] EXCEPT !.known = nodes[n + 1].known \cup more]
                                   EXCEPT !.target = <<>>]
    <3>1. CASE nodes' = [nodes EXCEPT ![n + 1].known = @ \cup more, ![n + 1].target = <<>>]
      <4> HIDE DEF more
      <4>1. nodes' = [nodes EXCEPT ![n + 1] = v]
        BY <3>1
      <4>2. n + 1 \in 1 .. Len(nodes) => Alike(nodes[n + 1], v)
        BY <1>0 DEF NodesOK, NodeOK, NodeFields, Alike
      <4> HIDE DEF v
      <4>3. QED
        BY <1>0, <4>1, <4>2, OneAlike
    <3>2. CASE nodes' = nodes
      BY <1>0, <3>2, SameAlike
    <3>3. QED
      BY <1>9, <3>1, <3>2 DEF AskPeer
  <2>3. QED
    BY <2>1, <2>2, AlikeInv
<1>10. ASSUME UNCHANGED reorgVars PROVE NodesInv'
  BY <1>0, <1>10, SameAlike, AlikeInv DEF reorgVars, Running, ScriptOver, Current, script
<1>11. QED
  BY <1>1, <1>2, <1>3, <1>4, <1>5, <1>6, <1>7, <1>8, <1>9, <1>10, SpawnKeeps, StartedKeeps,
     TimeoutKeeps, CrashKeeps, WaiterKeeps, StopKeeps DEF ReorgsNext, Script

LEMMA NodesInvariant == ReorgsSpec => []NodesInv
<1>1. ReorgsInit => NodesInv
  <2>1. IsSeq(<<>>) /\ 1 .. Len(<<>>) = {}
    <3>1. <<>> \in Seq({})
      OBVIOUS
    <3>2. QED
      BY <3>1 DEF IsSeq
  <2>2. QED
    BY <2>1 DEF ReorgsInit, NodesInv, NodesOK, FaultlessOK
<1>2. QED
  BY <1>1, NodesInductive, PTL DEF ReorgsSpec

\* A node runs on after its test only if its start timed out, so that it was never
\* tracked, or if it comes after one whose waiter panicked, which took the whole
\* program down (start_node, stop), whatever the script and however many faults.
LeftBehind(i) ==
    \/ ~nodes[i].tracked
    \/ \E j \in 1 .. i - 1 : nodes[j].waiter = "panicked" /\ stage' = "exited"

LEMMA WhoIsLeft ==
  ASSUME NodesInv, [ReorgsNext]_reorgVars, stage = "stop", stage' # "stop",
         NEW i \in DOMAIN nodes, nodes[i].proc = "up"
  PROVE  LeftBehind(i)
<1>1. \A k \in DOMAIN nodes : k \in 1 .. Len(nodes) /\ k \in Int /\ NodeOK(nodes[k])
  BY LenProperties DEF NodesInv, NodesOK, IsSeq
<1>2. CASE NextTest
  BY <1>1, <1>2 DEF NextTest, Stopped, Tracked, LeftBehind, NodeOK
<1>3. CASE \E j \in DOMAIN nodes : StopPanics(j)
  <2>1. PICK j \in DOMAIN nodes : StopPanics(j)
    BY <1>3
  <2>2. SUFFICES ASSUME nodes[i].tracked PROVE j \in 1 .. i - 1
    BY <2>1 DEF StopPanics, LeftBehind
  <2>3. j # i /\ ~ (i \in 1 .. j - 1)
    BY <1>1, <2>1, <2>2 DEF StopPanics, Tracked, NodeOK
  <2>4. i \in 1 .. Len(nodes) /\ j \in 1 .. Len(nodes) /\ i \in Int /\ j \in Int
    BY <1>1
  <2>5. QED
    BY <2>3, <2>4
<1>4. QED
  <2>1. NextTest \/ \E j \in DOMAIN nodes : StopPanics(j)
    BY DEF ReorgsNext, Script, SpawnNode, NodeStarted, StartTimesOut, fork, build_payload,
       notify_new_payload, update_forkchoice, SyncTimesOut, SendTransaction, CheckState,
       NodeUnreachable, TestEnds, AskPeer, Crash, WaiterPanics, StopNode, Running, reorgVars
  <2>2. QED
    BY <1>2, <1>3, <2>1

THEOREM OnlyTheseAreLeft ==
  ReorgsSpec => [][stage = "stop" /\ stage' # "stop"
                     => \A i \in DOMAIN nodes :
                          nodes[i].proc = "up" => LeftBehind(i)]_reorgVars
<1>1. NodesInv /\ [ReorgsNext]_reorgVars
        => [stage = "stop" /\ stage' # "stop"
              => \A i \in DOMAIN nodes : nodes[i].proc = "up" => LeftBehind(i)]_reorgVars
  BY WhoIsLeft
<1>2. QED
  BY <1>1, NodesInvariant, PTL DEF ReorgsSpec

\* Without a fault no node is left: the clean-up after a test that panicked is
\* complete (NothingLeftRunning; run_test, stop).
THEOREM NodesAreStopped == ReorgsSpec => NothingLeftRunning
<1>1. NodesInv /\ [ReorgsNext]_reorgVars
        => [stage = "stop" /\ stage' # "stop" /\ faults = 0
              => \A i \in DOMAIN nodes : nodes[i].proc # "up"]_reorgVars
  <2> SUFFICES ASSUME NodesInv, [ReorgsNext]_reorgVars, stage = "stop", stage' # "stop",
                      faults = 0, NEW i \in DOMAIN nodes, nodes[i].proc = "up"
               PROVE  FALSE
    OBVIOUS
  <2>1. LeftBehind(i)
    BY WhoIsLeft
  <2>2. \A k \in DOMAIN nodes : k \in 1 .. Len(nodes)
    BY LenProperties DEF NodesInv, NodesOK, IsSeq
  <2>3. nodes[i].tracked
    BY <2>2 DEF NodesInv, FaultlessOK, Running
  <2>4. PICK j \in 1 .. i - 1 : nodes[j].waiter = "panicked"
    BY <2>1, <2>3 DEF LeftBehind
  <2>5. j \in 1 .. Len(nodes)
    <3>1. i \in 1 .. Len(nodes)
      BY <2>2
    <3>2. PICK S : nodes \in Seq(S)
      BY DEF NodesInv, NodesOK, IsSeq
    <3>3. Len(nodes) \in Nat
      BY <3>2
    <3>4. QED
      BY <3>1, <3>3
  <2>6. nodes[j].proc = "failed"
    BY <2>4, <2>5 DEF NodesInv, NodesOK, NodeOK
  <2>7. QED
    BY <2>5, <2>6 DEF NodesInv, FaultlessOK
<1>2. QED
  BY <1>1, NodesInvariant, PTL DEF ReorgsSpec, NothingLeftRunning
=============================================================================
