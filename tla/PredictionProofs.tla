-------------------------- MODULE PredictionProofs --------------------------
(***************************************************************************)
(* Proofs about the prediction pipeline, for any users, requests, prices   *)
(* and faults and any finite pool of workers.  One inductive invariant is  *)
(* built up in layers: the types, the solvency of every copy of a wallet,  *)
(* the ledger, and the tasks with their messages and refunds.  On it rest  *)
(* the refinement of PredictionContract, the balance a user's movements    *)
(* explain, and the bound on the refunds of a task.                        *)
(***************************************************************************)
EXTENDS PredictionProperties, CreditProofs

USE OwnerAssumption, AmountAssumption, BoundAssumption, NoTaskAssumption, WorkerAssumption
    DEF Status, Error, cleanupVars

-----------------------------------------------------------------------------
(* ORDER BY id DESC LIMIT 1 is written with CHOOSE: it finds a row whenever *)
(* there is one, because ids are natural numbers below the sequence.        *)

\* A non-empty set of rows with bounded ids has a row with the largest id.
LEMMA LastRowExists ==
  ASSUME NEW R, R \subseteq Row, R # {}, NEW b \in Nat, \A x \in R : x.id <= b
  PROVE  \E x \in R : \A y \in R : y.id <= x.id
<1> DEFINE S == {x.id : x \in R}
<1>1. S \subseteq Nat /\ S # {} /\ \A i \in S : i <= b
  BY DEF Row
<1> HIDE DEF S
<1>2. PICK m \in S : \A i \in S : i <= m
  BY <1>1, BoundedHasGreatest
<1>3. QED
  BY <1>2 DEF S

-----------------------------------------------------------------------------
(* Type correctness.  A worker that is not idle has a message, the id      *)
(* sequence is ahead of every id that was drawn, and only predictions tag. *)

BusyInv == \A w \in Worker : wpc[w] # "idle" => wmsg[w] \in Message

SequenceInv ==
  /\ \A x \in txs : x.id < nextId
  /\ \A r \in Request : rowId[r] < nextId

KindInv == \A r \in Request : pc[r] = "tag" => IsPrediction(r)

TypeInv == TypeOK /\ BusyInv /\ SequenceInv /\ KindInv

\* The user object after a charge, a bonus or a top-up has integer columns.
LEMMA AssignedType ==
  ASSUME TypeOK, NEW r \in Request PROVE Assigned(r) \in Wallet
BY DEF TypeOK, Assigned, Wallet, ChargeCredits, AddPaid, AddBonus, BonusUsed, PaidUsed

\* The row a session inserts is a row of credit_transactions.
LEMMA OwnRowType ==
  ASSUME TypeOK, NEW r \in Request PROVE OwnRow(r) \in Row
<1>1. Assigned(r) \in Wallet /\ seen[r] \in Wallet /\ rowId[r] \in Nat
  BY AssignedType DEF TypeOK
<1>2. QED
  BY <1>1 DEF OwnRow, Reason, Row, Wallet

\* A prediction's session always finds a last reserve: at least its own row.
LEMMA LastReserveFound ==
  ASSUME TypeInv, NEW r \in Request, IsPrediction(r)
  PROVE  /\ LastReserve(r) \in VisibleReserves(r)
         /\ \A y \in VisibleReserves(r) : y.id <= LastReserve(r).id
<1>1. VisibleReserves(r) \subseteq Row
  BY OwnRowType DEF VisibleReserves, TypeInv, TypeOK
<1>2. OwnRow(r) \in VisibleReserves(r)
  BY DEF VisibleReserves, OwnRow, Reason
<1>3. nextId \in Nat /\ \A x \in VisibleReserves(r) : x.id <= nextId
  BY <1>1 DEF VisibleReserves, OwnRow, TypeInv, TypeOK, SequenceInv, Row
<1>4. \E x \in VisibleReserves(r) : \A y \in VisibleReserves(r) : y.id <= x.id
  BY <1>1, <1>2, <1>3, LastRowExists
<1>5. QED
  BY <1>4 DEF LastReserve

\* The tag target is an id, or 0 for none.
LEMMA TagTargetType ==
  ASSUME TypeInv, NEW r \in Request, IsPrediction(r) PROVE TagTarget(r) \in Nat
<1>1. LastReserve(r) \in Row
  BY LastReserveFound, OwnRowType DEF VisibleReserves, TypeInv, TypeOK
<1>2. QED
  BY <1>1 DEF TagTarget, Row

\* RefundSplit reads the last reserve row tagged with the task, if there is one.
LEMMA RefundSplitSource ==
  ASSUME TypeInv, NEW t \in Request
  PROVE  \/ /\ RefundSplit(t) = [paid |-> cost[t], bonus |-> 0]
            /\ \A x \in txs : x.task = t => x.reason # "reserve"
         \/ \E x \in txs : /\ x.task = t /\ x.reason = "reserve"
                           /\ RefundSplit(t) = [paid |-> -x.paid, bonus |-> -x.bonus]
<1> DEFINE tagged == {x \in txs : x.task = t /\ x.reason = "reserve"}
           last == CHOOSE x \in tagged : \A y \in tagged : y.id <= x.id
<1>1. CASE tagged = {}
  BY <1>1 DEF RefundSplit
<1>2. CASE tagged # {}
  <2>1. RefundSplit(t) = [paid |-> -last.paid, bonus |-> -last.bonus]
    BY <1>2 DEF RefundSplit
  <2>2. nextId \in Nat /\ tagged \subseteq Row /\ \A x \in tagged : x.id <= nextId
    BY DEF TypeInv, TypeOK, SequenceInv, Row
  <2>3. \E x \in tagged : \A y \in tagged : y.id <= x.id
    BY <1>2, <2>2, LastRowExists
  <2>4. last \in tagged
    BY <2>3
  <2>5. QED
    BY <2>1, <2>4
<1>3. QED
  BY <1>1, <1>2

\* What a refund gives back is a pair of integers.
LEMMA RefundSplitType ==
  ASSUME TypeInv, NEW t \in Request PROVE RefundSplit(t) \in Wallet
BY RefundSplitSource DEF TypeInv, TypeOK, Row, Wallet

\* The initial state is well typed.
LEMMA TypeInvInit == Init => TypeInv
BY DEF Init, TypeInv, TypeOK, BusyInv, SequenceInv, KindInv, Wallet, Message, NoMessage,
       NoCredits, NoTaskRow, TaskRow

\* What one may order has a price.
LEMMA OrderType ==
  ASSUME NEW order \in Order
  PROVE  order[1] \in {"submit", "batch"} /\ Price * order[2] \in Nat \ {0}
<1>1. order[1] \in {"submit", "batch"} /\ order[2] \in Nat \ {0}
  <2>1. CASE order = <<"submit", 1>>
    BY <2>1
  <2>2. CASE order \in {"batch"} \X BatchSize
    BY <2>2
  <2>3. QED
    BY <2>1, <2>2 DEF Order
<1>2. \A m, n \in Nat \ {0} : m * n \in Nat \ {0}
  OBVIOUS
<1>3. QED
  BY <1>1, <1>2

\* Every step of an API session keeps the types.
LEMMA TypeInvRequest ==
  ASSUME TypeInv, NEW r \in Request,
         \/ OpenPrediction(r) \/ RefuseCredits(r) \/ OpenTopUp(r) \/ OpenPromo(r)
         \/ ActivationRefused(r) \/ RequestStep(r) \/ RequestDies(r)
  PROVE  TypeInv'
<1> USE DEF TypeInv, TypeOK, BusyInv, SequenceInv, KindInv, dbVars, requestVars, workerVars, IsPrediction
<1>n. NoCredits \in Wallet
  BY DEF NoCredits, Wallet
<1>1. CASE OpenPrediction(r)
  BY <1>1, OrderType DEF OpenPrediction, Open
<1>2. CASE RefuseCredits(r)
  BY <1>2, <1>n DEF RefuseCredits, Close
<1>3. CASE OpenTopUp(r)
  BY <1>3 DEF OpenTopUp, Open
<1>4. CASE Admission(r)
  BY <1>4, <1>n DEF Admission, Close
<1>5. CASE InsertRows(r)
  BY <1>5 DEF InsertRows, Row
<1>6. CASE UpdateWallet(r)
  BY <1>6 DEF UpdateWallet
<1>7. CASE TagReserve(r)
  BY <1>7, TagTargetType DEF TagReserve
<1>8. CASE Commit(r)
  <2>1. wallet' \in [User -> Wallet]
    BY <1>8, AssignedType, WriteBackType DEF Commit
  <2>2. txs' \subseteq Row
    BY <1>8, OwnRowType DEF Commit, Row
  <2>3. \A x \in txs' : x.id < nextId'
    <3>1. \A x \in txs' : \E y \in txs \cup {OwnRow(r)} : x.id = y.id
      BY <1>8, OwnRowType DEF Commit, Row
    <3>2. OwnRow(r).id = rowId[r] /\ nextId' = nextId
      BY <1>8 DEF Commit, OwnRow
    <3>3. QED
      BY <3>1, <3>2
  <2>4. QED
    BY <1>8, <1>n, <2>1, <2>2, <2>3 DEF Commit, Close
<1>9. CASE Publish(r)
  BY <1>9, <1>n DEF Publish, Close, Message
<1>10. CASE RequestDies(r)
  BY <1>10, <1>n DEF RequestDies, Close
<1>11. CASE OpenPromo(r)
  BY <1>11 DEF OpenPromo, Open
<1>12. CASE ActivationRefused(r)
  BY <1>12, <1>n DEF ActivationRefused, Close
<1>13. QED
  BY <1>1, <1>2, <1>3, <1>4, <1>5, <1>6, <1>7, <1>8, <1>9, <1>10, <1>11, <1>12 DEF RequestStep

\* Every step of a worker keeps the types.
LEMMA TypeInvWorker ==
  ASSUME TypeInv, NEW w \in Worker, WorkerStep(w) \/ LoseRefund(w) \/ Crash(w) \/ Redeliver(w)
  PROVE  TypeInv'
<1> USE DEF TypeInv, TypeOK, BusyInv, SequenceInv, KindInv, dbVars, requestVars, workerVars, IsPrediction
<1>n. NoCredits \in Wallet
  BY DEF NoCredits, Wallet
<1>m. NoTaskRow \in TaskRow
  BY DEF NoTaskRow, TaskRow
<1>1. CASE Deliver(w)
  <2>1. PICK m \in Message : /\ queue[m] > 0 /\ queue' = [queue EXCEPT ![m] = @ - 1]
                             /\ wmsg' = [wmsg EXCEPT ![w] = m] /\ LoadTask(w, m[1])
    BY <1>1 DEF Deliver
  <2>2. m[1] \in Request
    BY DEF Message
  <2>3. QED
    BY <1>1, <2>1, <2>2 DEF Deliver, LoadTask, TaskRow
<1>2. CASE Begin(w)
  BY <1>2, <1>m DEF Begin, WriteColumn
<1>3. CASE Complete(w)
  BY <1>3 DEF Complete
<1>4. CASE MarkFailed(w)
  BY <1>4, RefundSplitType DEF MarkFailed, TaskOf, Message
<1>12. CASE Raise(w)
  <2>1. TaskOf(w) \in Request /\ wpc[w] # "idle"
    BY <1>12 DEF Raise, TaskOf, Message
  <2>2. QED
    BY <1>12, <2>1 DEF Raise, LoadTask, TaskRow
<1>5. CASE CommitRefund(w)
  <2>1. TaskOf(w) \in Request /\ Owner[TaskOf(w)] \in User
    BY <1>5 DEF CommitRefund, TaskOf, Message
  <2>2. RefundCredits(wseen[w], wrefund[w].bonus, wrefund[w].paid) \in Wallet
    BY DEF RefundCredits, Wallet
  <2>3. wallet' \in [User -> Wallet]
    BY <1>5, <2>1, <2>2, WriteBackType DEF CommitRefund
  <2>4. RefundRow(w) \in Row /\ RefundRow(w).id = nextId
    BY <2>1 DEF RefundRow, Row, Wallet
  <2>5. txs' \subseteq Row /\ \A x \in txs' : x.id < nextId'
    BY <1>5, <2>4 DEF CommitRefund, Row
  <2>6. QED
    BY <1>5, <1>n, <1>m, <2>1, <2>3, <2>5 DEF CommitRefund, ToRetry, WriteColumn, TaskRow
<1>6. CASE Retry(w)
  <2>1. queue' \in [Message -> Nat]
    <3> DEFINE m == <<TaskOf(w), wmsg[w][2] + 1>>
    <3>1. queue' = [queue EXCEPT ![m] = @ + 1] \/ queue' = queue
      BY <1>6 DEF Retry
    <3> HIDE DEF m
    <3>2. QED
      BY <3>1
  <2>2. QED
    BY <1>6, <2>1 DEF Retry
<1>7. CASE Finish(w)
  BY <1>7, <1>n, <1>m DEF Finish, ToIdle
<1>8. CASE LoseRefund(w)
  BY <1>8, <1>n, <1>m DEF LoseRefund, ToRetry
<1>9. CASE Crash(w)
  BY <1>9, <1>n, <1>m DEF Crash, ToIdle
<1>10. CASE Redeliver(w)
  BY <1>10 DEF Redeliver
<1>11. QED
  BY <1>1, <1>2, <1>3, <1>4, <1>5, <1>6, <1>7, <1>8, <1>9, <1>10, <1>12 DEF WorkerStep

\* Cleanup and time keep the types.
LEMMA TypeInvCleanup ==
  ASSUME TypeInv,
         \/ \E t \in Request : Age(t)
         \/ CleanupScan \/ CleanupCommit \/ CleanupAborts \/ UNCHANGED vars
  PROVE  TypeInv'
<1> USE DEF TypeInv, TypeOK, BusyInv, SequenceInv, KindInv, dbVars, requestVars, workerVars, IsPrediction
<1>1. ASSUME NEW t \in Request, Age(t) PROVE TypeInv'
  BY <1>1 DEF Age
<1>2. CASE CleanupScan
  BY <1>2 DEF CleanupScan, StaleTasks
<1>3. CASE CleanupCommit
  BY <1>3 DEF CleanupCommit, CleanupEnds
<1>4. CASE CleanupAborts
  BY <1>4 DEF CleanupAborts, CleanupEnds
<1>5. CASE UNCHANGED vars
  BY <1>5 DEF vars
<1>6. QED
  BY <1>1, <1>2, <1>3, <1>4, <1>5

\* Every step is a request's, a worker's, the cleanup's, or changes nothing.
LEMMA StepCases ==
  ASSUME [Next]_vars
  PROVE  \/ \E r \in Request : \/ OpenPrediction(r) \/ RefuseCredits(r) \/ OpenTopUp(r) \/ OpenPromo(r)
                                \/ ActivationRefused(r) \/ RequestStep(r) \/ RequestDies(r)
         \/ \E w \in Worker : WorkerStep(w) \/ LoseRefund(w) \/ Crash(w) \/ Redeliver(w)
         \/ \/ \E t \in Request : Age(t)
            \/ CleanupScan \/ CleanupCommit \/ CleanupAborts \/ UNCHANGED vars
BY DEF Next, Terminated

\* The strengthened invariant: types, busy workers' messages, the id sequence.
THEOREM TypeInvariant == Spec => []TypeInv
<1>1. TypeInv /\ [Next]_vars => TypeInv'
  BY StepCases, TypeInvRequest, TypeInvWorker, TypeInvCleanup
<1>2. QED
  BY <1>1, TypeInvInit, PTL DEF Spec

\* Every variable keeps its type, for any number of users, requests and workers.
THEOREM TypeCorrect == Spec => []TypeOK
<1>1. TypeInv => TypeOK
  BY DEF TypeInv
<1>2. QED
  BY <1>1, TypeInvariant, PTL

-----------------------------------------------------------------------------
(* No interleaving takes a credit column below zero.  The argument is not  *)
(* about the row but about the copies: every copy a session holds is       *)
(* solvent, a prediction's session past the credits check can afford its   *)
(* price from its copy, and each column written comes from such a copy.    *)

Charging == {"admission", "insert", "update", "tag", "commit"}

CopiesSolvent ==
  /\ seen \in [Request -> SolventWallet]
  /\ wseen \in [Worker -> SolventWallet]
  /\ wrefund \in [Worker -> SolventWallet]

ChargeAffordable == \A r \in Request :
  pc[r] \in Charging /\ IsPrediction(r) => CanAfford(seen[r], cost[r])

ReservesTake == \A x \in txs : x.reason = "reserve" => x.paid <= 0 /\ x.bonus <= 0

SolvencyInv == WalletNonNegative /\ CopiesSolvent /\ ChargeAffordable /\ ReservesTake

\* An empty wallet is solvent.
LEMMA NoCreditsSolvent == NoCredits \in SolventWallet
BY DEF NoCredits, SolventWallet

\* A charge, a bonus or a top-up of a solvent copy is solvent, and a reservation's deltas
\* are not positive.
LEMMA AssignedSolvent ==
  ASSUME TypeInv, SolvencyInv, NEW r \in Request, pc[r] = "commit"
  PROVE  /\ Assigned(r) \in SolventWallet
         /\ IsPrediction(r) => OwnRow(r).paid <= 0 /\ OwnRow(r).bonus <= 0
<1>1. seen[r] \in SolventWallet /\ cost[r] \in Nat
  BY DEF SolvencyInv, CopiesSolvent, TypeInv, TypeOK
<1>2. CASE IsPrediction(r)
  <2>1. CanAfford(seen[r], cost[r])
    BY <1>2 DEF SolvencyInv, ChargeAffordable, Charging
  <2>2. /\ Assigned(r) \in SolventWallet
        /\ Assigned(r).paid <= seen[r].paid /\ Assigned(r).bonus <= seen[r].bonus
    BY <1>1, <1>2, <2>1, ChargeIsExact DEF Assigned
  <2>3. QED
    BY <1>1, <2>2 DEF OwnRow, SolventWallet
<1>3. CASE ~ IsPrediction(r)
  <2>1. \/ Assigned(r) = seen[r]
        \/ Assigned(r) = [seen[r] EXCEPT !.paid = @ + cost[r]]
        \/ Assigned(r) = [seen[r] EXCEPT !.bonus = @ + cost[r]]
    BY <1>3 DEF Assigned, AddPaid, AddBonus
  <2>2. QED
    BY <1>1, <1>3, <2>1 DEF SolventWallet
<1>4. QED
  BY <1>2, <1>3

\* A refund never takes credits away.
LEMMA RefundSplitSolvent ==
  ASSUME TypeInv, SolvencyInv, NEW t \in Request PROVE RefundSplit(t) \in SolventWallet
<1>1. CASE RefundSplit(t) = [paid |-> cost[t], bonus |-> 0]
  BY <1>1 DEF TypeInv, TypeOK, SolventWallet
<1>2. ASSUME NEW x \in txs, x.reason = "reserve",
             RefundSplit(t) = [paid |-> -x.paid, bonus |-> -x.bonus]
      PROVE  RefundSplit(t) \in SolventWallet
  <2>1. x.paid \in Int /\ x.bonus \in Int /\ x.paid <= 0 /\ x.bonus <= 0
    BY <1>2 DEF TypeInv, TypeOK, Row, SolvencyInv, ReservesTake
  <2>2. QED
    BY <1>2, <2>1 DEF SolventWallet
<1>3. QED
  BY <1>1, <1>2, RefundSplitSource

\* Every wallet and every copy starts solvent.
LEMMA SolvencyInit == Init => SolvencyInv
<1> SUFFICES ASSUME Init PROVE SolvencyInv
  OBVIOUS
<1>1. WalletNonNegative
  BY DEF Init, WalletNonNegative, SolventWallet
<1>2. CopiesSolvent
  BY NoCreditsSolvent DEF Init, CopiesSolvent
<1>3. ChargeAffordable /\ ReservesTake
  BY DEF Init, ChargeAffordable, ReservesTake, Charging
<1>4. QED
  BY <1>1, <1>2, <1>3 DEF SolvencyInv

\* Every step of an API session keeps the copies and the wallets solvent.
LEMMA SolvencyRequest ==
  ASSUME TypeInv, SolvencyInv, NEW r \in Request,
         \/ OpenPrediction(r) \/ RefuseCredits(r) \/ OpenTopUp(r) \/ OpenPromo(r)
         \/ ActivationRefused(r) \/ RequestStep(r) \/ RequestDies(r)
  PROVE  SolvencyInv'
<1> USE NoCreditsSolvent
    DEF SolvencyInv, WalletNonNegative, CopiesSolvent, ChargeAffordable, ReservesTake,
        Charging, IsPrediction, TypeInv, TypeOK, dbVars, requestVars, workerVars
<1>1. CASE OpenPrediction(r)
  <2>1. PICK order \in Order : /\ CanAfford(wallet[Owner[r]], Price * order[2])
                               /\ Open(r, order[1], Price * order[2])
    BY <1>1 DEF OpenPrediction
  <2>2. CanAfford(seen'[r], cost'[r])
    BY <2>1, OrderType DEF Open
  <2>3. \A s \in Request : s # r =>
          /\ pc'[s] = pc[s] /\ kind'[s] = kind[s]
          /\ seen'[s] = seen[s] /\ cost'[s] = cost[s]
    BY <1>1, <2>1 DEF OpenPrediction, Open
  <2>4. ChargeAffordable'
    BY <2>2, <2>3
  <2>5. QED
    BY <2>1, <2>4 DEF Open
<1>2. CASE RefuseCredits(r)
  BY <1>2 DEF RefuseCredits, Close
<1>3. CASE OpenTopUp(r)
  <2>1. PICK amount \in TopUp : pc' = [pc EXCEPT ![r] = "insert"] /\ Open(r, "topup", amount)
    BY <1>3 DEF OpenTopUp
  <2>2. kind'[r] = "topup"
    BY <2>1 DEF Open
  <2>3. \A s \in Request : s # r =>
          /\ pc'[s] = pc[s] /\ kind'[s] = kind[s]
          /\ seen'[s] = seen[s] /\ cost'[s] = cost[s]
    BY <2>1 DEF Open
  <2>4. ChargeAffordable'
    BY <2>2, <2>3
  <2>5. QED
    BY <2>1, <2>4 DEF Open
<1>4. CASE Admission(r)
  BY <1>4 DEF Admission, Close
<1>5. CASE InsertRows(r)
  BY <1>5 DEF InsertRows
<1>6. CASE UpdateWallet(r)
  BY <1>6 DEF UpdateWallet
<1>7. CASE TagReserve(r)
  BY <1>7 DEF TagReserve
<1>8. CASE Commit(r)
  <2>1. wallet' \in [User -> SolventWallet]
    BY <1>8, AssignedSolvent, WriteBackSolvent DEF Commit
  <2>2. ReservesTake'
    <3>1. pc[r] = "commit" /\ OwnRow(r) \in Row /\ txs \subseteq Row
      BY <1>8, OwnRowType DEF Commit
    <3>2. OwnRow(r).reason = "reserve" => OwnRow(r).paid <= 0 /\ OwnRow(r).bonus <= 0
      BY <3>1, AssignedSolvent DEF OwnRow, Reason
    <3>3. \A x \in txs' : \E y \in txs \cup {OwnRow(r)} :
            x.reason = y.reason /\ x.paid = y.paid /\ x.bonus = y.bonus
      BY <1>8, <3>1 DEF Commit, Row
    <3>4. QED
      BY <3>2, <3>3
  <2>3. QED
    BY <1>8, <2>1, <2>2 DEF Commit, Close
<1>9. CASE Publish(r)
  BY <1>9 DEF Publish, Close
<1>10. CASE RequestDies(r)
  BY <1>10 DEF RequestDies, Close
<1>11. CASE OpenPromo(r)
  <2>1. PICK amount \in Grant : pc' = [pc EXCEPT ![r] = "insert"] /\ Open(r, "promo", amount)
    BY <1>11 DEF OpenPromo
  <2>2. kind'[r] = "promo"
    BY <2>1 DEF Open
  <2>3. \A s \in Request : s # r =>
          /\ pc'[s] = pc[s] /\ kind'[s] = kind[s]
          /\ seen'[s] = seen[s] /\ cost'[s] = cost[s]
    BY <2>1 DEF Open
  <2>4. ChargeAffordable'
    BY <2>2, <2>3
  <2>5. QED
    BY <2>1, <2>4 DEF Open
<1>12. CASE ActivationRefused(r)
  BY <1>12 DEF ActivationRefused, Close
<1>13. QED
  BY <1>1, <1>2, <1>3, <1>4, <1>5, <1>6, <1>7, <1>8, <1>9, <1>10, <1>11, <1>12 DEF RequestStep

\* Every step of a worker does.
LEMMA SolvencyWorker ==
  ASSUME TypeInv, SolvencyInv, NEW w \in Worker,
         WorkerStep(w) \/ LoseRefund(w) \/ Crash(w) \/ Redeliver(w)
  PROVE  SolvencyInv'
<1> USE NoCreditsSolvent
    DEF SolvencyInv, WalletNonNegative, CopiesSolvent, ChargeAffordable, ReservesTake,
        Charging, IsPrediction, TypeInv, TypeOK, BusyInv, dbVars, requestVars, workerVars
<1>1. CASE Deliver(w)
  BY <1>1 DEF Deliver
<1>2. CASE Begin(w)
  BY <1>2 DEF Begin
<1>3. CASE Complete(w)
  BY <1>3 DEF Complete
<1>4. CASE MarkFailed(w)
  <2>1. TaskOf(w) \in Request
    BY <1>4 DEF MarkFailed, TaskOf, Message
  <2>2. RefundSplit(TaskOf(w)) \in SolventWallet /\ wallet[Owner[TaskOf(w)]] \in SolventWallet
    BY <2>1, RefundSplitSolvent
  <2>3. QED
    BY <1>4, <2>2 DEF MarkFailed
<1>12. CASE Raise(w)
  BY <1>12 DEF Raise
<1>5. CASE CommitRefund(w)
  <2>1. RefundCredits(wseen[w], wrefund[w].bonus, wrefund[w].paid) \in SolventWallet
    BY DEF RefundCredits, SolventWallet
  <2>2. wallet' \in [User -> SolventWallet]
    BY <1>5, <2>1, WriteBackSolvent DEF CommitRefund
  <2>3. ReservesTake'
    BY <1>5 DEF CommitRefund, RefundRow
  <2>4. QED
    BY <1>5, <2>2, <2>3 DEF CommitRefund, ToRetry
<1>6. CASE Retry(w)
  BY <1>6 DEF Retry
<1>7. CASE Finish(w)
  BY <1>7 DEF Finish, ToIdle
<1>8. CASE LoseRefund(w)
  BY <1>8 DEF LoseRefund, ToRetry
<1>9. CASE Crash(w)
  BY <1>9 DEF Crash, ToIdle
<1>10. CASE Redeliver(w)
  BY <1>10 DEF Redeliver
<1>11. QED
  BY <1>1, <1>2, <1>3, <1>4, <1>5, <1>6, <1>7, <1>8, <1>9, <1>10, <1>12 DEF WorkerStep

\* Cleanup and time move no credits.
LEMMA SolvencyCleanup ==
  ASSUME SolvencyInv,
         \/ \E t \in Request : Age(t)
         \/ CleanupScan \/ CleanupCommit \/ CleanupAborts \/ UNCHANGED vars
  PROVE  SolvencyInv'
BY DEF SolvencyInv, WalletNonNegative, CopiesSolvent, ChargeAffordable, ReservesTake,
       IsPrediction, Age, CleanupScan, CleanupCommit, CleanupAborts,
       vars, dbVars, requestVars, workerVars

\* The strengthened invariant: wallets and copies are solvent, charges affordable.
THEOREM SolvencyInvariant == Spec => []SolvencyInv
<1>1. TypeInv /\ SolvencyInv /\ [Next]_vars => SolvencyInv'
  BY StepCases, SolvencyRequest, SolvencyWorker, SolvencyCleanup
<1>2. QED
  BY <1>1, SolvencyInit, TypeInvariant, PTL DEF Spec

\* In every reachable state both credit columns of every user are natural
\* numbers, so the CheckConstraint of the users table never rejects a commit.
THEOREM NeverNegative == Spec => []WalletNonNegative
<1>1. SolvencyInv => WalletNonNegative
  BY DEF SolvencyInv
<1>2. QED
  BY <1>1, SolvencyInvariant, PTL

-----------------------------------------------------------------------------
(* The ledger: which reserve row gets tagged with which task, and that     *)
(* rows are only ever added.  The handler tags "the last reserve row of    *)
(* the user", which may be another request's.  That is harmless because of *)
(* NewestReserveTagged: a committed row it could find last already has its *)
(* task, so either the session tags its own row or it tags nothing.        *)

IdsUnique ==
  /\ \A x \in txs : x.id # 0
  /\ \A x, y \in txs : x.id = y.id => x = y

IdsDrawn ==
  /\ \A r \in Request : pc[r] \in {"idle", "admission", "insert"} => rowId[r] = 0
  /\ \A r \in Request : pc[r] \in {"update", "tag", "commit"} =>
       rowId[r] # 0 /\ \A x \in txs : x.id # rowId[r]
  /\ \A r, s \in Request : rowId[r] = rowId[s] /\ rowId[r] # 0 => r = s

\* A newer reserve row of the request's user is committed and has its task.
Superseded(r) == \E y \in txs :
  y.user = Owner[r] /\ y.reason = "reserve" /\ y.id > rowId[r] /\ y.task # NoTask

TagChoice == \A r \in Request :
  /\ tagId[r] \in {0, rowId[r]}
  /\ pc[r] \notin {"commit", "publish"} => tagId[r] = 0
  /\ pc[r] = "commit" /\ IsPrediction(r) /\ tagId[r] = 0 => Superseded(r)
  /\ pc[r] = "commit" /\ ~ IsPrediction(r) => tagId[r] = 0

LedgerInv == IdsUnique /\ IdsDrawn /\ TagChoice /\ TagSound /\ NewestReserveTagged

-----------------------------------------------------------------------------
\* The handler's choice: its own row, or no row because a newer one is tagged.
LEMMA TagTargetSound ==
  ASSUME TypeInv, LedgerInv, NEW r \in Request, pc[r] = "tag"
  PROVE  TagTarget(r) = rowId[r] \/ (TagTarget(r) = 0 /\ Superseded(r))
<1>1. IsPrediction(r) /\ rowId[r] \in Nat /\ \A x \in txs : x.id # rowId[r] /\ x.id \in Nat
  BY DEF TypeInv, KindInv, TypeOK, LedgerInv, IdsDrawn, Row
<1> DEFINE last == LastReserve(r)
<1>2. last \in VisibleReserves(r) /\ \A y \in VisibleReserves(r) : y.id <= last.id
  BY <1>1, LastReserveFound
<1>3. OwnRow(r) \in VisibleReserves(r) /\ OwnRow(r).id = rowId[r] /\ OwnRow(r).task = NoTask
  BY <1>1 DEF VisibleReserves, OwnRow, Reason
<1>4. TagTarget(r) = IF last.task = NoTask THEN last.id ELSE 0
  BY DEF TagTarget
<1> HIDE DEF last
<1>5. CASE last = OwnRow(r)
  BY <1>3, <1>4, <1>5
<1>6. CASE last # OwnRow(r)
  <2>1. last \in txs /\ last.user = Owner[r] /\ last.reason = "reserve"
    BY <1>2, <1>6 DEF VisibleReserves
  <2>2. last.id > rowId[r]
    BY <1>1, <1>2, <1>3, <2>1
  <2>3. last.task # NoTask
    <3>1. SUFFICES ASSUME last.task = NoTask PROVE FALSE
      OBVIOUS
    <3>2. PICK y \in txs : y.user = last.user /\ y.reason = "reserve" /\ y.id > last.id
      BY <2>1, <3>1 DEF LedgerInv, NewestReserveTagged
    <3>3. y \in VisibleReserves(r)
      BY <2>1, <3>2 DEF VisibleReserves
    <3>4. QED
      BY <1>1, <1>2, <2>1, <3>2, <3>3
  <2>4. QED
    BY <1>4, <2>1, <2>2, <2>3 DEF Superseded
<1>7. QED
  BY <1>5, <1>6

\* The row a commit adds; every row that was there stays as it is.
CommittedRow(r) ==
  IF tagId[r] = rowId[r] THEN [OwnRow(r) EXCEPT !.task = r] ELSE OwnRow(r)

\* A commit adds the session's own row and keeps the others; at most a task is set.
LEMMA CommitAddsOneRow ==
  ASSUME TypeInv, LedgerInv, NEW r \in Request, Commit(r)
  PROVE  txs' = txs \cup {CommittedRow(r)}
<1>1. pc[r] = "commit" /\ OwnRow(r).id = rowId[r] /\ tagId[r] \in {0, rowId[r]}
  BY DEF Commit, OwnRow, LedgerInv, TagChoice
<1>2. rowId[r] # 0 /\ \A x \in txs : x.id # tagId[r]
  BY <1>1 DEF LedgerInv, IdsDrawn, IdsUnique
<1>3. QED
  BY <1>1, <1>2 DEF Commit, CommittedRow

\* The committed row differs from the inserted one in its task only.
LEMMA CommittedRowFields ==
  ASSUME TypeInv, NEW r \in Request
  PROVE  /\ CommittedRow(r) \in Row
         /\ CommittedRow(r).id = rowId[r] /\ CommittedRow(r).user = Owner[r]
         /\ CommittedRow(r).reason = Reason(r)
         /\ CommittedRow(r).task = IF tagId[r] = rowId[r] THEN r ELSE NoTask
         /\ CommittedRow(r).paid = OwnRow(r).paid /\ CommittedRow(r).bonus = OwnRow(r).bonus
<1>1. OwnRow(r) \in Row /\ OwnRow(r).id = rowId[r] /\ OwnRow(r).user = Owner[r]
      /\ OwnRow(r).reason = Reason(r)
      /\ OwnRow(r).task = NoTask
  <2>1. OwnRow(r) \in Row
    BY OwnRowType DEF TypeInv
  <2>2. QED
    BY <2>1 DEF OwnRow
<1>2. QED
  BY <1>1 DEF CommittedRow, Row

-----------------------------------------------------------------------------
\* The empty tables satisfy the ledger invariant.
LEMMA LedgerInit == Init => LedgerInv
BY DEF Init, LedgerInv, IdsUnique, IdsDrawn, TagChoice, TagSound, NewestReserveTagged

\* The commit of an API session keeps it: the one step that tags a row.
LEMMA LedgerCommit ==
  ASSUME TypeInv, LedgerInv, NEW r \in Request, Commit(r)
  PROVE  LedgerInv'
<1> DEFINE c == CommittedRow(r)
<1>1. txs' = txs \cup {c}
  BY CommitAddsOneRow
<1>2. /\ c \in Row /\ c.id = rowId[r] /\ c.user = Owner[r]
      /\ c.reason = Reason(r)
      /\ c.task = IF tagId[r] = rowId[r] THEN r ELSE NoTask
  BY CommittedRowFields
<1>3. pc[r] = "commit" /\ rowId[r] # 0 /\ \A x \in txs : x.id # rowId[r]
  BY DEF Commit, LedgerInv, IdsDrawn
<1>4. /\ pc' = [pc EXCEPT ![r] = IF IsPrediction(r) THEN "publish" ELSE "over"]
      /\ tagId' = IF IsPrediction(r) THEN tagId ELSE [tagId EXCEPT ![r] = 0]
      /\ rowId' = rowId /\ kind' = kind
  BY DEF Commit, Close
<1> HIDE DEF c
<1>5. rowId \in [Request -> Nat] /\ tagId \in [Request -> Nat] /\ DOMAIN pc = Request
  BY DEF TypeInv, TypeOK
<1>6. IdsUnique'
  BY <1>1, <1>2, <1>3 DEF LedgerInv, IdsUnique
<1>7. IdsDrawn'
  <2>1. \A s \in Request : pc'[s] \in {"idle", "admission", "insert", "update", "tag", "commit"}
                            => s # r /\ pc'[s] = pc[s]
    BY <1>4, <1>5
  <2>2. \A s \in Request : s # r => rowId[s] # c.id
    BY <1>2, <1>3 DEF LedgerInv, IdsDrawn
  <2>3. QED
    BY <1>1, <1>4, <2>1, <2>2 DEF LedgerInv, IdsDrawn
<1>8. NewestReserveTagged'
  <2>1. ASSUME c.reason = "reserve", c.task = NoTask PROVE Superseded(r)
    BY <1>2, <1>3, <2>1 DEF Reason, LedgerInv, TagChoice
  <2>2. QED
    BY <1>1, <1>2, <2>1 DEF LedgerInv, NewestReserveTagged, Superseded
<1>9. TagSound'
  BY <1>1, <1>2, <1>4 DEF LedgerInv, TagSound
<1>10. TagChoice'
  <2>1. ASSUME NEW s \in Request, pc'[s] = "commit"
        PROVE  pc[s] = "commit" /\ tagId'[s] = tagId[s]
    BY <1>4, <1>5, <2>1
  <2>2. \A s \in Request : tagId'[s] \in {0, rowId[s]}
                            /\ (pc'[s] \notin {"commit", "publish"} => tagId'[s] = 0)
    BY <1>4, <1>5 DEF LedgerInv, TagChoice
  <2>3. \A s \in Request : Superseded(s) => Superseded(s)'
    BY <1>1, <1>4 DEF Superseded
  <2>4. \A s \in Request : IsPrediction(s)' <=> IsPrediction(s)
    BY <1>4 DEF IsPrediction
  <2>5. QED
    BY <1>4, <2>1, <2>2, <2>3, <2>4 DEF LedgerInv, TagChoice
<1>11. QED
  BY <1>6, <1>7, <1>8, <1>9, <1>10 DEF LedgerInv

\* So does every step of an API session, that commit included.
LEMMA LedgerRequest ==
  ASSUME TypeInv, LedgerInv, NEW r \in Request,
         \/ OpenPrediction(r) \/ RefuseCredits(r) \/ OpenTopUp(r) \/ OpenPromo(r)
         \/ ActivationRefused(r) \/ RequestStep(r) \/ RequestDies(r)
  PROVE  LedgerInv'
<1> USE DEF LedgerInv, IdsUnique, IdsDrawn, TagChoice, Superseded, TagSound, NewestReserveTagged,
            IsPrediction, TypeInv, TypeOK, dbVars, requestVars, workerVars
<1>1. CASE OpenPrediction(r)
  BY <1>1 DEF OpenPrediction, Open
<1>2. CASE RefuseCredits(r)
  BY <1>2 DEF RefuseCredits, Close
<1>3. CASE OpenTopUp(r)
  BY <1>3 DEF OpenTopUp, Open
<1>4. CASE Admission(r)
  BY <1>4 DEF Admission, Close
<1>5. CASE InsertRows(r)
  BY <1>5 DEF InsertRows, SequenceInv
<1>6. CASE UpdateWallet(r)
  BY <1>6 DEF UpdateWallet
<1>7. CASE TagReserve(r)
  BY <1>7, TagTargetSound DEF TagReserve, KindInv
<1>8. CASE Commit(r)
  BY <1>8, LedgerCommit
<1>9. CASE Publish(r)
  BY <1>9 DEF Publish, Close
<1>10. CASE RequestDies(r)
  BY <1>10 DEF RequestDies, Close
<1>11. CASE OpenPromo(r)
  BY <1>11 DEF OpenPromo, Open
<1>12. CASE ActivationRefused(r)
  BY <1>12 DEF ActivationRefused, Close
<1>13. QED
  BY <1>1, <1>2, <1>3, <1>4, <1>5, <1>6, <1>7, <1>8, <1>9, <1>10, <1>11, <1>12 DEF RequestStep

\* A worker only ever adds refund rows, which are not tagged by anyone.
LEMMA LedgerWorker ==
  ASSUME TypeInv, LedgerInv, NEW w \in Worker, WorkerStep(w) \/ LoseRefund(w) \/ Crash(w) \/ Redeliver(w)
  PROVE  LedgerInv'
<1> USE DEF LedgerInv, IdsUnique, IdsDrawn, TagChoice, Superseded, TagSound, NewestReserveTagged,
            IsPrediction, TypeInv, TypeOK, dbVars, requestVars, workerVars
<1>1. CASE Deliver(w)
  BY <1>1 DEF Deliver
<1>2. CASE Begin(w)
  BY <1>2 DEF Begin
<1>3. CASE Complete(w)
  BY <1>3 DEF Complete
<1>4. CASE MarkFailed(w)
  BY <1>4 DEF MarkFailed
<1>12. CASE Raise(w)
  BY <1>12 DEF Raise
<1>5. CASE CommitRefund(w)
  BY <1>5 DEF CommitRefund, ToRetry, RefundRow, SequenceInv
<1>6. CASE Retry(w)
  BY <1>6 DEF Retry
<1>7. CASE Finish(w)
  BY <1>7 DEF Finish, ToIdle
<1>8. CASE LoseRefund(w)
  BY <1>8 DEF LoseRefund, ToRetry
<1>9. CASE Crash(w)
  BY <1>9 DEF Crash, ToIdle
<1>10. CASE Redeliver(w)
  BY <1>10 DEF Redeliver
<1>11. QED
  BY <1>1, <1>2, <1>3, <1>4, <1>5, <1>6, <1>7, <1>8, <1>9, <1>10, <1>12 DEF WorkerStep

\* Cleanup and time do not touch the ledger.
LEMMA LedgerCleanup ==
  ASSUME LedgerInv,
         \/ \E t \in Request : Age(t)
         \/ CleanupScan \/ CleanupCommit \/ CleanupAborts \/ UNCHANGED vars
  PROVE  LedgerInv'
BY DEF LedgerInv, IdsUnique, IdsDrawn, TagChoice, Superseded, TagSound, NewestReserveTagged,
       IsPrediction, Age, CleanupScan, CleanupCommit, CleanupAborts,
       vars, dbVars, requestVars, workerVars

\* The ledger invariant: unique ids, drawn once, and a tag that is always sound.
THEOREM LedgerInvariant == Spec => []LedgerInv
<1>1. TypeInv /\ LedgerInv /\ [Next]_vars => LedgerInv'
  BY StepCases, LedgerRequest, LedgerWorker, LedgerCleanup
<1>2. QED
  BY <1>1, LedgerInit, TypeInvariant, PTL DEF Spec

\* Whatever the interleaving, a task is only ever tagged on its own reserve row.
THEOREM TagsAreSound == Spec => []TagSound
<1>1. LedgerInv => TagSound
  BY DEF LedgerInv
<1>2. QED
  BY <1>1, LedgerInvariant, PTL

\* An untagged reserve row is older than a tagged one of the same user.
THEOREM NewestIsTagged == Spec => []NewestReserveTagged
<1>1. LedgerInv => NewestReserveTagged
  BY DEF LedgerInv
<1>2. QED
  BY <1>1, LedgerInvariant, PTL

-----------------------------------------------------------------------------
\* Adding rows is appending.
LEMMA RowsKept == ASSUME txs \subseteq txs' PROVE AppendOnly
BY DEF AppendOnly, SameMove

\* Only the two kinds of commit change a balance or the log.
LEMMA MoneyMoves ==
  ASSUME [Next]_vars
  PROVE  \/ wallet' = wallet /\ txs' = txs
         \/ \E r \in Request : Commit(r)
         \/ \E w \in Worker : CommitRefund(w)
<1> USE DEF dbVars
<1>1. ASSUME NEW r \in Request,
             \/ OpenPrediction(r) \/ RefuseCredits(r) \/ OpenTopUp(r) \/ OpenPromo(r)
             \/ ActivationRefused(r) \/ RequestStep(r) \/ RequestDies(r)
      PROVE  Commit(r) \/ (wallet' = wallet /\ txs' = txs)
  BY <1>1 DEF OpenPrediction, RefuseCredits, OpenTopUp, OpenPromo, Open, ActivationRefused,
     RequestStep, RequestDies,
              Admission, InsertRows, UpdateWallet, TagReserve, Publish
<1>2. ASSUME NEW w \in Worker, WorkerStep(w) \/ LoseRefund(w) \/ Crash(w) \/ Redeliver(w)
      PROVE  CommitRefund(w) \/ (wallet' = wallet /\ txs' = txs)
  BY <1>2 DEF WorkerStep, LoseRefund, Crash, Redeliver, Deliver, Begin, Complete, Raise, MarkFailed,
     Retry, Finish
<1>3. CASE \/ \E t \in Request : Age(t)
           \/ CleanupScan \/ CleanupCommit \/ CleanupAborts \/ UNCHANGED vars
  BY <1>3 DEF Age, CleanupScan, CleanupCommit, CleanupAborts, vars
<1>4. QED
  BY <1>1, <1>2, <1>3, StepCases

\* Every step appends to the log and logs the balance it changes.
LEMMA AuditedStep ==
  ASSUME TypeInv, LedgerInv, [Next]_vars PROVE AppendOnly /\ MovesLogged
<1>1. ASSUME wallet' = wallet, txs' = txs PROVE AppendOnly /\ MovesLogged
  BY <1>1, RowsKept DEF MovesLogged
<1>2. ASSUME NEW r \in Request, Commit(r) PROVE AppendOnly /\ MovesLogged
  <2>1. txs' = txs \cup {CommittedRow(r)}
    BY <1>2, CommitAddsOneRow
  <2>2. /\ CommittedRow(r).user = Owner[r]
        /\ \A x \in txs : x.id # CommittedRow(r).id
    BY <1>2, CommittedRowFields DEF Commit, LedgerInv, IdsDrawn
  <2>3. \A u \in User : wallet'[u] # wallet[u] => u = Owner[r]
    BY <1>2 DEF Commit, TypeInv, TypeOK
  <2>4. QED
    BY <2>1, <2>2, <2>3, RowsKept DEF MovesLogged
<1>3. ASSUME NEW w \in Worker, CommitRefund(w) PROVE AppendOnly /\ MovesLogged
  <2>1. txs' = txs \cup {RefundRow(w)}
    BY <1>3 DEF CommitRefund
  <2>2. RefundRow(w).user = Owner[TaskOf(w)] /\ \A x \in txs : x.id # RefundRow(w).id
    BY DEF RefundRow, TypeInv, TypeOK, SequenceInv, Row
  <2>3. \A u \in User : wallet'[u] # wallet[u] => u = Owner[TaskOf(w)]
    BY <1>3 DEF CommitRefund, TypeInv, TypeOK
  <2>4. QED
    BY <2>1, <2>2, <2>3, RowsKept DEF MovesLogged
<1>4. QED
  BY <1>1, <1>2, <1>3, MoneyMoves

\* The audit log is kept: no step changes a balance without logging a movement
\* of that user, and no step removes or alters a logged movement.
THEOREM AuditKept == Spec => Audited
<1>1. TypeInv /\ LedgerInv /\ [Next]_vars => [AppendOnly /\ MovesLogged]_vars
  BY AuditedStep
<1>2. QED
  BY <1>1, TypeInvariant, LedgerInvariant, PTL DEF Spec, Audited

-----------------------------------------------------------------------------
(* A task, the row that pays for it, the messages that carry it and the    *)
(* refunds that name it stay consistent, through retries, crashes and      *)
(* redeliveries.                                                           *)

\* A task row appears with the commit of its request's session, and cleanup
\* only ever loads tasks that exist.
StageInv ==
  /\ \A r \in Request :
       /\ pc[r] \notin {"publish", "over"} => status[r] = "absent"
       /\ pc[r] = "publish" => status[r] # "absent"
       /\ status[r] # "absent" => IsPrediction(r)
  /\ \A t \in scanned : status[t] # "absent"

\* What a refund of task t may give back.
GoodRefund(t, paid, bonus) ==
  /\ paid + bonus = cost[t]
  /\ \A y \in Reserve(t) : bonus = IF y.task = t THEN -y.bonus ELSE 0

RefundReady == \A w \in Worker :
  wpc[w] = "refund" => GoodRefund(TaskOf(w), wrefund[w].paid, wrefund[w].bonus)

RefundsKnown == \A t \in Request : Refunds(t) # {} => status[t] # "absent"

TaskInv == /\ StageInv /\ NoOrphanMessage /\ BackedByReserve
           /\ RefundReady /\ RefundsKnown /\ RefundExact /\ ErrorMeansRefund

AllInv == TypeInv /\ SolvencyInv /\ LedgerInv /\ TaskInv

-----------------------------------------------------------------------------
\* RefundSplit is right: a tagged row it finds is the task's own reservation.
LEMMA RefundSplitGood ==
  ASSUME TypeInv, LedgerInv, BackedByReserve, NEW t \in Request
  PROVE  GoodRefund(t, RefundSplit(t).paid, RefundSplit(t).bonus)
<1>1. CASE /\ RefundSplit(t) = [paid |-> cost[t], bonus |-> 0]
           /\ \A x \in txs : x.task = t => x.reason # "reserve"
  BY <1>1 DEF GoodRefund, Reserve, TypeInv, TypeOK
<1>2. ASSUME NEW x \in txs, x.task = t, x.reason = "reserve",
             RefundSplit(t) = [paid |-> -x.paid, bonus |-> -x.bonus]
      PROVE  GoodRefund(t, RefundSplit(t).paid, RefundSplit(t).bonus)
  <2>1. x \in Reserve(t)
    BY <1>2 DEF LedgerInv, TagSound, Reserve
  <2>2. x.paid + x.bonus = -cost[t] /\ x.paid \in Int /\ x.bonus \in Int /\ cost[t] \in Nat
    BY <2>1 DEF BackedByReserve, RowTotal, TypeInv, TypeOK, Row
  <2>3. Reserve(t) = {x}
    BY <2>1 DEF Reserve, LedgerInv, IdsUnique
  <2>4. QED
    BY <1>2, <2>2, <2>3 DEF GoodRefund
<1>3. QED
  BY <1>1, <1>2, RefundSplitSource

\* What a prediction's commit adds pays exactly the price.
LEMMA CommittedRowPays ==
  ASSUME TypeInv, SolvencyInv, NEW r \in Request, pc[r] = "commit", IsPrediction(r)
  PROVE  RowTotal(CommittedRow(r)) = -cost[r]
<1>1. seen[r] \in SolventWallet /\ cost[r] \in Nat /\ CanAfford(seen[r], cost[r])
  BY DEF SolvencyInv, CopiesSolvent, ChargeAffordable, Charging, TypeInv, TypeOK
<1>2. /\ Assigned(r) \in SolventWallet
      /\ Total(Assigned(r)) = Total(seen[r]) - cost[r]
  BY <1>1, ChargeIsExact DEF Assigned
<1>3. /\ CommittedRow(r).paid = Assigned(r).paid - seen[r].paid
      /\ CommittedRow(r).bonus = Assigned(r).bonus - seen[r].bonus
  BY CommittedRowFields DEF OwnRow
<1>4. QED
  BY <1>1, <1>2, <1>3 DEF RowTotal, Total, SolventWallet

\* Before the first request there is no task, no row and no message.
LEMMA TaskInit == Init => TaskInv
BY DEF Init, TaskInv, StageInv, NoOrphanMessage, BackedByReserve, RefundReady, RefundsKnown,
       RefundExact, ErrorMeansRefund, Reserve, Refunds, IsPrediction

\* The commit makes the task and the row that pays for it appear together.
LEMMA TaskCommit ==
  ASSUME AllInv, NEW r \in Request, Commit(r) PROVE TaskInv'
<1> DEFINE c == CommittedRow(r)
<1>1. txs' = txs \cup {c}
  BY CommitAddsOneRow DEF AllInv
<1>2. /\ c.id = rowId[r] /\ c.user = Owner[r]
      /\ c.reason = Reason(r)
      /\ IsPrediction(r) => RowTotal(c) = -cost[r]
  BY CommittedRowFields, CommittedRowPays DEF AllInv, Commit
<1>3. pc[r] = "commit" /\ rowId[r] # 0 /\ \A x \in txs : x.id # rowId[r]
  BY DEF Commit, AllInv, LedgerInv, IdsDrawn
<1>4. /\ pc' = [pc EXCEPT ![r] = IF IsPrediction(r) THEN "publish" ELSE "over"]
      /\ status' = IF IsPrediction(r) THEN [status EXCEPT ![r] = "pending"] ELSE status
      /\ rowId' = rowId /\ kind' = kind /\ cost' = cost /\ error' = error /\ queue' = queue
      /\ wpc' = wpc /\ wmsg' = wmsg /\ wrefund' = wrefund /\ scanned' = scanned
  BY DEF Commit, Close, workerVars
<1> HIDE DEF c
<1>5. \A t \in Request : Refunds(t)' = Refunds(t)
  BY <1>1, <1>2 DEF Refunds, Reason
<1>6. \A t \in Request : t # r => Reserve(t)' = Reserve(t)
  BY <1>1, <1>2, <1>3, <1>4 DEF Reserve, Reason, AllInv, LedgerInv, IdsDrawn
<1>7. Reserve(r) = {} /\ Reserve(r)' = IF IsPrediction(r) THEN {c} ELSE {}
  BY <1>1, <1>2, <1>3, <1>4 DEF Reserve, Reason
<1>8. StageInv'
  BY <1>3, <1>4 DEF StageInv, IsPrediction, AllInv, TaskInv, TypeInv, TypeOK
<1>9. BackedByReserve'
  <2>1. status \in [Request -> {"absent", "pending", "processing", "completed", "failed"}]
    BY DEF AllInv, TypeInv, TypeOK
  <2>2. status[r] = "absent"
    BY <1>3 DEF AllInv, TaskInv, StageInv
  <2>3. ASSUME NEW t \in Request, t # r
        PROVE  /\ status'[t] # "absent" <=> Reserve(t)' # {}
               /\ \A x \in Reserve(t)' : RowTotal(x) = -cost'[t] /\ x.user = Owner[t]
    <3>1. status'[t] = status[t] /\ Reserve(t)' = Reserve(t) /\ cost'[t] = cost[t]
      BY <1>4, <1>6, <2>1, <2>3
    <3>2. QED
      BY <3>1 DEF BackedByReserve, AllInv, TaskInv
  <2>4. /\ status'[r] # "absent" <=> Reserve(r)' # {}
        /\ \A x \in Reserve(r)' : RowTotal(x) = -cost'[r] /\ x.user = Owner[r]
    BY <1>2, <1>4, <1>7, <2>1, <2>2
  <2>5. QED
    BY <2>3, <2>4 DEF BackedByReserve, RowTotal
<1>10. NoOrphanMessage'
  BY <1>4 DEF NoOrphanMessage, AllInv, TaskInv, TypeInv, TypeOK
<1>n. status[r] = "absent" /\ Refunds(r) = {}
  BY <1>3 DEF AllInv, TaskInv, StageInv, RefundsKnown
<1>11. RefundExact'
  BY <1>n, <1>4, <1>5, <1>6 DEF RefundExact, RowTotal, AllInv, TaskInv
<1>12. RefundReady'
  <2>1. ASSUME NEW w \in Worker, wpc[w] = "refund"
        PROVE  TaskOf(w) \in Request /\ TaskOf(w) # r /\ TaskOf(w)' = TaskOf(w)
    BY <1>n, <1>4, <2>1 DEF TaskOf, AllInv, TaskInv, NoOrphanMessage, TypeInv, BusyInv, Message
  <2>2. QED
    BY <1>4, <1>6, <2>1 DEF RefundReady, GoodRefund, AllInv, TaskInv
<1>13. RefundsKnown' /\ ErrorMeansRefund'
  BY <1>4, <1>5 DEF RefundsKnown, ErrorMeansRefund, AllInv, TaskInv, TypeInv, TypeOK
<1>14. QED
  BY <1>8, <1>9, <1>10, <1>11, <1>12, <1>13 DEF TaskInv

\* A step that leaves the tables, the queue and the workers as they are cannot
\* disturb the tasks, if the columns of a request change only before its commit.
LEMMA SessionFrame ==
  ASSUME AllInv, StageInv', txs' = txs, status' = status, error' = error, queue' = queue,
         wpc' = wpc, wmsg' = wmsg, wrefund' = wrefund,
         \A t \in Request : status[t] # "absent" =>
           kind'[t] = kind[t] /\ cost'[t] = cost[t] /\ rowId'[t] = rowId[t],
         \A t \in Request : status[t] = "absent" =>
           rowId'[t] = rowId[t] \/ \A x \in txs : x.id # rowId'[t]
  PROVE  TaskInv'
<1>1. \A t \in Request : status[t] # "absent" => Reserve(t)' = Reserve(t)
  BY DEF Reserve
<1>2. \A t \in Request : status[t] = "absent" => Reserve(t)' = {}
  BY DEF Reserve, AllInv, TaskInv, BackedByReserve
<1>3. \A t \in Request : Refunds(t)' = Refunds(t)
  BY DEF Refunds
<1>4. BackedByReserve'
  BY <1>1, <1>2 DEF BackedByReserve, RowTotal, AllInv, TaskInv
<1>5. NoOrphanMessage'
  BY DEF NoOrphanMessage, RetryLimit, AllInv, TaskInv, TypeInv, BusyInv, Message
<1>6. RefundsKnown' /\ ErrorMeansRefund'
  BY <1>3 DEF RefundsKnown, ErrorMeansRefund, AllInv, TaskInv
<1>7. RefundExact'
  BY <1>1, <1>3 DEF RefundExact, RefundsKnown, RowTotal, AllInv, TaskInv
<1>8. ASSUME NEW w \in Worker, wpc[w] = "refund"
      PROVE  GoodRefund(TaskOf(w), wrefund[w].paid, wrefund[w].bonus)'
  <2>1. TaskOf(w) \in Request /\ TaskOf(w)' = TaskOf(w) /\ status[TaskOf(w)] # "absent"
    BY <1>8 DEF TaskOf, AllInv, TypeInv, BusyInv, Message, TaskInv, NoOrphanMessage
  <2>2. GoodRefund(TaskOf(w), wrefund[w].paid, wrefund[w].bonus)
    BY <1>8 DEF AllInv, TaskInv, RefundReady
  <2>3. QED
    BY <1>1, <2>1, <2>2 DEF GoodRefund
<1>9. RefundReady'
  BY <1>8 DEF RefundReady
<1>10. QED
  BY <1>4, <1>5, <1>6, <1>7, <1>9 DEF TaskInv

\* delay() comes after the commit, so the message names a committed task.
LEMMA TaskPublish ==
  ASSUME AllInv, NEW r \in Request, Publish(r) PROVE TaskInv'
<1>1. status[r] # "absent" /\ RetryLimit(kind[r]) >= 0
  BY DEF Publish, AllInv, TaskInv, StageInv, RetryLimit
<1>2. NoOrphanMessage'
  BY <1>1 DEF Publish, NoOrphanMessage, AllInv, TaskInv, TypeInv, TypeOK, Message,
              dbVars, workerVars
<1>3. QED
  BY <1>2 DEF Publish, Close, AllInv, TaskInv, StageInv, BackedByReserve, RefundReady,
     GoodRefund, RefundsKnown, RefundExact, ErrorMeansRefund, Reserve, Refunds, IsPrediction,
     TaskOf, dbVars, workerVars, TypeInv, TypeOK

\* Every step of an API session keeps the task invariant.
LEMMA TaskRequest ==
  ASSUME AllInv, NEW r \in Request,
         \/ OpenPrediction(r) \/ RefuseCredits(r) \/ OpenTopUp(r) \/ OpenPromo(r)
         \/ ActivationRefused(r) \/ RequestStep(r) \/ RequestDies(r)
  PROVE  TaskInv'
<1>t. TypeOK /\ StageInv /\ SequenceInv
  BY DEF AllInv, TypeInv, TaskInv
<1> USE <1>t DEF StageInv, IsPrediction, TypeOK, dbVars, requestVars, workerVars
<1>1. CASE OpenPrediction(r)
  BY <1>1, OrderType, SessionFrame DEF OpenPrediction, Open
<1>2. CASE RefuseCredits(r)
  BY <1>2, SessionFrame DEF RefuseCredits, Close
<1>3. CASE OpenTopUp(r)
  BY <1>3, SessionFrame DEF OpenTopUp, Open
<1>4. CASE Admission(r)
  BY <1>4, SessionFrame DEF Admission, Close
<1>5. CASE InsertRows(r)
  BY <1>5, SessionFrame DEF InsertRows, SequenceInv, Row
<1>6. CASE UpdateWallet(r)
  BY <1>6, SessionFrame DEF UpdateWallet
<1>7. CASE TagReserve(r)
  BY <1>7, SessionFrame DEF TagReserve
<1>8. CASE Commit(r)
  BY <1>8, TaskCommit
<1>9. CASE Publish(r)
  BY <1>9, TaskPublish
<1>10. CASE RequestDies(r)
  BY <1>10, SessionFrame DEF RequestDies, Close
<1>11. CASE OpenPromo(r)
  BY <1>11, SessionFrame DEF OpenPromo, Open
<1>12. CASE ActivationRefused(r)
  BY <1>12, SessionFrame DEF ActivationRefused, Close
<1>13. QED
  BY <1>1, <1>2, <1>3, <1>4, <1>5, <1>6, <1>7, <1>8, <1>9, <1>10, <1>11, <1>12 DEF RequestStep

-----------------------------------------------------------------------------
\* A worker's message names a committed task.
LEMMA WorkerTaskKnown ==
  ASSUME AllInv, NEW w \in Worker, wpc[w] # "idle"
  PROVE  /\ TaskOf(w) \in Request /\ status[TaskOf(w)] # "absent"
         /\ wmsg[w] \in Message /\ wmsg[w][2] <= RetryLimit(kind[TaskOf(w)])
BY DEF AllInv, TypeInv, BusyInv, TaskInv, NoOrphanMessage, TaskOf, Message

\* A step that adds no row and no message and leaves the sessions alone, where
\* a task keeps or gets a status, and a refund that is under way is a good one.
LEMMA WorkerFrame ==
  ASSUME AllInv, txs' = txs, UNCHANGED requestVars,
         \A t \in scanned' : t \in scanned \/ status[t] # "absent",
         scanned' \subseteq Request,
         \A t \in Request : status[t] = "absent" <=> status'[t] = "absent",
         \A t \in Request : error'[t] = error[t] \/ error'[t] # "exception",
         NoOrphanMessage', RefundReady'
  PROVE  TaskInv'
<1>1. \A t \in Request : Reserve(t)' = Reserve(t) /\ Refunds(t)' = Refunds(t)
  BY DEF Reserve, Refunds, requestVars
<1>2. StageInv' /\ BackedByReserve'
  BY <1>1 DEF StageInv, IsPrediction, BackedByReserve, RowTotal, requestVars, AllInv, TaskInv
<1>3. RefundsKnown' /\ RefundExact' /\ ErrorMeansRefund'
  BY <1>1 DEF RefundsKnown, RefundExact, RowTotal, ErrorMeansRefund, requestVars, AllInv, TaskInv
<1>4. QED
  BY <1>2, <1>3 DEF TaskInv

\* A refund is committed with the status and gives back what RefundSplit read.
LEMMA TaskCommitRefund ==
  ASSUME AllInv, NEW w \in Worker, CommitRefund(w) PROVE TaskInv'
<1> DEFINE t == TaskOf(w)
           row == RefundRow(w)
<1>1. wpc[w] = "refund" /\ t \in Request /\ status[t] # "absent"
  BY WorkerTaskKnown DEF CommitRefund
<1>2. /\ txs' = txs \cup {row}
      /\ status' = [status EXCEPT ![t] = WriteColumn(@, wtask[w].status, "failed")]
      /\ error' = [error EXCEPT ![t] = "exception"] \/ error' = error
      /\ wpc' = [wpc EXCEPT ![w] = "retry"] /\ wmsg' = wmsg /\ queue' = queue
      /\ \A v \in Worker : v # w => wrefund'[v] = wrefund[v]
      /\ pc' = pc /\ kind' = kind /\ cost' = cost /\ rowId' = rowId /\ scanned' = scanned
  BY DEF CommitRefund, ToRetry, requestVars, AllInv, TypeInv, TypeOK
<1>3. row.reason = "refund" /\ row.task = t /\ row.user = Owner[t]
      /\ row.paid = wrefund[w].paid /\ row.bonus = wrefund[w].bonus
  BY DEF RefundRow
<1>4. GoodRefund(t, row.paid, row.bonus)
  BY <1>1, <1>3 DEF AllInv, TaskInv, RefundReady
<1>t. status \in [Request -> {"absent", "pending", "processing", "completed", "failed"}]
      /\ error \in [Request -> {"none", "exception", "timeout"}]
      /\ DOMAIN wpc = Worker /\ scanned \subseteq Request
  BY DEF AllInv, TypeInv, TypeOK
<1>k. TaskInv
  BY DEF AllInv
<1> HIDE DEF t, row
<1>5. \A s \in Request : Reserve(s)' = Reserve(s)
  BY <1>2, <1>3 DEF Reserve
<1>6. \A s \in Request : Refunds(s)' = IF s = t THEN Refunds(s) \cup {row} ELSE Refunds(s)
  BY <1>1, <1>2, <1>3 DEF Refunds
<1>7. \A s \in Request : status'[s] = "absent" <=> status[s] = "absent"
  BY <1>1, <1>2, <1>t DEF WriteColumn
<1>8. StageInv' /\ BackedByReserve'
  BY <1>2, <1>5, <1>7, <1>k, <1>t DEF StageInv, IsPrediction, BackedByReserve, RowTotal, TaskInv
<1>9. RefundsKnown'
  BY <1>1, <1>6, <1>7, <1>k DEF RefundsKnown, TaskInv
<1>10. ErrorMeansRefund'
  BY <1>2, <1>6, <1>t, <1>k DEF ErrorMeansRefund, TaskInv
<1>11. RefundExact'
  BY <1>2, <1>3, <1>4, <1>5, <1>6, <1>k DEF RefundExact, GoodRefund, RowTotal, TaskInv
<1>12. NoOrphanMessage'
  <2>1. \A m \in Message : status'[m[1]] = "absent" <=> status[m[1]] = "absent"
    BY <1>7 DEF Message
  <2>2. \A v \in Worker : wpc[v] # "idle" => wmsg[v] \in Message
    BY DEF AllInv, TypeInv, BusyInv
  <2>3. QED
    BY <1>1, <1>2, <1>t, <1>k, <2>1, <2>2 DEF NoOrphanMessage, RetryLimit, TaskInv
<1>13. RefundReady'
  <2>1. ASSUME NEW v \in Worker, wpc'[v] = "refund"
        PROVE  v # w /\ wpc[v] = "refund" /\ wrefund'[v] = wrefund[v]
    BY <1>2, <1>t, <2>1
  <2>2. \A v \in Worker : wpc[v] = "refund" => TaskOf(v) \in Request /\ TaskOf(v)' = TaskOf(v)
    BY <1>2, WorkerTaskKnown DEF TaskOf
  <2>3. QED
    BY <1>2, <1>5, <1>k, <2>1, <2>2 DEF RefundReady, GoodRefund, TaskInv
<1>14. QED
  BY <1>8, <1>9, <1>10, <1>11, <1>12, <1>13 DEF TaskInv

\* Every step of a worker keeps it, retries, crashes and redeliveries included.
LEMMA TaskWorker ==
  ASSUME AllInv, NEW w \in Worker, WorkerStep(w) \/ LoseRefund(w) \/ Crash(w) \/ Redeliver(w)
  PROVE  TaskInv'
<1>t. TypeOK /\ NoOrphanMessage /\ RefundReady
  BY DEF AllInv, TypeInv, TaskInv
<1>w. wpc[w] # "idle" =>
        /\ TaskOf(w) \in Request /\ status[TaskOf(w)] # "absent"
        /\ wmsg[w] \in Message /\ wmsg[w][2] <= RetryLimit(kind[TaskOf(w)])
  BY WorkerTaskKnown
<1> USE <1>t DEF TypeOK, dbVars, requestVars, workerVars
<1>1. CASE Deliver(w)
  <2>1. NoOrphanMessage' /\ RefundReady'
    BY <1>1 DEF Deliver, NoOrphanMessage, RefundReady, GoodRefund, Reserve, TaskOf
  <2>2. QED
    BY <1>1, <2>1, WorkerFrame DEF Deliver
<1>2. CASE Begin(w)
  <2>1. NoOrphanMessage' /\ RefundReady'
    BY <1>2, <1>w DEF Begin, WriteColumn, NoOrphanMessage, RefundReady, GoodRefund, Reserve, TaskOf
  <2>2. QED
    BY <1>2, <1>w, <2>1, WorkerFrame DEF Begin, WriteColumn
<1>3. CASE Complete(w)
  <2>1. NoOrphanMessage' /\ RefundReady'
    BY <1>3, <1>w DEF Complete, NoOrphanMessage, RefundReady, GoodRefund, Reserve, TaskOf
  <2>2. QED
    BY <1>3, <1>w, <2>1, WorkerFrame DEF Complete
<1>4. CASE MarkFailed(w)
  <2>1. GoodRefund(TaskOf(w), RefundSplit(TaskOf(w)).paid, RefundSplit(TaskOf(w)).bonus)
    BY <1>4, <1>w, RefundSplitGood DEF MarkFailed, AllInv, TaskInv
  <2>2. NoOrphanMessage'
    BY <1>4 DEF MarkFailed, NoOrphanMessage
  <2>3. RefundReady'
    BY <1>4, <2>1 DEF MarkFailed, RefundReady, GoodRefund, Reserve, TaskOf
  <2>4. QED
    BY <1>4, <2>2, <2>3, WorkerFrame DEF MarkFailed
<1>12. CASE Raise(w)
  <2>1. NoOrphanMessage' /\ RefundReady'
    BY <1>12 DEF Raise, NoOrphanMessage, RefundReady, GoodRefund, Reserve, TaskOf
  <2>2. QED
    BY <1>12, <2>1, WorkerFrame DEF Raise
<1>5. CASE CommitRefund(w)
  BY <1>5, TaskCommitRefund
<1>6. CASE Retry(w)
  <2>1. NoOrphanMessage'
    <3> DEFINE n == wmsg[w][2]
               next == <<TaskOf(w), n + 1>>
    <3>1. wpc[w] = "retry" /\ wmsg[w] \in Message /\ n \in Nat
          /\ RetryLimit(kind[TaskOf(w)]) \in Nat
      BY <1>6, <1>w DEF Retry, Message, RetryLimit
    <3>2. \A m \in Message : queue'[m] > 0 =>
            queue[m] > 0 \/ (m = next /\ n < RetryLimit(kind[TaskOf(w)]))
      BY <1>6, <3>1 DEF Retry
    <3>3. \A m \in Message : queue'[m] > 0 =>
            status[m[1]] # "absent" /\ m[2] <= RetryLimit(kind[m[1]])
      BY <1>w, <3>1, <3>2 DEF NoOrphanMessage
    <3>4. \A v \in Worker : wpc'[v] # "idle" => wpc[v] # "idle" /\ wmsg'[v] = wmsg[v]
      BY <1>6, <3>1 DEF Retry
    <3>5. QED
      BY <1>6, <3>3, <3>4 DEF Retry, NoOrphanMessage, RetryLimit
  <2>2. RefundReady'
    BY <1>6 DEF Retry, RefundReady, GoodRefund, Reserve, TaskOf
  <2>3. QED
    BY <1>6, <2>1, <2>2, WorkerFrame DEF Retry
<1>7. CASE Finish(w)
  <2>1. NoOrphanMessage' /\ RefundReady'
    BY <1>7 DEF Finish, ToIdle, NoOrphanMessage, RefundReady, GoodRefund, Reserve, TaskOf
  <2>2. QED
    BY <1>7, <2>1, WorkerFrame DEF Finish
<1>8. CASE LoseRefund(w)
  <2>1. NoOrphanMessage' /\ RefundReady'
    BY <1>8 DEF LoseRefund, ToRetry, NoOrphanMessage, RefundReady, GoodRefund, Reserve, TaskOf
  <2>2. QED
    BY <1>8, <2>1, WorkerFrame DEF LoseRefund
<1>9. CASE Crash(w)
  <2>1. NoOrphanMessage'
    BY <1>9, <1>w DEF Crash, ToIdle, NoOrphanMessage, TaskOf
  <2>2. RefundReady'
    BY <1>9 DEF Crash, ToIdle, RefundReady, GoodRefund, Reserve, TaskOf
  <2>3. QED
    BY <1>9, <2>1, <2>2, WorkerFrame DEF Crash
<1>10. CASE Redeliver(w)
  <2>1. NoOrphanMessage'
    BY <1>10, <1>w DEF Redeliver, NoOrphanMessage, TaskOf
  <2>2. RefundReady'
    BY <1>10 DEF Redeliver, RefundReady, GoodRefund, Reserve, TaskOf
  <2>3. QED
    BY <1>10, <2>1, <2>2, WorkerFrame DEF Redeliver
<1>11. QED
  BY <1>1, <1>2, <1>3, <1>4, <1>5, <1>6, <1>7, <1>8, <1>9, <1>10, <1>12 DEF WorkerStep

\* Cleanup fails committed tasks only, and never claims an exception.
LEMMA TaskCleanup ==
  ASSUME AllInv,
         \/ \E t \in Request : Age(t)
         \/ CleanupScan \/ CleanupCommit \/ CleanupAborts \/ UNCHANGED vars
  PROVE  TaskInv'
<1>t. TypeOK /\ StageInv /\ NoOrphanMessage /\ RefundReady
  BY DEF AllInv, TypeInv, TaskInv
<1> USE <1>t DEF TypeOK, dbVars, requestVars, workerVars
<1>1. ASSUME status' = status, error' = error, queue' = queue, txs' = txs,
             UNCHANGED requestVars, UNCHANGED workerVars,
             scanned' \in {scanned, {}, StaleTasks}
      PROVE  TaskInv'
  <2>1. NoOrphanMessage' /\ RefundReady'
    BY <1>1 DEF NoOrphanMessage, RetryLimit, RefundReady, GoodRefund, Reserve, TaskOf
  <2>2. QED
    BY <1>1, <2>1, WorkerFrame DEF StaleTasks
<1>2. CASE CleanupCommit
  <2>1. \A t \in Request : status[t] = "absent" <=> status'[t] = "absent"
    BY <1>2 DEF CleanupEnds, CleanupCommit, StageInv
  <2>2. RefundReady'
    BY <1>2 DEF CleanupEnds, CleanupCommit, RefundReady, GoodRefund, Reserve, TaskOf
  <2>3. \A m \in Message : status[m[1]] # "absent" => status'[m[1]] # "absent"
    BY <2>1 DEF Message
  <2>4. NoOrphanMessage'
    BY <1>2, <2>3 DEF CleanupEnds, CleanupCommit, NoOrphanMessage, RetryLimit, AllInv, TypeInv, BusyInv
  <2>5. \A t \in Request : error'[t] = error[t] \/ error'[t] # "exception"
    BY <1>2 DEF CleanupEnds, CleanupCommit
  <2>6. QED
    BY <1>2, <2>1, <2>2, <2>4, <2>5, WorkerFrame DEF CleanupEnds, CleanupCommit
<1>3. QED
  BY <1>1, <1>2 DEF Age, CleanupScan, CleanupAborts, CleanupEnds, vars

-----------------------------------------------------------------------------
\* The inductive invariant of the whole pipeline.
THEOREM TaskInvariant == Spec => []AllInv
<1>1. AllInv /\ [Next]_vars => TaskInv'
  BY StepCases, TaskRequest, TaskWorker, TaskCleanup
<1>2. AllInv <=> TypeInv /\ SolvencyInv /\ LedgerInv /\ TaskInv
  BY DEF AllInv
<1>3. QED
  BY <1>1, <1>2, TaskInit, TypeInvariant, SolvencyInvariant, LedgerInvariant, PTL DEF Spec

\* A task exists exactly when a row reserving its whole price does.
THEOREM TasksArePaidFor == Spec => []BackedByReserve
<1>1. AllInv => BackedByReserve
  BY DEF AllInv, TaskInv
<1>2. QED
  BY <1>1, TaskInvariant, PTL

\* Every refund returns the task's price, neither more nor less, and never more
\* bonus credits than were reserved.
THEOREM RefundsAreExact == Spec => []RefundExact
<1>1. AllInv => RefundExact
  BY DEF AllInv, TaskInv
<1>2. QED
  BY <1>1, TaskInvariant, PTL

\* No worker ever receives a message for an unknown task or a spent attempt.
THEOREM MessagesAreKnown == Spec => []NoOrphanMessage
<1>1. AllInv => NoOrphanMessage
  BY DEF AllInv, TaskInv
<1>2. QED
  BY <1>1, TaskInvariant, PTL

\* A task that shows an exception has been refunded, whatever crashed meanwhile.
THEOREM ErrorsAreRefunded == Spec => []ErrorMeansRefund
<1>1. AllInv => ErrorMeansRefund
  BY DEF AllInv, TaskInv
<1>2. QED
  BY <1>1, TaskInvariant, PTL

-----------------------------------------------------------------------------
(* The pipeline keeps the contract: each commit of a session, each begin,  *)
(* completion, refund and cleanup is a step of PredictionContract, and     *)
(* nothing else is visible there.                                          *)

\* The sum the model writes with RowTotal is the sum of a function.
LEMMA CreditsAreSum ==
  ASSUME NEW S
  PROVE  MapThenSumSet(RowTotal, S) = SumFunctionOnSet([x \in S |-> RowTotal(x)], S)
<1> DEFINE f == [x \in S |-> RowTotal(x)]
           Direct(g) == [s \in SUBSET S |-> IF s = {} THEN 0
                           ELSE RowTotal(Pick(s)) + g[s \ {Pick(s)}]]
           ByFunction(g) == [s \in SUBSET S |-> SumStep(f, g, s)]
<1>1. ASSUME NEW g PROVE Direct(g) = ByFunction(g)
  <2>1. ASSUME NEW s \in SUBSET S, s # {} PROVE RowTotal(Pick(s)) = f[Pick(s)]
    <3>1. Pick(s) \in S
      BY <2>1, PickMember
    <3>2. QED
      BY <3>1
  <2>2. QED
    BY <2>1 DEF SumStep
<1>2. MapThenSumSet(RowTotal, S) = (CHOOSE g : g = Direct(g))[S]
  BY DEF MapThenSumSet, MapThenFoldSet, Pick
<1>3. Fold(f, S) = CHOOSE g : g = ByFunction(g)
  BY DEF Fold
<1> HIDE DEF Direct, ByFunction
<1>4. (CHOOSE g : g = Direct(g)) = (CHOOSE g : g = ByFunction(g))
  BY <1>1, Zenon
<1>5. QED
  BY <1>2, <1>3, <1>4, SumIsFold

\* The credits of no rows, of rows, and of one row more.
LEMMA CreditsOfRows ==
  ASSUME NEW S, IsFiniteSet(S), S \subseteq Row
  PROVE  /\ MapThenSumSet(RowTotal, {}) = 0
         /\ MapThenSumSet(RowTotal, S) \in Int
         /\ \A x \in Row \ S : MapThenSumSet(RowTotal, S \cup {x})
                               = MapThenSumSet(RowTotal, S) + RowTotal(x)
<1>t. \A x \in Row : RowTotal(x) \in Int
  BY DEF RowTotal, Row
<1>1. MapThenSumSet(RowTotal, {}) = 0
  BY CreditsAreSum, SumEquation, FS_EmptySet
<1>2. MapThenSumSet(RowTotal, S) \in Int
  <2>1. SumFunctionOnSet([x \in S |-> RowTotal(x)], S) \in Int
    BY <1>t, SumType
  <2>2. QED
    BY <2>1, CreditsAreSum
<1>3. ASSUME NEW x \in Row, x \notin S
      PROVE  MapThenSumSet(RowTotal, S \cup {x}) = MapThenSumSet(RowTotal, S) + RowTotal(x)
  <2> DEFINE f == [y \in S \cup {x} |-> RowTotal(y)]
             g == [y \in S |-> RowTotal(y)]
  <2>1. \A y \in S \cup {x} : f[y] = RowTotal(y) /\ f[y] \in Int
    BY <1>t
  <2>2. \A y \in S : f[y] = g[y]
    OBVIOUS
  <2>3. SumFunctionOnSet(f, S \cup {x}) = MapThenSumSet(RowTotal, S \cup {x})
        /\ SumFunctionOnSet(g, S) = MapThenSumSet(RowTotal, S)
    BY CreditsAreSum
  <2> HIDE DEF f, g
  <2>4. SumFunctionOnSet(f, S \cup {x}) = f[x] + SumFunctionOnSet(f, S)
    BY <1>3, <2>1, SumAdd
  <2>5. SumFunctionOnSet(f, S) = SumFunctionOnSet(g, S)
    BY <2>2, SumCongruent
  <2>6. f[x] = RowTotal(x) /\ RowTotal(x) \in Int
    BY <1>t, <2>1
  <2>7. MapThenSumSet(RowTotal, S \cup {x}) = RowTotal(x) + MapThenSumSet(RowTotal, S)
    BY <2>3, <2>4, <2>5, <2>6
  <2>8. \A a, b \in Int : a + b = b + a
    OBVIOUS
  <2>9. QED
    BY <1>2, <2>6, <2>7, <2>8
<1>4. QED
  BY <1>1, <1>2, <1>3

-----------------------------------------------------------------------------
\* What the contract sees of the pipeline.
Held == [t \in Request |-> -MapThenSumSet(RowTotal, Reserve(t))]
Repaid == [t \in Request |-> MapThenSumSet(RowTotal, Refunds(t))]
Charges == {Price * order[2] : order \in Order}

\* The contract's initial state and steps, in terms of these.
LEMMA ContractMapped ==
  /\ Contract!Init <=> /\ status = [t \in Request |-> "absent"]
                       /\ Held = [t \in Request |-> 0] /\ Repaid = [t \in Request |-> 0]
  /\ \A t : Contract!Accept(t) <=> \E amount \in Charges :
       /\ status[t] = "absent" /\ status' = [status EXCEPT ![t] = "pending"]
       /\ Held' = [Held EXCEPT ![t] = amount] /\ Repaid' = Repaid
  /\ \A t : Contract!Start(t) <=>
       /\ status[t] # "absent" /\ status' = [status EXCEPT ![t] = "processing"]
       /\ Held' = Held /\ Repaid' = Repaid
  /\ \A t : Contract!Complete(t) <=>
       /\ status[t] \in Contract!Begun /\ status' = [status EXCEPT ![t] = "completed"]
       /\ Held' = Held /\ Repaid' = Repaid
  /\ \A t : Contract!Fail(t) <=>
       /\ status[t] # "absent" /\ status' = [status EXCEPT ![t] = "failed"]
       /\ Repaid' = [Repaid EXCEPT ![t] = @ + Held[t]] /\ Held' = Held
  /\ \A t : Contract!Repay(t) <=>
       /\ status[t] \in Contract!Begun
       /\ Repaid' = [Repaid EXCEPT ![t] = @ + Held[t]] /\ status' = status /\ Held' = Held
  /\ \A S : Contract!TimeOut(S) <=>
       /\ \A t \in S : status[t] \in Contract!Begun
       /\ status' = [t \in Request |-> IF t \in S THEN "failed" ELSE status[t]]
       /\ Held' = Held /\ Repaid' = Repaid
  /\ UNCHANGED Contract!vars <=> status' = status /\ Held' = Held /\ Repaid' = Repaid
BY DEF Contract!Init, Contract!Accept, Contract!Start, Contract!Complete, Contract!Fail,
       Contract!Repay, Contract!TimeOut, Contract!vars, Held, Repaid, Charges

-----------------------------------------------------------------------------
Begun == {"processing", "completed", "failed"}

\* What the refinement needs besides AllInv: prices are those of an order, and
\* what a worker completes or has loaded as begun and what cleanup fails has begun.
BegunInv ==
  /\ \A r \in Request : IsPrediction(r) => cost[r] \in Charges
  /\ \A w \in Worker : wpc[w] = "predict" => status[TaskOf(w)] \in Begun
  /\ \A w \in Worker : wtask[w].status \in Begun =>
       TaskOf(w) \in Request /\ status[TaskOf(w)] \in Begun
  /\ \A t \in scanned : status[t] \in Begun

\* Finitely many rows were ever committed.
FiniteLog == IsFiniteSet(txs)

ContractInv == AllInv /\ BegunInv /\ FiniteLog

HeldIsPrice == Held = [t \in Request |-> IF status[t] = "absent" THEN 0 ELSE cost[t]]

\* What is held for a task is its price from the commit on.
LEMMA HeldValue == AllInv => HeldIsPrice
<1> SUFFICES ASSUME AllInv, NEW t \in Request
             PROVE  -MapThenSumSet(RowTotal, Reserve(t))
                    = IF status[t] = "absent" THEN 0 ELSE cost[t]
  BY DEF Held, HeldIsPrice
<1>e. MapThenSumSet(RowTotal, {}) = 0
  BY CreditsOfRows, FS_EmptySet
<1>1. CASE status[t] = "absent"
  <2>1. Reserve(t) = {}
    BY <1>1 DEF AllInv, TaskInv, BackedByReserve
  <2>2. QED
    BY <1>1, <1>e, <2>1
<1>2. CASE status[t] # "absent"
  <2>1. PICK x \in Reserve(t) : x \in Row /\ RowTotal(x) = -cost[t]
    BY <1>2 DEF AllInv, TaskInv, BackedByReserve, TypeInv, TypeOK, Reserve
  <2>2. Reserve(t) = {x}
    BY <2>1 DEF Reserve, AllInv, LedgerInv, IdsUnique
  <2>3. MapThenSumSet(RowTotal, {} \cup {x}) = 0 + RowTotal(x)
    BY <1>e, <2>1, CreditsOfRows, FS_EmptySet
  <2>4. cost[t] \in Nat /\ {} \cup {x} = {x}
    BY DEF AllInv, TypeInv, TypeOK
  <2>5. MapThenSumSet(RowTotal, Reserve(t)) = RowTotal(x)
    BY <2>1, <2>2, <2>3, <2>4
  <2>6. QED
    BY <1>2, <2>1, <2>4, <2>5
<1>3. QED
  BY <1>1, <1>2

\* The same after a step.
LEMMA HeldAfter == AllInv' => HeldIsPrice'
BY HeldValue, PTL

\* A step that adds no row and lets no task appear leaves both sums alone.
LEMMA SameSums ==
  ASSUME AllInv, AllInv', txs' = txs,
         \A t \in Request : status'[t] = "absent" <=> status[t] = "absent",
         \A t \in Request : status[t] # "absent" => cost'[t] = cost[t]
  PROVE  Held' = Held /\ Repaid' = Repaid
<1>1. Held' = Held
  BY HeldValue, HeldAfter DEF HeldIsPrice
<1>2. \A t \in Request : Refunds(t)' = Refunds(t)
  BY DEF Refunds
<1>3. QED
  BY <1>1, <1>2 DEF Repaid

\* The commit of a prediction is the contract's Accept, any other one a stutter.
LEMMA CommitRefines ==
  ASSUME ContractInv, ContractInv', NEW r \in Request, Commit(r)
  PROVE  Contract!Accept(r) \/ UNCHANGED Contract!vars
<1>1. txs' = txs \cup {CommittedRow(r)} /\ CommittedRow(r).reason = Reason(r)
  BY CommitAddsOneRow, CommittedRowFields DEF ContractInv, AllInv
<1>2. \A t \in Request : Refunds(t)' = Refunds(t)
  BY <1>1 DEF Refunds, Reason
<1>3. Repaid' = Repaid
  BY <1>2 DEF Repaid
<1>4. status[r] = "absent" /\ cost' = cost /\ pc[r] = "commit"
  BY DEF Commit, ContractInv, AllInv, TaskInv, StageInv
<1>5. CASE IsPrediction(r)
  <2>1. status' = [status EXCEPT ![r] = "pending"] /\ cost[r] \in Charges
    BY <1>5 DEF Commit, ContractInv, BegunInv
  <2>2. Held' = [Held EXCEPT ![r] = cost[r]]
    BY <1>4, <2>1, HeldValue, HeldAfter DEF HeldIsPrice, ContractInv, AllInv, TypeInv, TypeOK
  <2>3. QED
    BY <1>3, <1>4, <2>1, <2>2, ContractMapped
<1>6. CASE ~ IsPrediction(r)
  <2>1. status' = status
    BY <1>6 DEF Commit
  <2>2. Held' = Held
    BY <1>4, <2>1, HeldValue, HeldAfter DEF HeldIsPrice, ContractInv
  <2>3. QED
    BY <1>3, <2>1, <2>2, ContractMapped
<1>7. QED
  BY <1>5, <1>6

\* Every other step of an API session is invisible to the contract.
LEMMA SessionStutters ==
  ASSUME ContractInv, ContractInv', NEW r \in Request, ~ Commit(r),
         \/ OpenPrediction(r) \/ RefuseCredits(r) \/ OpenTopUp(r) \/ OpenPromo(r)
         \/ ActivationRefused(r) \/ RequestStep(r) \/ RequestDies(r)
  PROVE  UNCHANGED Contract!vars
<1>1. txs' = txs /\ status' = status /\ \A t \in Request : status[t] # "absent" => cost'[t] = cost[t]
  <2>1. pc[r] = "idle" => status[r] = "absent"
    BY DEF ContractInv, AllInv, TaskInv, StageInv
  <2>2. cost' = cost \/ (pc[r] = "idle" /\ \E n : cost' = [cost EXCEPT ![r] = n])
    BY DEF OpenPrediction, RefuseCredits, OpenTopUp, OpenPromo, Open, ActivationRefused,
           RequestStep, Admission, InsertRows, UpdateWallet, TagReserve, Publish, RequestDies
  <2>3. txs' = txs /\ status' = status
    BY DEF OpenPrediction, RefuseCredits, OpenTopUp, OpenPromo, Open, ActivationRefused, dbVars,
           RequestStep, Admission, InsertRows, UpdateWallet, TagReserve, Publish, RequestDies
  <2>4. QED
    BY <2>1, <2>2, <2>3 DEF ContractInv, AllInv, TypeInv, TypeOK
<1>2. QED
  BY <1>1, SameSums, ContractMapped DEF ContractInv

\* A committed refund is the contract's Fail, or its Repay if the task was loaded as
\* failed: it repays exactly what is held.
LEMMA RefundRefines ==
  ASSUME ContractInv, ContractInv', NEW w \in Worker, CommitRefund(w)
  PROVE  Contract!Fail(TaskOf(w)) \/ Contract!Repay(TaskOf(w))
<1> DEFINE t == TaskOf(w)
           row == RefundRow(w)
<1>1. wpc[w] = "refund" /\ t \in Request /\ status[t] # "absent"
  BY WorkerTaskKnown DEF CommitRefund, ContractInv
<1>2. /\ txs' = txs \cup {row} /\ cost' = cost
      /\ row.reason = "refund" /\ row.task = t /\ row.id = nextId
  BY DEF CommitRefund, RefundRow, requestVars
<1>f. \/ status' = [status EXCEPT ![t] = "failed"]
      \/ status' = status /\ status[t] \in Contract!Begun
  <2>1. CASE wtask[w].status = "failed"
    <3>1. status' = [status EXCEPT ![t] = status[t]] /\ status[t] \in Begun
      BY <2>1 DEF CommitRefund, WriteColumn, ContractInv, BegunInv, Begun
    <3>2. QED
      BY <3>1 DEF ContractInv, AllInv, TypeInv, TypeOK, Begun, Contract!Begun
  <2>2. CASE wtask[w].status # "failed"
    BY <2>2 DEF CommitRefund, WriteColumn
  <2>3. QED
    BY <2>1, <2>2
<1>3. row \in Row
  <2>1. row \in txs' /\ txs' \subseteq Row
    BY <1>2 DEF ContractInv, AllInv, TypeInv, TypeOK
  <2>2. QED
    BY <2>1
<1>4. RowTotal(row) = cost[t]
  <2>1. row.paid = wrefund[w].paid /\ row.bonus = wrefund[w].bonus
    BY DEF RefundRow
  <2>2. QED
    BY <1>1, <2>1 DEF ContractInv, AllInv, TaskInv, RefundReady, GoodRefund, RowTotal
<1>5. row \notin txs
  BY <1>2 DEF ContractInv, AllInv, TypeInv, SequenceInv, TypeOK, Row
<1>t. status \in [Request -> {"absent", "pending", "processing", "completed", "failed"}]
      /\ txs \subseteq Row /\ IsFiniteSet(txs)
  BY DEF ContractInv, FiniteLog, AllInv, TypeInv, TypeOK
<1> HIDE DEF t, row
<1>6. Held[t] = cost[t] /\ Held' = Held
  <2>1. \A s \in Request : status'[s] = "absent" <=> status[s] = "absent"
    BY <1>1, <1>f, <1>t
  <2>2. QED
    BY <1>1, <1>2, <1>t, <2>1, HeldValue, HeldAfter DEF HeldIsPrice, ContractInv
<1>7. \A s \in Request : Refunds(s)' = IF s = t THEN Refunds(s) \cup {row} ELSE Refunds(s)
  BY <1>1, <1>2 DEF Refunds
<1>8. MapThenSumSet(RowTotal, Refunds(t) \cup {row})
      = MapThenSumSet(RowTotal, Refunds(t)) + RowTotal(row)
  <2>1. IsFiniteSet(Refunds(t)) /\ Refunds(t) \subseteq Row /\ row \notin Refunds(t)
    BY <1>5, <1>t, FS_Subset DEF Refunds
  <2>2. QED
    BY <1>3, <2>1, CreditsOfRows
<1>9. Repaid' = [Repaid EXCEPT ![t] = @ + Held[t]]
  <2>1. ASSUME NEW s \in Request
        PROVE  MapThenSumSet(RowTotal, Refunds(s))'
               = IF s = t THEN MapThenSumSet(RowTotal, Refunds(s)) + Held[t]
                          ELSE MapThenSumSet(RowTotal, Refunds(s))
    BY <1>4, <1>6, <1>7, <1>8
  <2>2. QED
    BY <1>1, <2>1 DEF Repaid
<1>10. QED
  BY <1>1, <1>f, <1>6, <1>9, ContractMapped DEF t

\* The other steps of a worker begin or complete a task, or are invisible.
LEMMA WorkerRefines ==
  ASSUME ContractInv, ContractInv', NEW w \in Worker,
         WorkerStep(w) \/ LoseRefund(w) \/ Crash(w) \/ Redeliver(w)
  PROVE  \/ \E t \in Request : \/ Contract!Start(t) \/ Contract!Complete(t)
                               \/ Contract!Fail(t) \/ Contract!Repay(t)
         \/ UNCHANGED Contract!vars
<1>w. wpc[w] # "idle" => TaskOf(w) \in Request /\ status[TaskOf(w)] # "absent"
  BY WorkerTaskKnown DEF ContractInv
<1>t. status \in [Request -> {"absent", "pending", "processing", "completed", "failed"}]
  BY DEF ContractInv, AllInv, TypeInv, TypeOK
<1>1. CASE CommitRefund(w)
  BY <1>1, <1>w, RefundRefines DEF CommitRefund
<1>2. CASE Begin(w)
  <2>1. /\ wpc[w] = "start" /\ txs' = txs /\ cost' = cost
        /\ \/ status' = [status EXCEPT ![TaskOf(w)] = "processing"]
           \/ status' = [status EXCEPT ![TaskOf(w)] = status[TaskOf(w)]]
    BY <1>2 DEF Begin, WriteColumn, requestVars
  <2>2. \/ status' = [status EXCEPT ![TaskOf(w)] = "processing"]
        \/ status' = status
    BY <1>t, <2>1
  <2>3. Held' = Held /\ Repaid' = Repaid
    BY <1>w, <1>t, <2>1, <2>2, SameSums DEF ContractInv
  <2>4. QED
    BY <1>w, <2>1, <2>2, <2>3, ContractMapped
<1>3. CASE Complete(w)
  <2>1. /\ wpc[w] = "predict" /\ txs' = txs /\ cost' = cost
        /\ status' = [status EXCEPT ![TaskOf(w)] = "completed"]
    BY <1>3 DEF Complete, requestVars
  <2>2. Held' = Held /\ Repaid' = Repaid
    BY <1>w, <1>t, <2>1, SameSums DEF ContractInv
  <2>3. status[TaskOf(w)] \in Contract!Begun
    BY <2>1 DEF ContractInv, BegunInv, Begun, Contract!Begun
  <2>4. QED
    BY <1>w, <2>1, <2>2, <2>3, ContractMapped
<1>4. CASE \/ Deliver(w) \/ Raise(w) \/ MarkFailed(w) \/ Retry(w) \/ Finish(w)
           \/ LoseRefund(w) \/ Crash(w) \/ Redeliver(w)
  <2>1. txs' = txs /\ status' = status /\ cost' = cost
    BY <1>4 DEF Deliver, Raise, MarkFailed, Retry, Finish, LoseRefund, Crash, Redeliver,
                dbVars, requestVars
  <2>2. QED
    BY <2>1, SameSums, ContractMapped DEF ContractInv
<1>5. QED
  BY <1>1, <1>2, <1>3, <1>4 DEF WorkerStep

\* A committed cleanup is the contract's TimeOut of the tasks it had loaded.
LEMMA CleanupRefines ==
  ASSUME ContractInv, ContractInv',
         \/ \E t \in Request : Age(t)
         \/ CleanupScan \/ CleanupCommit \/ CleanupAborts \/ UNCHANGED vars
  PROVE  (\E S \in SUBSET Request : Contract!TimeOut(S)) \/ UNCHANGED Contract!vars
<1>1. CASE CleanupCommit
  <2>1. /\ txs' = txs /\ cost' = cost /\ scanned \in SUBSET Request
        /\ status' = [t \in Request |-> IF t \in scanned THEN "failed" ELSE status[t]]
        /\ \A t \in scanned : status[t] \in Contract!Begun
    BY <1>1 DEF CleanupCommit, requestVars, ContractInv, BegunInv, Begun, Contract!Begun,
                AllInv, TypeInv, TypeOK
  <2>2. Held' = Held /\ Repaid' = Repaid
    <3>1. \A t \in scanned : status[t] # "absent"
      BY <2>1 DEF Contract!Begun
    <3>2. QED
      BY <2>1, <3>1, SameSums DEF ContractInv
  <2>3. QED
    BY <2>1, <2>2, ContractMapped
<1>2. CASE (\E t \in Request : Age(t)) \/ CleanupScan \/ CleanupAborts \/ UNCHANGED vars
  <2>1. txs' = txs /\ status' = status /\ cost' = cost
    BY <1>2 DEF Age, CleanupScan, CleanupAborts, CleanupEnds, vars, dbVars, requestVars
  <2>2. QED
    BY <2>1, SameSums, ContractMapped DEF ContractInv
<1>3. QED
  BY <1>1, <1>2

-----------------------------------------------------------------------------
\* Nothing has begun and nothing is logged before the first request.
LEMMA ContractInit == Init => BegunInv /\ FiniteLog
BY FS_EmptySet DEF Init, BegunInv, Begun, FiniteLog, IsPrediction, NoTaskRow

\* The log grows by one row at a time.
LEMMA FiniteLogStep ==
  ASSUME TypeInv, LedgerInv, FiniteLog, [Next]_vars PROVE FiniteLog'
<1>1. \/ txs' = txs
      \/ \E x : txs' = txs \cup {x}
  BY MoneyMoves, CommitAddsOneRow DEF CommitRefund
<1>2. QED
  BY <1>1, FS_AddElement DEF FiniteLog

\* Every step keeps what has begun.
LEMMA BegunStep ==
  ASSUME AllInv, BegunInv, [Next]_vars PROVE BegunInv'
<1> USE DEF BegunInv, Begun
<1>t. TypeOK /\ StageInv
  BY DEF AllInv, TypeInv, TaskInv
<1>b. \A v \in Worker : wpc[v] # "idle" => TaskOf(v) \in Request /\ status[TaskOf(v)] # "absent"
  BY WorkerTaskKnown
<1>1. ASSUME NEW r \in Request,
             \/ OpenPrediction(r) \/ RefuseCredits(r) \/ OpenTopUp(r) \/ OpenPromo(r)
             \/ ActivationRefused(r) \/ RequestStep(r) \/ RequestDies(r)
      PROVE  BegunInv'
  <2>1. \A s \in Request : IsPrediction(s)' => cost'[s] \in Charges
    BY <1>1, <1>t DEF OpenPrediction, RefuseCredits, OpenTopUp, OpenPromo, Open,
       ActivationRefused, RequestStep, Admission, InsertRows, UpdateWallet, TagReserve, Commit,
       Publish, RequestDies, IsPrediction, Charges, TypeOK
  <2>2. wpc' = wpc /\ wmsg' = wmsg /\ wtask' = wtask /\ scanned' = scanned
    BY <1>1 DEF OpenPrediction, RefuseCredits, OpenTopUp, OpenPromo, Open, workerVars,
       ActivationRefused, RequestStep, Admission, InsertRows, UpdateWallet, TagReserve, Commit,
       Publish, RequestDies
  <2>3. \A t \in Request : status[t] # "absent" => status'[t] = status[t]
    <3>1. status' = status \/ (status[r] = "absent" /\ status' = [status EXCEPT ![r] = "pending"])
      BY <1>1, <1>t DEF OpenPrediction, RefuseCredits, OpenTopUp, OpenPromo, Open, dbVars,
         ActivationRefused, RequestStep, Admission, InsertRows, UpdateWallet, TagReserve, Commit,
         Publish, RequestDies, StageInv
    <3>2. QED
      BY <3>1, <1>t DEF TypeOK
  <2>4. QED
    BY <1>b, <1>t, <2>1, <2>2, <2>3 DEF TaskOf, TypeOK
<1>2. ASSUME NEW w \in Worker, WorkerStep(w) \/ LoseRefund(w) \/ Crash(w) \/ Redeliver(w)
      PROVE  BegunInv'
  <2> DEFINE t == TaskOf(w)
  <2>1. UNCHANGED requestVars /\ scanned' = scanned
    BY <1>2 DEF WorkerStep, LoseRefund, Crash, Redeliver, Deliver, Begin, Complete, Raise,
                MarkFailed, CommitRefund, Retry, Finish
  <2>2. \/ status' = status
        \/ wpc[w] # "idle" /\ \E s \in Begun : status' = [status EXCEPT ![t] = s]
    BY <1>2, <1>t DEF WorkerStep, LoseRefund, Crash, Redeliver, Deliver, Begin, Complete, Raise,
                MarkFailed, CommitRefund, Retry, Finish, WriteColumn, dbVars, TypeOK
  <2>3. \A s \in Request : status[s] \in Begun => status'[s] \in Begun
    BY <1>t, <2>2 DEF TypeOK
  <2>4. \A v \in Worker : v # w => wpc'[v] = wpc[v] /\ wmsg'[v] = wmsg[v] /\ wtask'[v] = wtask[v]
    BY <1>2, <1>t DEF WorkerStep, LoseRefund, Crash, Redeliver, Deliver, Begin, Complete, Raise,
                MarkFailed, CommitRefund, Retry, Finish, workerVars, TypeOK, ToIdle, ToRetry, LoadTask
  <2>5. wtask'[w].status \in Begun => TaskOf(w)' \in Request /\ status'[TaskOf(w)'] \in Begun
    <3>1. CASE Deliver(w)
      <4>1. PICK m \in Message : wmsg'[w] = m /\ wtask'[w].status = status[m[1]]
        BY <3>1, <1>t DEF Deliver, LoadTask, TypeOK
      <4>2. m[1] \in Request /\ TaskOf(w)' = m[1] /\ status' = status
        BY <3>1, <4>1 DEF Deliver, dbVars, Message, TaskOf
      <4>3. QED
        BY <4>1, <4>2
    <3>2. CASE Raise(w)
      <4>1. /\ t \in Request /\ TaskOf(w)' = t /\ status' = status
            /\ wtask'[w].status = status[t]
        BY <3>2, <1>b, <1>t DEF Raise, LoadTask, dbVars, TaskOf, TypeOK
      <4>2. QED
        BY <4>1
    <3>3. CASE \/ Begin(w) \/ CommitRefund(w) \/ Finish(w) \/ LoseRefund(w) \/ Crash(w)
      BY <3>3, <1>t DEF Begin, CommitRefund, Finish, LoseRefund, Crash, ToIdle, ToRetry,
                        NoTaskRow, TypeOK
    <3>4. CASE Complete(w) \/ MarkFailed(w) \/ Retry(w) \/ Redeliver(w)
      <4>1. wtask' = wtask /\ TaskOf(w)' = t
        BY <3>4 DEF Complete, MarkFailed, Retry, Redeliver, workerVars, TaskOf
      <4>2. QED
        BY <2>3, <4>1
    <3>5. QED
      BY <1>2, <3>1, <3>2, <3>3, <3>4 DEF WorkerStep
  <2>6. wpc'[w] = "predict" => status'[TaskOf(w)'] \in Begun
    <3>1. CASE Begin(w)
      <4>1. t \in Request /\ TaskOf(w)' = t
            /\ status'[t] = WriteColumn(status[t], wtask[w].status, "processing")
        BY <3>1, <1>b, <1>t DEF Begin, TaskOf, TypeOK
      <4>2. QED
        BY <4>1 DEF WriteColumn
    <3>2. CASE Redeliver(w)
      BY <3>2, <1>b, <2>3 DEF Redeliver, workerVars, TaskOf
    <3>3. CASE ~ Begin(w) /\ ~ Redeliver(w)
      BY <1>2, <1>t, <3>3 DEF WorkerStep, LoseRefund, Crash, Deliver, Complete, Raise,
                MarkFailed, CommitRefund, Retry, Finish, TypeOK, ToIdle, ToRetry
    <3>4. QED
      BY <3>1, <3>2, <3>3
  <2>7. \A v \in Worker : wpc'[v] = "predict" => status'[TaskOf(v)'] \in Begun
    <3>1. \A v \in Worker : v # w /\ wpc[v] = "predict" =>
            TaskOf(v) \in Request /\ TaskOf(v)' = TaskOf(v)
      BY <1>b, <2>4 DEF TaskOf
    <3>2. QED
      BY <2>3, <2>4, <2>6, <3>1
  <2>8. \A v \in Worker : wtask'[v].status \in Begun =>
          TaskOf(v)' \in Request /\ status'[TaskOf(v)'] \in Begun
    <3>1. \A v \in Worker : v # w => TaskOf(v)' = TaskOf(v) /\ wtask'[v] = wtask[v]
      BY <2>4 DEF TaskOf
    <3>2. QED
      BY <2>3, <2>5, <3>1
  <2>9. (\A r \in Request : IsPrediction(r) => cost[r] \in Charges)'
    BY <2>1 DEF requestVars, IsPrediction
  <2>10. \A s \in scanned' : status'[s] \in Begun
    BY <1>t, <2>1, <2>3 DEF TypeOK
  <2>11. QED
    BY <2>7, <2>8, <2>9, <2>10
<1>3. CASE \/ \E t \in Request : Age(t)
           \/ CleanupScan \/ CleanupCommit \/ CleanupAborts \/ UNCHANGED vars
  BY <1>3, <1>b, <1>t DEF Age, CleanupScan, CleanupCommit, CleanupAborts, CleanupEnds, vars,
     requestVars, workerVars, IsPrediction, StaleTasks, dbVars, TypeOK, TaskOf
<1>4. QED
  BY <1>1, <1>2, <1>3, StepCases

\* The strengthened invariant of the refinement.
THEOREM ContractInvariant == Spec => []ContractInv
<1>1. AllInv /\ BegunInv /\ FiniteLog /\ [Next]_vars => BegunInv' /\ FiniteLog'
  BY BegunStep, FiniteLogStep DEF AllInv
<1>2. ContractInv <=> AllInv /\ BegunInv /\ FiniteLog
  BY DEF ContractInv
<1>3. QED
  BY <1>1, <1>2, ContractInit, TaskInvariant, PTL DEF Spec

\* Every behaviour of the pipeline is one the contract of the service allows.
THEOREM PipelineKeepsContract == Spec => KeepsContract
<1>1. Init => Contract!Init
  <2>1. Init => HeldIsPrice
    <3>1. Init => AllInv
      BY TypeInvInit, SolvencyInit, LedgerInit, TaskInit DEF AllInv
    <3>2. QED
      BY <3>1, HeldValue
  <2>2. Init => \A t \in Request : Refunds(t) = {}
    BY DEF Init, Refunds
  <2>3. MapThenSumSet(RowTotal, {}) = 0
    BY CreditsOfRows, FS_EmptySet
  <2>4. Init => Repaid = [t \in Request |-> 0]
    BY <2>2, <2>3 DEF Repaid
  <2>5. QED
    BY <2>1, <2>4, ContractMapped DEF Init, HeldIsPrice
<1>2. ContractInv /\ ContractInv' /\ [Next]_vars => [Contract!Next]_(Contract!vars)
  <2> SUFFICES ASSUME ContractInv, ContractInv', [Next]_vars
               PROVE  Contract!Next \/ UNCHANGED Contract!vars
    OBVIOUS
  <2>1. ASSUME NEW r \in Request,
               \/ OpenPrediction(r) \/ RefuseCredits(r) \/ OpenTopUp(r) \/ OpenPromo(r)
               \/ ActivationRefused(r) \/ RequestStep(r) \/ RequestDies(r)
        PROVE  Contract!Accept(r) \/ UNCHANGED Contract!vars
    BY <2>1, CommitRefines, SessionStutters
  <2>2. QED
    BY <2>1, StepCases, WorkerRefines, CleanupRefines DEF Contract!Next
<1>3. QED
  BY <1>1, <1>2, ContractInvariant, PTL DEF Spec, KeepsContract, Contract!Spec

-----------------------------------------------------------------------------
(* The balance and the log.  A user's movements explain the balance as     *)
(* long as nobody writes a copy of the row that somebody else has changed  *)
(* meanwhile: for a user who sends one request, always.                    *)

\* A session that still means to write holds a copy of user u's row.
CopyHeld(u) ==
  \/ \E r \in Request : Owner[r] = u /\ pc[r] \in Charging
  \/ \E w \in Worker : wpc[w] = "refund" /\ Owner[TaskOf(w)] = u

\* The balance of a user changes only when nobody else holds a copy of the row.
Alone == \A u \in User : wallet'[u] # wallet[u] => ~ CopyHeld(u)'

\* Every such copy is the row as it is.
Fresh ==
  /\ \A r \in Request : pc[r] \in Charging => seen[r] = wallet[Owner[r]]
  /\ \A w \in Worker : wpc[w] = "refund" => wseen[w] = wallet[Owner[TaskOf(w)]]

\* Writing a fresh copy back writes what was assigned.
LEMMA WriteBackFresh ==
  ASSUME NEW loaded \in Wallet, NEW assigned \in Wallet
  PROVE  WriteBack(loaded, loaded, assigned) = assigned
BY DEF Wallet, WriteBack, WriteColumn

\* Copies stay fresh while balances change only alone.
LEMMA FreshStep ==
  ASSUME AllInv, AllInv', Fresh, [Next]_vars, Alone
  PROVE  Fresh'
<1>t. TypeOK
  BY DEF AllInv, TypeInv
<1>1. ASSUME NEW r \in Request,
             \/ OpenPrediction(r) \/ RefuseCredits(r) \/ OpenTopUp(r) \/ OpenPromo(r)
             \/ ActivationRefused(r) \/ RequestStep(r) \/ RequestDies(r)
      PROVE  /\ UNCHANGED workerVars
             /\ \A s \in Request : pc'[s] \in Charging =>
                  \/ pc[s] \in Charging /\ seen'[s] = seen[s]
                  \/ seen'[s] = wallet[Owner[s]]
  <2> USE <1>t DEF TypeOK, workerVars, Charging
  <2>1. CASE OpenPrediction(r)
    BY <2>1 DEF OpenPrediction, Open
  <2>2. CASE RefuseCredits(r) \/ ActivationRefused(r) \/ RequestDies(r) \/ Publish(r)
    BY <2>2 DEF RefuseCredits, ActivationRefused, RequestDies, Publish, Close
  <2>3. CASE OpenTopUp(r)
    BY <2>3 DEF OpenTopUp, Open
  <2>4. CASE OpenPromo(r)
    BY <2>4 DEF OpenPromo, Open
  <2>5. CASE Admission(r) \/ InsertRows(r) \/ UpdateWallet(r) \/ TagReserve(r)
    BY <2>5 DEF Admission, InsertRows, UpdateWallet, TagReserve, Close
  <2>6. CASE Commit(r)
    BY <2>6 DEF Commit, Close
  <2>7. QED
    BY <1>1, <2>1, <2>2, <2>3, <2>4, <2>5, <2>6 DEF RequestStep
<1>2. ASSUME NEW w \in Worker, WorkerStep(w) \/ LoseRefund(w) \/ Crash(w) \/ Redeliver(w)
      PROVE  /\ UNCHANGED requestVars
             /\ \A v \in Worker : wpc'[v] = "refund" =>
                  /\ wmsg'[v] = wmsg[v]
                  /\ \/ wpc[v] = "refund" /\ wseen'[v] = wseen[v]
                     \/ wseen'[v] = wallet[Owner[TaskOf(v)]]
  BY <1>t, <1>2 DEF WorkerStep, LoseRefund, Crash, Redeliver, Deliver, Begin, Complete,
     Raise, MarkFailed, CommitRefund, Retry, Finish, ToIdle, ToRetry, workerVars, TypeOK
<1>3. ASSUME \/ \E t \in Request : Age(t)
             \/ CleanupScan \/ CleanupCommit \/ CleanupAborts \/ UNCHANGED vars
      PROVE  UNCHANGED requestVars /\ UNCHANGED workerVars
  BY <1>3 DEF Age, CleanupScan, CleanupCommit, CleanupAborts, vars
<1>4. ASSUME NEW r \in Request, pc'[r] \in Charging PROVE seen'[r] = wallet'[Owner[r]]
  <2>1. ASSUME NEW u \in User, u = Owner[r] PROVE wallet'[u] = wallet[u]
    <3>1. CopyHeld(u)'
      BY <1>4, <2>1 DEF CopyHeld
    <3>2. QED
      BY <3>1 DEF Alone
  <2>2. wallet'[Owner[r]] = wallet[Owner[r]]
    BY <2>1
  <2>3. seen'[r] = wallet[Owner[r]]
    BY <1>1, <1>2, <1>3, <1>4, StepCases DEF Fresh, requestVars
  <2>4. QED
    BY <2>2, <2>3
<1>5. ASSUME NEW w \in Worker, wpc'[w] = "refund"
      PROVE  wseen'[w] = wallet'[Owner[TaskOf(w)']]
  <2>1. TaskOf(w)' \in Request /\ Owner[TaskOf(w)'] \in User
    <3>1. wmsg'[w] \in Message
      BY <1>5 DEF AllInv, TypeInv, BusyInv
    <3>2. TaskOf(w)' = wmsg'[w][1]
      BY DEF TaskOf
    <3>3. QED
      BY <3>1, <3>2 DEF Message
  <2>2. ASSUME NEW u \in User, u = Owner[TaskOf(w)'] PROVE wallet'[u] = wallet[u]
    <3>1. CopyHeld(u)'
      BY <1>5, <2>2 DEF CopyHeld
    <3>2. QED
      BY <3>1 DEF Alone
  <2>3. wseen'[w] = wallet[Owner[TaskOf(w)']]
    BY <1>1, <1>2, <1>3, <1>5, StepCases DEF Fresh, workerVars, TaskOf
  <2>4. QED
    BY <2>1, <2>2, <2>3
<1>6. QED
  BY <1>4, <1>5 DEF Fresh

-----------------------------------------------------------------------------
\* The sum of a user's movements.
Moved(u) == MapThenSumSet(RowTotal, {x \in txs : x.user = u})

\* One more row of user u moves the sum of u's rows by its total, and no other sum.
LEMMA MovedByRow ==
  ASSUME TypeOK, IsFiniteSet(txs), NEW x \in Row, x \notin txs, txs' = txs \cup {x}
  PROVE  \A u \in User : Moved(u)' = IF u = x.user THEN Moved(u) + RowTotal(x) ELSE Moved(u)
<1> SUFFICES ASSUME NEW u \in User
             PROVE  Moved(u)' = IF u = x.user THEN Moved(u) + RowTotal(x) ELSE Moved(u)
  OBVIOUS
<1> DEFINE S == {y \in txs : y.user = u}
<1>1. IsFiniteSet(S) /\ S \subseteq Row /\ x \notin S
  BY FS_Subset DEF TypeOK
<1>2. {y \in txs' : y.user = u} = IF u = x.user THEN S \cup {x} ELSE S
  OBVIOUS
<1> HIDE DEF S
<1>3. MapThenSumSet(RowTotal, S \cup {x}) = MapThenSumSet(RowTotal, S) + RowTotal(x)
  BY <1>1, CreditsOfRows
<1>4. QED
  BY <1>2, <1>3 DEF Moved, S

\* A fresh copy that moved by a row's total moves balance and log alike.
LEMMA BalanceMove ==
  ASSUME TypeOK, TypeOK', IsFiniteSet(txs), LedgerMatchesBalance,
         NEW x \in Row, x \notin txs, txs' = txs \cup {x},
         \A u \in User : u # x.user => wallet'[u] = wallet[u],
         Total(wallet'[x.user]) = Total(wallet[x.user]) + RowTotal(x)
  PROVE  LedgerMatchesBalance'
<1>1. \A u \in User : Moved(u)' = IF u = x.user THEN Moved(u) + RowTotal(x) ELSE Moved(u)
  BY MovedByRow
<1>2. \A u \in User : Moved(u) \in Int /\ Total(wallet[u]) = InitPaid + InitBonus + Moved(u)
  <2>1. \A u \in User : IsFiniteSet({y \in txs : y.user = u}) /\ {y \in txs : y.user = u} \subseteq Row
    BY FS_Subset DEF TypeOK
  <2>2. QED
    BY <2>1, CreditsOfRows DEF Moved, LedgerMatchesBalance
<1>3. RowTotal(x) \in Int
  BY DEF RowTotal, Row
<1>4. ASSUME NEW u \in User PROVE Total(wallet'[u]) = InitPaid + InitBonus + Moved(u)'
  <2>1. CASE u = x.user
    BY <1>1, <1>2, <1>3, <2>1
  <2>2. CASE u # x.user
    BY <1>1, <1>2, <2>2
  <2>3. QED
    BY <2>1, <2>2
<1>5. QED
  BY <1>4 DEF LedgerMatchesBalance, Moved

\* What a session or a worker commits from a fresh copy.
LEMMA BalanceStep ==
  ASSUME ContractInv, ContractInv', Fresh, LedgerMatchesBalance, [Next]_vars
  PROVE  LedgerMatchesBalance'
<1>t. TypeOK /\ TypeOK' /\ IsFiniteSet(txs)
  BY DEF ContractInv, AllInv, TypeInv, FiniteLog
<1>1. CASE wallet' = wallet /\ txs' = txs
  BY <1>1 DEF LedgerMatchesBalance
<1>2. ASSUME NEW r \in Request, Commit(r) PROVE LedgerMatchesBalance'
  <2> DEFINE x == CommittedRow(r)
  <2>1. txs' = txs \cup {x} /\ x \in Row /\ x \notin txs
        /\ x.user = Owner[r] /\ x.paid = OwnRow(r).paid /\ x.bonus = OwnRow(r).bonus
    BY <1>2, CommitAddsOneRow, CommittedRowFields
       DEF Commit, ContractInv, AllInv, LedgerInv, IdsDrawn
  <2>2. seen[r] = wallet[Owner[r]] /\ seen[r] \in Wallet /\ Assigned(r) \in Wallet
    BY <1>t, <1>2, AssignedType DEF Commit, Fresh, Charging, TypeOK
  <2>3. wallet' = [wallet EXCEPT ![Owner[r]] = Assigned(r)]
    BY <1>2, <2>2, WriteBackFresh DEF Commit
  <2>4. Total(Assigned(r)) = Total(seen[r]) + RowTotal(x)
    BY <2>1, <2>2 DEF OwnRow, RowTotal, Total, Wallet
  <2> HIDE DEF x
  <2>5. QED
    BY <1>t, <2>1, <2>2, <2>3, <2>4, BalanceMove DEF TypeOK
<1>3. ASSUME NEW w \in Worker, CommitRefund(w) PROVE LedgerMatchesBalance'
  <2> DEFINE x == RefundRow(w)
             u == Owner[TaskOf(w)]
             paidOut == RefundCredits(wseen[w], wrefund[w].bonus, wrefund[w].paid)
  <2>1. /\ txs' = txs \cup {x} /\ x.user = u /\ x.id = nextId
        /\ x.paid = wrefund[w].paid /\ x.bonus = wrefund[w].bonus
    BY <1>3 DEF CommitRefund, RefundRow
  <2>2. x \in Row /\ x \notin txs
    <3>1. x \in txs' /\ txs' \subseteq Row
      BY <1>t, <2>1 DEF TypeOK
    <3>2. \A y \in txs : y.id # nextId
      BY <1>t DEF ContractInv, AllInv, TypeInv, SequenceInv, TypeOK, Row
    <3>3. QED
      BY <2>1, <3>1, <3>2
  <2>3. /\ wseen[w] = wallet[u] /\ wseen[w] \in Wallet /\ wrefund[w] \in Wallet
        /\ TaskOf(w) \in Request /\ u \in User
    BY <1>3, <1>t, WorkerTaskKnown DEF CommitRefund, Fresh, TypeOK, ContractInv
  <2>4. paidOut \in Wallet /\ Total(paidOut) = Total(wseen[w]) + RowTotal(x)
    BY <2>1, <2>3 DEF RefundCredits, RowTotal, Total, Wallet
  <2>5. wallet' = [wallet EXCEPT ![u] = paidOut]
    <3>1. wallet' = [wallet EXCEPT ![u] = WriteBack(wallet[u], wseen[w], paidOut)]
      BY <1>3 DEF CommitRefund
    <3>2. WriteBack(wallet[u], wseen[w], paidOut) = paidOut
      BY <2>3, <2>4, WriteBackFresh
    <3>3. QED
      BY <3>1, <3>2
  <2> HIDE DEF x, u, paidOut
  <2>6. QED
    BY <1>t, <2>1, <2>2, <2>3, <2>4, <2>5, BalanceMove DEF TypeOK
<1>4. \/ wallet' = wallet /\ txs' = txs
      \/ \E r \in Request : Commit(r)
      \/ \E w \in Worker : CommitRefund(w)
  BY MoneyMoves
<1>5. QED
  BY <1>1, <1>2, <1>3, <1>4

\* As long as balances change only while nobody else holds a copy of the row,
\* the logged movements explain every balance.
THEOREM BalanceExplained == Spec /\ [][Alone]_vars => []LedgerMatchesBalance
<1>1. Init => Fresh /\ LedgerMatchesBalance
  <2>1. MapThenSumSet(RowTotal, {}) = 0
    BY CreditsOfRows, FS_EmptySet
  <2> SUFFICES ASSUME Init PROVE Fresh /\ LedgerMatchesBalance
    OBVIOUS
  <2>2. Fresh
    BY DEF Init, Fresh, Charging
  <2>3. ASSUME NEW u \in User
        PROVE  Total(wallet[u]) = InitPaid + InitBonus
                                  + MapThenSumSet(RowTotal, {x \in txs : x.user = u})
    <3>1. {x \in txs : x.user = u} = {}
      BY DEF Init
    <3>2. Total(wallet[u]) = InitPaid + InitBonus
      BY DEF Init, Total
    <3>3. MapThenSumSet(RowTotal, {x \in txs : x.user = u}) = 0
      BY <2>1, <3>1
    <3>4. QED
      BY <3>2, <3>3
  <2>4. QED
    BY <2>2, <2>3 DEF LedgerMatchesBalance
<1>2. ContractInv /\ ContractInv' /\ Fresh /\ LedgerMatchesBalance /\ [Next]_vars /\ [Alone]_vars
      => Fresh' /\ LedgerMatchesBalance'
  <2> SUFFICES ASSUME ContractInv, ContractInv', Fresh, LedgerMatchesBalance, [Next]_vars,
                      [Alone]_vars
               PROVE  Fresh' /\ LedgerMatchesBalance'
    OBVIOUS
  <2>1. Alone
    BY DEF Alone, vars, dbVars
  <2>2. QED
    BY <2>1, FreshStep, BalanceStep DEF ContractInv
<1>3. QED
  BY <1>1, <1>2, ContractInvariant, PTL DEF Spec

-----------------------------------------------------------------------------
\* The row lock of a task: one worker at a time is between marking it failed
\* and committing its refund, though several may work on the task.
OneRefunder == \A v, w \in Worker :
  wpc[v] = "refund" /\ wpc[w] = "refund" /\ TaskOf(v) = TaskOf(w) => v = w

\* The lock is kept by every step.
LEMMA OneRefunderStep ==
  ASSUME AllInv, OneRefunder, [Next]_vars PROVE OneRefunder'
<1>t. TypeOK
  BY DEF AllInv, TypeInv
<1>1. ASSUME UNCHANGED workerVars PROVE OneRefunder'
  BY <1>1 DEF OneRefunder, TaskOf, workerVars
<1>2. ASSUME NEW w \in Worker, WorkerStep(w) \/ LoseRefund(w) \/ Crash(w) \/ Redeliver(w)
      PROVE  OneRefunder'
  <2>1. CASE MarkFailed(w)
    <3>1. \A v \in Worker : wpc[v] = "refund" => TaskOf(v) # TaskOf(w)
      BY <2>1 DEF MarkFailed, TaskRowFree
    <3>2. \A v \in Worker : v # w => wpc'[v] = wpc[v]
      BY <2>1, <1>t DEF MarkFailed, TypeOK
    <3>3. \A v \in Worker : TaskOf(v)' = TaskOf(v)
      BY <2>1 DEF MarkFailed, TaskOf
    <3>4. QED
      BY <3>1, <3>2, <3>3 DEF OneRefunder
  <2>2. CASE ~ MarkFailed(w)
    <3>1. \A v \in Worker : wpc'[v] = "refund" => wpc[v] = "refund" /\ wmsg'[v] = wmsg[v]
      BY <1>2, <1>t, <2>2 DEF WorkerStep, LoseRefund, Crash, Redeliver, Deliver, Begin, Complete,
         Raise, CommitRefund, Retry, Finish, ToIdle, ToRetry, workerVars, TypeOK
    <3>2. \A v \in Worker : wpc'[v] = "refund" => wpc[v] = "refund" /\ TaskOf(v)' = TaskOf(v)
      BY <3>1 DEF TaskOf
    <3>3. QED
      BY <3>2 DEF OneRefunder
  <2>3. QED
    BY <2>1, <2>2
<1>3. ASSUME NEW r \in Request,
             \/ OpenPrediction(r) \/ RefuseCredits(r) \/ OpenTopUp(r) \/ OpenPromo(r)
             \/ ActivationRefused(r) \/ RequestStep(r) \/ RequestDies(r)
      PROVE  UNCHANGED workerVars
  BY <1>3 DEF OpenPrediction, RefuseCredits, OpenTopUp, OpenPromo, Open, ActivationRefused,
     RequestStep, Admission, InsertRows, UpdateWallet, TagReserve, Commit, Publish, RequestDies
<1>4. ASSUME \/ \E t \in Request : Age(t)
             \/ CleanupScan \/ CleanupCommit \/ CleanupAborts \/ UNCHANGED vars
      PROVE  UNCHANGED workerVars
  BY <1>4 DEF Age, CleanupScan, CleanupCommit, CleanupAborts, vars
<1>5. QED
  BY <1>1, <1>2, <1>3, <1>4, StepCases

\* Where no user sends two requests, balances change alone: a task has no worker
\* before its session's commit, and its refunds exclude one another.
LEMMA OneRequestAlone ==
  ASSUME AllInv, OneRefunder, [Next]_vars, \A r, s \in Request : Owner[r] = Owner[s] => r = s
  PROVE  Alone
<1>t. TypeOK
  BY DEF AllInv, TypeInv
<1>k. \A w \in Worker : wpc[w] = "refund" => TaskOf(w) \in Request /\ status[TaskOf(w)] # "absent"
  BY WorkerTaskKnown
<1>s. \A r \in Request : pc[r] \in Charging => status[r] = "absent"
  BY DEF AllInv, TaskInv, StageInv, Charging
<1>1. CASE wallet' = wallet /\ txs' = txs
  BY <1>1 DEF Alone
<1>2. ASSUME NEW r \in Request, Commit(r) PROVE Alone
  <2>1. \A u \in User : wallet'[u] # wallet[u] => u = Owner[r]
    BY <1>2, <1>t DEF Commit, TypeOK
  <2>2. \A s \in Request : pc'[s] \in Charging => s # r
    BY <1>2, <1>t DEF Commit, Close, Charging, TypeOK
  <2>3. \A w \in Worker : wpc'[w] = "refund" => wpc[w] = "refund" /\ TaskOf(w)' = TaskOf(w)
    BY <1>2 DEF Commit, workerVars, TaskOf
  <2>4. status[r] = "absent"
    BY <1>2, <1>s DEF Commit, Charging
  <2>5. ~ CopyHeld(Owner[r])'
    BY <1>k, <2>2, <2>3, <2>4 DEF CopyHeld
  <2>6. QED
    BY <2>1, <2>5 DEF Alone
<1>3. ASSUME NEW w \in Worker, CommitRefund(w) PROVE Alone
  <2>1. TaskOf(w) \in Request /\ status[TaskOf(w)] # "absent" /\ wpc[w] = "refund"
    BY <1>3, <1>k DEF CommitRefund
  <2>2. \A u \in User : wallet'[u] # wallet[u] => u = Owner[TaskOf(w)]
    BY <1>3, <1>t DEF CommitRefund, TypeOK
  <2>3. pc' = pc
    BY <1>3 DEF CommitRefund, requestVars
  <2>4. \A v \in Worker : wpc'[v] = "refund" => v # w /\ wpc[v] = "refund" /\ TaskOf(v)' = TaskOf(v)
    BY <1>3, <1>t DEF CommitRefund, ToRetry, TypeOK, TaskOf
  <2>5. \A v \in Worker : v # w /\ wpc[v] = "refund" => Owner[TaskOf(v)] # Owner[TaskOf(w)]
    BY <1>k, <2>1 DEF OneRefunder
  <2>6. \A r \in Request : pc[r] \in Charging => Owner[r] # Owner[TaskOf(w)]
    BY <1>s, <2>1
  <2>7. ASSUME NEW u \in User, wallet'[u] # wallet[u] PROVE ~ CopyHeld(u)'
    <3>1. u = Owner[TaskOf(w)]
      BY <2>2, <2>7
    <3>2. QED
      BY <2>3, <2>4, <2>5, <2>6, <3>1 DEF CopyHeld
  <2>8. QED
    BY <2>7 DEF Alone
<1>4. QED
  BY <1>1, <1>2, <1>3, MoneyMoves

\* A user who sends one request has a balance that the log explains, through all
\* retries, crashes, redeliveries and competing workers.
THEOREM OneRequestExplained ==
  ASSUME \A r, s \in Request : Owner[r] = Owner[s] => r = s
  PROVE  Spec => []LedgerMatchesBalance
<1>1. Init => OneRefunder
  BY DEF Init, OneRefunder
<1>2. AllInv /\ OneRefunder /\ [Next]_vars => OneRefunder' /\ [Alone]_vars
  BY OneRefunderStep, OneRequestAlone
<1>3. Spec => [][Alone]_vars
  BY <1>1, <1>2, TaskInvariant, PTL DEF Spec
<1>4. QED
  BY <1>3, BalanceExplained, PTL

-----------------------------------------------------------------------------
(* How often a task can still be refunded.  A message of attempt n is      *)
(* worth the attempts that it and its retries may make, a worker's attempt *)
(* the same until its refund and one less after it.  Only a fault adds to  *)
(* the sum of what was done and what may follow, by one chain of attempts. *)

Limit(t) == RetryLimit(kind[t])

QueueWork(t) ==
  (Limit(t) + 1) * queue[<<t, 0>>] + Limit(t) * queue[<<t, 1>>]
  + (Limit(t) - 1) * queue[<<t, 2>>]

WorkLeft(w, t) ==
  IF wpc[w] \in {"idle", "release"} \/ TaskOf(w) # t THEN 0
  ELSE IF wpc[w] = "retry" THEN Limit(t) - wmsg[w][2] ELSE Limit(t) + 1 - wmsg[w][2]

Work(t) == SumFunctionOnSet([w \in Worker |-> WorkLeft(w, t)], Worker)

Spare(t) == (Limit(t) + 1) * (1 + faults)

WorkBounded == \A t \in Request : Cardinality(Refunds(t)) + QueueWork(t) + Work(t) <= Spare(t)

\* Nothing happened to a task before its message was published.
Untouched(t) ==
  /\ Refunds(t) = {}
  /\ \A m \in Message : m[1] = t => queue[m] = 0
  /\ \A w \in Worker : wpc[w] # "idle" => TaskOf(w) # t

UntilPublished == \A t \in Request : pc[t] = "publish" => Untouched(t)

BoundInv == ContractInv /\ WorkBounded /\ UntilPublished

\* A task is attempted twice or three times.
LEMMA LimitCases == \A t : Limit(t) = 1 \/ Limit(t) = 2
BY DEF Limit, RetryLimit

\* The work that is left is a number.
LEMMA WorkType ==
  ASSUME AllInv, NEW t \in Request
  PROVE  (\A w \in Worker : WorkLeft(w, t) \in Nat) /\ Work(t) \in Nat
<1>1. ASSUME NEW w \in Worker PROVE WorkLeft(w, t) \in Nat
  <2>1. CASE wpc[w] = "idle" \/ TaskOf(w) # t
    BY <2>1 DEF WorkLeft
  <2>2. CASE wpc[w] # "idle" /\ TaskOf(w) = t
    <3>1. wmsg[w][2] \in 0..2 /\ wmsg[w][2] <= Limit(t)
      BY <2>2, WorkerTaskKnown DEF Message, Limit
    <3>2. QED
      BY <3>1, LimitCases DEF WorkLeft
  <2>3. QED
    BY <2>1, <2>2
<1> DEFINE f == [w \in Worker |-> WorkLeft(w, t)]
<1>2. \A w \in Worker : f[w] \in Nat
  BY <1>1
<1> HIDE DEF f
<1>3. SumFunctionOnSet(f, Worker) \in Nat
  BY <1>2, SumType, WorkerAssumption
<1>4. QED
  BY <1>1, <1>3 DEF Work, f

\* The same, of the state after a step.
WorkIsNumber == \A t \in Request : (\A w \in Worker : WorkLeft(w, t) \in Nat) /\ Work(t) \in Nat

LEMMA WorkTypeAfter == AllInv' => WorkIsNumber'
<1>1. AllInv => WorkIsNumber
  BY WorkType DEF WorkIsNumber
<1>2. QED
  BY <1>1, PTL

\* Queued messages are worth a number of attempts, and refunds can be counted.
LEMMA QueueWorkType ==
  ASSUME AllInv, NEW t \in Request PROVE QueueWork(t) \in Nat
<1>1. queue[<<t, 0>>] \in Nat /\ queue[<<t, 1>>] \in Nat /\ queue[<<t, 2>>] \in Nat
  BY DEF AllInv, TypeInv, TypeOK, Message
<1>2. QED
  BY <1>1, LimitCases DEF QueueWork

LEMMA RefundCount ==
  ASSUME ContractInv, NEW t \in Request
  PROVE  IsFiniteSet(Refunds(t)) /\ Cardinality(Refunds(t)) \in Nat
BY FS_Subset, FS_CardinalityType DEF ContractInv, FiniteLog, Refunds

\* The same, of the state after a step.
CountsAreNumbers == \A t \in Request : QueueWork(t) \in Nat /\ Cardinality(Refunds(t)) \in Nat

LEMMA CountsAfter == ContractInv' => CountsAreNumbers'
<1>1. ContractInv => CountsAreNumbers
  BY QueueWorkType, RefundCount DEF CountsAreNumbers, ContractInv
<1>2. QED
  BY <1>1, PTL

\* A step of one worker changes the work by what is left of that worker's.
LEMMA WorkOfStep ==
  ASSUME AllInv, AllInv', NEW w \in Worker, NEW t \in Request, kind' = kind,
         \A v \in Worker : v # w => wpc'[v] = wpc[v] /\ wmsg'[v] = wmsg[v]
  PROVE  Work(t)' = Work(t) - WorkLeft(w, t) + WorkLeft(w, t)'
<1> DEFINE f == [v \in Worker |-> WorkLeft(v, t)]
           k == [v \in Worker |-> WorkLeft(v, t)']
<1>1. \A v \in Worker : f[v] \in Int /\ k[v] \in Int
  BY WorkType, WorkTypeAfter DEF WorkIsNumber
<1>2. \A v \in Worker : v # w => f[v] = k[v]
  BY DEF WorkLeft, TaskOf, Limit
<1>3. f[w] = WorkLeft(w, t) /\ k[w] = WorkLeft(w, t)'
  OBVIOUS
<1>4. Work(t) = SumFunctionOnSet(f, Worker) /\ Work(t)' = SumFunctionOnSet(k, Worker)
  BY DEF Work
<1> HIDE DEF f, k
<1>5. SumFunctionOnSet(k, Worker) = SumFunctionOnSet(f, Worker) - f[w] + k[w]
  BY <1>1, <1>2, SumChange, WorkerAssumption
<1>6. QED
  BY <1>3, <1>4, <1>5

\* A step that leaves the workers alone leaves their work.
LEMMA WorkOfOthers ==
  ASSUME NEW t \in Request, Limit(t)' = Limit(t), wpc' = wpc, wmsg' = wmsg
  PROVE  Work(t)' = Work(t)
<1>1. \A w \in Worker : WorkLeft(w, t)' = WorkLeft(w, t)
  BY DEF WorkLeft, TaskOf
<1>2. [w \in Worker |-> WorkLeft(w, t)]' = [w \in Worker |-> WorkLeft(w, t)]
  BY <1>1
<1>3. QED
  BY <1>2 DEF Work

\* A message more or less in the queue is worth its own attempt and its retries.
LEMMA QueueMove ==
  ASSUME TypeOK, NEW t \in Request, NEW m \in Message, NEW d \in {-1, 1}, kind' = kind,
         queue' = [queue EXCEPT ![m] = @ + d]
  PROVE  QueueWork(t)' = IF m[1] = t THEN QueueWork(t) + d * (Limit(t) + 1 - m[2]) ELSE QueueWork(t)
<1>1. Limit(t)' = Limit(t)
  BY DEF Limit
<1>2. /\ <<t, 0>> \in Message /\ <<t, 1>> \in Message /\ <<t, 2>> \in Message
      /\ queue[<<t, 0>>] \in Nat /\ queue[<<t, 1>>] \in Nat /\ queue[<<t, 2>>] \in Nat
  BY DEF Message, TypeOK
<1>3. \A n \in Message : queue'[n] = IF n = m THEN queue[n] + d ELSE queue[n]
  BY DEF TypeOK
<1>4. CASE m[1] # t
  <2>1. m # <<t, 0>> /\ m # <<t, 1>> /\ m # <<t, 2>>
    BY <1>4
  <2>2. QED
    BY <1>1, <1>2, <1>3, <1>4, <2>1 DEF QueueWork
<1>5. ASSUME NEW n \in 0..2, m = <<t, n>>
      PROVE  QueueWork(t)' = QueueWork(t) + d * (Limit(t) + 1 - n)
  <2>1. \A i \in 0..2 : queue'[<<t, i>>] = IF i = n THEN queue[<<t, i>>] + d ELSE queue[<<t, i>>]
    BY <1>2, <1>3, <1>5 DEF Message
  <2> DEFINE q(i) == queue[<<t, i>>]
             p(i) == queue'[<<t, i>>]
  <2>2. CASE Limit(t) = 1
    <3>1. QueueWork(t) = 2 * q(0) + q(1) /\ QueueWork(t)' = 2 * p(0) + p(1)
      BY <1>1, <1>2, <1>3, <2>2 DEF QueueWork
    <3>2. QED
      BY <1>2, <2>1, <2>2, <3>1
  <2>3. CASE Limit(t) = 2
    <3>1. QueueWork(t) = 3 * q(0) + 2 * q(1) + q(2) /\ QueueWork(t)' = 3 * p(0) + 2 * p(1) + p(2)
      BY <1>1, <1>2, <1>3, <2>3 DEF QueueWork
    <3>2. QED
      BY <1>2, <2>1, <2>3, <3>1
  <2>4. QED
    BY <2>2, <2>3, LimitCases
<1>6. CASE m[1] = t
  <2>1. PICK n \in 0..2 : m = <<t, n>>
    BY <1>6 DEF Message
  <2>2. QED
    BY <1>5, <2>1
<1>7. QED
  BY <1>4, <1>6

\* A task with nothing queued, nobody at work and no refund has all its spare attempts.
LEMMA UntouchedBounded ==
  ASSUME TypeOK, NEW t \in Request, Untouched(t)
  PROVE  Cardinality(Refunds(t)) = 0 /\ QueueWork(t) = 0 /\ Work(t) = 0
<1>1. Cardinality(Refunds(t)) = 0
  BY FS_EmptySet DEF Untouched
<1>2. QueueWork(t) = 0
  <2>1. queue[<<t, 0>>] = 0 /\ queue[<<t, 1>>] = 0 /\ queue[<<t, 2>>] = 0
    BY DEF Untouched, Message
  <2>2. Limit(t) \in Int
    BY LimitCases
  <2>3. QED
    BY <2>1, <2>2 DEF QueueWork
<1>3. Work(t) = 0
  <2> DEFINE f == [w \in Worker |-> WorkLeft(w, t)]
  <2>1. \A w \in Worker : f[w] = 0
    BY DEF Untouched, WorkLeft
  <2> HIDE DEF f
  <2>2. SumFunctionOnSet(f, Worker) = 0
    BY <2>1, SumZero, WorkerAssumption
  <2>3. QED
    BY <2>2 DEF Work, f
<1>4. QED
  BY <1>1, <1>2, <1>3

\* The same, of the state after a step.
UntouchedIsFree == \A t \in Request : Untouched(t) =>
  Cardinality(Refunds(t)) = 0 /\ QueueWork(t) = 0 /\ Work(t) = 0

LEMMA UntouchedAfter == TypeOK' => UntouchedIsFree'
<1>1. TypeOK => UntouchedIsFree
  BY UntouchedBounded DEF UntouchedIsFree
<1>2. QED
  BY <1>1, PTL

\* A task whose row does not exist yet is untouched.
LEMMA AbsentUntouched ==
  ASSUME AllInv, NEW t \in Request, status[t] = "absent" PROVE Untouched(t)
<1>1. ASSUME NEW m \in Message, m[1] = t PROVE queue[m] = 0
  BY <1>1 DEF AllInv, TaskInv, NoOrphanMessage, TypeInv, TypeOK
<1>2. QED
  BY <1>1, WorkerTaskKnown DEF Untouched, AllInv, TaskInv, RefundsKnown

\* A fault allows one more chain of attempts.
LEMMA SpareGrows ==
  ASSUME faults \in Nat, faults' \in {faults, faults + 1}, NEW t, Limit(t)' = Limit(t)
  PROVE  /\ Spare(t) \in Nat
         /\ Spare(t)' = IF faults' = faults THEN Spare(t) ELSE Spare(t) + Limit(t) + 1
<1>1. Limit(t) \in Int
  BY LimitCases
<1>2. Spare(t) = Limit(t) + 1 + (Limit(t) + 1) * faults
      /\ Spare(t)' = Limit(t) + 1 + (Limit(t) + 1) * faults'
  BY <1>1, LimitCases DEF Spare
<1>3. \A k \in {1, 2} : (k + 1) * faults \in Nat
                       /\ (k + 1) * (faults + 1) = (k + 1) * faults + (k + 1)
  OBVIOUS
<1>4. CASE faults' = faults
  BY <1>2, <1>3, <1>4, LimitCases
<1>5. CASE faults' = faults + 1
  BY <1>2, <1>3, <1>5, LimitCases
<1>6. QED
  BY <1>4, <1>5

\* The number of attempts allowed is a number.
LEMMA SpareIsNumber == ASSUME TypeOK, NEW t PROVE Spare(t) \in Nat
<1>1. faults \in Nat
  BY DEF TypeOK
<1>2. \A k \in {1, 2} : (k + 1) * (1 + faults) \in Nat
  BY <1>1
<1>3. QED
  BY <1>2, LimitCases DEF Spare

\* A step that touches neither refunds, queue nor workers keeps the bound.
LEMMA BoundFrame ==
  ASSUME BoundInv, ContractInv', queue' = queue, wpc' = wpc, wmsg' = wmsg,
         faults' \in {faults, faults + 1},
         \A t \in Request : Refunds(t)' = Refunds(t),
         \A t \in Request :
           \/ status[t] = "absent"
           \/ kind'[t] = kind[t] /\ (pc'[t] = "publish" => pc[t] = "publish")
  PROVE  WorkBounded' /\ UntilPublished'
<1>t. AllInv /\ faults \in Nat /\ faults' \in Nat /\ TypeOK'
  BY DEF BoundInv, ContractInv, AllInv, TypeInv, TypeOK
<1>1. \A t \in Request : Untouched(t) => Untouched(t)'
  BY DEF Untouched, TaskOf
<1>2. \A t \in Request : Limit(t)' \in {1, 2} /\ Spare(t)' \in Nat
  <2>1. \A t \in Request : Limit(t)' = 1 \/ Limit(t)' = 2
    BY DEF Limit, RetryLimit
  <2>2. QED
    BY <1>t, <2>1 DEF Spare
<1>3. ASSUME NEW t \in Request PROVE (Cardinality(Refunds(t)) + QueueWork(t) + Work(t) <= Spare(t))'
  <2>1. CASE status[t] = "absent"
    <3>1. Untouched(t)'
      BY <1>t, <1>1, <2>1, AbsentUntouched
    <3>2. QED
      BY <1>t, <1>2, <3>1, UntouchedAfter DEF UntouchedIsFree
  <2>2. CASE kind'[t] = kind[t]
    <3>1. Limit(t)' = Limit(t)
      BY <2>2 DEF Limit
    <3>2. QueueWork(t)' = QueueWork(t)
      BY <3>1 DEF QueueWork
    <3>3. Work(t)' = Work(t)
      BY <3>1, WorkOfOthers
    <3>4. Spare(t) <= Spare(t)' /\ Spare(t) \in Nat
      BY <3>1, <1>t, SpareGrows, LimitCases
    <3>5. Cardinality(Refunds(t)) + QueueWork(t) + Work(t) <= Spare(t)
      BY DEF BoundInv, WorkBounded
    <3>6. Cardinality(Refunds(t)) + QueueWork(t) + Work(t) \in Int
      <4>1. QueueWork(t) \in Int
        BY QueueWorkType, <1>t
      <4>2. QED
        BY <4>1, <1>t, WorkType, RefundCount DEF BoundInv
    <3>7. QED
      BY <1>2, <3>2, <3>3, <3>4, <3>5, <3>6
  <2>3. QED
    BY <2>1, <2>2
<1>4. UntilPublished'
  BY <1>t, <1>1, AbsentUntouched DEF BoundInv, UntilPublished
<1>5. QED
  BY <1>3, <1>4 DEF WorkBounded
\* A worker's step keeps the bound if it does for the task it works on.
LEMMA BoundWorker ==
  ASSUME BoundInv, ContractInv', NEW w \in Worker, NEW task \in Request, ~ Untouched(task),
         kind' = kind, pc' = pc, faults' \in {faults, faults + 1},
         \A v \in Worker : v # w => wpc'[v] = wpc[v] /\ wmsg'[v] = wmsg[v],
         wpc[w] # "idle" => TaskOf(w) = task, wpc'[w] # "idle" => TaskOf(w)' = task,
         \A t \in Request : t # task => Refunds(t)' = Refunds(t),
         \A m \in Message : m[1] # task => queue'[m] = queue[m],
         Cardinality(Refunds(task)') + QueueWork(task)' + WorkLeft(w, task)'
           <= Cardinality(Refunds(task)) + QueueWork(task) + WorkLeft(w, task)
              + (IF faults' = faults THEN 0 ELSE Limit(task) + 1)
  PROVE  WorkBounded' /\ UntilPublished'
<1>t. AllInv /\ AllInv' /\ ContractInv /\ faults \in Nat
  BY DEF BoundInv, ContractInv, AllInv, TypeInv, TypeOK
<1>1. \A t \in Request : /\ Limit(t)' = Limit(t) /\ Limit(t) \in {1, 2}
                         /\ Work(t)' = Work(t) - WorkLeft(w, t) + WorkLeft(w, t)'
                         /\ Work(t) \in Nat /\ WorkLeft(w, t) \in Nat /\ WorkLeft(w, t)' \in Nat
                         /\ QueueWork(t) \in Nat /\ Cardinality(Refunds(t)) \in Nat
  BY <1>t, WorkOfStep, WorkType, WorkTypeAfter, LimitCases, QueueWorkType, RefundCount
     DEF Limit, WorkIsNumber
<1>2. \A t \in Request : /\ Spare(t) \in Nat
                         /\ Spare(t)' = IF faults' = faults THEN Spare(t) ELSE Spare(t) + Limit(t) + 1
  BY <1>t, <1>1, SpareGrows
<1>3. \A t \in Request : Cardinality(Refunds(t)) + QueueWork(t) + Work(t) <= Spare(t)
  BY DEF BoundInv, WorkBounded
<1>4. ASSUME NEW t \in Request, t # task
      PROVE  Cardinality(Refunds(t)') + QueueWork(t)' + Work(t)' <= Spare(t)'
  <2>1. WorkLeft(w, t) = 0 /\ WorkLeft(w, t)' = 0
    BY <1>4 DEF WorkLeft
  <2>2. QueueWork(t)' = QueueWork(t)
    <3>1. queue'[<<t, 0>>] = queue[<<t, 0>>] /\ queue'[<<t, 1>>] = queue[<<t, 1>>]
          /\ queue'[<<t, 2>>] = queue[<<t, 2>>]
      BY <1>4 DEF Message
    <3>2. QED
      BY <1>1, <3>1 DEF QueueWork
  <2>3. Refunds(t)' = Refunds(t)
    BY <1>4
  <2>4. QED
    BY <1>1, <1>2, <1>3, <2>1, <2>2, <2>3
<1>5. Cardinality(Refunds(task)') + QueueWork(task)' + Work(task)' <= Spare(task)'
  <2> DEFINE n == Cardinality(Refunds(task))
             m == Cardinality(Refunds(task)')
             q == QueueWork(task)
             p == QueueWork(task)'
             more == IF faults' = faults THEN 0 ELSE Limit(task) + 1
  <2>1. n \in Nat /\ m \in Nat /\ q \in Nat /\ p \in Nat /\ more \in Nat
    BY <1>t, <1>1, CountsAfter DEF CountsAreNumbers
  <2>2. Spare(task)' = Spare(task) + more
    BY <1>1, <1>2
  <2>3. m + p + WorkLeft(w, task)' <= n + q + WorkLeft(w, task) + more
    OBVIOUS
  <2>4. n + q + Work(task) <= Spare(task)
    BY <1>3
  <2> HIDE DEF n, m, q, p, more
  <2>5. m + p + Work(task)' <= Spare(task)'
    BY <1>1, <1>2, <2>1, <2>2, <2>3, <2>4
  <2>6. QED
    BY <2>5 DEF m, p
<1>6. ASSUME NEW t \in Request, pc'[t] = "publish" PROVE Untouched(t)'
  <2>1. Untouched(t) /\ t # task
    BY <1>6 DEF BoundInv, UntilPublished
  <2>2. QED
    BY <1>6, <2>1 DEF Untouched, TaskOf
<1>7. QED
  BY <1>4, <1>5, <1>6 DEF WorkBounded, UntilPublished
\* What is left of a worker's attempt n, before and after the refund.
LEMMA WorkLeftValue ==
  ASSUME AllInv, NEW w \in Worker, wpc[w] # "idle"
  PROVE  /\ TaskOf(w) \in Request /\ ~ Untouched(TaskOf(w))
         /\ wmsg[w] \in Message /\ wmsg[w] = <<TaskOf(w), wmsg[w][2]>>
         /\ wmsg[w][2] \in Nat /\ wmsg[w][2] <= Limit(TaskOf(w))
         /\ wpc[w] = "release" => WorkLeft(w, TaskOf(w)) = 0
         /\ wpc[w] = "retry" => WorkLeft(w, TaskOf(w)) = Limit(TaskOf(w)) - wmsg[w][2]
         /\ wpc[w] \in {"start", "predict", "failing", "refund"}
              => WorkLeft(w, TaskOf(w)) = Limit(TaskOf(w)) + 1 - wmsg[w][2]
<1>1. TaskOf(w) \in Request /\ wmsg[w] \in Message /\ wmsg[w][2] <= Limit(TaskOf(w))
  BY WorkerTaskKnown DEF Limit
<1>2. wmsg[w] = <<TaskOf(w), wmsg[w][2]>> /\ wmsg[w][2] \in Nat
  BY <1>1 DEF Message, TaskOf
<1>3. ~ Untouched(TaskOf(w))
  BY <1>1 DEF Untouched
<1>4. QED
  BY <1>1, <1>2, <1>3 DEF WorkLeft

\* Every step of a worker keeps the bound.
LEMMA BoundWorkerStep ==
  ASSUME BoundInv, ContractInv', NEW w \in Worker,
         WorkerStep(w) \/ LoseRefund(w) \/ Crash(w) \/ Redeliver(w)
  PROVE  WorkBounded' /\ UntilPublished'
<1>p. PICK task, n : task = TaskOf(w) /\ n = wmsg[w][2]
  OBVIOUS
<1> DEFINE left == Limit(task) + 1 - n
<1>t. AllInv /\ ContractInv /\ TypeOK /\ faults \in Nat
  BY DEF BoundInv, ContractInv, AllInv, TypeInv, TypeOK
<1>w. wpc[w] # "idle" =>
        /\ task \in Request /\ ~ Untouched(task) /\ wmsg[w] \in Message /\ wmsg[w] = <<task, n>>
        /\ n \in Nat /\ n <= Limit(task) /\ Limit(task) \in {1, 2}
        /\ wpc[w] = "release" => WorkLeft(w, task) = 0
        /\ wpc[w] = "retry" => WorkLeft(w, task) = Limit(task) - n
        /\ wpc[w] \in {"start", "predict", "failing", "refund"} => WorkLeft(w, task) = left
  BY <1>p, <1>t, WorkLeftValue, LimitCases
<1>c. \A t \in Request : QueueWork(t) \in Nat /\ Cardinality(Refunds(t)) \in Nat
                        /\ IsFiniteSet(Refunds(t))
  BY <1>t, QueueWorkType, RefundCount
<1>1. ASSUME NEW m \in Message, Deliver(w), queue[m] > 0,
             queue' = [queue EXCEPT ![m] = @ - 1], wmsg' = [wmsg EXCEPT ![w] = m]
      PROVE  WorkBounded' /\ UntilPublished'
  <2>1. /\ wpc[w] = "idle" /\ wpc' = [wpc EXCEPT ![w] = "start"] /\ txs' = txs
        /\ kind' = kind /\ pc' = pc /\ faults' = faults
    BY <1>1 DEF Deliver, dbVars, requestVars
  <2>2. m[1] \in Request /\ m[2] \in 0..2 /\ ~ Untouched(m[1])
    BY <1>1 DEF Message, Untouched
  <2>3. \A t \in Request : Refunds(t)' = Refunds(t)
    BY <2>1 DEF Refunds
  <2>4. TaskOf(w)' = m[1] /\ wmsg'[w] = m /\ wpc'[w] = "start"
        /\ \A v \in Worker : v # w => wpc'[v] = wpc[v] /\ wmsg'[v] = wmsg[v]
    BY <1>1, <1>t, <2>1 DEF TaskOf, TypeOK
  <2>5. WorkLeft(w, m[1]) = 0 /\ WorkLeft(w, m[1])' = Limit(m[1]) + 1 - m[2]
    BY <2>1, <2>4 DEF WorkLeft, Limit
  <2>6. QueueWork(m[1])' = QueueWork(m[1]) - (Limit(m[1]) + 1 - m[2])
    <3>1. queue' = [queue EXCEPT ![m] = @ + (-1)]
      BY <1>1, <1>t DEF TypeOK
    <3>2. QueueWork(m[1])' = QueueWork(m[1]) + (-1) * (Limit(m[1]) + 1 - m[2])
      BY <1>t, <2>1, <2>2, <3>1, QueueMove
    <3>3. QED
      BY <1>c, <2>2, <3>2, LimitCases
  <2>7. Cardinality(Refunds(m[1])') + QueueWork(m[1])' + WorkLeft(w, m[1])'
          <= Cardinality(Refunds(m[1])) + QueueWork(m[1]) + WorkLeft(w, m[1]) + 0
    BY <1>c, <2>2, <2>3, <2>5, <2>6, LimitCases
  <2>8. \A k \in Message : k[1] # m[1] => queue'[k] = queue[k]
    BY <1>1, <1>t DEF TypeOK
  <2>9. QED
    BY <1>t, <2>1, <2>2, <2>3, <2>4, <2>7, <2>8, BoundWorker
<1>2. CASE Begin(w) \/ Complete(w) \/ Raise(w) \/ MarkFailed(w) \/ LoseRefund(w) \/ Finish(w)
  <2>1. /\ wpc[w] # "idle" /\ kind' = kind /\ pc' = pc /\ txs' = txs /\ queue' = queue
        /\ faults' \in {faults, faults + 1}
        /\ \A v \in Worker : v # w => wpc'[v] = wpc[v] /\ wmsg'[v] = wmsg[v]
    BY <1>2, <1>t DEF Begin, Complete, Raise, MarkFailed, LoseRefund, Finish, ToRetry,
                      ToIdle, dbVars, requestVars, TypeOK
  <2>2. \/ wpc'[w] = "idle"
        \/ wmsg'[w] = wmsg[w] /\ wpc'[w] = "release"
        \/ /\ wmsg'[w] = wmsg[w] /\ wpc[w] \in {"start", "predict", "failing", "refund"}
           /\ wpc'[w] \in {"predict", "failing", "refund", "retry"}
    BY <1>2, <1>t DEF Begin, Complete, Raise, MarkFailed, LoseRefund, Finish, ToRetry,
                      ToIdle, TypeOK
  <2>3. WorkLeft(w, task)' <= WorkLeft(w, task) /\ WorkLeft(w, task) \in Nat
    <3>1. WorkLeft(w, task) \in Nat
      BY <1>t, <1>w, <2>1, WorkType
    <3>2. CASE wpc'[w] \in {"idle", "release"}
      BY <3>1, <3>2 DEF WorkLeft
    <3>3. CASE wpc'[w] \in {"predict", "failing", "refund", "retry"}
      <4>1. WorkLeft(w, task) = left
        BY <1>w, <2>1, <2>2, <3>3
      <4>2. WorkLeft(w, task)' \in {left, left - 1}
        BY <1>p, <1>w, <2>1, <2>2, <3>3 DEF WorkLeft, Limit, TaskOf
      <4>3. QED
        BY <1>w, <2>1, <4>1, <4>2
    <3>4. QED
      BY <2>2, <3>2, <3>3
  <2>4. QueueWork(task)' = QueueWork(task) /\ \A t \in Request : Refunds(t)' = Refunds(t)
    BY <2>1 DEF QueueWork, Refunds, Limit
  <2>5. wpc'[w] # "idle" => TaskOf(w)' = task
    BY <1>p, <2>2 DEF TaskOf
  <2>6. Cardinality(Refunds(task)') + QueueWork(task)' + WorkLeft(w, task)'
          <= Cardinality(Refunds(task)) + QueueWork(task) + WorkLeft(w, task)
             + (IF faults' = faults THEN 0 ELSE Limit(task) + 1)
    <3>1. WorkLeft(w, task)' \in Nat
      BY <1>w, <2>1, WorkTypeAfter DEF WorkIsNumber, ContractInv
    <3>2. QED
      BY <1>w, <1>c, <2>1, <2>3, <2>4, <3>1
  <2>7. QED
    BY <1>p, <1>t, <1>w, <2>1, <2>4, <2>5, <2>6, BoundWorker
<1>3. CASE CommitRefund(w)
  <2> DEFINE row == RefundRow(w)
  <2>1. /\ wpc[w] = "refund" /\ kind' = kind /\ pc' = pc /\ queue' = queue /\ faults' = faults
        /\ txs' = txs \cup {row} /\ wmsg' = wmsg /\ wpc' = [wpc EXCEPT ![w] = "retry"]
    BY <1>3 DEF CommitRefund, ToRetry, requestVars
  <2>2. row.reason = "refund" /\ row.task = task
    BY <1>p DEF RefundRow
  <2>3. /\ Refunds(task)' = Refunds(task) \cup {row}
        /\ \A t \in Request : t # task => Refunds(t)' = Refunds(t)
    BY <2>1, <2>2 DEF Refunds
  <2>4. Cardinality(Refunds(task)') <= Cardinality(Refunds(task)) + 1
        /\ Cardinality(Refunds(task)') \in Nat
    <3> HIDE DEF row
    <3>1. IsFiniteSet(Refunds(task)) /\ Cardinality(Refunds(task)) \in Nat
      BY <1>w, <1>c, <2>1
    <3>2. Cardinality(Refunds(task) \cup {row}) \in {Cardinality(Refunds(task)),
                                                    Cardinality(Refunds(task)) + 1}
      BY <3>1, FS_AddElement
    <3>3. QED
      BY <2>3, <3>1, <3>2
  <2>5. QueueWork(task)' = QueueWork(task)
    BY <2>1 DEF QueueWork, Limit
  <2>6. WorkLeft(w, task)' = Limit(task) - n /\ WorkLeft(w, task) = Limit(task) + 1 - n
    BY <1>p, <1>w, <1>t, <2>1 DEF WorkLeft, TaskOf, Limit, TypeOK
  <2>7. Cardinality(Refunds(task)') + QueueWork(task)' + WorkLeft(w, task)'
          <= Cardinality(Refunds(task)) + QueueWork(task) + WorkLeft(w, task) + 0
    BY <1>w, <1>c, <2>1, <2>4, <2>5, <2>6
  <2>8. TaskOf(w)' = task /\ \A v \in Worker : v # w => wpc'[v] = wpc[v] /\ wmsg'[v] = wmsg[v]
    BY <1>p, <1>t, <2>1 DEF TaskOf, TypeOK
  <2>9. QED
    BY <1>p, <1>t, <1>w, <2>1, <2>3, <2>7, <2>8, BoundWorker
<1>4. CASE Retry(w)
  <2>1. /\ wpc[w] = "retry" /\ kind' = kind /\ pc' = pc /\ faults' = faults /\ txs' = txs
        /\ wmsg' = wmsg /\ wpc' = [wpc EXCEPT ![w] = "release"]
        /\ queue' = IF n < Limit(task) THEN [queue EXCEPT ![<<task, n + 1>>] = @ + 1] ELSE queue
    BY <1>p, <1>4 DEF Retry, requestVars, dbVars, Limit
  <2>2. QueueWork(task)' = QueueWork(task) + (Limit(task) - n)
    <3>1. CASE n < Limit(task)
      <4>1. <<task, n + 1>> \in Message
        BY <1>w, <2>1, <3>1 DEF Message
      <4>2. QueueWork(task)' = QueueWork(task) + 1 * (Limit(task) + 1 - (n + 1))
        BY <1>t, <1>w, <2>1, <3>1, <4>1, QueueMove
      <4>3. QED
        BY <1>w, <1>c, <2>1, <4>2
    <3>2. CASE ~ (n < Limit(task))
      <4>1. n = Limit(task) /\ QueueWork(task)' = QueueWork(task)
        BY <1>w, <2>1, <3>2 DEF QueueWork, Limit
      <4>2. QED
        BY <1>w, <1>c, <2>1, <4>1
    <3>3. QED
      BY <3>1, <3>2
  <2>3. WorkLeft(w, task) = Limit(task) - n /\ WorkLeft(w, task)' = 0
    BY <1>w, <1>t, <2>1 DEF WorkLeft, TypeOK
  <2>4. \A t \in Request : Refunds(t)' = Refunds(t)
    BY <2>1 DEF Refunds
  <2>5. TaskOf(w)' = task /\ \A v \in Worker : v # w => wpc'[v] = wpc[v] /\ wmsg'[v] = wmsg[v]
    BY <1>p, <1>t, <2>1 DEF TaskOf, TypeOK
  <2>6. \A m \in Message : m[1] # task => queue'[m] = queue[m]
    BY <1>t, <1>w, <2>1 DEF TypeOK
  <2>7. Cardinality(Refunds(task)') + QueueWork(task)' + WorkLeft(w, task)'
          <= Cardinality(Refunds(task)) + QueueWork(task) + WorkLeft(w, task) + 0
    BY <1>w, <1>c, <2>1, <2>2, <2>3, <2>4
  <2>8. QED
    BY <1>p, <1>t, <1>w, <2>1, <2>4, <2>5, <2>6, <2>7, BoundWorker
<1>5. CASE Crash(w) \/ Redeliver(w)
  <2>1. /\ wpc[w] # "idle" /\ kind' = kind /\ pc' = pc /\ faults' = faults + 1 /\ txs' = txs
        /\ queue' = queue \/ queue' = [queue EXCEPT ![wmsg[w]] = @ + 1]
        /\ \A v \in Worker : v # w => wpc'[v] = wpc[v] /\ wmsg'[v] = wmsg[v]
        /\ wpc'[w] = "idle" \/ (wpc'[w] = wpc[w] /\ wmsg'[w] = wmsg[w])
    BY <1>5, <1>t DEF Crash, Redeliver, ToIdle, requestVars, workerVars, dbVars, TypeOK
  <2>2. QueueWork(task)' \in {QueueWork(task), QueueWork(task) + left}
    <3>1. CASE queue' = queue
      BY <2>1, <3>1 DEF QueueWork, Limit
    <3>2. CASE queue' = [queue EXCEPT ![wmsg[w]] = @ + 1]
      <4>1. wmsg[w] \in Message /\ wmsg[w][1] = task /\ task \in Request
        BY <1>p, <1>w, <2>1 DEF TaskOf
      <4>2. QueueWork(task)' = QueueWork(task) + 1 * (Limit(task) + 1 - wmsg[w][2])
        BY <1>t, <2>1, <3>2, <4>1, QueueMove
      <4>3. QED
        BY <1>p, <1>w, <1>c, <2>1, <4>2
    <3>3. QED
      BY <2>1, <3>1, <3>2
  <2>3. WorkLeft(w, task) \in Nat /\ WorkLeft(w, task)' \in {0, WorkLeft(w, task)}
    <3>1. WorkLeft(w, task) \in Nat
      BY <1>t, <1>w, <2>1, WorkType
    <3>2. QED
      BY <1>p, <2>1, <3>1 DEF WorkLeft, TaskOf, Limit
  <2>4. \A t \in Request : Refunds(t)' = Refunds(t)
    BY <2>1 DEF Refunds
  <2>5. wpc'[w] # "idle" => TaskOf(w)' = task
    BY <1>p, <2>1 DEF TaskOf
  <2>6. \A m \in Message : m[1] # task => queue'[m] = queue[m]
    <3>1. wmsg[w][1] = task
      BY <1>p DEF TaskOf
    <3>2. QED
      BY <1>t, <2>1, <3>1 DEF TypeOK
  <2>7. Cardinality(Refunds(task)') + QueueWork(task)' + WorkLeft(w, task)'
          <= Cardinality(Refunds(task)) + QueueWork(task) + WorkLeft(w, task) + (Limit(task) + 1)
    BY <1>w, <1>c, <2>1, <2>2, <2>3, <2>4
  <2>8. faults' # faults
    BY <1>t, <2>1
  <2>9. QED
    BY <1>p, <1>t, <1>w, <2>1, <2>4, <2>5, <2>6, <2>7, <2>8, BoundWorker
<1>6. CASE Deliver(w)
  <2>1. PICK m \in Message : /\ queue[m] > 0 /\ queue' = [queue EXCEPT ![m] = @ - 1]
                             /\ wmsg' = [wmsg EXCEPT ![w] = m]
    BY <1>6 DEF Deliver
  <2>2. QED
    BY <1>1, <1>6, <2>1
<1>7. QED
  BY <1>2, <1>3, <1>4, <1>5, <1>6 DEF WorkerStep

\* Every step of an API session keeps the bound: publishing spends the first chain.
LEMMA BoundRequestStep ==
  ASSUME BoundInv, ContractInv', NEW r \in Request,
         \/ OpenPrediction(r) \/ RefuseCredits(r) \/ OpenTopUp(r) \/ OpenPromo(r)
         \/ ActivationRefused(r) \/ RequestStep(r) \/ RequestDies(r)
  PROVE  WorkBounded' /\ UntilPublished'
<1>t. AllInv /\ AllInv' /\ ContractInv /\ TypeOK /\ TypeOK' /\ faults \in Nat /\ StageInv
  BY DEF BoundInv, ContractInv, AllInv, TypeInv, TypeOK, TaskInv
<1>c. \A t \in Request : QueueWork(t) \in Nat /\ Cardinality(Refunds(t)) \in Nat /\ Work(t) \in Nat
  BY <1>t, QueueWorkType, RefundCount, WorkType
<1>1. CASE Publish(r)
  <2>1. /\ pc[r] = "publish" /\ pc' = [pc EXCEPT ![r] = "over"] /\ kind' = kind /\ txs' = txs
        /\ faults' = faults /\ wpc' = wpc /\ wmsg' = wmsg
        /\ queue' = [queue EXCEPT ![<<r, 0>>] = @ + 1]
    BY <1>1 DEF Publish, Close, dbVars, workerVars
  <2>2. \A t \in Request : /\ Limit(t)' = Limit(t) /\ Refunds(t)' = Refunds(t)
                           /\ Work(t)' = Work(t) /\ Spare(t)' = Spare(t)
    BY <2>1, WorkOfOthers DEF Limit, Refunds, Spare
  <2>3. \A t \in Request : QueueWork(t)' = IF t = r THEN QueueWork(t) + (Limit(t) + 1)
                                                   ELSE QueueWork(t)
    <3>1. <<r, 0>> \in Message
      BY DEF Message
    <3>2. \A t \in Request :
            QueueWork(t)' = IF r = t THEN QueueWork(t) + 1 * (Limit(t) + 1 - 0) ELSE QueueWork(t)
      BY <1>t, <2>1, <3>1, QueueMove
    <3>3. QED
      BY <1>c, <3>2, LimitCases
  <2>4. Cardinality(Refunds(r)) = 0 /\ QueueWork(r) = 0 /\ Work(r) = 0
    BY <1>t, <2>1, UntouchedBounded DEF BoundInv, UntilPublished
  <2>5. Limit(r) + 1 <= Spare(r)
    <3>1. \A k \in {1, 2} : k + 1 <= (k + 1) * (1 + faults)
      BY <1>t
    <3>2. QED
      BY <3>1, LimitCases DEF Spare
  <2>6. WorkBounded'
    <3>1. \A t \in Request : Cardinality(Refunds(t)) + QueueWork(t) + Work(t) <= Spare(t)
      BY DEF BoundInv, WorkBounded
    <3>2. ASSUME NEW t \in Request
          PROVE  Cardinality(Refunds(t)') + QueueWork(t)' + Work(t)' <= Spare(t)'
      <4>1. CASE t = r
        BY <2>2, <2>3, <2>4, <2>5, <4>1, LimitCases
      <4>2. CASE t # r
        BY <2>2, <2>3, <3>1, <4>2
      <4>3. QED
        BY <4>1, <4>2
    <3>3. QED
      BY <3>2 DEF WorkBounded
  <2>7. ASSUME NEW t \in Request, pc'[t] = "publish" PROVE Untouched(t)'
    <3>1. t # r /\ Untouched(t)
      BY <1>t, <2>1, <2>7 DEF TypeOK, BoundInv, UntilPublished
    <3>2. \A m \in Message : m[1] = t => queue'[m] = queue[m]
      BY <1>t, <2>1, <3>1 DEF TypeOK
    <3>3. QED
      BY <2>1, <2>2, <3>1, <3>2 DEF Untouched, TaskOf
  <2>8. QED
    BY <2>6, <2>7 DEF UntilPublished
<1>2. CASE Commit(r)
  <2> DEFINE c == CommittedRow(r)
  <2>1. txs' = txs \cup {c} /\ c.reason # "refund"
    BY <1>2, <1>t, CommitAddsOneRow, CommittedRowFields DEF AllInv, Reason
  <2>2. /\ pc[r] = "commit" /\ kind' = kind /\ queue' = queue /\ wpc' = wpc /\ wmsg' = wmsg
        /\ faults' = faults /\ \A t \in Request : t # r => pc'[t] = pc[t]
    BY <1>2, <1>t DEF Commit, Close, workerVars, TypeOK
  <2> HIDE DEF c
  <2>3. \A t \in Request : Refunds(t)' = Refunds(t)
    BY <2>1 DEF Refunds
  <2>4. status[r] = "absent"
    BY <1>t, <2>2 DEF StageInv
  <2>5. QED
    BY <1>t, <2>2, <2>3, <2>4, BoundFrame
<1>3. CASE ~ Publish(r) /\ ~ Commit(r)
  <2>1. /\ txs' = txs /\ queue' = queue /\ wpc' = wpc /\ wmsg' = wmsg
        /\ faults' \in {faults, faults + 1}
    BY <1>3 DEF OpenPrediction, RefuseCredits, OpenTopUp, OpenPromo, Open, ActivationRefused,
       RequestStep, Admission, InsertRows, UpdateWallet, TagReserve, RequestDies, dbVars, workerVars
  <2>2. /\ \A t \in Request : t # r => kind'[t] = kind[t] /\ pc'[t] = pc[t]
        /\ kind'[r] = kind[r] \/ pc[r] = "idle"
        /\ pc'[r] # "publish"
    BY <1>3, <1>t DEF OpenPrediction, RefuseCredits, OpenTopUp, OpenPromo, Open, ActivationRefused,
       RequestStep, Admission, InsertRows, UpdateWallet, TagReserve, RequestDies, Close, TypeOK
  <2>3. \A t \in Request : Refunds(t)' = Refunds(t)
    BY <2>1 DEF Refunds
  <2>4. pc[r] = "idle" => status[r] = "absent"
    BY <1>t DEF StageInv
  <2>5. QED
    BY <1>t, <2>1, <2>2, <2>3, <2>4, BoundFrame
<1>4. QED
  BY <1>1, <1>2, <1>3

\* Cleanup neither queues nor refunds anything.
LEMMA BoundCleanupStep ==
  ASSUME BoundInv, ContractInv',
         \/ \E t \in Request : Age(t)
         \/ CleanupScan \/ CleanupCommit \/ CleanupAborts \/ UNCHANGED vars
  PROVE  WorkBounded' /\ UntilPublished'
<1>1. /\ txs' = txs /\ queue' = queue /\ wpc' = wpc /\ wmsg' = wmsg /\ kind' = kind /\ pc' = pc
      /\ faults' \in {faults, faults + 1}
  BY DEF Age, CleanupScan, CleanupCommit, CleanupAborts, CleanupEnds, vars, dbVars, requestVars, workerVars
<1>2. \A t \in Request : Refunds(t)' = Refunds(t)
  BY <1>1 DEF Refunds
<1>3. QED
  BY <1>1, <1>2, BoundFrame

\* What was refunded and what may still be refunded stay within the attempts that
\* the retry limit and the faults so far allow.
THEOREM BoundInvariant == Spec => []BoundInv
<1>1. Init => WorkBounded /\ UntilPublished
  <2> SUFFICES ASSUME Init PROVE WorkBounded /\ UntilPublished
    OBVIOUS
  <2>1. TypeOK /\ \A t \in Request : Untouched(t)
    BY TypeInvInit DEF TypeInv, Init, Untouched, Refunds
  <2>2. \A t \in Request : 0 <= Spare(t)
    BY <2>1, SpareIsNumber
  <2>3. QED
    BY <2>1, <2>2, UntouchedBounded DEF WorkBounded, UntilPublished
<1>2. BoundInv /\ ContractInv' /\ [Next]_vars => WorkBounded' /\ UntilPublished'
  BY StepCases, BoundRequestStep, BoundWorkerStep, BoundCleanupStep
<1>3. BoundInv <=> ContractInv /\ WorkBounded /\ UntilPublished
  BY DEF BoundInv
<1>4. QED
  BY <1>1, <1>2, <1>3, ContractInvariant, PTL DEF Spec

\* However workers crash and messages are delivered twice, a task is refunded at
\* most once for each attempt that its retries and the faults so far allow.
THEOREM RefundsAreBounded == Spec => []RefundsBounded
<1>1. ASSUME BoundInv, NEW t \in Request
      PROVE  Cardinality(Refunds(t)) <= (RetryLimit(kind[t]) + 1) * (1 + faults)
  <2>1. /\ Cardinality(Refunds(t)) \in Nat /\ QueueWork(t) \in Nat /\ Work(t) \in Nat
        /\ Cardinality(Refunds(t)) + QueueWork(t) + Work(t) <= Spare(t)
    BY <1>1, RefundCount, QueueWorkType, WorkType DEF BoundInv, WorkBounded, ContractInv
  <2>2. Spare(t) \in Nat
    BY <1>1, SpareIsNumber DEF BoundInv, ContractInv, AllInv, TypeInv
  <2>3. QED
    BY <2>1, <2>2 DEF Spare, Limit
<1>2. BoundInv => RefundsBounded
  BY <1>1 DEF RefundsBounded
<1>3. QED
  BY <1>2, BoundInvariant, PTL

\* What all its refunds together returned of a task: its price once for each
\* attempt that its retries and the faults so far allow.  Without a fault that is
\* still two or three prices: RefundOnce fails by no more than this.
RepaidWithin == \A t \in Request :
  MapThenSumSet(RowTotal, Refunds(t)) <= cost[t] * ((RetryLimit(kind[t]) + 1) * (1 + faults))

\* A larger count of the same price is a larger sum.
LEMMA PriceTimesCount ==
  ASSUME NEW c \in Nat, NEW a \in Nat, NEW b \in Nat, a <= b
  PROVE  c * a <= c * b
<1>1. PICK d \in Nat : b = a + d
  <2>1. b - a \in Nat /\ b = a + (b - a)
    OBVIOUS
  <2>2. QED
    BY <2>1
<1>2. c * b = c * a + c * d /\ c * d \in Nat /\ c * a \in Nat
  BY <1>1
<1>3. QED
  BY <1>2

\* The retries of the worker never return more of a task than its price for each
\* attempt it may make.
THEOREM RepaidBounded == Spec => []RepaidWithin
<1>1. ASSUME BoundInv, RefundsBounded, NEW t \in Request
      PROVE  MapThenSumSet(RowTotal, Refunds(t)) <= cost[t] * ((RetryLimit(kind[t]) + 1) * (1 + faults))
  <2> DEFINE S == Refunds(t)
             f == [x \in S |-> RowTotal(x)]
             n == Cardinality(S)
             most == (RetryLimit(kind[t]) + 1) * (1 + faults)
  <2>1. IsFiniteSet(S) /\ n \in Nat /\ n <= most
    BY <1>1, RefundCount DEF BoundInv, RefundsBounded
  <2>2. cost[t] \in Nat /\ most \in Nat
    <3>1. cost[t] \in Nat /\ Spare(t) \in Nat
      BY <1>1, SpareIsNumber DEF BoundInv, ContractInv, AllInv, TypeInv, TypeOK
    <3>2. QED
      BY <3>1 DEF Spare, Limit
  <2>3. \A x \in S : f[x] = cost[t]
    BY <1>1 DEF BoundInv, ContractInv, AllInv, TaskInv, RefundExact
  <2>4. MapThenSumSet(RowTotal, S) = SumFunctionOnSet(f, S)
    BY CreditsAreSum
  <2> HIDE DEF S, f, n, most
  <2>5. SumFunctionOnSet(f, S) = cost[t] * Cardinality(S)
    BY <2>1, <2>2, <2>3, SumConstant
  <2>6. cost[t] * n <= cost[t] * most
    BY <2>1, <2>2, PriceTimesCount
  <2>7. QED
    BY <2>4, <2>5, <2>6 DEF S, n, most
<1>2. BoundInv /\ RefundsBounded => RepaidWithin
  BY <1>1 DEF RepaidWithin
<1>3. QED
  BY <1>2, BoundInvariant, RefundsAreBounded, PTL
=============================================================================
