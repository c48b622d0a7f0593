------------------------- MODULE PredictionPipeline -------------------------
(***************************************************************************)
(* The life of a prediction and of the credits that pay for it: the API    *)
(* handlers of app/api/predictions.py (with the top-up and the activation  *)
(* of app/api/promo.py) as concurrent database sessions, the Celery queue, *)
(* the worker processes of app/tasks/worker.py with their retries, and the *)
(* periodic cleanup.                                                       *)
(*                                                                         *)
(* The database is PostgreSQL at READ COMMITTED: a session sees committed  *)
(* rows and its own, an UPDATE waits for the session that last updated the *)
(* row, and a COMMIT publishes everything at once.  A session therefore    *)
(* works from the rows it loaded first (seen, wseen, wtask) and writes     *)
(* absolute values back when it commits, of the columns it changed.  The   *)
(* concurrency slot and the rate limit are a free choice (Admission).      *)
(***************************************************************************)
EXTENDS Billing, FiniteSets

CONSTANTS User, Worker,
          Request,    \* HTTP requests; a prediction task is named by its request
          NoTask,     \* NULL in credit_transactions.task_id
          Owner,      \* the user a request acts for
          Price,      \* tariffs.cost_per_prediction
          BatchSize,  \* numbers of items a batch may have
          TopUp,      \* amounts a top-up may add
          Grant,      \* promo_codes.bonus_credits of the codes there are
          InitPaid, InitBonus,
          MaxFaults   \* bound: crashes, lost connections and aborted commits

ASSUME OwnerAssumption  == Owner \in [Request -> User]
ASSUME NoTaskAssumption == NoTask \notin Request
ASSUME WorkerAssumption == IsFiniteSet(Worker)  \* a pool of processes
ASSUME AmountAssumption ==
  /\ Price \in Nat \ {0}
  /\ BatchSize \subseteq Nat \ {0}
  /\ TopUp \subseteq Nat \ {0}
  /\ Grant \subseteq Nat \ {0}
ASSUME BoundAssumption  == InitPaid \in Nat /\ InitBonus \in Nat /\ MaxFaults \in Nat

VARIABLES
  wallet,   \* users: the committed credit columns of each user
  txs,      \* credit_transactions: the committed rows
  nextId,   \* the id sequence of credit_transactions
  status,   \* prediction_tasks.status, "absent" before the row is committed
  error,    \* prediction_tasks.error: "none", the exception's text, or "timeout"
  stale,    \* started_at is more than ten minutes ago
  queue,    \* how many copies of each message the broker holds
  pc, kind, cost, seen, rowId, tagId,   \* the API sessions, one per request
  wpc, wmsg, wtask, wseen, wrefund,     \* the worker processes
  scanned,  \* the tasks a running cleanup has loaded
  expired,  \* those of them whose error was "timeout" already
  faults

dbVars      == <<wallet, txs, nextId, status, error, stale>>
requestVars == <<pc, kind, cost, seen, rowId, tagId>>
workerVars  == <<wpc, wmsg, wtask, wseen, wrefund>>
cleanupVars == <<scanned, expired>>
vars == <<dbVars, queue, requestVars, workerVars, cleanupVars, faults>>

-----------------------------------------------------------------------------
NoCredits == [paid |-> 0, bonus |-> 0]
NoMessage == <<NoTask, 0>>
NoTaskRow == [status |-> "absent", error |-> "none"]

\* A Celery message: the task and how often it has been retried.
Message == Request \X (0..2)

RetryLimit(k) == IF k = "batch" THEN 1 ELSE 2

\* What a prediction request may ask for: an endpoint and a number of items.
Order == {<<"submit", 1>>} \cup ({"batch"} \X BatchSize)

Row == [id : Nat, user : User, paid : Int, bonus : Int,
        reason : {"reserve", "refund", "topup", "promo"}, task : Request \cup {NoTask}]

IsPrediction(r) == kind[r] \in {"submit", "batch"}

Status == {"absent", "pending", "processing", "completed", "failed"}
Error  == {"none", "exception", "timeout"}

\* What a worker's session knows of its task's row.
TaskRow == [status : Status, error : Error]

TypeOK ==
  /\ wallet \in [User -> Wallet]
  /\ txs \subseteq Row
  /\ nextId \in Nat \ {0}
  /\ status \in [Request -> Status]
  /\ error \in [Request -> Error]
  /\ stale \in [Request -> BOOLEAN]
  /\ queue \in [Message -> Nat]
  /\ pc \in [Request -> {"idle", "admission", "insert", "update", "tag", "commit",
                         "publish", "over"}]
  /\ kind \in [Request -> {"none", "submit", "batch", "topup", "promo"}]
  /\ cost \in [Request -> Nat]
  /\ seen \in [Request -> Wallet]
  /\ rowId \in [Request -> Nat]
  /\ tagId \in [Request -> Nat]
  /\ wpc \in [Worker -> {"idle", "start", "predict", "failing", "refund", "retry", "release"}]
  /\ wmsg \in [Worker -> Message \cup {NoMessage}]
  /\ wtask \in [Worker -> TaskRow]
  /\ wseen \in [Worker -> Wallet]
  /\ wrefund \in [Worker -> Wallet]
  /\ scanned \subseteq Request
  /\ expired \subseteq scanned
  /\ faults \in 0..MaxFaults

Init ==
  /\ wallet = [u \in User |-> [paid |-> InitPaid, bonus |-> InitBonus]]
  /\ txs = {}
  /\ nextId = 1
  /\ status = [r \in Request |-> "absent"]
  /\ error = [r \in Request |-> "none"]
  /\ stale = [r \in Request |-> FALSE]
  /\ queue = [m \in Message |-> 0]
  /\ pc = [r \in Request |-> "idle"]
  /\ kind = [r \in Request |-> "none"]
  /\ cost = [r \in Request |-> 0]
  /\ seen = [r \in Request |-> NoCredits]
  /\ rowId = [r \in Request |-> 0]
  /\ tagId = [r \in Request |-> 0]
  /\ wpc = [w \in Worker |-> "idle"]
  /\ wmsg = [w \in Worker |-> NoMessage]
  /\ wtask = [w \in Worker |-> NoTaskRow]
  /\ wseen = [w \in Worker |-> NoCredits]
  /\ wrefund = [w \in Worker |-> NoCredits]
  /\ scanned = {}
  /\ expired = {}
  /\ faults = 0

-----------------------------------------------------------------------------
(* Row locks.  An API session holds its user's row from the flush that     *)
(* updates it to the commit; a worker holds its task's row from the        *)
(* autoflush inside _refund to the commit.                                 *)

UserRowFree(u) == \A r \in Request : Owner[r] = u => pc[r] \notin {"tag", "commit"}

TaskOf(w) == wmsg[w][1]

TaskRowFree(t) == \A w \in Worker : wpc[w] = "refund" => TaskOf(w) # t

-----------------------------------------------------------------------------
(* API sessions.                                                           *)

Open(r, k, amount) ==
  /\ pc[r] = "idle"
  /\ kind' = [kind EXCEPT ![r] = k]
  /\ cost' = [cost EXCEPT ![r] = amount]
  /\ seen' = [seen EXCEPT ![r] = wallet[Owner[r]]]
  /\ UNCHANGED <<dbVars, queue, rowId, tagId, workerVars, cleanupVars, faults>>

\* The session ends; what it did not commit is gone.
Close(r) ==
  /\ pc' = [pc EXCEPT ![r] = "over"]
  /\ seen' = [seen EXCEPT ![r] = NoCredits]
  /\ tagId' = [tagId EXCEPT ![r] = 0]

\* get_current_user loads the row, and the balance is checked on that copy.
OpenPrediction(r) == \E order \in Order :
  LET amount == Price * order[2] IN
  /\ CanAfford(wallet[Owner[r]], amount)
  /\ pc' = [pc EXCEPT ![r] = "admission"]
  /\ Open(r, order[1], amount)

\* 402 insufficient_credits
RefuseCredits(r) ==
  /\ pc[r] = "idle"
  /\ \E order \in Order : ~ CanAfford(wallet[Owner[r]], Price * order[2])
  /\ Close(r)
  /\ UNCHANGED <<dbVars, queue, kind, cost, rowId, workerVars, cleanupVars, faults>>

OpenTopUp(r) == \E amount \in TopUp :
  /\ pc' = [pc EXCEPT ![r] = "insert"]
  /\ Open(r, "topup", amount)

\* activate_promo with a code that is valid so far (PromoCodes has those checks).
OpenPromo(r) == \E amount \in Grant :
  /\ pc' = [pc EXCEPT ![r] = "insert"]
  /\ Open(r, "promo", amount)

\* A check fails, or the INSERT into promo_activations: rolled back, 400.
ActivationRefused(r) ==
  /\ pc[r] \in {"insert", "update"}
  /\ kind[r] = "promo"
  /\ Close(r)
  /\ UNCHANGED <<dbVars, queue, kind, cost, rowId, workerVars, cleanupVars, faults>>

\* Concurrency slot and rate limit: admitted, or 429.
Admission(r) ==
  /\ pc[r] = "admission"
  /\ \/ pc' = [pc EXCEPT ![r] = "insert"] /\ UNCHANGED <<seen, tagId>>
     \/ Close(r)
  /\ UNCHANGED <<dbVars, queue, kind, cost, rowId, workerVars, cleanupVars, faults>>

\* The flush first inserts the transaction row, which draws its id.
InsertRows(r) ==
  /\ pc[r] = "insert"
  /\ rowId' = [rowId EXCEPT ![r] = nextId]
  /\ nextId' = nextId + 1
  /\ pc' = [pc EXCEPT ![r] = "update"]
  /\ UNCHANGED <<wallet, txs, status, error, stale, queue, kind, cost, seen, tagId,
                 workerVars, cleanupVars, faults>>

\* Mutant: the handler publishes what it flushed but did not commit.
UpdateWithoutCommit(r) ==
  /\ pc[r] = "update"
  /\ UserRowFree(Owner[r])
  /\ pc' = [pc EXCEPT ![r] = "publish"]
  /\ UNCHANGED <<dbVars, queue, kind, cost, seen, rowId, tagId, workerVars, cleanupVars, faults>>

\* The flush ends with the UPDATE of the user, which takes the row lock.
UpdateWallet(r) ==
  /\ pc[r] = "update"
  /\ UserRowFree(Owner[r])
  /\ pc' = [pc EXCEPT ![r] = IF IsPrediction(r) THEN "tag" ELSE "commit"]
  /\ UNCHANGED <<dbVars, queue, kind, cost, seen, rowId, tagId, workerVars, cleanupVars, faults>>

\* The user object after charge_credits, add_bonus or add_paid.
Assigned(r) ==
  IF IsPrediction(r) THEN ChargeCredits(seen[r], cost[r])
  ELSE IF kind[r] = "promo" THEN AddBonus(seen[r], cost[r])
  ELSE AddPaid(seen[r], cost[r])

Reason(r) == IF IsPrediction(r) THEN "reserve"
             ELSE IF kind[r] = "promo" THEN "promo" ELSE "topup"

\* The transaction row the session inserted, before it is tagged.
OwnRow(r) ==
  [id |-> rowId[r], user |-> Owner[r],
   paid  |-> Assigned(r).paid  - seen[r].paid,
   bonus |-> Assigned(r).bonus - seen[r].bonus,
   reason |-> Reason(r),
   task |-> NoTask]

\* The user's reserve rows a session can see: the committed ones and its own.
VisibleReserves(r) ==
  {x \in txs \cup {OwnRow(r)} : x.user = Owner[r] /\ x.reason = "reserve"}

\* Mutant: ordered by ascending id.
FirstReserve(r) ==
  CHOOSE x \in VisibleReserves(r) : \A y \in VisibleReserves(r) : y.id >= x.id

LastReserve(r) ==
  CHOOSE x \in VisibleReserves(r) : \A y \in VisibleReserves(r) : y.id <= x.id

\* Mutant: the last reserve is tagged whether or not it has a task.
TagTargetAlways(r) == LastReserve(r).id

\* The row whose task_id the session sets: the last reserve, unless it has one.
TagTarget(r) == IF LastReserve(r).task = NoTask THEN LastReserve(r).id ELSE 0

TagReserve(r) ==
  /\ pc[r] = "tag"
  /\ tagId' = [tagId EXCEPT ![r] = TagTarget(r)]
  /\ pc' = [pc EXCEPT ![r] = "commit"]
  /\ UNCHANGED <<dbVars, queue, kind, cost, seen, rowId, workerVars, cleanupVars, faults>>

Commit(r) ==
  /\ pc[r] = "commit"
  /\ wallet' = [wallet EXCEPT ![Owner[r]] = WriteBack(@, seen[r], Assigned(r))]
  /\ txs' = {IF x.id = tagId[r] THEN [x EXCEPT !.task = r] ELSE x : x \in txs \cup {OwnRow(r)}}
  /\ IF IsPrediction(r)
     THEN /\ status' = [status EXCEPT ![r] = "pending"]
          /\ pc' = [pc EXCEPT ![r] = "publish"]
          /\ UNCHANGED <<seen, tagId>>
     ELSE /\ Close(r)
          /\ UNCHANGED status
  /\ UNCHANGED <<nextId, error, stale, queue, kind, cost, rowId, workerVars, cleanupVars, faults>>

\* Mutant: the handler answers 202 and never calls delay().
PublishNothing(r) ==
  /\ pc[r] = "publish"
  /\ Close(r)
  /\ UNCHANGED <<dbVars, queue, kind, cost, rowId, workerVars, cleanupVars, faults>>

\* delay(): the message goes to the broker after the commit.
Publish(r) ==
  /\ pc[r] = "publish"
  /\ queue' = [queue EXCEPT ![<<r, 0>>] = @ + 1]
  /\ Close(r)
  /\ UNCHANGED <<dbVars, kind, cost, rowId, workerVars, cleanupVars, faults>>

\* The API process dies, or a call to Redis, the database or the broker raises.
RequestDies(r) ==
  /\ pc[r] \notin {"idle", "over"}
  /\ faults < MaxFaults
  /\ faults' = faults + 1
  /\ Close(r)
  /\ UNCHANGED <<dbVars, queue, kind, cost, rowId, workerVars, cleanupVars>>

-----------------------------------------------------------------------------
(* Worker processes.  A message is acknowledged when its attempt is over.  *)

\* The session selects the task's row: what it assigns later is compared with this.
LoadTask(w, t) == wtask' = [wtask EXCEPT ![w] = [status |-> status[t], error |-> error[t]]]

\* A process takes a message and loads its task.
Deliver(w) == \E m \in Message :
  /\ wpc[w] = "idle"
  /\ queue[m] > 0
  /\ queue' = [queue EXCEPT ![m] = @ - 1]
  /\ wmsg' = [wmsg EXCEPT ![w] = m]
  /\ LoadTask(w, m[1])
  /\ wpc' = [wpc EXCEPT ![w] = "start"]
  /\ UNCHANGED <<dbVars, requestVars, wseen, wrefund, cleanupVars, faults>>

\* The task becomes PROCESSING, unless it was loaded so: then only started_at is
\* written.  The commit expires what was loaded.
Begin(w) ==
  /\ wpc[w] = "start"
  /\ TaskRowFree(TaskOf(w))
  /\ status' = [status EXCEPT ![TaskOf(w)] = WriteColumn(@, wtask[w].status, "processing")]
  /\ stale' = [stale EXCEPT ![TaskOf(w)] = FALSE]
  /\ wtask' = [wtask EXCEPT ![w] = NoTaskRow]
  /\ wpc' = [wpc EXCEPT ![w] = "predict"]
  /\ UNCHANGED <<wallet, txs, nextId, error, queue, requestVars, wmsg, wseen, wrefund,
                 cleanupVars, faults>>

\* predict_one returned; the status is overwritten and the error left as it is.
Complete(w) ==
  /\ wpc[w] = "predict"
  /\ TaskRowFree(TaskOf(w))
  /\ status' = [status EXCEPT ![TaskOf(w)] = "completed"]
  /\ wpc' = [wpc EXCEPT ![w] = "release"]
  /\ UNCHANGED <<wallet, txs, nextId, error, stale, queue, requestVars, wmsg, wtask, wseen,
                 wrefund, cleanupVars, faults>>

\* predict_one raised (or, as a fault, the first commit did): the except branch
\* rolls back and selects the task again, without locking it.
Raise(w) ==
  /\ \/ wpc[w] = "predict" /\ UNCHANGED faults
     \/ wpc[w] = "start" /\ faults < MaxFaults /\ faults' = faults + 1
  /\ LoadTask(w, TaskOf(w))
  /\ wpc' = [wpc EXCEPT ![w] = "failing"]
  /\ UNCHANGED <<dbVars, queue, requestVars, wmsg, wseen, wrefund, cleanupVars>>

\* Mutant: the row of the reservation is never asked.
RefundSplitAsPaid(t) == [paid |-> cost[t], bonus |-> 0]

\* Mutant: only what was paid comes back.
RefundSplitPaidPart(t) ==
  [paid |-> IF \E x \in txs : x.task = t /\ x.bonus < 0 THEN cost[t] - 1 ELSE cost[t],
   bonus |-> 0]

\* What _refund gives back: the deltas of the task's last tagged reserve row,
\* or the whole charge as paid credits when no row carries the task.
RefundSplit(t) ==
  LET tagged == {x \in txs : x.task = t /\ x.reason = "reserve"} IN
  IF tagged = {} THEN [paid |-> cost[t], bonus |-> 0]
  ELSE LET last == CHOOSE x \in tagged : \A y \in tagged : y.id <= x.id
       IN  [paid |-> -last.paid, bonus |-> -last.bonus]

\* The query of _refund flushes the assignments to the task, which locks its row;
\* then the user is loaded and the refund worked out.
MarkFailed(w) ==
  /\ wpc[w] = "failing"
  /\ TaskRowFree(TaskOf(w))
  /\ wseen' = [wseen EXCEPT ![w] = wallet[Owner[TaskOf(w)]]]
  /\ wrefund' = [wrefund EXCEPT ![w] = RefundSplit(TaskOf(w))]
  /\ wpc' = [wpc EXCEPT ![w] = "refund"]
  /\ UNCHANGED <<dbVars, queue, requestVars, wmsg, wtask, cleanupVars, faults>>

\* Mutant: the refund is logged with a reason nobody looks for.
RefundRowMisnamed(w) ==
  [id |-> nextId, user |-> Owner[TaskOf(w)], paid |-> wrefund[w].paid,
   bonus |-> wrefund[w].bonus, reason |-> "adjustment", task |-> TaskOf(w)]

\* Mutant: the refund row is logged without its task.
RefundRowUntagged(w) ==
  [id |-> nextId, user |-> Owner[TaskOf(w)], paid |-> wrefund[w].paid,
   bonus |-> wrefund[w].bonus, reason |-> "refund", task |-> NoTask]

\* Mutant: the row of a refund names the paid part only.
RefundRowPaidOnly(w) ==
  [id |-> nextId, user |-> Owner[TaskOf(w)], paid |-> wrefund[w].paid,
   bonus |-> 0, reason |-> "refund", task |-> TaskOf(w)]

RefundRow(w) ==
  [id |-> nextId, user |-> Owner[TaskOf(w)], paid |-> wrefund[w].paid,
   bonus |-> wrefund[w].bonus, reason |-> "refund", task |-> TaskOf(w)]

\* The except branch is left; its session variables no longer matter.
ToRetry(w) ==
  /\ wpc' = [wpc EXCEPT ![w] = "retry"]
  /\ wtask' = [wtask EXCEPT ![w] = NoTaskRow]
  /\ wseen' = [wseen EXCEPT ![w] = NoCredits]
  /\ wrefund' = [wrefund EXCEPT ![w] = NoCredits]

\* A task loaded as FAILED keeps the status it has by now, and a task loaded with
\* the error of an earlier attempt keeps its error when the text is the same.
CommitRefund(w) ==
  LET t == TaskOf(w)
      u == Owner[t] IN
  /\ wpc[w] = "refund"
  /\ UserRowFree(u)
  /\ wallet' = [wallet EXCEPT ![u] = WriteBack(@, wseen[w],
                  RefundCredits(wseen[w], wrefund[w].bonus, wrefund[w].paid))]
  /\ txs' = txs \cup {RefundRow(w)}
  /\ nextId' = nextId + 1
  /\ status' = [status EXCEPT ![t] = WriteColumn(@, wtask[w].status, "failed")]
  /\ \/ error' = [error EXCEPT ![t] = "exception"]
     \/ wtask[w].error = "exception" /\ UNCHANGED error
  /\ ToRetry(w)
  /\ UNCHANGED <<stale, queue, requestVars, wmsg, cleanupVars, faults>>

\* The except branch itself raised: rolled back and logged, the retry follows.
LoseRefund(w) ==
  /\ wpc[w] \in {"start", "predict", "failing", "refund"}
  /\ faults < MaxFaults
  /\ faults' = faults + 1
  /\ ToRetry(w)
  /\ UNCHANGED <<dbVars, queue, requestVars, wmsg, cleanupVars>>

\* Mutant: one retry too many.
RetryOnceMore(w) ==
  LET n == wmsg[w][2] IN
  /\ wpc[w] = "retry"
  /\ queue' = IF n <= RetryLimit(kind[TaskOf(w)]) /\ n < 2
              THEN [queue EXCEPT ![<<TaskOf(w), n + 1>>] = @ + 1] ELSE queue
  /\ wpc' = [wpc EXCEPT ![w] = "release"]
  /\ UNCHANGED <<dbVars, requestVars, wmsg, wtask, wseen, wrefund, cleanupVars, faults>>

\* self.retry(): the next attempt is published before this one is acknowledged.
Retry(w) ==
  LET n == wmsg[w][2] IN
  /\ wpc[w] = "retry"
  /\ queue' = IF n < RetryLimit(kind[TaskOf(w)])
              THEN [queue EXCEPT ![<<TaskOf(w), n + 1>>] = @ + 1] ELSE queue
  /\ wpc' = [wpc EXCEPT ![w] = "release"]
  /\ UNCHANGED <<dbVars, requestVars, wmsg, wtask, wseen, wrefund, cleanupVars, faults>>

ToIdle(w) ==
  /\ wpc' = [wpc EXCEPT ![w] = "idle"]
  /\ wmsg' = [wmsg EXCEPT ![w] = NoMessage]
  /\ wtask' = [wtask EXCEPT ![w] = NoTaskRow]
  /\ wseen' = [wseen EXCEPT ![w] = NoCredits]
  /\ wrefund' = [wrefund EXCEPT ![w] = NoCredits]

\* The finally branch, then the acknowledgement of the message.
Finish(w) ==
  /\ wpc[w] = "release"
  /\ ToIdle(w)
  /\ UNCHANGED <<dbVars, queue, requestVars, cleanupVars, faults>>

\* The process is killed.  task_acks_late: the broker delivers the message again
\* when the whole worker is gone; when only the child died Celery acknowledges it.
Crash(w) ==
  /\ wpc[w] # "idle"
  /\ faults < MaxFaults
  /\ faults' = faults + 1
  /\ \/ queue' = [queue EXCEPT ![wmsg[w]] = @ + 1]
     \/ UNCHANGED queue
  /\ ToIdle(w)
  /\ UNCHANGED <<dbVars, requestVars, cleanupVars>>

\* Redis' visibility timeout passes before the acknowledgement: the message is
\* delivered again although its attempt goes on.
Redeliver(w) ==
  /\ wpc[w] # "idle"
  /\ faults < MaxFaults
  /\ faults' = faults + 1
  /\ queue' = [queue EXCEPT ![wmsg[w]] = @ + 1]
  /\ UNCHANGED <<dbVars, requestVars, workerVars, cleanupVars>>

-----------------------------------------------------------------------------
(* cleanup_stale_tasks, run by beat every five minutes.                    *)

\* Ten minutes pass since started_at.
Age(t) ==
  /\ status[t] = "processing"
  /\ ~ stale[t]
  /\ stale' = [stale EXCEPT ![t] = TRUE]
  /\ UNCHANGED <<wallet, txs, nextId, status, error, queue, requestVars, workerVars,
                 cleanupVars, faults>>

\* Mutant: every unfinished task counts as stuck.
StaleTasksUnfinished == {t \in Request : status[t] \in {"pending", "processing"}}

\* Mutant: the filter names the wrong status.
StaleTasksPending == {t \in Request : status[t] = "pending" /\ stale[t]}

StaleTasks == {t \in Request : status[t] = "processing" /\ stale[t]}

CleanupScan ==
  /\ scanned = {}
  /\ StaleTasks # {}
  /\ scanned' = StaleTasks
  /\ expired' = {t \in StaleTasks : error[t] = "timeout"}
  /\ UNCHANGED <<dbVars, queue, requestVars, workerVars, faults>>

CleanupEnds == scanned' = {} /\ expired' = {}

\* The rows are written by primary key: their status is not looked at again.
CleanupCommit ==
  /\ scanned # {}
  /\ \A t \in scanned : TaskRowFree(t)
  /\ status' = [t \in Request |-> IF t \in scanned THEN "failed" ELSE status[t]]
  /\ error' = [t \in Request |-> IF t \in scanned \ expired THEN "timeout" ELSE error[t]]
  /\ CleanupEnds
  /\ UNCHANGED <<wallet, txs, nextId, stale, queue, requestVars, workerVars, faults>>

CleanupAborts ==
  /\ scanned # {}
  /\ faults < MaxFaults
  /\ faults' = faults + 1
  /\ CleanupEnds
  /\ UNCHANGED <<dbVars, queue, requestVars, workerVars>>

-----------------------------------------------------------------------------
Quiet ==
  /\ \A r \in Request : pc[r] = "over" /\ status[r] # "processing"
  /\ \A w \in Worker : wpc[w] = "idle"
  /\ \A m \in Message : queue[m] = 0
  /\ scanned = {}

\* Nothing is left to do; any other state without a step is a deadlock.
Terminated == Quiet /\ UNCHANGED vars

RequestStep(r) ==
  \/ Admission(r) \/ InsertRows(r) \/ UpdateWallet(r) \/ TagReserve(r)
  \/ Commit(r) \/ Publish(r)

WorkerStep(w) ==
  \/ Deliver(w) \/ Begin(w) \/ Complete(w) \/ Raise(w) \/ MarkFailed(w) \/ CommitRefund(w)
  \/ Retry(w) \/ Finish(w)

Next ==
  \/ \E r \in Request : OpenPrediction(r) \/ RefuseCredits(r) \/ OpenTopUp(r)
                        \/ OpenPromo(r) \/ ActivationRefused(r) \/ RequestStep(r) \/ RequestDies(r)
  \/ \E w \in Worker : WorkerStep(w) \/ LoseRefund(w) \/ Crash(w) \/ Redeliver(w)
  \/ \E t \in Request : Age(t)
  \/ CleanupScan \/ CleanupCommit \/ CleanupAborts
  \/ Terminated

Spec == Init /\ [][Next]_vars

(***************************************************************************)
(* A session that was opened goes on, a worker process takes messages and  *)
(* runs them, time passes and beat fires.  Nothing is said of clients,     *)
(* faults or the outcome of a prediction.                                  *)
(***************************************************************************)
Fairness ==
  /\ \A r \in Request : WF_vars(RequestStep(r))
  /\ \A w \in Worker : WF_vars(WorkerStep(w))
  /\ \A t \in Request : WF_vars(Age(t))
  /\ WF_vars(CleanupScan) /\ WF_vars(CleanupCommit)

FairSpec == Spec /\ Fairness
=============================================================================
