------------------------ MODULE PredictionProperties ------------------------
(***************************************************************************)
(* What the prediction pipeline promises: its invariants, action and       *)
(* liveness properties.  The second part states sentences of the           *)
(* repository's documentation that the code does not keep.                 *)
(***************************************************************************)
EXTENDS PredictionPipeline, FiniteSetsExt

RowTotal(x) == x.paid + x.bonus

Refunds(t) == {x \in txs : x.reason = "refund" /\ x.task = t}

\* The reserve row that request t itself inserted, if it was committed.
Reserve(t) == {x \in txs : x.reason = "reserve" /\ x.id = rowId[t]}

-----------------------------------------------------------------------------
\* No charge, refund or top-up, however it interleaves with others, takes a
\* credit column below zero: sessions write values computed from a copy of the
\* row that may be stale, yet the table's CheckConstraint never fires.
WalletNonNegative == wallet \in [User -> SolventWallet]

\* A task row exists exactly when the reserve row that pays for it does, and
\* that row takes the task's whole price from the task's user: the reservation
\* and the task are committed together or not at all.
BackedByReserve == \A t \in Request :
  /\ status[t] # "absent" <=> Reserve(t) # {}
  /\ \A x \in Reserve(t) : RowTotal(x) = -cost[t] /\ x.user = Owner[t]

\* A reserve row tagged with a task is the one that task's own request
\* inserted: the handler tags "the user's last reserve", which concurrent
\* requests of the same user could have made somebody else's.
TagSound == \A x \in txs :
  x.reason = "reserve" /\ x.task # NoTask => x.id = rowId[x.task]

\* A committed reserve row without a task is always older than a tagged reserve
\* row of the same user, so the next request never finds a foreign row to tag.
NewestReserveTagged == \A x \in txs :
  x.reason = "reserve" /\ x.task = NoTask =>
    \E y \in txs : /\ y.user = x.user /\ y.reason = "reserve"
                   /\ y.id > x.id /\ y.task # NoTask

\* Each refund row of a task returns the task's price.  Where the reservation's row
\* carries the task, its bonus part is the bonus part of the reservation; where
\* another request's row was the last and it carries none, all of it is paid.
RefundExact == \A t \in Request : \A x \in Refunds(t) :
  /\ RowTotal(x) = cost[t]
  /\ x.user = Owner[t]
  /\ \A y \in Reserve(t) : x.bonus = IF y.task = t THEN -y.bonus ELSE 0

\* A message, queued or being worked on, names a committed task and an attempt
\* the task's retry limit allows: a worker never meets an unknown task.
NoOrphanMessage ==
  LET Known(m) == status[m[1]] # "absent" /\ m[2] <= RetryLimit(kind[m[1]]) IN
  /\ \A m \in Message : queue[m] > 0 => Known(m)
  /\ \A w \in Worker : wpc[w] # "idle" => Known(wmsg[w])

\* A task that shows the text of an exception has been refunded: the error and
\* the refund are one transaction, whatever crashes around it.
ErrorMeansRefund == \A t \in Request : error[t] = "exception" => Refunds(t) # {}

\* A task is refunded at most once per attempt, where a fault may make the
\* broker deliver a chain of attempts once more.
RefundsBounded == \A t \in Request :
  Cardinality(Refunds(t)) <= (RetryLimit(kind[t]) + 1) * (1 + faults)

-----------------------------------------------------------------------------
SameMove(x, y) == [x EXCEPT !.task = NoTask] = [y EXCEPT !.task = NoTask]

\* credit_transactions is an audit log: no row disappears or changes, except
\* that a row without a task may get one, once.
AppendOnly == \A x \in txs : \E y \in txs' :
  SameMove(x, y) /\ (x.task # NoTask => y.task = x.task)

\* A step that changes a balance logs a new movement of that user.
MovesLogged == \A u \in User :
  wallet'[u] # wallet[u] => \E y \in txs' : y.user = u /\ \A x \in txs : x.id # y.id

\* Every movement of credits is logged in the same commit, and for good.
Audited == [][AppendOnly /\ MovesLogged]_vars

-----------------------------------------------------------------------------
\* The pipeline keeps the contract: a task's state is its committed status, what
\* is held is the total of its reserve row, what is repaid that of its refunds.
Contract == INSTANCE PredictionContract WITH
  Task   <- Request,
  Charge <- {Price * order[2] : order \in Order},
  state  <- status,
  held   <- [t \in Request |-> -MapThenSumSet(RowTotal, Reserve(t))],
  repaid <- [t \in Request |-> MapThenSumSet(RowTotal, Refunds(t))]

\* Every behaviour of the pipeline is one the contract allows.
KeepsContract == Contract!Spec

-----------------------------------------------------------------------------
Settled(t) == status[t] \in {"completed", "failed"}

\* A task does not stay PROCESSING: its worker finishes it, or cleanup does,
\* even when workers crash.
ProcessingSettles == \A t \in Request : (status[t] = "processing") ~> Settled(t)

\* As long as no fault happens, an accepted prediction ends completed or failed,
\* for good: no retry or cleanup comes back to it.
AcceptedSettles == \A t \in Request : (pc[t] = "publish") ~> (faults > 0 \/ [] Settled(t))

-----------------------------------------------------------------------------
\* The sum of a user's logged movements explains the user's balance: billing.py:4-7
\* "every change is logged; updates are atomic, by a WHERE on the current balance".
LedgerMatchesBalance == \A u \in User :
  Total(wallet[u]) = InitPaid + InitBonus
                     + MapThenSumSet(RowTotal, {x \in txs : x.user = u})

\* worker.py:70 "roll back the reservation": what was reserved for a task comes
\* back once, so no task gives its user more than it took.
RefundOnce == \A t \in Request : MapThenSumSet(RowTotal, Refunds(t)) <= cost[t]

\* worker.py:70-71 "bonuses come back as bonuses, paid as paid": a refund puts into
\* each column what the task's reservation took from it.
RefundKeepsColumns == \A t \in Request : \A x \in Refunds(t), y \in Reserve(t) :
  x.paid = -y.paid /\ x.bonus = -y.bonus
=============================================================================
