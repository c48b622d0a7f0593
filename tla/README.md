# Churn prediction service: specification and verification

This directory specifies the behaviour of the churn prediction service in TLA+, model-checks it
with TLC and proves its safety properties with TLAPS. Paths such as `app/tasks/worker.py:69` name lines of
the repository. `PROJECT.json` lists runs, mutants, hazards, theorems and, for every definition
that models code, the lines it stands for.

## 1. The system

| Component | State | Operations | Modelled in |
|---|---|---|---|
| Prediction API `app/api/predictions.py` | rows of `users`, `prediction_tasks`, `credit_transactions` | `POST /ml/submit`, `/ml/batch`, reads | `PredictionPipeline` |
| Credit arithmetic `app/services/billing.py` | the two credit columns of a user | charge, refund, bonus, top-up | `Billing` |
| Worker `app/tasks/worker.py` | task rows, refunds, Celery messages | attempts, retries, refunds, slot release | `PredictionPipeline`, `ConcurrencySlots` |
| Cleanup `worker.py:195` | stale tasks | scan, fail, release slots | the same two |
| Concurrency limiter `app/core/limiter.py:57` | Redis key `conc:{user}` | INCR, EXPIRE, DECR, DEL | `ConcurrencySlots` |
| Rate limiter `limiter.py:33` | Redis sorted set `rl:{user}` | one Lua script | `RateLimiter` |
| Promo codes `app/services/promo.py`, `app/api/promo.py` | `promo_codes`, `promo_activations`, bonus | create, activate | `PromoCodes`; an activation's hold on the wallet in `PredictionPipeline` |
| Start `entrypoint.sh`, `scripts/seed.py`, `app/main.py` | tables, tariffs, administrator, WELCOME50 | create, seed, serve, restart | `Bootstrap` |
| Registration `app/api/auth.py:21` | `users` | register | `Bootstrap` |
| Statistics `app/api/promo.py:106` | – | five SELECTs | `Statistics` |
| Streamlit page `streamlit_app/app.py` | `st.session_state`, the running script | login, widgets, predict, poll | `StreamlitPage` (one browser session) |
| Tokens `app/core/security.py`, `deps.py` | – | issue, check | the life of a token in `StreamlitPage` |
| Schemas, metrics, ML model, images | – | validation, counting, numerics | not modelled (section 8) |

How they interact. A request loads its user (`deps.py:32`), checks the balance on that copy,
takes a concurrency slot and passes the rate limiter in Redis, charges the copy, flushes the
reserve row, the task and the balance, tags the user's last reserve row with the task, commits,
and only then publishes a Celery message. A worker marks the task PROCESSING, predicts, marks it
COMPLETED; if anything raises it marks it FAILED and refunds in one transaction, retries the
message, and in any case releases the slot. Every five minutes the cleanup fails tasks that have
been PROCESSING for ten. Nothing but the database, the broker and Redis is shared. The Streamlit page
is one more client: a script that Streamlit runs from the top for every use of a widget, and that
submits, polls for the verdict and asks for the balance over HTTP.

What is hard here: sessions that write absolute values computed from a stale copy; a charge, a
tag and a publication spread over several awaits; retries of what was already refunded; broker
redelivery after a crash; a cleanup that acts on what it read earlier; Redis counters moved by
several unguarded commands; a script order that differs from the order of its time stamps; a
dashboard put together from five snapshots; a page whose script is interrupted wherever it draws
something, and whose requests may time out although the service acts on them. The
tests reach none of it: `.coveragerc` leaves out the worker, the limiter and the start, and
`tests/conftest.py` replaces Redis and Celery and uses one client at a time.

## 2. The modules and the code

**`Billing`** is `billing.py` as operators on a wallet `[paid, bonus]`. `WriteBack` is what the
ORM does with an assigned object: an UPDATE of exactly the columns whose value differs from the
loaded one, to absolute values, by primary key; `WriteColumn` is the same of one column.

**`PredictionPipeline`** is the core. Its tables hold *committed* rows; what a session has flushed
but not committed is derived from its variables (`seen`, `rowId`, `tagId`), so that an abort is
simply the end of the session. A session's steps are the points at which another session can
interfere: loading the user, drawing the id of the reserve row, taking the lock on the user row
(the last statement of the flush: SQLAlchemy emits inserts and updates by mapper, in the order
`CreditTransaction`, `PredictionTask`, `User`), choosing the row to tag, the commit, the publication.
`submit`, `batch`, `topup` and a promo activation share the actions and differ in `kind`, `cost`,
`Assigned` and `Reason`: all four load the user's row, compute from the copy and write absolute
values, so all four take part in each other's lost updates. An activation has its checks and locks in
`PromoCodes`; here it only holds the wallet (`ActivationRefused` is its refusal at any point). For
the worker: `Deliver` (up to the SELECT of the task at 109), `Begin` (to 118), `Complete` (120-126),
`Raise` (128-131, the second SELECT), `MarkFailed` and `CommitRefund` (132-137, split where the
flush locks the task and the user row is read, and where it is written), `LoseRefund` (138-140), `Retry`
(141), `Finish` (143-145), `Crash`, and `Redeliver`: the broker hands the message of an attempt that
outlives the visibility timeout to a second worker while the first goes on. `wtask` is the status and
error the worker's session loaded: its UPDATE leaves out a column it would not change, so an attempt
that found the task FAILED refunds it and keeps what another worker has committed since. The cleanup is
`CleanupScan`, `CleanupCommit` and `CleanupAborts`; `expired` are the tasks it loaded with the error
text it is about to write. Concurrency slot and rate limit are a
free choice here (`Admission`); they have modules of their own.

**`PredictionContract`** is the abstract specification: per task a state, what is held for it and
what was repaid. A task is accepted together with its charge, completes or fails only after work
on it began (or fails at its start), never becomes pending again, and whatever repays repays exactly
the charge. `Repay` is what a client would not expect: credits come back for a task that is shown
processing or completed. It is also the service that the two clients, `Statistics` and
`StreamlitPage`, are composed with. **`PredictionProperties`** states the properties and the refinement
mapping (`Contract`): `held` is the total of the task's reserve row, `repaid` that of its refunds.

**`ConcurrencySlots`** has one action per Redis command and everybody who issues one: the API's
acquire and its release after a rate-limit refusal, the worker's release per attempt, the
cleanup's, that of a message delivered twice (`Redelivered`, `CopyEndsAttempt`), the expiry of the key
(`Age` and `Lapse`: every EXPIRE starts it over), the deaths of processes, a DECR or DEL that Redis
fails (`ReleaseFails`, `DeleteFails`) and a cleanup whose commit fails after its releases
(`CleanupAborts`). One user, who comes back for more (`Again`), suffices: keys of different users are
disjoint.

**`RateLimiter`** is the Lua script, atomic, with the time stamp the API took before
(`Send` to `Admit` or `Refuse`). A tick stands for many milliseconds. `Suffix` is what
`math.random` yields.

**`PromoCodes`** splits an activation into loading the user, checking the promo row, the INSERT
into `promo_activations`, the two row locks, and the commit; a creation into look-up and INSERT.

**`Bootstrap`** has the container (tables, seed script, tariffs, serving, stopping anywhere), runs
of the seed script by hand, and registrations, which may name the administrator's address
(`AddressTaken`): the script and `auth.py` ask the same table for it, and neither asks for a role.

**`Statistics`** is `my_stats`: at READ COMMITTED each SELECT has its own snapshot, so every step of
the contract may come between two of them. `answer` is what was read so far, `moves` counts the
tasks that changed state meanwhile.

**`StreamlitPage`** is one browser session. `pc` is where the script is, `trigger` the buttons that
are TRUE in this run, `want` those used since: Streamlit merges the rerun requests of a running
script into one, and the script gives way to it at its next `st.*` call (`Yields`). The requests are
atomic with their answers, except `POST /ml/submit`, whose answer may be given up on
(`PostRaises`) while the service still gets to it (`AcceptedLate`, `RefusedLate`). `session_state` is
`token` and `last`; `awaiting` and `polls` are local variables of the loop at `app.py:252`. `lost`,
`late`, `reported`, `unseen` and `dropped` record what became of each click and of each prediction;
`unseen` are the verdicts that `app.py:132` popped in a run which gave way before it displayed them.

The `MC*` modules hold the values of the constants that a `.cfg` cannot write. Definitions
marked "Mutant" are not used by any specification: each is the definition after it with a
plausible bug, and `PROJECT.json` names the property it breaks.

External behaviour, modelled from how the code uses it: PostgreSQL 16 at READ COMMITTED (committed
rows and one's own are visible, an UPDATE waits for the session that holds the row, an INSERT of
an equal key waits for that session and then fails; the key-share locks of foreign keys do not
conflict with the updates here); SQLAlchemy's identity map (a row is loaded once per session) and
autoflush (in `_refund`, the first query flushes the task's UPDATE and so locks its row before the
user is read; in `seed.py`, the second query flushes the administrator); Celery with
`task_acks_late` (a message is acknowledged after its attempt; it is delivered again when the
worker is lost, and acknowledged when only the child process died; a retry is published before the
acknowledgement); Redis commands and key expiry; Streamlit's reruns, buttons and session state.

Steps that were merged, and why nothing is lost: `Deliver` includes the SELECT at `worker.py:109`,
which takes no lock: what could happen between the two happens before the delivery just as well.
`Complete` needs no SELECT, since the commit before it has expired the object and an assignment to an
expired column is always written. `CleanupScan` is one query. `CommitRefund` merges the id of the
refund row with its commit, since only ids of *reserve* rows are compared. Left out as unreachable: the `ValueError` of `charge_credits` after the handler's
own check of the same copy, and the worker's `task_not_found` (`NoOrphanMessage` proves it).
Left out as unread: the second commit, which stores `celery_task_id`.

## 3. What the runs check

| Run | Instance | What it shows |
|---|---|---|
| `pipeline_concurrent` | 2 sessions of one user (submit, batch, top-up, activation), 1 worker, orders of 1 and 2, top-up and bonus of 1, wallet 2+1, no faults, symmetry; 584k states | types, `WalletNonNegative`, `BackedByReserve`, `TagSound`, `NewestReserveTagged`, `RefundExact`, `Audited`, and `KeepsContract`: the pipeline implements the contract |
| `pipeline_one_task` | 1 request, 2 workers, 1 fault, fairness; 58k states | `NoOrphanMessage`, `ErrorMeansRefund`, `RefundsBounded`, `LedgerMatchesBalance` (with a single session), `KeepsContract` under crashes and redelivery to a second worker, `ProcessingSettles`, `AcceptedSettles` |
| `slots_counter` | 3 requests that come back, 2 slots, 2 attempts, 1 fault, fairness; 715k states | `NeverOverstated`, `ExactCounterAdmits`, `LeaksLapse` |
| `rate_window` | 4 requests, limit 2, window 3, delay 2, 6 ticks, two equal suffixes; 115k states | `RecentBounded`, `RefusalJustified` |
| `promo_races` | 2 users, 2 codes, 4 activations (one doubled), 3 creations, limit 2; 262k states | `CountUnderstates`, `NothingMinted`, `GrantedOnce`, `CreatedOnce`, no deadlock |
| `start_races` | 3 starts, 2 runs by hand, 3 registrations, two of one address and one of the administrator's; 158k states | `SeedAllOrNothing`, `SecondStartSeeds`, `OneAccountPerEmail`, `RefusalMeansAccount` |
| `stats_snapshots` | 2 tasks of 1 or 2 credits, 2 refunds each; 243k states | `SpentCoversTotal`, `OffByMoves` |
| `page_session` | 2 tasks, 2 clicks, 2 polls, 1 refund, fairness; 489k states | `ClicksPayOnce`, `EachAccountedOnce`, `RunEnds` |

Four runs end in a violation: a sentence of the repository that the code does not keep.

| Run | Sentence | Counterexample |
|---|---|---|
| `ledger_race` | `billing.py:6-7` atomic by a WHERE on the balance | two submits load the same wallet, the second commit overwrites the first; the log shows two charges, the balance one |
| `refund_once` | `worker.py:70` the reservation is rolled back | every failed attempt refunds the whole price |
| `promo_limit` | `promo.py:6` max_activations not exceeded | two activations pass the check on the same count |
| `refund_as_paid` | `worker.py:70-71` bonuses come back as bonuses, paid as paid | two submits load the same bonus credit, the older reserve row stays untagged, and its refund finds no row and gives back a paid credit |

Facts the models show without a run of their own:

* A completed task may have been refunded by an earlier attempt (the contract allows `Complete` after
  `Fail`).
* When a worker refunds a task that it found FAILED, and a second one has begun or completed it since,
  the task keeps the second one's status: it is shown PROCESSING or COMPLETED, with the error of the
  first attempt and its refund (`Repay` of the contract).
* `RefundExact` distinguishes the two refunds: the parts of the reservation where its row carries the
  task, all of it paid where the row is untagged, as that of any session but the newest may be (run
  `refund_as_paid`).
* At the first start the seed script finds no tariffs and returns, and the API serves without an
  administrator and without WELCOME50 until it is started again (`README.md:23-25` says that both are
  created automatically). Whoever registers the administrator's address meanwhile keeps the
  administrator out: `seed.py:28` takes any account of that address for it, so later starts add
  WELCOME50 alone (`Usurped` in `SeedAllOrNothing` and `SecondStartSeeds`).
* A leaked slot lapses only when its user is quiet for 300 s: every acquire renews the key before it
  compares (`limiter.py:62-63`), so a user who keeps trying is refused for good. `LeaksLapse` has this
  as its condition.
* A verdict that the page pops in a run which another widget interrupts at the `st.success` is never
  displayed (the place `unseen` of `EachAccountedOnce`).
* A task that was committed but not published stays PENDING with its credits charged, and nothing
  looks for it (`AcceptedSettles` excludes faults).
* A task that waits for its retry holds no slot, so a user may have more tasks under way than the
  limit of `README.md:77`; `ExactCounterAdmits` says when the limit is kept.
* Requests of one millisecond count once in the rate limiter, because Redis seeds `math.random` alike
  for every script (`RecentBounded` counts members, not requests). And the key expires by Redis' clock
  while pruning goes by the API's stamp: a script that runs late may find the key gone although
  members in it belonged to its window, so the window is shorter by the delay (`AdmittedNear`).
* `spent` of the statistics contains predictions that were refunded, and PROCESSING tasks are in
  `total` but in none of the three counts.
* The page takes FAILED for final although the worker retries; it may show an earlier verdict while a
  newer one is awaited; a verdict that was not displayed survives a logout until the next login in
  that tab; any answer but 200 from `/auth/me`, a 500 included, logs the user out.

## 4. Bounds

`MaxFaults` bounds crashes, redeliveries, failing commands and aborted commits together. One is what the
liveness runs can afford: it suffices for a second worker at the same task, for a stranded task, a leaked
slot and a message delivered twice. A fault during the recovery from another is left to the theorems,
which hold for any number, and that is safety only. `Message` carries 0..2 retries, which is the code's
own limit. Two requests are the fewest that race for a wallet and a tag, and two workers the fewest that
share a task; the theorems of section 6 remove the bounds for the properties they state. All requests are
one user's because sessions of different users share no row. Amounts are small, but the wallet `2+1` makes
an order of 2 spend both columns and two orders exceed it. `MaxConcurrent = 2` with three requests, each
of which may be made again, lets one be refused, another slip in and a third renew the key. `MaxTime`,
`MaxDelay` and `MaxStarts` are named bounds of the limiter and of the start; a window of three ticks and a
delay of two let a script be overtaken by younger ones, and find the key expired, at the edge of the
window. `Polls = 2` stands for the twenty polls: the loop runs out, or is left at either of them.
`MaxClicks = 2` gives a second prediction while the first is awaited, lost or given up on, and
`MaxRefunds` bounds failed attempts as a client sees them. `MaxMoves` caps a counter where larger values
no longer matter to `OffByMoves`. `rate_window` does not check for deadlock because the clock stops at
`MaxTime` there. `StreamlitPage`, `Statistics` and `ConcurrencySlots` never stop; every other
specification ends in an explicit `Terminated` step, and any other state without a step would be reported.

## 5. Fairness

`PredictionPipeline!Fairness`: a handler that was called proceeds (weak fairness of its next step:
uvicorn's event loop), a worker process takes a message and proceeds with it (Celery's loop), ten
minutes pass (`Age`), and beat fires every five (`worker.py:37-42`). No fairness for clients,
faults, or which of success and exception an attempt has; faults are finite in number, and
`AcceptedSettles` speaks of behaviours without one. `ConcurrencySlots!Fairness`: requests and
attempts proceed, the cleanup comes back to tasks that lost their worker, a key that is not renewed
expires and Redis drops it; no fairness for the user, for a redelivered message or for its DEL.
`StreamlitPage!FairSpec`: the script runs on, which Streamlit sees to and the timeout of every
request (five or ten seconds) makes sure of; neither the user, nor the service's progress, nor any
particular answer is assumed. No claim is made about how fast.

## 6. What is proved

**The pipeline.** For every number of users, requests and faults, every finite pool of workers and
any prices, from the named assumptions of `PredictionPipeline` (requests have an owner, the price and
amounts are positive, the workers are finitely many, `NoTask` is no request). Except for the first
row, which is `CreditProofs`, the theorems are in `PredictionProofs`:

| Theorem | Property |
|---|---|
| `ChargeIsExact`, `BonusGoesFirst`, `RefundUndoesCharge` | the arithmetic, for all wallets and amounts |
| `TypeCorrect`, `NeverNegative` | `TypeOK`, `WalletNonNegative` |
| `TagsAreSound`, `NewestIsTagged`, `AuditKept` | `TagSound`, `NewestReserveTagged`, `Audited` |
| `TasksArePaidFor`, `RefundsAreExact`, `MessagesAreKnown`, `ErrorsAreRefunded` | `BackedByReserve`, `RefundExact`, `NoOrphanMessage`, `ErrorMeansRefund` |
| `PipelineKeepsContract` | `KeepsContract`: the pipeline implements `PredictionContract` |
| `BalanceExplained`, `OneRequestExplained` | `LedgerMatchesBalance`, under the two conditions below |
| `RefundsAreBounded`, `RepaidBounded` | `RefundsBounded`, and the credits that this means |

The argument is one inductive invariant in layers, each with its own lemma per group of actions:

* `TypeInv`: types; a busy worker has a message; ids are drawn below the sequence.
* `SolvencyInv`: no column becomes negative, *although* rows are overwritten from stale copies,
  because every copy is solvent, a prediction past the check can afford its price **from its
  copy**, and a write takes each column from a solvent row or a solvent object (`WriteBackSolvent`).
* `LedgerInv`: ids are unique and drawn once; a session about to commit tags its own row or none,
  and if none then a newer tagged row is committed (`Superseded`). `TagSound` alone is not
  inductive: that the last row a session sees is never another request's untagged row is exactly
  `NewestReserveTagged`, and each of the two needs the other.
* `TaskInv`: a task is absent until its session committed, a message and a refund in progress name
  a committed task, and a refund in progress (`RefundReady`) has read amounts that `RefundExact`
  will accept.
* `ContractInv` adds what the refinement needs: a prediction's price is one the contract knows, what
  a worker predicts or cleanup scanned has begun (`BegunInv`), and the log is finite. `held` and
  `repaid` are sums over the rows of a task, so a commit must be shown to change one summand and one
  task only (`HeldValue`, `CreditsOfRows`).
* `BoundInv` counts attempts: a queued message is worth those that it and its retries may still make, a
  worker at it the same until its refund and one less after it. Refunds made plus attempts left never
  exceed `(RetryLimit + 1) * (1 + faults)` (`WorkBounded`); a fault adds one chain. `UntilPublished`
  says that a task starts with nothing refunded, queued or running.

`ORDER BY id DESC LIMIT 1` is a `CHOOSE`; `LastRowExists` shows that it finds a row.

`LedgerMatchesBalance` fails for two sessions of a user (run `ledger_race`); `BalanceExplained` says
when it holds. `Alone` is a condition on steps: a balance changes only when nobody else holds a copy of
the row. From that alone it follows that every copy is `Fresh`, that a commit then writes what it
logged, and that the log explains every balance. So a stale copy is the only way to a
divergence: crashes, retries and redeliveries cause none, and a lock held on the row from its load to
the commit, which implies `Alone`, would rule it out. `OneRequestExplained` discharges the condition for users who send one request, through all
retries, crashes and redeliveries, because a refund holds the task's row lock (`OneRefunder`).
`RepaidBounded` measures the other finding (`refund_once`): without a fault a failed task returns up to
two or three prices, `RetryLimit + 1`, and no more.

Sums are the library's folds, and their laws would be inductions over data. `CreditProofs` states them
for functions on a finite set. What takes the place of the induction theorems is a *set* of good
subsets that contains {} and every subset it contains all immediate parts of (`AllSubsets`, from
`HasLeast`, the well-foundedness of the numbers): `SumAdd`, `SumRemove`, `SumChange`, `SumCongruent`,
`SumConstant`, `SumAtLeast`. The proofs of the pipeline and of the
statistics both use them.

**The other components**, each from the assumptions named in its module (finite sets of requests,
tasks, users and codes; positive charges, bonuses, limits and windows):

| Theorem | Property | Why it holds |
|---|---|---|
| `CounterNeverOverstated` (`SlotsProofs`) | `NeverOverstated` | a claim is made with an INCR and given up with a DECR or a fault; a DEL leaves 0. `CleanedLate` says which tasks cleanup can have been at |
| `ExactCounterLimits` (`SlotsProofs`) | `ExactCounterAdmits` | a counter that is too low becomes exact again only by a DEL that finds no claim, so while it is exact every INCR has returned the number of claims (`ExactWithin` adds the requests that will pass the check) |
| `RefusalsAreJustified` (`RateProofs`) | `RefusalJustified` | every member is an admitted request's (`MembersAdmitted`) |
| `RecentIsBounded` (`RateProofs`) | `RecentBounded` | an admitted request leaves the set only when pruned by a stamp a window later or when the key expires (`Accounted`); `BoundedFrom` quantifies over all later moments, so that a refusal cannot disturb it |
| `NoBonusFromNothing`, `CountNeverOverstates` (`PromoProofs`) | `NothingMinted`, `CountUnderstates` | what a session loaded was bounded by the activations of that moment, these only grow, and a commit adds one (`CopiesUnderstate`, `RowsAreOwn`) |
| `OneCodeOneBonus` (`PromoProofs`) | `GrantedOnce` | a user of one code has no activation when its row gets in, so by `NothingMinted` what its session loaded was 0 |
| `CodesAreCreatedOnce` (`PromoProofs`) | `CreatedOnce` | the codes offered are those of the creations that succeeded (`OfferedOnce`) |
| `AddressesAreUnique`, `RefusalsAreJustified` (`BootstrapProofs`) | `OneAccountPerEmail`, `RefusalMeansAccount` | at the commit the address is free and nobody else's commit is pending (`AccountInv`), the scripts that hold the administrator's address included (`Exclusive`) |
| `SeedIsAtomic`, `LaterStartsSeed` (`BootstrapProofs`) | `SeedAllOrNothing`, `SecondStartSeeds` | a script at its commit brings both rows, or WELCOME50 alone once the address is taken, and holds it alone (`Exclusive`, `SeedInv`, `EntrypointSeeds`) |
| `ClicksArePaidOnce` (`PageProofs`) | `ClicksPayOnce` | a POST is only made in a run whose predict button is TRUE (`PostWasAskedFor`) |
| `VerdictsAreAccountedFor` (`PageProofs`) | `EachAccountedOnce` | while a task is awaited nothing is kept and the script is in its loop; the places are disjoint (`Awaits`, `Kept`, `Apart`) |
| `SpentPaysForTotal` (`StatisticsProofs`) | `SpentCoversTotal` | a task is never visible before its charge, charges stay, and `total` is read before `spent`; the credits of the tasks counted are at least one each (`TotalSeen`, `SumAtLeast`) |
| `CountsOffByMoves` (`StatisticsProofs`) | `OffByMoves` | after each SELECT, the counts so far and the tasks still to be counted differ from `total` by at most the moves since (`Drift`, `Ahead`); one step of the contract moves one task |
| `SlotTypes`, `RateTypes`, `PromoTypes`, `BootstrapTypes`, `PageTypeCorrect`, `StatisticsTyped` | `TypeOK` | that of the page needs `ClicksPayOnce`: no more POSTs are lost than were clicked for |

**The composition.** The statistics and the page are composed with the service by taking its steps from
`PredictionContract`; that no step of theirs is anything else is a matter of their definitions. What
needs a proof is that there is such a service, and that is `PipelineKeepsContract`: what the two clients
rely on is what the API, the worker and the cleanup keep.

No proof uses the bounds `MaxFaults`, `MaxStarts`, `MaxTime` or `MaxClicks` as anything but a number.

## 7. What is only model-checked

Liveness (`ProcessingSettles`, `AcceptedSettles`, `LeaksLapse`, `RunEnds`) is out of the prover's reach:
it rests on fairness, and that on ENABLED. TLC checks it on the instances above. So are the four runs
that end in a violation, each of which is a counterexample and needs no more. Every invariant and every
action property of the passing runs is proved. No module uses a RECURSIVE operator.

## 8. Not modelled, and why

`get_task`, the list of tasks and the statistics are the only `GET` handlers that another component
relies on; they are reads of `StreamlitPage` and `Statistics`. The others change nothing. Passwords
and tokens are stateless cryptography: the model's `get_current_user` is the load of the user row, and
a token is valid, expired or gone. Of the page, the history table and the admin panel are left out:
each displays, or forwards one request, and keeps nothing. The ML model is numerics: an attempt
returns or raises. Metrics are counters nobody reads back. Schemas appear as the bounds of amounts and
batches and the columns of `StatsResponse`. Unlimited promo codes (`max_activations` NULL) skip the
one check that can go wrong; `is_active` is never cleared. The second commit of a submit stores
`celery_task_id`, which nothing reads.

`PredictionPipeline` and `ConcurrencySlots` are not composed: the pipeline lets admission be a free
choice, so it covers whatever the counter answers, and the counter's module has every caller that
moves it, with the order of their commands free. One redelivered message at a time is followed there.

## 9. What could follow

1. Several browser sessions of one user over one contract, with the balance the sidebar shows.
2. The pipeline as it would be if every handler locked the user row when loading it, with `Alone`
   proved for it, and so `LedgerMatchesBalance` for every number of sessions.
3. Two redeliveries of one message at once in `ConcurrencySlots`.
4. The exact price of a second redelivery: `RefundsBounded` gives each fault a whole chain of attempts,
   while a fault late in a chain repeats only what is left of it.
