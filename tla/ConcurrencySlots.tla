-------------------------- MODULE ConcurrencySlots --------------------------
(***************************************************************************)
(* The per-user concurrency counter of app/core/limiter.py, one Redis      *)
(* command a step, and everything that moves it: the API's acquire and its *)
(* release after a rate-limit refusal, the release in the worker's finally *)
(* branch (once per attempt, so once per retry and once more in a message  *)
(* that is delivered twice), and the one of the periodic cleanup.  One     *)
(* user, who keeps coming back: the keys of different users are disjoint.  *)
(*                                                                         *)
(* A missing key counts as 0; INCR and DECR keep the expiry of a key, a    *)
(* key they create has none, and DEL or the lapse of the expiry removes it.*)
(***************************************************************************)
EXTENDS Integers, FiniteSets

CONSTANTS Request,
          MaxConcurrent,  \* tariffs.max_concurrent
          MaxAttempts,    \* 1 + max_retries of the Celery task
          MaxFaults       \* bound: deaths, redeliveries, commands and commits that fail

ASSUME ConcurrencyAssumption ==
  /\ IsFiniteSet(Request)
  /\ MaxConcurrent \in Nat \ {0}
  /\ MaxAttempts \in Nat \ {0}
  /\ MaxFaults \in Nat

VARIABLES
  counter,   \* the value of conc:{user_id}, 0 when there is no such key
  key,       \* there is no key, one without expiry, or one that will expire: not
             \* yet, or any moment now
  pc,        \* where each request, and then its task, is
  got,       \* what INCR returned to the request
  attempt,   \* the attempt of its task that is queued or running
  cleaned,   \* cleanup has released the slot during this attempt
  copy,      \* how many attempts a redelivered message may still make
  deleting,  \* cleanup or that message is between its DECR and its DEL
  faults

vars == <<counter, key, pc, got, attempt, cleaned, copy, deleting, faults>>

TypeOK ==
  /\ counter \in Int
  /\ key \in {"absent", "plain", "fresh", "due"}
  /\ pc \in [Request -> {"idle", "expire", "undo", "decide", "reject", "running", "lost",
                         "delete", "stranded", "over"}]
  /\ got \in [Request -> Int]
  /\ attempt \in [Request -> 0..MaxAttempts]
  /\ cleaned \in [Request -> BOOLEAN]
  /\ copy \in 0..MaxAttempts
  /\ deleting \subseteq {"cleanup", "copy"}
  /\ faults \in 0..MaxFaults

Init ==
  /\ counter = 0
  /\ key = "absent"
  /\ pc = [r \in Request |-> "idle"]
  /\ got = [r \in Request |-> 0]
  /\ attempt = [r \in Request |-> 0]
  /\ cleaned = [r \in Request |-> FALSE]
  /\ copy = 0
  /\ deleting = {}
  /\ faults = 0

Goto(r, place) == pc' = [pc EXCEPT ![r] = place]

\* INCR and DECR create a missing key.
Add(n) ==
  /\ counter' = counter + n
  /\ key' = IF key = "absent" THEN "plain" ELSE key

Remove ==
  /\ counter' = 0
  /\ key' = "absent"

\* _release_slot, first half, by somebody who is no request: a DEL follows when
\* nothing is left.
StrayRelease(who) ==
  /\ who \notin deleting
  /\ Add(-1)
  /\ deleting' = IF counter - 1 <= 0 THEN deleting \cup {who} ELSE deleting

-----------------------------------------------------------------------------
(* acquire_concurrent_slot: INCR, EXPIRE, and DECR when it was one too many *)

Incr(r) ==
  /\ pc[r] = "idle"
  /\ Add(1)
  /\ got' = [got EXCEPT ![r] = counter + 1]
  /\ Goto(r, "expire")
  /\ UNCHANGED <<attempt, cleaned, copy, deleting, faults>>

\* Mutant: the limit itself is refused no more.
TooManyOffByOne(n) == n > MaxConcurrent + 1

TooMany(n) == n > MaxConcurrent

\* Mutant: the slot is taken without an expiry.
ExpireForgotten(r) ==
  /\ pc[r] = "expire"
  /\ Goto(r, IF TooMany(got[r]) THEN "undo" ELSE "decide")
  /\ got' = [got EXCEPT ![r] = 0]
  /\ UNCHANGED <<counter, key, attempt, cleaned, copy, deleting, faults>>

\* EXPIRE does nothing when the key has been deleted in between.
Expire(r) ==
  /\ pc[r] = "expire"
  /\ key' = IF key = "absent" THEN "absent" ELSE "fresh"
  /\ Goto(r, IF TooMany(got[r]) THEN "undo" ELSE "decide")
  /\ got' = [got EXCEPT ![r] = 0]
  /\ UNCHANGED <<counter, attempt, cleaned, copy, deleting, faults>>

Undo(r) ==
  /\ pc[r] = "undo"
  /\ Add(-1)
  /\ Goto(r, "over")
  /\ UNCHANGED <<got, attempt, cleaned, copy, deleting, faults>>

-----------------------------------------------------------------------------
(* The rest of the handler: the rate limiter refuses, or the task is queued. *)

\* Mutant: the 429 of the rate limiter forgets the slot.
RateLimitedKeepsSlot(r) ==
  /\ pc[r] = "decide"
  /\ Goto(r, "over")
  /\ UNCHANGED <<counter, key, got, attempt, cleaned, copy, deleting, faults>>

RateLimited(r) ==
  /\ pc[r] = "decide"
  /\ Goto(r, "reject")
  /\ UNCHANGED <<counter, key, got, attempt, cleaned, copy, deleting, faults>>

Submit(r) ==
  /\ pc[r] = "decide"
  /\ Goto(r, "running")
  /\ attempt' = [attempt EXCEPT ![r] = 1]
  /\ UNCHANGED <<counter, key, got, cleaned, copy, deleting, faults>>

\* release_concurrent_slot, first half; the DEL follows when nothing is left.
Release(r) ==
  /\ pc[r] = "reject"
  /\ Add(-1)
  /\ Goto(r, IF counter - 1 <= 0 THEN "delete" ELSE "over")
  /\ UNCHANGED <<got, attempt, cleaned, copy, deleting, faults>>

-----------------------------------------------------------------------------
(* The worker: every attempt ends in _release_slot, also one that retries.  *)

\* Mutant: one retry too many.
MayRetryOnceMore(r) == attempt[r] <= MaxAttempts

MayRetry(r) == attempt[r] < MaxAttempts

\* attempt[r] = 0 stands for a task whose last attempt is over.
EndAttempt(r) ==
  /\ pc[r] = "running"
  /\ Add(-1)
  /\ \/ attempt' = [attempt EXCEPT ![r] = 0]
     \/ MayRetry(r) /\ attempt' = [attempt EXCEPT ![r] = @ + 1]
  /\ cleaned' = [cleaned EXCEPT ![r] = FALSE]
  /\ Goto(r, IF counter - 1 <= 0 THEN "delete"
             ELSE IF attempt'[r] = 0 THEN "over" ELSE "running")
  /\ UNCHANGED <<got, copy, deleting, faults>>

\* The DEL of a release, by the API or by the worker: whatever the value is now.
Delete(r) ==
  /\ pc[r] = "delete"
  /\ Remove
  /\ Goto(r, IF attempt[r] = 0 THEN "over" ELSE "running")
  /\ UNCHANGED <<got, attempt, cleaned, copy, deleting, faults>>

\* Redis fails the DECR of the finally branch.  The exception replaces the Retry,
\* whose message is already published, and ends the attempt all the same.
ReleaseFails(r) ==
  /\ pc[r] = "running"
  /\ faults < MaxFaults
  /\ faults' = faults + 1
  /\ \/ attempt' = [attempt EXCEPT ![r] = 0] /\ Goto(r, "over")
     \/ MayRetry(r) /\ attempt' = [attempt EXCEPT ![r] = @ + 1] /\ UNCHANGED pc
  /\ cleaned' = [cleaned EXCEPT ![r] = FALSE]
  /\ UNCHANGED <<counter, key, got, copy, deleting>>

\* Redis fails the DEL, or its caller dies: the counter stays at zero or below.
DeleteFails(r) ==
  /\ pc[r] = "delete"
  /\ faults < MaxFaults
  /\ faults' = faults + 1
  /\ Goto(r, IF attempt[r] = 0 THEN "over" ELSE "running")
  /\ UNCHANGED <<counter, key, got, attempt, cleaned, copy, deleting>>

-----------------------------------------------------------------------------
(* cleanup_stale_tasks: a task that is PROCESSING for ten minutes, because *)
(* its worker is lost or because it is slow, releases its slot here.       *)

CleanupDecr(r) ==
  /\ pc[r] \in {"running", "lost"}
  /\ ~ cleaned[r]
  /\ StrayRelease("cleanup")
  /\ cleaned' = [cleaned EXCEPT ![r] = TRUE]
  /\ Goto(r, IF pc[r] = "lost" THEN "over" ELSE "running")
  /\ UNCHANGED <<got, attempt, copy, faults>>

\* The slots are released before the commit: when that fails, the task is found
\* stale again five minutes later, and its slot released again.
CleanupAborts(r) ==
  /\ pc[r] \in {"running", "lost"}
  /\ ~ cleaned[r]
  /\ faults < MaxFaults
  /\ faults' = faults + 1
  /\ StrayRelease("cleanup")
  /\ UNCHANGED <<pc, got, attempt, cleaned, copy>>

-----------------------------------------------------------------------------
(* A message that is delivered once more while its attempt goes on.  One of *)
(* those at a time.                                                         *)

Redelivered(r) ==
  /\ pc[r] = "running"
  /\ copy = 0
  /\ faults < MaxFaults
  /\ faults' = faults + 1
  /\ copy' = MaxAttempts + 1 - attempt[r]
  /\ UNCHANGED <<counter, key, pc, got, attempt, cleaned, deleting>>

\* The attempt of the copy releases a slot it never took, and may be retried too.
CopyEndsAttempt ==
  /\ copy > 0
  /\ StrayRelease("copy")
  /\ copy' \in {0, copy - 1}
  /\ UNCHANGED <<pc, got, attempt, cleaned, faults>>

StrayDelete(who) ==
  /\ who \in deleting
  /\ Remove
  /\ deleting' = deleting \ {who}
  /\ UNCHANGED <<pc, got, attempt, cleaned, copy, faults>>

-----------------------------------------------------------------------------
\* 300 seconds pass without another EXPIRE: each one starts them over.
Age ==
  /\ key = "fresh"
  /\ key' = "due"
  /\ UNCHANGED <<counter, pc, got, attempt, cleaned, copy, deleting, faults>>

Lapse ==
  /\ key = "due"
  /\ Remove
  /\ UNCHANGED <<pc, got, attempt, cleaned, copy, deleting, faults>>

\* The API process dies, or a call raises, before the task is queued.  A request
\* that dies before its EXPIRE, when the key has no expiry yet, is left stranded.
ApiDies(r) ==
  /\ pc[r] \in {"expire", "undo", "decide", "reject"}
  /\ faults < MaxFaults
  /\ faults' = faults + 1
  /\ Goto(r, IF pc[r] = "expire" /\ key = "plain" THEN "stranded" ELSE "over")
  /\ got' = [got EXCEPT ![r] = 0]
  /\ UNCHANGED <<counter, key, attempt, cleaned, copy, deleting>>

\* The worker process dies without its finally branch and is not redelivered;
\* if cleanup has been there already, nobody comes back to the task.
WorkerDies(r) ==
  /\ pc[r] = "running"
  /\ faults < MaxFaults
  /\ faults' = faults + 1
  /\ Goto(r, IF cleaned[r] THEN "over" ELSE "lost")
  /\ UNCHANGED <<counter, key, got, attempt, cleaned, copy, deleting>>

\* The user submits another prediction.
Again(r) ==
  /\ pc[r] = "over"
  /\ Goto(r, "idle")
  /\ attempt' = [attempt EXCEPT ![r] = 0]
  /\ cleaned' = [cleaned EXCEPT ![r] = FALSE]
  /\ UNCHANGED <<counter, key, got, copy, deleting, faults>>

Step(r) ==
  \/ Expire(r) \/ Undo(r) \/ RateLimited(r) \/ Submit(r) \/ Release(r)
  \/ EndAttempt(r) \/ Delete(r)

Next ==
  \/ \E r \in Request : Incr(r) \/ Step(r) \/ CleanupDecr(r) \/ CleanupAborts(r) \/ ApiDies(r)
                        \/ WorkerDies(r) \/ ReleaseFails(r) \/ DeleteFails(r) \/ Redelivered(r)
                        \/ Again(r)
  \/ CopyEndsAttempt
  \/ \E who \in {"cleanup", "copy"} : StrayDelete(who)
  \/ Age \/ Lapse

Spec == Init /\ [][Next]_vars

(***************************************************************************)
(* A request that acquired goes on, workers finish their attempts, beat    *)
(* keeps cleaning lost tasks up, and Redis drops expired keys.             *)
(***************************************************************************)
Fairness ==
  /\ \A r \in Request : WF_vars(Step(r))
  /\ \A r \in Request : WF_vars(pc[r] = "lost" /\ CleanupDecr(r))
  /\ WF_vars(StrayDelete("cleanup"))
  /\ WF_vars(Age) /\ WF_vars(Lapse)

FairSpec == Spec /\ Fairness

-----------------------------------------------------------------------------
\* Requests whose INCR has no DECR yet.
Claims == {r \in Request :
  \/ pc[r] \in {"expire", "undo", "decide", "reject"}
  \/ pc[r] \in {"running", "lost"} /\ attempt[r] = 1 /\ ~ cleaned[r]}

\* The counter never claims more than the requests that hold or are asking for
\* a slot, plus the slots that a fault kept from being released: retries,
\* cleanup and the unguarded DEL only ever make it too low, never too high, so
\* no user is refused because of a task that is over.
NeverOverstated == counter <= Cardinality(Claims) + faults

\* While the counter agrees with the requests that hold or ask for a slot, and
\* nothing died, no more requests are past the limit than the tariff allows:
\* every overrun goes back to a release that made the counter too low.
ExactCounterAdmits ==
  faults = 0 /\ counter = Cardinality(Claims)
  => Cardinality({r \in Claims : pc[r] \in {"decide", "reject", "running"}}) <= MaxConcurrent

\* Slots that a fault leaks block the user only until the user has been quiet for
\* the 300 seconds of the key: every acquire, a refused one too, starts them over.
\* What never lapses is a key whose acquirer died between INCR and EXPIRE before it
\* had an expiry.
LeaksLapse ==
  <>[](\A r \in Request : pc[r] # "expire") =>
    <>[](counter <= 0 \/ (key = "plain" /\ \E r \in Request : pc[r] = "stranded"))
=============================================================================
