----------------------------- MODULE RateLimiter -----------------------------
(***************************************************************************)
(* The sliding-window rate limiter of app/core/limiter.py for one user.    *)
(* The API takes the time before it calls Redis, and the script, which is  *)
(* atomic, works with that time stamp: scripts may run later than, and in  *)
(* another order than, their stamps.  A member of the sorted set is the    *)
(* stamp with a pseudo-random suffix, so two members may be equal.         *)
(***************************************************************************)
EXTENDS Integers, FiniteSets

CONSTANTS Request,
          Window,    \* the window, in ticks of the clock
          Limit,     \* tariffs.rate_limit
          Suffix,    \* what math.random returns in the script of a request
          MaxDelay,  \* bound: ticks between taking the stamp and the script
          MaxTime    \* bound: ticks of the clock

ASSUME RateAssumption ==
  /\ IsFiniteSet(Request)
  /\ Window \in Nat \ {0} /\ Limit \in Nat \ {0}
  /\ Suffix \in [Request -> Nat]
  /\ MaxDelay \in Nat /\ MaxTime \in Nat
  /\ MaxDelay < Window

VARIABLES
  now,      \* the clock, shared by the API hosts and Redis
  stamp,    \* now_ms of each request
  verdict,  \* "idle" until it is stamped, "sent" until the script has run
  zset,     \* the members of rl:{user_id}: score and suffix
  deadline  \* when the key expires

vars == <<now, stamp, verdict, zset, deadline>>

TypeOK ==
  /\ now \in 0..MaxTime
  /\ stamp \in [Request -> 0..MaxTime]
  /\ verdict \in [Request -> {"idle", "sent", "admitted", "refused"}]
  /\ zset \subseteq (0..MaxTime) \X {Suffix[r] : r \in Request}
  /\ deadline \in 0..(MaxTime + Window)

Init ==
  /\ now = 0
  /\ stamp = [r \in Request |-> 0]
  /\ verdict = [r \in Request |-> "idle"]
  /\ zset = {}
  /\ deadline = 0

\* check_rate_limit takes the time and sends the script.
Send(r) ==
  /\ verdict[r] = "idle"
  /\ stamp' = [stamp EXCEPT ![r] = now]
  /\ verdict' = [verdict EXCEPT ![r] = "sent"]
  /\ UNCHANGED <<now, zset, deadline>>

\* Mutant: a member exactly one window old still counts.
KeptInclusive(s) == {m \in zset : m[1] >= s - Window}

\* ZREMRANGEBYSCORE 0 .. s - Window leaves these.
Kept(s) == {m \in zset : m[1] > s - Window}

\* Mutant: one request too many.
FullOffByOne(S) == Cardinality(S) > Limit

Full(S) == Cardinality(S) >= Limit

Refuse(r) ==
  /\ verdict[r] = "sent"
  /\ Full(Kept(stamp[r]))
  /\ zset' = Kept(stamp[r])
  /\ verdict' = [verdict EXCEPT ![r] = "refused"]
  /\ UNCHANGED <<now, stamp, deadline>>

\* Mutant: the expiry is counted from the end of the window.
NextDeadlineLate == now + 2 * Window

\* PEXPIRE
NextDeadline == now + Window

Admit(r) ==
  /\ verdict[r] = "sent"
  /\ ~ Full(Kept(stamp[r]))
  /\ zset' = Kept(stamp[r]) \cup {<<stamp[r], Suffix[r]>>}
  /\ deadline' = NextDeadline
  /\ verdict' = [verdict EXCEPT ![r] = "admitted"]
  /\ UNCHANGED <<now, stamp>>

\* Time passes, but not past a script that must have run by now; the key goes
\* when its deadline is over.
Tick ==
  /\ now < MaxTime
  /\ \A r \in Request : verdict[r] = "sent" => now < stamp[r] + MaxDelay
  /\ now' = now + 1
  /\ zset' = IF now' > deadline THEN {} ELSE zset
  /\ UNCHANGED <<stamp, verdict, deadline>>

Next == (\E r \in Request : Send(r) \/ Refuse(r) \/ Admit(r)) \/ Tick

Spec == Init /\ [][Next]_vars

-----------------------------------------------------------------------------
Admitted == {r \in Request : verdict[r] = "admitted"}
Decided  == {r \in Request : verdict[r] \in {"admitted", "refused"}}

\* Nobody is refused without cause: when a script refuses, at least Limit
\* requests stamped less than a window earlier, or later, have been admitted.
RefusalJustified == [][\A r \in Request : Refuse(r) =>
  Cardinality({a \in Admitted : stamp[a] > stamp[r] - Window}) >= Limit]_vars

Members(A) == {<<stamp[a], Suffix[a]>> : a \in A}

\* Admitted with a stamp that lies at most Window - MaxDelay before s: a script
\* that late may find the key expired Window after the last admission, although
\* members in it still belong to the window that ends with its own stamp.
AdmittedNear(s) == {a \in Admitted : /\ s - stamp[a] < Window
                                     /\ s - stamp[a] <= Window - MaxDelay}

\* Up to the latest stamp any script has used, no more than Limit requests are
\* admitted within a window less the greatest delay, even when scripts overtake one
\* another and the key expires between them; but requests that draw equal members,
\* which Redis makes of one millisecond because it seeds math.random alike for
\* every script, count as one.
RecentBounded == \A last \in Decided :
  (\A r \in Decided : stamp[r] <= stamp[last]) =>
    Cardinality(Members(AdmittedNear(stamp[last]))) <= Limit
=============================================================================
