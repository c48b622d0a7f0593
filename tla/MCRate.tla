------------------------------- MODULE MCRate -------------------------------
(***************************************************************************)
(* Instances of the rate limiter for TLC.  The requests are numbers, so    *)
(* that a request can be its own suffix.                                   *)
(***************************************************************************)
EXTENDS RateLimiter

\* Requests 1 and 2 draw the same suffix, the others do not.
PartlyEqual == [r \in Request |-> IF r <= 2 THEN 0 ELSE r]
=============================================================================
