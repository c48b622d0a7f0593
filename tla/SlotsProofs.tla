---------------------------- MODULE SlotsProofs ----------------------------
(***************************************************************************)
(* Proofs about the concurrency counter, for any number of requests, slots *)
(* attempts and faults.                                                    *)
(***************************************************************************)
EXTENDS ConcurrencySlots, FiniteSetTheorems, TLAPS

USE ConcurrencyAssumption

\* The counter starts with its types.
LEMMA SlotTypesInit == Init => TypeOK
<1> SUFFICES ASSUME Init PROVE TypeOK
  OBVIOUS
<1>1. cleaned \in [Request -> BOOLEAN] /\ deleting \subseteq {"cleanup", "copy"}
  BY Zenon DEF Init
<1> QED
  BY <1>1 DEF Init, TypeOK

\* Cleanup has only been at tasks that a worker has taken, those are in their
\* first attempt at least, and a message is only delivered twice by a fault.
CleanedLate ==
  /\ \A r \in Request : /\ cleaned[r] => pc[r] \in {"running", "over"}
                        /\ pc[r] = "running" => attempt[r] >= 1
  /\ faults = 0 => copy = 0

\* Every command on the counter keeps the types.
LEMMA SlotTypesStep == TypeOK /\ CleanedLate /\ [Next]_vars => TypeOK'
<1> SUFFICES ASSUME TypeOK, CleanedLate, [Next]_vars
             PROVE  TypeOK'
  OBVIOUS
<1> USE DEF TypeOK, Goto, Add, Remove
<1>1. ASSUME NEW r \in Request, Incr(r)
      PROVE  TypeOK'
  BY <1>1 DEF Incr
<1>2. ASSUME NEW r \in Request, Undo(r)
      PROVE  TypeOK'
  BY <1>2 DEF Undo
<1>3. ASSUME NEW r \in Request, Release(r)
      PROVE  TypeOK'
  BY <1>3 DEF Release
<1>4. ASSUME NEW r \in Request, Expire(r)
      PROVE  TypeOK'
  BY <1>4 DEF Expire
<1>5. ASSUME NEW r \in Request, RateLimited(r)
      PROVE  TypeOK'
  BY <1>5 DEF RateLimited
<1>6. ASSUME NEW r \in Request, Submit(r)
      PROVE  TypeOK'
  BY <1>6 DEF Submit
<1>7. ASSUME NEW r \in Request, EndAttempt(r)
      PROVE  TypeOK'
  BY <1>7 DEF EndAttempt, MayRetry
<1>8. ASSUME NEW r \in Request, ReleaseFails(r)
      PROVE  TypeOK'
  BY <1>8 DEF ReleaseFails, MayRetry
<1>9. ASSUME NEW r \in Request, Delete(r)
      PROVE  TypeOK'
  BY <1>9 DEF Delete
<1>10. ASSUME NEW r \in Request, DeleteFails(r)
      PROVE  TypeOK'
  BY <1>10 DEF DeleteFails
<1>11. ASSUME NEW r \in Request, CleanupDecr(r)
      PROVE  TypeOK'
  BY <1>11 DEF CleanupDecr, StrayRelease
<1>12. ASSUME NEW r \in Request, CleanupAborts(r)
      PROVE  TypeOK'
  BY <1>12 DEF CleanupAborts, StrayRelease
<1>13. ASSUME NEW r \in Request, Redelivered(r)
      PROVE  TypeOK'
  BY <1>13 DEF Redelivered, CleanedLate
<1>14. ASSUME NEW r \in Request, ApiDies(r)
      PROVE  TypeOK'
  BY <1>14 DEF ApiDies
<1>15. ASSUME NEW r \in Request, WorkerDies(r)
      PROVE  TypeOK'
  BY <1>15 DEF WorkerDies
<1>16. ASSUME NEW r \in Request, Again(r)
      PROVE  TypeOK'
  BY <1>16 DEF Again
<1>17. CASE CopyEndsAttempt
  BY <1>17 DEF CopyEndsAttempt, StrayRelease
<1>18. ASSUME NEW who \in {"cleanup", "copy"}, StrayDelete(who)
       PROVE  TypeOK'
  BY <1>18 DEF StrayDelete
<1>19. CASE Age
  BY <1>19 DEF Age
<1>20. CASE Lapse
  BY <1>20 DEF Lapse
<1>21. CASE UNCHANGED vars
  BY <1>21 DEF vars
<1> QED
  BY <1>1, <1>2, <1>3, <1>4, <1>5, <1>6, <1>7, <1>8, <1>9, <1>10, <1>11, <1>12, <1>13, <1>14, <1>15,
     <1>16, <1>17, <1>18, <1>19, <1>20, <1>21 DEF Next, Step

\* The cleanup only knows tasks that were begun, and a running task was begun.
LEMMA CleanedStep == TypeOK /\ CleanedLate /\ [Next]_vars => CleanedLate'
<1> SUFFICES ASSUME TypeOK, CleanedLate, [Next]_vars
             PROVE  CleanedLate'
  OBVIOUS
<1> USE DEF TypeOK, CleanedLate, Goto
<1>1. ASSUME NEW r \in Request, Incr(r) \/ Undo(r) \/ Release(r)
      PROVE  CleanedLate'
  BY <1>1 DEF Incr, Undo, Release
<1>2. ASSUME NEW r \in Request, Expire(r) \/ RateLimited(r) \/ Submit(r)
      PROVE  CleanedLate'
  BY <1>2 DEF Expire, RateLimited, Submit
<1>3. ASSUME NEW r \in Request, EndAttempt(r)
      PROVE  CleanedLate'
  BY <1>3 DEF EndAttempt, MayRetry
<1>4. ASSUME NEW r \in Request, ReleaseFails(r)
      PROVE  CleanedLate'
  BY <1>4 DEF ReleaseFails, MayRetry
<1>5. ASSUME NEW r \in Request, Delete(r) \/ DeleteFails(r)
      PROVE  CleanedLate'
  BY <1>5 DEF Delete, DeleteFails
<1>6. ASSUME NEW r \in Request, CleanupDecr(r) \/ CleanupAborts(r) \/ Redelivered(r)
      PROVE  CleanedLate'
  BY <1>6 DEF CleanupDecr, CleanupAborts, Redelivered, StrayRelease
<1>7. ASSUME NEW r \in Request, ApiDies(r) \/ WorkerDies(r) \/ Again(r)
      PROVE  CleanedLate'
  BY <1>7 DEF ApiDies, WorkerDies, Again
<1>8. CASE \/ CopyEndsAttempt \/ Age \/ Lapse \/ UNCHANGED vars
           \/ \E who \in {"cleanup", "copy"} : StrayDelete(who)
  BY <1>8 DEF CopyEndsAttempt, StrayRelease, StrayDelete, Age, Lapse, vars
<1> QED
  BY <1>1, <1>2, <1>3, <1>4, <1>5, <1>6, <1>7, <1>8 DEF Next, Step

\* Every variable of the counter's model keeps its type.
THEOREM SlotTypes == Spec => []TypeOK
<1>1. Init => CleanedLate
  BY DEF Init, CleanedLate
<1> QED
  BY SlotTypesInit, SlotTypesStep, CleanedStep, <1>1, PTL DEF Spec

-----------------------------------------------------------------------------
SlotInv == TypeOK /\ CleanedLate /\ NeverOverstated

\* The claims on a slot can be counted.
LEMMA ClaimsAreFinite == IsFiniteSet(Claims) /\ Cardinality(Claims) \in Nat
<1>1. Claims \subseteq Request
  BY DEF Claims
<1> QED
  BY <1>1, FS_Subset, FS_CardinalityType

\* So can those after a step.
LEMMA ClaimsStayFinite == IsFiniteSet(Claims') /\ Cardinality(Claims') \in Nat
<1>1. Claims' \subseteq Request
  BY DEF Claims
<1> QED
  BY <1>1, FS_Subset, FS_CardinalityType

\* A step that takes at most one claim away lowers their number by one at most.
LEMMA OneClaimLess ==
  ASSUME NEW r, Claims \ {r} \subseteq Claims'
  PROVE  Cardinality(Claims) - 1 <= Cardinality(Claims')
<1>1. /\ IsFiniteSet(Claims \ {r})
      /\ Cardinality(Claims \ {r}) \in {Cardinality(Claims), Cardinality(Claims) - 1}
  BY ClaimsAreFinite, FS_RemoveElement
<1>2. Cardinality(Claims \ {r}) <= Cardinality(Claims')
  BY ClaimsStayFinite, FS_Subset
<1> QED
  BY <1>1, <1>2, ClaimsAreFinite, ClaimsStayFinite

\* A step that takes no claim away does not lower their number.
LEMMA NoClaimLess ==
  ASSUME Claims \subseteq Claims'
  PROVE  Cardinality(Claims) <= Cardinality(Claims')
BY ClaimsStayFinite, FS_Subset

\* A step that adds a claim raises their number.
LEMMA OneClaimMore ==
  ASSUME NEW r, r \notin Claims, Claims \cup {r} \subseteq Claims'
  PROVE  Cardinality(Claims) + 1 <= Cardinality(Claims')
<1>1. /\ IsFiniteSet(Claims \cup {r})
      /\ Cardinality(Claims \cup {r}) = Cardinality(Claims) + 1
  BY ClaimsAreFinite, FS_AddElement
<1> QED
  BY <1>1, ClaimsStayFinite, FS_Subset

\* With no key and no request the counter is not overstated.
LEMMA SlotInit == Init => SlotInv
<1> SUFFICES ASSUME Init PROVE NeverOverstated /\ CleanedLate
  BY SlotTypesInit DEF SlotInv
<1> QED
  BY ClaimsAreFinite DEF Init, NeverOverstated, CleanedLate

\* No command, and no failure of one, lifts the counter above claims and faults.
LEMMA OverstatedStep == SlotInv /\ [Next]_vars => NeverOverstated'
<1> SUFFICES ASSUME SlotInv, [Next]_vars
             PROVE  NeverOverstated'
  OBVIOUS
<1>t. /\ TypeOK /\ CleanedLate /\ NeverOverstated
      /\ counter \in Int /\ faults \in Nat
  BY DEF SlotInv, TypeOK
<1>c. Cardinality(Claims) \in Nat /\ Cardinality(Claims') \in Nat
  BY ClaimsAreFinite, ClaimsStayFinite
<1>d. counter <= Cardinality(Claims) + faults
  BY <1>t DEF NeverOverstated
<1> DEFINE Enough == counter' <= Cardinality(Claims') + faults'
<1> SUFFICES Enough
  BY DEF NeverOverstated
\* A claim is made together with an INCR, ...
<1>1. ASSUME NEW r \in Request, Incr(r)
      PROVE  Enough
  <2>1. r \notin Claims /\ Claims \cup {r} \subseteq Claims'
    BY <1>t, <1>1 DEF Incr, Goto, Claims, TypeOK
  <2>2. Cardinality(Claims) + 1 <= Cardinality(Claims')
    BY <2>1, OneClaimMore
  <2> QED
    BY <1>1, <1>t, <1>c, <1>d, <2>2 DEF Incr, Add
\* ... given up together with a DECR, ...
<1>2. ASSUME NEW r \in Request, Undo(r) \/ Release(r) \/ EndAttempt(r) \/ CleanupDecr(r)
      PROVE  Enough
  <2>1. Claims \ {r} \subseteq Claims'
    BY <1>t, <1>2 DEF Undo, Release, EndAttempt, CleanupDecr, Goto, Claims, TypeOK
  <2>2. Cardinality(Claims) - 1 <= Cardinality(Claims')
    BY <2>1, OneClaimLess
  <2>3. counter' = counter - 1 /\ faults' = faults
    BY <1>2, <1>t DEF Undo, Release, EndAttempt, CleanupDecr, StrayRelease, Add
  <2> QED
    BY <1>t, <1>c, <1>d, <2>2, <2>3
\* ... or lost to a fault.
<1>3. ASSUME NEW r \in Request, ReleaseFails(r) \/ ApiDies(r) \/ WorkerDies(r)
      PROVE  Enough
  <2>1. Claims \ {r} \subseteq Claims'
    BY <1>t, <1>3 DEF ReleaseFails, ApiDies, WorkerDies, Goto, Claims, TypeOK
  <2>2. Cardinality(Claims) - 1 <= Cardinality(Claims')
    BY <2>1, OneClaimLess
  <2>3. counter' = counter /\ faults' = faults + 1
    BY <1>3 DEF ReleaseFails, ApiDies, WorkerDies
  <2> QED
    BY <1>t, <1>c, <1>d, <2>2, <2>3
<1>4. ASSUME NEW r \in Request, Expire(r) \/ RateLimited(r) \/ Submit(r)
      PROVE  Enough
  <2>1. Claims \subseteq Claims'
    BY <1>t, <1>4 DEF Expire, RateLimited, Submit, Goto, Claims, TypeOK, CleanedLate
  <2>2. Cardinality(Claims) <= Cardinality(Claims')
    BY <2>1, NoClaimLess
  <2>3. counter' = counter /\ faults' = faults
    BY <1>4 DEF Expire, RateLimited, Submit
  <2> QED
    BY <1>t, <1>c, <1>d, <2>2, <2>3
<1>5. ASSUME NEW r \in Request, DeleteFails(r) \/ CleanupAborts(r)
      PROVE  Enough
  <2>1. Claims \subseteq Claims'
    BY <1>t, <1>5 DEF DeleteFails, CleanupAborts, Goto, Claims, TypeOK
  <2>2. Cardinality(Claims) <= Cardinality(Claims')
    BY <2>1, NoClaimLess
  <2>3. counter' \in {counter, counter - 1} /\ faults' = faults + 1
    BY <1>5, <1>t DEF DeleteFails, CleanupAborts, StrayRelease, Add
  <2> QED
    BY <1>t, <1>c, <1>d, <2>2, <2>3
\* A DEL, or the lapse of the key, leaves nothing to overstate.
<1>6. CASE \/ Lapse \/ \E r \in Request : Delete(r)
           \/ \E who \in {"cleanup", "copy"} : StrayDelete(who)
  <2>1. counter' = 0 /\ faults' = faults
    BY <1>6 DEF StrayDelete, Lapse, Delete, Remove
  <2> QED
    BY <1>t, <1>c, <2>1
\* A copy of a message gives back what it never took; a new request claims nothing yet.
<1>7. CASE Age \/ CopyEndsAttempt \/ \E r \in Request : Again(r) \/ Redelivered(r)
  <2>1. Claims \subseteq Claims'
    BY <1>t, <1>7 DEF Age, CopyEndsAttempt, Again, Redelivered, Goto, Claims, TypeOK
  <2>2. Cardinality(Claims) <= Cardinality(Claims')
    BY <2>1, NoClaimLess
  <2>3. counter' \in {counter, counter - 1} /\ faults' \in {faults, faults + 1}
    BY <1>7, <1>t DEF Age, CopyEndsAttempt, Again, Redelivered, StrayRelease, Add
  <2> QED
    BY <1>t, <1>c, <1>d, <2>2, <2>3
<1>8. CASE UNCHANGED vars
  <2>1. Claims' = Claims /\ counter' = counter /\ faults' = faults
    BY <1>8 DEF vars, Claims
  <2> QED
    BY <1>d, <2>1
<1> QED
  BY <1>1, <1>2, <1>3, <1>4, <1>5, <1>6, <1>7, <1>8 DEF Next, Step

\* Retries, cleanup and the unguarded DEL only ever make the counter too low: it
\* exceeds the requests that hold or ask for a slot by no more than the faults.
THEOREM CounterNeverOverstated == Spec => []NeverOverstated
<1>1. SlotInv /\ [Next]_vars => SlotInv'
  BY SlotTypesStep, CleanedStep, OverstatedStep DEF SlotInv
<1>2. SlotInv => NeverOverstated
  BY DEF SlotInv
<1> QED
  BY SlotInit, <1>1, <1>2, PTL DEF Spec

-----------------------------------------------------------------------------
\* The claims that are past the limit check or will pass it.
Within == {r \in Claims : \/ pc[r] \in {"decide", "reject", "running"}
                          \/ pc[r] = "expire" /\ ~ TooMany(got[r])}

\* Once the counter is too low it stays so until a DEL finds no claim at all, so
\* while it is exact every INCR has returned the number of claims there were.
ExactWithin == faults = 0 /\ counter = Cardinality(Claims) => Cardinality(Within) <= MaxConcurrent

\* The claims within the limit are claims, and fewer of them count less.
LEMMA WithinCounted ==
  /\ IsFiniteSet(Within') /\ Cardinality(Within') \in Nat
  /\ Cardinality(Within') <= Cardinality(Claims')
  /\ Within' \subseteq Within => Cardinality(Within') <= Cardinality(Within)
  /\ Cardinality(Within) \in Nat
<1>1. Within \subseteq Claims /\ Within' \subseteq Claims'
  BY DEF Within
<1> QED
  BY <1>1, ClaimsAreFinite, ClaimsStayFinite, FS_Subset, FS_CardinalityType

\* Every step that keeps the counter exact keeps those within the limit few.
LEMMA ExactStep == SlotInv /\ ExactWithin /\ [Next]_vars => ExactWithin'
<1> SUFFICES ASSUME SlotInv, ExactWithin, [Next]_vars, faults' = 0,
                    counter' = Cardinality(Claims')
             PROVE  Cardinality(Within') <= MaxConcurrent
  BY DEF ExactWithin
<1>t. /\ TypeOK /\ CleanedLate
      /\ counter \in Int /\ faults \in Nat /\ got \in [Request -> Int]
  BY DEF SlotInv, TypeOK
<1>c. Cardinality(Claims) \in Nat /\ Cardinality(Claims') \in Nat
  BY ClaimsAreFinite, ClaimsStayFinite
<1>k. ASSUME faults = 0, counter = Cardinality(Claims), Within' \subseteq Within
      PROVE  Cardinality(Within') <= MaxConcurrent
  BY <1>k, <1>t, WithinCounted DEF ExactWithin
\* A claim more: either it is one too many, or all of them are not.
<1>1. ASSUME NEW r \in Request, Incr(r)
      PROVE  Cardinality(Within') <= MaxConcurrent
  <2>1. r \notin Claims /\ Claims' = Claims \cup {r}
    BY <1>t, <1>1 DEF Incr, Goto, Claims, TypeOK
  <2>2. Cardinality(Claims') = Cardinality(Claims) + 1
    BY <2>1, ClaimsAreFinite, FS_AddElement
  <2>3. faults = 0 /\ counter' = counter + 1 /\ got'[r] = counter + 1
    BY <1>1, <1>t DEF Incr, Add
  <2>4. counter = Cardinality(Claims)
    BY <1>t, <1>c, <2>2, <2>3
  <2>5. CASE TooMany(got'[r])
    <3>1. Within' \subseteq Within
      BY <1>t, <1>1, <2>1, <2>5 DEF Incr, Goto, Within, TypeOK
    <3> QED
      BY <1>k, <2>3, <2>4, <3>1
  <2>6. CASE ~ TooMany(got'[r])
    <3>1. Cardinality(Claims') <= MaxConcurrent
      BY <1>c, <1>t, <2>2, <2>3, <2>4, <2>6 DEF TooMany
    <3> QED
      BY <1>c, <3>1, WithinCounted
  <2> QED
    BY <2>5, <2>6
\* A claim less: the counter was exact before, because it was never too high.
<1>2. ASSUME NEW r \in Request, Undo(r) \/ Release(r) \/ EndAttempt(r) \/ CleanupDecr(r)
      PROVE  Cardinality(Within') <= MaxConcurrent
  <2>1. Claims \ {r} \subseteq Claims'
    BY <1>t, <1>2 DEF Undo, Release, EndAttempt, CleanupDecr, Goto, Claims, TypeOK
  <2>2. Cardinality(Claims) - 1 <= Cardinality(Claims')
    BY <2>1, OneClaimLess
  <2>3. counter' = counter - 1 /\ faults = 0
    BY <1>2, <1>t DEF Undo, Release, EndAttempt, CleanupDecr, StrayRelease, Add
  <2>4. counter = Cardinality(Claims)
    BY <1>t, <1>c, <2>2, <2>3 DEF SlotInv, NeverOverstated
  <2>5. Within' \subseteq Within
    BY <1>t, <1>2 DEF Undo, Release, EndAttempt, CleanupDecr, MayRetry, Goto, Claims, Within, TypeOK,
                      CleanedLate
  <2> QED
    BY <1>k, <2>3, <2>4, <2>5
<1>3. ASSUME NEW r \in Request, Expire(r) \/ RateLimited(r) \/ Submit(r)
      PROVE  Cardinality(Within') <= MaxConcurrent
  <2>1. Claims' = Claims
    BY <1>t, <1>3 DEF Expire, RateLimited, Submit, Goto, Claims, TypeOK, CleanedLate
  <2>2. Within' \subseteq Within
    <3> USE <1>t, <2>1 DEF Goto, Within, TypeOK, TooMany
    <3>1. CASE Expire(r)
      BY <3>1 DEF Expire
    <3>2. CASE RateLimited(r)
      BY <3>2 DEF RateLimited
    <3>3. CASE Submit(r)
      BY <3>3 DEF Submit
    <3> QED
      BY <1>3, <3>1, <3>2, <3>3
  <2>3. counter' = counter /\ faults = 0
    BY <1>3 DEF Expire, RateLimited, Submit
  <2> QED
    BY <1>k, <2>1, <2>2, <2>3
\* A DEL leaves the counter exact only when there are no claims.
<1>4. CASE \/ Lapse \/ \E r \in Request : Delete(r)
           \/ \E who \in {"cleanup", "copy"} : StrayDelete(who)
  <2>1. Cardinality(Claims') = 0
    BY <1>4 DEF StrayDelete, Lapse, Delete, Remove
  <2> QED
    BY <2>1, WithinCounted
<1>5. ASSUME NEW r \in Request, \/ ReleaseFails(r) \/ DeleteFails(r) \/ ApiDies(r)
                                \/ WorkerDies(r) \/ CleanupAborts(r) \/ Redelivered(r)
      PROVE  FALSE
  BY <1>5, <1>t DEF ReleaseFails, DeleteFails, ApiDies, WorkerDies, CleanupAborts, Redelivered
<1>6. CASE CopyEndsAttempt
  BY <1>6, <1>t DEF CopyEndsAttempt, CleanedLate
<1>7. ASSUME Age \/ \E r \in Request : Again(r)
      PROVE  Cardinality(Within') <= MaxConcurrent
  <2>1. Claims' = Claims /\ Within' \subseteq Within
    BY <1>t, <1>7 DEF Age, Again, Goto, Claims, Within, TypeOK
  <2>2. counter' = counter /\ faults = 0
    BY <1>7 DEF Age, Again
  <2> QED
    BY <1>k, <2>1, <2>2
<1>8. CASE UNCHANGED vars
  <2>1. Claims' = Claims /\ Within' = Within /\ counter' = counter /\ faults' = faults
    BY <1>8 DEF vars, Claims, Within
  <2> QED
    BY <1>k, <2>1
<1> QED
  BY <1>1, <1>2, <1>3, <1>4, <1>5, <1>6, <1>7, <1>8 DEF Next, Step

\* Every overrun of the tariff's limit goes back to a release that made the counter
\* too low, or to a fault: while the counter is exact the limit is kept.
THEOREM ExactCounterLimits == Spec => []ExactCounterAdmits
<1>1. Init => ExactWithin
  <2>1. ASSUME Init PROVE Within = {}
    BY <2>1 DEF Init, Within, Claims
  <2> QED
    BY <2>1, FS_EmptySet DEF ExactWithin
<1>2. SlotInv /\ [Next]_vars => SlotInv'
  BY SlotTypesStep, CleanedStep, OverstatedStep DEF SlotInv
<1>3. ExactWithin => ExactCounterAdmits
  <2> DEFINE Past == {r \in Claims : pc[r] \in {"decide", "reject", "running"}}
  <2>1. Past \subseteq Within /\ Within \subseteq Claims
    BY DEF Within
  <2>2. Cardinality(Past) <= Cardinality(Within)
    BY <2>1, ClaimsAreFinite, FS_Subset
  <2>3. Cardinality(Past) \in Nat /\ Cardinality(Within) \in Nat
    BY <2>1, ClaimsAreFinite, FS_Subset, FS_CardinalityType
  <2> HIDE DEF Past
  <2>4. ExactWithin /\ faults = 0 /\ counter = Cardinality(Claims)
          => Cardinality(Past) <= MaxConcurrent
    BY <2>2, <2>3 DEF ExactWithin
  <2> QED
    BY <2>4 DEF ExactCounterAdmits, Past
<1> QED
  BY SlotInit, ExactStep, <1>1, <1>2, <1>3, PTL DEF Spec
=============================================================================
