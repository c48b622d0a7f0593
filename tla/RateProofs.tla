----------------------------- MODULE RateProofs -----------------------------
(***************************************************************************)
(* Proofs about the rate limiter, for any requests, suffixes, window,      *)
(* limit and delay.  An admitted request leaves the sorted set in two ways *)
(* only: a script with a stamp a window later pruned it, or the key        *)
(* expired.  Either way it is too old for the window of any later stamp.   *)
(***************************************************************************)
EXTENDS RateLimiter, FiniteSetTheorems, TLAPS

USE RateAssumption

Member(r) == <<stamp[r], Suffix[r]>>

\* A script runs soon after its stamp was taken, and the key outlives each of its
\* members by a window.
Timely ==
  /\ \A r \in Request : stamp[r] <= now
  /\ \A r \in Request : verdict[r] = "sent" => now <= stamp[r] + MaxDelay
  /\ \A m \in zset : m[1] + Window <= deadline

MembersAdmitted == \A m \in zset : \E a \in Admitted : m = Member(a)

\* An admitted request is in the set, or was pruned, or expired.
Accounted == \A a \in Admitted :
  \/ Member(a) \in zset
  \/ \E s \in Decided : stamp[s] >= stamp[a] + Window
  \/ now > stamp[a] + Window

RateInv == TypeOK /\ Timely /\ MembersAdmitted /\ Accounted

\* Sets of members can be counted, and a smaller set has fewer.
LEMMA MembersCounted ==
  ASSUME NEW A, A \subseteq Request
  PROVE  /\ IsFiniteSet(Members(A)) /\ Cardinality(Members(A)) \in Nat
         /\ \A S \in SUBSET Members(A) : IsFiniteSet(S) /\ Cardinality(S) \in Nat
                                          /\ Cardinality(S) <= Cardinality(Members(A))
<1>1. IsFiniteSet(A)
  BY FS_Subset
<1>2. IsFiniteSet(Members(A))
  <2> DEFINE f == [a \in A |-> <<stamp[a], Suffix[a]>>]
  <2>1. f \in Surjection(A, Members(A))
    BY DEF Members, Surjection
  <2> QED
    BY <1>1, <2>1, FS_Surjection
<1> QED
  BY <1>2, FS_Subset, FS_CardinalityType

\* At the start nothing was admitted.
LEMMA RateInit == Init => RateInv
BY DEF Init, RateInv, TypeOK, Timely, MembersAdmitted, Accounted, Admitted

\* Every step keeps the types.
LEMMA RateTypesStep == TypeOK /\ [Next]_vars => TypeOK'
<1> SUFFICES ASSUME TypeOK, [Next]_vars PROVE TypeOK'
  OBVIOUS
<1> USE DEF TypeOK, Kept
<1>1. ASSUME NEW r \in Request, Send(r) PROVE TypeOK'
  BY <1>1 DEF Send
<1>2. ASSUME NEW r \in Request, Refuse(r) PROVE TypeOK'
  BY <1>2 DEF Refuse
<1>3. ASSUME NEW r \in Request, Admit(r) PROVE TypeOK'
  BY <1>3 DEF Admit, NextDeadline
<1>4. CASE Tick
  BY <1>4 DEF Tick
<1>5. CASE UNCHANGED vars
  BY <1>5 DEF vars
<1> QED
  BY <1>1, <1>2, <1>3, <1>4, <1>5 DEF Next

\* Every step keeps the invariant.
LEMMA RateStep == RateInv /\ [Next]_vars => RateInv'
<1> SUFFICES ASSUME RateInv, [Next]_vars PROVE RateInv'
  OBVIOUS
<1>0. TypeOK'
  BY RateTypesStep DEF RateInv
<1> USE <1>0 DEF RateInv, TypeOK, Timely, MembersAdmitted, Accounted, Admitted, Decided, Member
<1>1. ASSUME NEW r \in Request, Send(r) PROVE RateInv'
  BY <1>1 DEF Send
<1>2. ASSUME NEW r \in Request, Refuse(r) PROVE RateInv'
  BY <1>2 DEF Refuse, Kept
<1>3. ASSUME NEW r \in Request, Admit(r) PROVE RateInv'
  BY <1>3 DEF Admit, Kept, NextDeadline
<1>4. CASE Tick
  BY <1>4 DEF Tick
<1>5. CASE UNCHANGED vars
  BY <1>5 DEF vars
<1> QED
  BY <1>1, <1>2, <1>3, <1>4, <1>5 DEF Next

\* Every variable of the rate limiter keeps its type: the key never outlives the
\* clock by more than a window.
THEOREM RateTypes == Spec => []TypeOK
<1>1. RateInv => TypeOK
  BY DEF RateInv
<1> QED
  BY RateInit, RateStep, <1>1, PTL DEF Spec

\* When a script refuses, at least Limit requests stamped less than a window
\* earlier, or later, were admitted: each member it counted is one of them.
THEOREM RefusalsAreJustified == Spec => RefusalJustified
<1>1. RateInv /\ [Next]_vars =>
        [\A r \in Request : Refuse(r) =>
           Cardinality({a \in Admitted : stamp[a] > stamp[r] - Window}) >= Limit]_vars
  <2> SUFFICES ASSUME RateInv, NEW r \in Request, Refuse(r)
               PROVE  Cardinality({a \in Admitted : stamp[a] > stamp[r] - Window}) >= Limit
    OBVIOUS
  <2> DEFINE A == {a \in Admitted : stamp[a] > stamp[r] - Window}
  <2>1. A \subseteq Request /\ IsFiniteSet(A) /\ Cardinality(A) \in Nat
    BY FS_Subset, FS_CardinalityType DEF Admitted
  <2>2. Kept(stamp[r]) \subseteq Members(A)
    BY DEF RateInv, MembersAdmitted, Member, Members, Kept
  <2>3. Cardinality(Kept(stamp[r])) <= Cardinality(Members(A))
    BY <2>1, <2>2, MembersCounted
  <2>4. Cardinality(Members(A)) <= Cardinality(A)
    <3> DEFINE f == [a \in A |-> <<stamp[a], Suffix[a]>>]
    <3>1. f \in Surjection(A, Members(A))
      BY DEF Members, Surjection
    <3> QED
      BY <2>1, <3>1, FS_Surjection
  <2>5. Cardinality(Kept(stamp[r])) >= Limit
    BY DEF Refuse, Full
  <2>6. Cardinality(Members(A)) \in Nat /\ Cardinality(Kept(stamp[r])) \in Nat
    BY <2>1, <2>2, MembersCounted
  <2> HIDE DEF A
  <2> QED
    BY <2>1, <2>3, <2>4, <2>5, <2>6 DEF A
<1> QED
  BY RateInit, RateStep, <1>1, PTL DEF Spec, RefusalJustified

-----------------------------------------------------------------------------
\* RecentBounded for every moment after the scripts so far, not only for the stamp
\* of one of them: then a refusal cannot disturb it.
BoundedFrom == \A s \in Nat :
  (\A r \in Decided : stamp[r] <= s) => Cardinality(Members(AdmittedNear(s))) <= Limit

\* What was admitted near s is still in the set when a script not later than s, but
\* later than all before it or near them, counts.
LEMMA NearIsCounted ==
  ASSUME RateInv, NEW r \in Request, verdict[r] = "sent",
         NEW s \in Nat, stamp[r] <= s, \A q \in Decided : stamp[q] <= s
  PROVE  Members(AdmittedNear(s)) \subseteq Kept(stamp[r])
<1> SUFFICES ASSUME NEW a \in AdmittedNear(s) PROVE Member(a) \in Kept(stamp[r])
  BY DEF Members, Member
<1>1. /\ a \in Admitted /\ s < stamp[a] + Window /\ s + MaxDelay <= stamp[a] + Window
      /\ stamp[a] \in Nat /\ stamp[r] \in Nat /\ now \in Nat
  BY DEF AdmittedNear, Admitted, RateInv, TypeOK
<1>2. now <= stamp[r] + MaxDelay
  BY DEF RateInv, Timely
<1>3. Member(a) \in zset
  <2>1. ~ (now > stamp[a] + Window)
    BY <1>1, <1>2
  <2>2. ~ \E q \in Decided : stamp[q] >= stamp[a] + Window
    BY <1>1 DEF Decided, RateInv, TypeOK
  <2> QED
    BY <1>1, <2>1, <2>2 DEF RateInv, Accounted
<1> QED
  BY <1>1, <1>3 DEF Kept, Member

\* Only an admission adds to what was admitted near s, and it counts that first.
LEMMA BoundedStep == RateInv /\ BoundedFrom /\ [Next]_vars => BoundedFrom'
<1> SUFFICES ASSUME RateInv, BoundedFrom, [Next]_vars, NEW s \in Nat,
                    \A r \in Decided' : stamp'[r] <= s
             PROVE  Cardinality(Members(AdmittedNear(s))') <= Limit
  BY DEF BoundedFrom
<1>1. CASE /\ Decided \subseteq Decided' /\ Members(AdmittedNear(s))' = Members(AdmittedNear(s))
           /\ \A r \in Decided : stamp'[r] = stamp[r]
  BY <1>1 DEF BoundedFrom
<1>2. ASSUME NEW r \in Request, Send(r)
      PROVE  Cardinality(Members(AdmittedNear(s))') <= Limit
  <2>1. \A q \in Decided : q # r /\ stamp'[q] = stamp[q]
    BY <1>2 DEF Send, Decided, RateInv, TypeOK
  <2>2. Decided' = Decided /\ Admitted' = Admitted /\ Admitted \subseteq Decided
    BY <1>2 DEF Send, Decided, Admitted, RateInv, TypeOK
  <2>3. AdmittedNear(s)' = AdmittedNear(s) /\ AdmittedNear(s) \subseteq Decided
    BY <2>1, <2>2 DEF AdmittedNear
  <2>4. Members(AdmittedNear(s))' = Members(AdmittedNear(s))
    BY <2>1, <2>3 DEF Members
  <2> QED
    BY <1>1, <2>1, <2>2, <2>4
<1>3. ASSUME NEW r \in Request, Refuse(r)
      PROVE  Cardinality(Members(AdmittedNear(s))') <= Limit
  <2>1. Admitted' = Admitted /\ Decided \subseteq Decided' /\ stamp' = stamp
    BY <1>3 DEF Refuse, Decided, Admitted, RateInv, TypeOK
  <2> QED
    BY <1>1, <2>1 DEF AdmittedNear, Members
<1>4. ASSUME NEW r \in Request, Admit(r)
      PROVE  Cardinality(Members(AdmittedNear(s))') <= Limit
  <2>1. /\ stamp' = stamp /\ verdict[r] = "sent" /\ r \in Decided' /\ Decided \subseteq Decided'
        /\ Admitted' = Admitted \cup {r}
    BY <1>4 DEF Admit, Decided, Admitted, RateInv, TypeOK
  <2>2. Members(AdmittedNear(s)) \subseteq Kept(stamp[r])
    BY <2>1, NearIsCounted
  <2>3. Members(AdmittedNear(s))' \subseteq Kept(stamp[r]) \cup {Member(r)}
    BY <2>1, <2>2 DEF Members, AdmittedNear, Member
  <2>4. IsFiniteSet(Kept(stamp[r])) /\ Cardinality(Kept(stamp[r])) \in Nat
    <3>1. Kept(stamp[r]) \subseteq Members(Admitted)
      BY DEF Kept, RateInv, MembersAdmitted, Member, Members
    <3> QED
      BY <3>1, MembersCounted DEF Admitted
  <2>5. /\ IsFiniteSet(Kept(stamp[r]) \cup {Member(r)})
        /\ \/ Cardinality(Kept(stamp[r]) \cup {Member(r)}) = Cardinality(Kept(stamp[r]))
           \/ Cardinality(Kept(stamp[r]) \cup {Member(r)}) = Cardinality(Kept(stamp[r])) + 1
    BY <2>4, FS_AddElement
  <2>6. Cardinality(Kept(stamp[r])) < Limit
    <3>1. ~ (Cardinality(Kept(stamp[r])) >= Limit)
      BY <1>4 DEF Admit, Full
    <3> QED
      BY <2>4, <3>1
  <2>7. /\ Cardinality(Members(AdmittedNear(s))') <= Cardinality(Kept(stamp[r]) \cup {Member(r)})
        /\ Cardinality(Members(AdmittedNear(s))') \in Nat
        /\ Cardinality(Kept(stamp[r]) \cup {Member(r)}) \in Nat
    BY <2>3, <2>5, FS_Subset, FS_CardinalityType
  <2> QED
    BY <2>4, <2>5, <2>6, <2>7
<1>5. CASE Tick \/ UNCHANGED vars
  <2>1. UNCHANGED <<stamp, verdict>>
    BY <1>5 DEF Tick, vars
  <2> QED
    BY <1>1, <2>1 DEF AdmittedNear, Admitted, Decided, Members
<1> QED
  BY <1>2, <1>3, <1>4, <1>5 DEF Next

\* However scripts overtake one another and whenever the key expires, no more than
\* Limit distinguishable requests are admitted up to the latest stamp.
THEOREM RecentIsBounded == Spec => []RecentBounded
<1>1. Init => BoundedFrom
  <2> SUFFICES ASSUME Init, NEW s \in Nat PROVE Cardinality(Members(AdmittedNear(s))) <= Limit
    BY DEF BoundedFrom
  <2>1. Members(AdmittedNear(s)) = {}
    BY DEF Init, Members, AdmittedNear, Admitted
  <2> QED
    BY <2>1, FS_EmptySet
<1>2. RateInv /\ BoundedFrom => RecentBounded
  BY DEF RateInv, TypeOK, BoundedFrom, RecentBounded, Decided
<1> QED
  BY <1>1, <1>2, RateInit, RateStep, BoundedStep, PTL DEF Spec
=============================================================================
