---------------------------- MODULE PromoProofs ----------------------------
(***************************************************************************)
(* Proofs about the promo codes, for any users, codes, requests and limit. *)
(* Sessions write values computed from what they loaded; what they loaded  *)
(* was bounded by the activations of that moment, those only grow, and the *)
(* unique index makes every commit add one.                                *)
(***************************************************************************)
EXTENDS PromoCodes, FiniteSetTheorems, TLAPS

USE PromoAssumption

LoadedPromo == {"insert", "promo", "user", "commit"}

\* Activations answer requests, and the row a session inserted is not there yet
\* and nobody else's.
RowsAreOwn ==
  /\ \A p \in activated : \E r \in Request : Asks[r] = p
  /\ \A r \in Inserted : Asks[r] \notin activated
  /\ \A r, s \in Inserted : Asks[r] = Asks[s] => r = s

\* What a session loaded is bounded by the activations there are now.
CopiesUnderstate ==
  /\ \A r \in Request : pc[r] \in LoadedPromo =>
       seenCount[r] < MaxActivations /\ seenCount[r] <= Cardinality(ActivationsOf(CodeOf(r)))
  /\ \A r \in Request : seenBonus[r] <= Bonus * Cardinality(CodesOf(UserOf(r)))

PromoInv == /\ TypeOK /\ RowsAreOwn /\ CopiesUnderstate
            /\ CountUnderstates /\ NothingMinted /\ GrantedOnce

\* A request names a user and a code.
LEMMA AskTypes ==
  ASSUME NEW r \in Request
  PROVE  UserOf(r) \in User /\ CodeOf(r) \in Code /\ Asks[r] = <<UserOf(r), CodeOf(r)>>
BY DEF UserOf, CodeOf

\* The activations of a code and of a user can be counted.
LEMMA Countable ==
  /\ \A c : IsFiniteSet(ActivationsOf(c)) /\ Cardinality(ActivationsOf(c)) \in Nat
  /\ \A u : IsFiniteSet(CodesOf(u)) /\ Cardinality(CodesOf(u)) \in Nat
<1>1. \A c : ActivationsOf(c) \subseteq User
  BY DEF ActivationsOf
<1>2. \A u : CodesOf(u) \subseteq Code
  BY DEF CodesOf
<1> QED
  BY <1>1, <1>2, FS_Subset, FS_CardinalityType

\* The worth of one activation more.
LEMMA Worth ==
  /\ Bonus * 0 = 0 /\ Bonus * 1 = Bonus
  /\ \A n \in Nat : Bonus * n \in Nat /\ Bonus * (n + 1) = Bonus * n + Bonus
OBVIOUS

\* A commit gives the code one user more and the user one code more.
LEMMA OneMoreActivation ==
  ASSUME NEW r \in Request, Commit(r), Asks[r] \notin activated
  PROVE  /\ Cardinality(ActivationsOf(CodeOf(r))') = Cardinality(ActivationsOf(CodeOf(r))) + 1
         /\ \A c : c # CodeOf(r) => ActivationsOf(c)' = ActivationsOf(c)
         /\ Cardinality(CodesOf(UserOf(r))') = Cardinality(CodesOf(UserOf(r))) + 1
         /\ \A u : u # UserOf(r) => CodesOf(u)' = CodesOf(u)
<1>1. activated' = activated \cup {<<UserOf(r), CodeOf(r)>>}
  BY AskTypes DEF Commit
<1>2. <<UserOf(r), CodeOf(r)>> \notin activated
  BY AskTypes
<1>3. /\ ActivationsOf(CodeOf(r))' = ActivationsOf(CodeOf(r)) \cup {UserOf(r)}
      /\ UserOf(r) \notin ActivationsOf(CodeOf(r))
  BY <1>1, <1>2, AskTypes DEF ActivationsOf
<1>4. /\ CodesOf(UserOf(r))' = CodesOf(UserOf(r)) \cup {CodeOf(r)}
      /\ CodeOf(r) \notin CodesOf(UserOf(r))
  BY <1>1, <1>2, AskTypes DEF CodesOf
<1>5. Cardinality(ActivationsOf(CodeOf(r))') = Cardinality(ActivationsOf(CodeOf(r))) + 1
  BY <1>3, Countable, FS_AddElement
<1>6. Cardinality(CodesOf(UserOf(r))') = Cardinality(CodesOf(UserOf(r))) + 1
  BY <1>4, Countable, FS_AddElement
<1>7. \A c : c # CodeOf(r) => ActivationsOf(c)' = ActivationsOf(c)
  BY <1>1 DEF ActivationsOf
<1>8. \A u : u # UserOf(r) => CodesOf(u)' = CodesOf(u)
  BY <1>1 DEF CodesOf
<1> QED
  BY <1>5, <1>6, <1>7, <1>8

\* Without codes and activations nothing was granted.
LEMMA PromoInit == Init => PromoInv
<1> SUFFICES ASSUME Init PROVE PromoInv
  OBVIOUS
<1>1. TypeOK /\ RowsAreOwn
  BY DEF Init, TypeOK, RowsAreOwn, Inserted
<1>2. \A u : CodesOf(u) = {}
  BY DEF Init, CodesOf
<1>3. \A u : Bonus * Cardinality(CodesOf(u)) = 0
  BY <1>2, FS_EmptySet, Worth
<1>4. NothingMinted /\ GrantedOnce
  BY <1>3 DEF Init, NothingMinted, GrantedOnce
<1>5. CopiesUnderstate
  BY <1>3 DEF Init, CopiesUnderstate, LoadedPromo
<1>6. CountUnderstates
  BY Countable DEF Init, CountUnderstates
<1> QED
  BY <1>1, <1>4, <1>5, <1>6 DEF PromoInv

\* Every step keeps the types.
LEMMA PromoTypesStep == TypeOK /\ [Next]_vars => TypeOK'
<1> SUFFICES ASSUME TypeOK, [Next]_vars PROVE TypeOK'
  OBVIOUS
<1> USE AskTypes DEF TypeOK, Goto, promoVars
<1>1. ASSUME NEW a \in Creation, LookUp(a) \/ InsertCode(a) PROVE TypeOK'
  <2>1. CASE LookUp(a)
    BY <2>1 DEF LookUp
  <2>2. CASE InsertCode(a) /\ Creates[a] \in offered
    BY <2>2 DEF InsertCode
  <2>3. CASE InsertCode(a) /\ Creates[a] \notin offered
    BY <2>3 DEF InsertCode
  <2> QED
    BY <1>1, <2>1, <2>2, <2>3
<1>2. ASSUME NEW c \in Code, Expire(c) PROVE TypeOK'
  BY <1>2 DEF Expire
<1>3. ASSUME NEW r \in Request, LoadUser(r) \/ Reject(r) \/ Accept(r) PROVE TypeOK'
  BY <1>3 DEF LoadUser, Reject, Accept
<1>4. ASSUME NEW r \in Request, Insert(r) \/ AlreadyActivated(r) \/ LockPromo(r) \/ LockUser(r)
      PROVE  TypeOK'
  BY <1>4 DEF Insert, AlreadyActivated, LockPromo, LockUser
<1>5. ASSUME NEW r \in Request, Commit(r) PROVE TypeOK'
  BY <1>5 DEF Commit, Granted
<1>6. CASE Terminated \/ UNCHANGED vars
  BY <1>6 DEF Terminated, vars
<1> QED
  BY <1>1, <1>2, <1>3, <1>4, <1>5, <1>6 DEF Next

\* Only a commit touches the activations and the bonuses, so what the other
\* steps have to keep are the copies and the count.
LEMMA NothingActivated ==
  ASSUME PromoInv, UNCHANGED <<activated, bonus>>
  PROVE  /\ NothingMinted' /\ GrantedOnce'
         /\ \A c : ActivationsOf(c)' = ActivationsOf(c)
         /\ \A u : CodesOf(u)' = CodesOf(u)
<1>1. (\A c : ActivationsOf(c)' = ActivationsOf(c)) /\ (\A u : CodesOf(u)' = CodesOf(u))
  BY DEF ActivationsOf, CodesOf
<1> QED
  BY <1>1 DEF PromoInv, NothingMinted, GrantedOnce, OneCode, UserOf, CodeOf

\* A session's steps up to its commit.
LEMMA SessionStep ==
  ASSUME PromoInv, TypeOK', NEW r \in Request,
         \/ LoadUser(r) \/ Reject(r) \/ Accept(r) \/ Insert(r)
         \/ AlreadyActivated(r) \/ LockPromo(r) \/ LockUser(r)
  PROVE  PromoInv'
<1>0. UNCHANGED promoVars
  BY DEF LoadUser, Reject, Accept, Insert, AlreadyActivated, LockPromo, LockUser
<1>1. /\ NothingMinted' /\ GrantedOnce'
      /\ \A c : ActivationsOf(c)' = ActivationsOf(c)
      /\ \A u : CodesOf(u)' = CodesOf(u)
  BY <1>0, NothingActivated DEF promoVars
<1>2. CountUnderstates'
  BY <1>0, <1>1 DEF PromoInv, CountUnderstates, promoVars
<1>3. RowsAreOwn'
  <2>1. CASE Insert(r)
    BY <2>1, <1>0 DEF PromoInv, TypeOK, RowsAreOwn, Inserted, Insert, Unique, Goto, promoVars
  <2>2. CASE ~ Insert(r)
    <3>1. Inserted' \subseteq Inserted
      BY <2>2 DEF PromoInv, TypeOK, Inserted, Goto, LoadUser, Reject, Accept, AlreadyActivated,
                  LockPromo, LockUser
    <3> QED
      BY <3>1, <1>0 DEF PromoInv, RowsAreOwn, promoVars
  <2> QED
    BY <2>1, <2>2
<1>4. CopiesUnderstate'
  <2>1. ASSUME NEW s \in Request, pc'[s] \in LoadedPromo
        PROVE  /\ seenCount'[s] < MaxActivations
               /\ seenCount'[s] <= Cardinality(ActivationsOf(CodeOf(s)))
    <3>1. CASE s = r /\ Accept(r)
      <4>1. seenCount'[s] = count[CodeOf(s)] /\ ~ Exhausted(count[CodeOf(s)])
        BY <3>1 DEF Accept, Valid, PromoInv, TypeOK
      <4> QED
        BY <4>1, AskTypes DEF Exhausted, PromoInv, TypeOK, CountUnderstates
    <3>2. CASE ~ (s = r /\ Accept(r))
      <4>1. seenCount'[s] = seenCount[s] /\ pc[s] \in LoadedPromo
        BY <2>1, <3>2 DEF PromoInv, TypeOK, LoadedPromo, Goto, LoadUser, Reject, Accept, Insert,
                          AlreadyActivated, LockPromo, LockUser
      <4> QED
        BY <4>1 DEF PromoInv, CopiesUnderstate
    <3> QED
      BY <3>1, <3>2
  <2>2. ASSUME NEW s \in Request
        PROVE  seenBonus'[s] <= Bonus * Cardinality(CodesOf(UserOf(s)))
    <3>1. seenBonus'[s] = seenBonus[s] \/ seenBonus'[s] = bonus[UserOf(s)]
      BY DEF PromoInv, TypeOK, LoadUser, Reject, Accept, Insert, AlreadyActivated, LockPromo, LockUser
    <3> QED
      BY <3>1, AskTypes DEF PromoInv, CopiesUnderstate, NothingMinted
  <2> QED
    BY <2>1, <2>2, <1>1 DEF CopiesUnderstate, UserOf, CodeOf
<1> QED
  BY <1>1, <1>2, <1>3, <1>4 DEF PromoInv

\* The commit: the count and the bonus are set, a row of promo_activations more.
LEMMA CommitStep ==
  ASSUME PromoInv, TypeOK', NEW r \in Request, Commit(r)
  PROVE  PromoInv'
<1> DEFINE u == UserOf(r)
           c == CodeOf(r)
           A == Cardinality(ActivationsOf(c))
           B == Cardinality(CodesOf(u))
<1>1. r \in Inserted /\ Asks[r] \notin activated /\ u \in User /\ c \in Code
  BY AskTypes DEF PromoInv, RowsAreOwn, Commit, Inserted
<1>2. /\ Cardinality(ActivationsOf(c)') = A + 1
      /\ \A d : d # c => ActivationsOf(d)' = ActivationsOf(d)
      /\ Cardinality(CodesOf(u)') = B + 1
      /\ \A v : v # u => CodesOf(v)' = CodesOf(v)
  BY <1>1, OneMoreActivation
<1>3. A \in Nat /\ B \in Nat /\ Bonus * B \in Nat /\ Bonus * (B + 1) = Bonus * B + Bonus
  BY Countable, Worth
<1>4. /\ count' = [count EXCEPT ![c] = seenCount[r] + 1]
      /\ bonus' = [bonus EXCEPT ![u] = seenBonus[r] + Bonus]
      /\ UNCHANGED <<seenCount, seenBonus>>
      /\ seenCount[r] < MaxActivations /\ seenCount[r] <= A
      /\ seenBonus[r] <= Bonus * B
      /\ seenCount[r] \in Nat /\ seenBonus[r] \in Nat
      /\ count \in [Code -> Nat] /\ bonus \in [User -> Nat]
  BY DEF Commit, Granted, PromoInv, TypeOK, CopiesUnderstate, LoadedPromo
<1> HIDE DEF u, c, A, B
<1>5. RowsAreOwn'
  <2>1. activated' = activated \cup {Asks[r]} /\ Inserted' = Inserted \ {r}
    BY <1>1 DEF Commit, Goto, Inserted, PromoInv, TypeOK
  <2> QED
    BY <2>1, <1>1 DEF PromoInv, RowsAreOwn
<1>6. CountUnderstates'
  <2>1. ASSUME NEW d \in Code, d = c
        PROVE  count'[d] <= Cardinality(ActivationsOf(d)') /\ count'[d] <= MaxActivations
    BY <2>1, <1>2, <1>3, <1>4
  <2>2. ASSUME NEW d \in Code, d # c
        PROVE  count'[d] <= Cardinality(ActivationsOf(d)') /\ count'[d] <= MaxActivations
    BY <2>2, <1>2, <1>4 DEF PromoInv, CountUnderstates
  <2> QED
    BY <2>1, <2>2 DEF CountUnderstates
<1>7. NothingMinted'
  <2>1. ASSUME NEW v \in User, v = u
        PROVE  bonus'[v] <= Bonus * Cardinality(CodesOf(v)')
    <3>1. bonus'[u] = seenBonus[r] + Bonus
      BY <1>1, <1>4
    <3>2. seenBonus[r] + Bonus <= Bonus * B + Bonus
      BY <1>3, <1>4
    <3> QED
      BY <2>1, <3>1, <3>2, <1>2, <1>3
  <2>2. ASSUME NEW v \in User, v # u
        PROVE  bonus'[v] <= Bonus * Cardinality(CodesOf(v)')
    BY <2>2, <1>2, <1>4 DEF PromoInv, NothingMinted
  <2> QED
    BY <2>1, <2>2 DEF NothingMinted
<1>8. CopiesUnderstate'
  <2>1. ASSUME NEW s \in Request, pc'[s] \in LoadedPromo
        PROVE  /\ seenCount[s] < MaxActivations
               /\ seenCount[s] <= Cardinality(ActivationsOf(CodeOf(s))')
    <3>1. pc[s] \in LoadedPromo /\ seenCount[s] \in Nat
      BY <2>1 DEF Commit, Goto, LoadedPromo, PromoInv, TypeOK
    <3>2. /\ seenCount[s] < MaxActivations
          /\ seenCount[s] <= Cardinality(ActivationsOf(CodeOf(s)))
      BY <3>1 DEF PromoInv, CopiesUnderstate
    <3>3. Cardinality(ActivationsOf(CodeOf(s))) <= Cardinality(ActivationsOf(CodeOf(s))')
      <4>1. CASE CodeOf(s) = c
        BY <4>1, <1>2, <1>3 DEF A
      <4>2. CASE CodeOf(s) # c
        BY <4>2, <1>2, Countable
      <4> QED
        BY <4>1, <4>2
    <3> QED
      BY <3>1, <3>2, <3>3, <1>2, <1>3, Countable DEF A
  <2>2. ASSUME NEW s \in Request
        PROVE  seenBonus[s] <= Bonus * Cardinality(CodesOf(UserOf(s))')
    <3>1. seenBonus[s] <= Bonus * Cardinality(CodesOf(UserOf(s))) /\ seenBonus[s] \in Nat
      BY DEF PromoInv, TypeOK, CopiesUnderstate
    <3>2. CASE UserOf(s) = u
      BY <3>1, <3>2, <1>2, <1>3 DEF B
    <3>3. CASE UserOf(s) # u
      BY <3>1, <3>3, <1>2
    <3> QED
      BY <3>2, <3>3
  <2> QED
    BY <2>1, <2>2, <1>4 DEF CopiesUnderstate, UserOf, CodeOf
<1>9. GrantedOnce'
  <2>1. ASSUME NEW v \in User, OneCode(v), v = u
        PROVE  bonus'[v] = Bonus * Cardinality(CodesOf(v)')
    <3>1. CodesOf(u) = {}
      <4> SUFFICES ASSUME NEW d \in CodesOf(u) PROVE FALSE
        OBVIOUS
      <4>1. PICK s \in Request : Asks[s] = <<u, d>>
        BY DEF CodesOf, PromoInv, RowsAreOwn
      <4>2. CodeOf(s) = CodeOf(r)
        BY <2>1, <4>1 DEF OneCode, UserOf, u
      <4>3. Asks[s] = Asks[r]
        BY <4>1, <4>2, AskTypes DEF u, UserOf, CodeOf
      <4> QED
        BY <4>1, <4>3, <1>1 DEF CodesOf
    <3>2. B = 0
      BY <3>1, FS_EmptySet DEF B
    <3>3. seenBonus[r] = 0
      BY <3>2, <1>4, Worth
    <3> QED
      BY <2>1, <3>2, <3>3, <1>1, <1>2, <1>4, Worth
  <2>2. ASSUME NEW v \in User, OneCode(v), v # u
        PROVE  bonus'[v] = Bonus * Cardinality(CodesOf(v)')
    BY <2>2, <1>2, <1>4 DEF PromoInv, GrantedOnce
  <2> QED
    BY <2>1, <2>2 DEF GrantedOnce, OneCode, UserOf, CodeOf
<1> QED
  BY <1>5, <1>6, <1>7, <1>8, <1>9 DEF PromoInv

\* Every step keeps the invariant.
LEMMA PromoStep == PromoInv /\ [Next]_vars => PromoInv'
<1> SUFFICES ASSUME PromoInv, [Next]_vars PROVE PromoInv'
  OBVIOUS
<1>0. TypeOK'
  BY PromoTypesStep DEF PromoInv
<1>1. ASSUME UNCHANGED <<activated, bonus, pc, seenCount, seenBonus>>,
             \A c \in Code : count'[c] = count[c] \/ count'[c] = 0
      PROVE  PromoInv'
  <2>1. /\ NothingMinted' /\ GrantedOnce'
        /\ \A c : ActivationsOf(c)' = ActivationsOf(c)
        /\ \A u : CodesOf(u)' = CodesOf(u)
    BY <1>1, NothingActivated
  <2>2. RowsAreOwn' /\ CopiesUnderstate'
    BY <1>1, <2>1 DEF PromoInv, RowsAreOwn, Inserted, CopiesUnderstate, UserOf, CodeOf
  <2>3. CountUnderstates'
    BY <1>1, <2>1, Countable DEF PromoInv, CountUnderstates
  <2> QED
    BY <1>0, <2>1, <2>2, <2>3 DEF PromoInv
<1>2. ASSUME NEW a \in Creation, LookUp(a) \/ InsertCode(a) PROVE PromoInv'
  BY <1>1, <1>2 DEF LookUp, InsertCode, promoVars, PromoInv, TypeOK
<1>3. ASSUME NEW c \in Code, Expire(c) PROVE PromoInv'
  BY <1>1, <1>3 DEF Expire
<1>4. ASSUME NEW r \in Request,
             \/ LoadUser(r) \/ Reject(r) \/ Accept(r) \/ Insert(r)
             \/ AlreadyActivated(r) \/ LockPromo(r) \/ LockUser(r)
      PROVE  PromoInv'
  BY <1>0, <1>4, SessionStep
<1>5. ASSUME NEW r \in Request, Commit(r) PROVE PromoInv'
  BY <1>0, <1>5, CommitStep
<1>6. CASE Terminated \/ UNCHANGED vars
  BY <1>1, <1>6 DEF Terminated, vars
<1> QED
  BY <1>2, <1>3, <1>4, <1>5, <1>6 DEF Next

-----------------------------------------------------------------------------
\* Every variable of the promo codes keeps its type, bonuses included.
THEOREM PromoTypes == Spec => []TypeOK
<1>1. PromoInv => TypeOK
  BY DEF PromoInv
<1> QED
  BY PromoInit, PromoStep, <1>1, PTL DEF Spec

\* However many activations lose each other's updates, activations_count stays
\* within the rows of promo_activations and within the limit.
THEOREM CountNeverOverstates == Spec => []CountUnderstates
<1>1. PromoInv => CountUnderstates
  BY DEF PromoInv
<1> QED
  BY PromoInit, PromoStep, <1>1, PTL DEF Spec

\* However many activations overlap, a user's bonus never exceeds what the
\* user's activations are worth.
THEOREM NoBonusFromNothing == Spec => []NothingMinted
<1>1. PromoInv => NothingMinted
  BY DEF PromoInv
<1> QED
  BY PromoInit, PromoStep, <1>1, PTL DEF Spec

\* However often a user sends one and the same code, its bonus is granted exactly
\* when the activation is there, and once.
THEOREM OneCodeOneBonus == Spec => []GrantedOnce
<1>1. PromoInv => GrantedOnce
  BY DEF PromoInv
<1> QED
  BY PromoInit, PromoStep, <1>1, PTL DEF Spec

-----------------------------------------------------------------------------
\* A code exists when a creation of it has succeeded, and a creation only fails over
\* a code that exists.
OfferedOnce ==
  /\ CreatedOnce
  /\ offered = {Creates[a] : a \in {x \in Creation : Created(x)}}

\* Whatever the admins do, one creation of a code at most succeeds.
LEMMA OfferedStep == TypeOK /\ OfferedOnce /\ [Next]_vars => OfferedOnce'
<1> SUFFICES ASSUME TypeOK, OfferedOnce, [Next]_vars
             PROVE  OfferedOnce'
  OBVIOUS
<1>t. creating \in [Creation -> {"idle", "insert", "created", "conflict", "error"}]
  BY DEF TypeOK
<1> USE DEF OfferedOnce, CreatedOnce, Created
<1>1. ASSUME NEW a \in Creation, LookUp(a)
      PROVE  OfferedOnce'
  BY <1>t, <1>1 DEF LookUp, promoVars
<1>2. ASSUME NEW a \in Creation, InsertCode(a)
      PROVE  OfferedOnce'
  BY <1>t, <1>2 DEF InsertCode
<1>3. ASSUME UNCHANGED <<offered, creating>>
      PROVE  OfferedOnce'
  BY <1>3
<1>4. CASE \E c \in Code : Expire(c)
  BY <1>3, <1>4 DEF Expire
<1>5. CASE \E r \in Request :
             \/ LoadUser(r) \/ Reject(r) \/ Accept(r) \/ Insert(r)
             \/ AlreadyActivated(r) \/ LockPromo(r) \/ LockUser(r) \/ Commit(r)
  BY <1>3, <1>5 DEF LoadUser, Reject, Accept, Insert, AlreadyActivated, LockPromo, LockUser,
                    Commit, promoVars
<1>6. CASE Terminated \/ UNCHANGED vars
  BY <1>3, <1>6 DEF Terminated, vars
<1> QED
  BY <1>1, <1>2, <1>4, <1>5, <1>6 DEF Next

\* However many admins create one code at once, one creation succeeds, and the others
\* fail because it did.
THEOREM CodesAreCreatedOnce == Spec => []CreatedOnce
<1>1. Init => OfferedOnce
  BY DEF Init, OfferedOnce, CreatedOnce, Created
<1>2. OfferedOnce => CreatedOnce
  BY DEF OfferedOnce
<1> QED
  BY PromoTypes, OfferedStep, <1>1, <1>2, PTL DEF Spec
=============================================================================
