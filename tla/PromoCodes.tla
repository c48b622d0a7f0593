----------------------------- MODULE PromoCodes -----------------------------
(***************************************************************************)
(* Promo codes: app/services/promo.py and the create handler of            *)
(* app/api/promo.py.  Every activation is a database session that checks   *)
(* the copy of the promo row it loaded and then flushes, in this order, an *)
(* insert into promo_activations (which waits for, or fails on, an equal   *)
(* row), the UPDATE of the promo row and the UPDATE of the user row; each  *)
(* holds what it locked until the commit.                                  *)
(***************************************************************************)
EXTENDS Integers, FiniteSets

CONSTANTS User, Code,
          Request,        \* HTTP requests to activate a code
          Asks,           \* the user and the code of each request
          Creation,       \* HTTP requests of admins to create a code
          Creates,        \* the code each of them names
          MaxActivations, \* promo_codes.max_activations
          Bonus           \* promo_codes.bonus_credits

ASSUME PromoAssumption ==
  /\ IsFiniteSet(User) /\ IsFiniteSet(Code)
  /\ Asks \in [Request -> User \X Code]
  /\ Creates \in [Creation -> Code]
  /\ MaxActivations \in Nat /\ Bonus \in Nat \ {0}

VARIABLES
  offered,     \* promo_codes: the codes that exist
  count,       \* activations_count of each code
  expired,     \* the codes whose valid_until has passed
  activated,   \* promo_activations: committed pairs of user and code
  bonus,       \* users.bonus_credits
  pc,          \* where each activation is
  seenCount, seenBonus,  \* the columns its session loaded
  creating     \* where each creation is

vars == <<offered, count, expired, activated, bonus, pc, seenCount, seenBonus, creating>>

TypeOK ==
  /\ offered \subseteq Code
  /\ count \in [Code -> Nat]
  /\ expired \subseteq Code
  /\ activated \subseteq User \X Code
  /\ bonus \in [User -> Nat]
  /\ pc \in [Request -> {"idle", "check", "insert", "promo", "user", "commit", "over"}]
  /\ seenCount \in [Request -> Nat]
  /\ seenBonus \in [Request -> Nat]
  /\ creating \in [Creation -> {"idle", "insert", "created", "conflict", "error"}]

Init ==
  /\ offered = {}
  /\ count = [c \in Code |-> 0]
  /\ expired = {}
  /\ activated = {}
  /\ bonus = [u \in User |-> 0]
  /\ pc = [r \in Request |-> "idle"]
  /\ seenCount = [r \in Request |-> 0]
  /\ seenBonus = [r \in Request |-> 0]
  /\ creating = [a \in Creation |-> "idle"]

UserOf(r) == Asks[r][1]
CodeOf(r) == Asks[r][2]

Goto(r, place) == pc' = [pc EXCEPT ![r] = place]

promoVars == <<offered, count, expired, activated, bonus>>

-----------------------------------------------------------------------------
(* Creating a code: a SELECT, then an INSERT that the unique index guards.  *)

LookUp(a) ==
  /\ creating[a] = "idle"
  /\ creating' = [creating EXCEPT ![a] = IF Creates[a] \in offered THEN "conflict" ELSE "insert"]
  /\ UNCHANGED <<promoVars, pc, seenCount, seenBonus>>

\* Mutant: the row is written whether or not one is there.
InsertCodeAnyway(a) ==
  /\ creating[a] = "insert"
  /\ offered' = offered \cup {Creates[a]}
  /\ count' = [count EXCEPT ![Creates[a]] = 0]
  /\ creating' = [creating EXCEPT ![a] = "created"]
  /\ UNCHANGED <<expired, activated, bonus, pc, seenCount, seenBonus>>

\* The race with another admin ends in an IntegrityError nobody handles.
InsertCode(a) ==
  /\ creating[a] = "insert"
  /\ IF Creates[a] \in offered
     THEN /\ creating' = [creating EXCEPT ![a] = "error"]
          /\ UNCHANGED <<offered, count>>
     ELSE /\ offered' = offered \cup {Creates[a]}
          /\ count' = [count EXCEPT ![Creates[a]] = 0]
          /\ creating' = [creating EXCEPT ![a] = "created"]
  /\ UNCHANGED <<expired, activated, bonus, pc, seenCount, seenBonus>>

\* valid_until passes.
Expire(c) ==
  /\ c \in offered \ expired
  /\ expired' = expired \cup {c}
  /\ UNCHANGED <<offered, count, activated, bonus, pc, seenCount, seenBonus, creating>>

-----------------------------------------------------------------------------
(* Activating a code.                                                      *)

\* get_current_user
LoadUser(r) ==
  /\ pc[r] = "idle"
  /\ seenBonus' = [seenBonus EXCEPT ![r] = bonus[UserOf(r)]]
  /\ Goto(r, "check")
  /\ UNCHANGED <<promoVars, seenCount, creating>>

Exhausted(n) == n >= MaxActivations

Valid(c) == c \in offered /\ c \notin expired /\ ~ Exhausted(count[c])

\* 400 promo_not_found, promo_expired or promo_exhausted
Reject(r) ==
  /\ pc[r] = "check"
  /\ ~ Valid(CodeOf(r))
  /\ Goto(r, "over")
  /\ UNCHANGED <<promoVars, seenCount, seenBonus, creating>>

Accept(r) ==
  /\ pc[r] = "check"
  /\ Valid(CodeOf(r))
  /\ seenCount' = [seenCount EXCEPT ![r] = count[CodeOf(r)]]
  /\ Goto(r, "insert")
  /\ UNCHANGED <<promoVars, seenBonus, creating>>

\* The sessions that hold an uncommitted row of promo_activations, or a lock on
\* their promo row, or on their user row.
Inserted == {r \in Request : pc[r] \in {"promo", "user", "commit"}}
HoldsPromo == {r \in Request : pc[r] \in {"user", "commit"}}
HoldsUser == {r \in Request : pc[r] = "commit"}

\* Mutant: no unique constraint on promo_activations.
UniqueIgnored(r) == TRUE

\* The unique index uq_user_promo lets the row in.
Unique(r) == Asks[r] \notin activated

\* An equal uncommitted row makes the INSERT wait for that session's end.
Insert(r) ==
  /\ pc[r] = "insert"
  /\ \A s \in Inserted : Asks[s] # Asks[r]
  /\ Unique(r)
  /\ Goto(r, "promo")
  /\ UNCHANGED <<promoVars, seenCount, seenBonus, creating>>

\* IntegrityError: rolled back, 400 already_activated.
AlreadyActivated(r) ==
  /\ pc[r] = "insert"
  /\ ~ Unique(r)
  /\ Goto(r, "over")
  /\ UNCHANGED <<promoVars, seenCount, seenBonus, creating>>

LockPromo(r) ==
  /\ pc[r] = "promo"
  /\ \A s \in HoldsPromo : CodeOf(s) # CodeOf(r)
  /\ Goto(r, "user")
  /\ UNCHANGED <<promoVars, seenCount, seenBonus, creating>>

LockUser(r) ==
  /\ pc[r] = "user"
  /\ \A s \in HoldsUser : UserOf(s) # UserOf(r)
  /\ Goto(r, "commit")
  /\ UNCHANGED <<promoVars, seenCount, seenBonus, creating>>

\* Mutant: the handler grants the bonus and so does the service.
GrantedTwice(r) == seenBonus[r] + 2 * Bonus

\* Mutant: the bonus is taken instead of given.
GrantedReversed(r) == seenBonus[r] - Bonus

\* What add_bonus makes of the loaded column.
Granted(r) == seenBonus[r] + Bonus

\* Both columns are set to the loaded value plus something.
Commit(r) ==
  /\ pc[r] = "commit"
  /\ activated' = activated \cup {Asks[r]}
  /\ count' = [count EXCEPT ![CodeOf(r)] = seenCount[r] + 1]
  /\ bonus' = [bonus EXCEPT ![UserOf(r)] = Granted(r)]
  /\ Goto(r, "over")
  /\ UNCHANGED <<offered, expired, seenCount, seenBonus, creating>>

Terminated ==
  /\ \A r \in Request : pc[r] = "over"
  /\ \A a \in Creation : creating[a] \notin {"idle", "insert"}
  /\ UNCHANGED vars

Next ==
  \/ \E a \in Creation : LookUp(a) \/ InsertCode(a)
  \/ \E c \in Code : Expire(c)
  \/ \E r \in Request : LoadUser(r) \/ Reject(r) \/ Accept(r) \/ Insert(r)
                        \/ AlreadyActivated(r) \/ LockPromo(r) \/ LockUser(r) \/ Commit(r)
  \/ Terminated

Spec == Init /\ [][Next]_vars

-----------------------------------------------------------------------------
ActivationsOf(c) == {u \in User : <<u, c>> \in activated}
CodesOf(u) == {c \in Code : <<u, c>> \in activated}

\* The races lose updates of activations_count but never invent one: the count
\* stays within the activations there are, and within the limit.
CountUnderstates == \A c \in Code :
  count[c] <= Cardinality(ActivationsOf(c)) /\ count[c] <= MaxActivations

\* No interleaving of activations mints credits: a user's bonus never exceeds
\* what the user's activations are worth.
NothingMinted == \A u \in User : bonus[u] <= Bonus * Cardinality(CodesOf(u))

\* However many admins race to create one code, one of them is told it was created,
\* and the others are refused, or see the INSERT fail, only because it was.
Created(a) == creating[a] = "created"
CreatedOnce == \A a \in Creation :
  /\ Created(a) => \A b \in Creation \ {a} : Creates[b] = Creates[a] => ~ Created(b)
  /\ creating[a] \in {"conflict", "error"} =>
       \E b \in Creation : Creates[b] = Creates[a] /\ Created(b)

OneCode(u) == \A r, s \in Request : UserOf(r) = u /\ UserOf(s) = u => CodeOf(r) = CodeOf(s)

\* A user who only ever sends one code, however often and with however many
\* requests in flight, is granted its bonus exactly when the activation is there:
\* uq_user_promo leaves no way to be granted it twice, nor to have it overwritten.
GrantedOnce == \A u \in User : OneCode(u) => bonus[u] = Bonus * Cardinality(CodesOf(u))

\* promo.py:6 "max_activations is not exceeded".
LimitKept == \A c \in Code : Cardinality(ActivationsOf(c)) <= MaxActivations
=============================================================================
