-------------------------- MODULE BootstrapProofs --------------------------
(***************************************************************************)
(* Proofs about the seed of the database and the accounts registered in    *)
(* it, for any number of starts, runs of the script and registrations.     *)
(***************************************************************************)
EXTENDS Bootstrap, TLAPS

USE BootstrapAssumption

-----------------------------------------------------------------------------
(* Accounts and seed share the addresses, so they are one invariant.       *)

Place == {"idle", "tariff", "insert", "commit", "created", "conflict", "error",
          "tariffless", "dead"}

\* The states of a registration and the accounts agree: who was answered 201 is
\* who has an account.
AccountInv ==
  /\ users \subseteq Attempt
  /\ pc \in [Attempt -> Place]
  /\ \A a \in Attempt : pc[a] = "created" <=> a \in users
  /\ RefusalMeansAccount

\* An uncommitted row, a registration's or the administrator's, shares its address
\* with nobody, committed or not.
Exclusive ==
  /\ \A a \in Attempt : pc[a] = "commit" => ~ Taken(a)
  /\ \A a, b \in Attempt :
       pc[a] = "commit" /\ pc[b] = "commit" /\ EmailOf[a] = EmailOf[b] => a = b
  /\ \A a \in Attempt : pc[a] = "commit" /\ EmailOf[a] = AdminEmail => HoldsAdmin = {}
  /\ HoldsAdmin # {} => ~ AddressTaken(AdminEmail)
  /\ \A s, z \in HoldsAdmin : s = z
  /\ OneAccountPerEmail

\* A run of the script that does not bring the administrator found the address
\* taken, and one that comes to its commit without the promo code found that.
SeedInv ==
  /\ seeding \in [Seeder -> {"off", "admin", "tariff", "promo", "commit", "done", "failed"}]
  /\ adds \in [Seeder -> SUBSET {"admin", "welcome"}]
  /\ SeedAllOrNothing
  /\ \A s \in Seeder :
       seeding[s] \in {"promo", "commit"} /\ "admin" \notin adds[s] => AddressTaken(AdminEmail)
  /\ \A s \in Seeder : seeding[s] = "commit" /\ "welcome" \notin adds[s] => welcome

BootInv == AccountInv /\ Exclusive /\ SeedInv

\* Before the first start there is no account and nothing is seeded.
LEMMA BootInit == Init => BootInv
BY DEF Init, BootInv, AccountInv, Place, RefusalMeansAccount, Exclusive, Taken, AddressTaken,
       HoldsAdmin, OneAccountPerEmail, Usurped, SeedInv, SeedAllOrNothing

\* The administrator's address is taken by the administrator or by somebody else.
LEMMA TakenOrUsurped == AddressTaken(AdminEmail) <=> admin \/ Usurped
BY DEF AddressTaken, Usurped

\* Steps of the container and of the script's look-ups: no row is inserted.
LEMMA NoInsert ==
  ASSUME BootInv, UNCHANGED <<admin, welcome, users>>,
         \A a \in Attempt : pc'[a] = pc[a] \/ (pc[a] # "created" /\ pc'[a] = "dead"),
         pc' \in [Attempt -> Place],
         HoldsAdmin' \subseteq HoldsAdmin
  PROVE  AccountInv' /\ Exclusive'
<1>1. \A e : AddressTaken(e)' <=> AddressTaken(e)
  BY DEF AddressTaken
<1>2. AccountInv'
  BY DEF BootInv, AccountInv, RefusalMeansAccount
<1>3. Exclusive'
  BY <1>1 DEF BootInv, Exclusive, Taken, OneAccountPerEmail, Usurped
<1> QED
  BY <1>2, <1>3

\* A registration goes on: it is refused only when its address is taken, and gets
\* to its commit only when the address is free and nobody else is there.
LEMMA OneMoves ==
  ASSUME BootInv, NEW a \in Attempt, NEW place \in Place,
         UNCHANGED <<admin, welcome, seeding, adds, users>>,
         pc' = [pc EXCEPT ![a] = place], pc[a] # "created", place # "created",
         place \in {"conflict", "error"} => Taken(a),
         place = "commit" => ~ Taken(a) /\ ~ Uncommitted(EmailOf[a])
  PROVE  BootInv'
<1>1. pc'[a] = place /\ \A b \in Attempt : b # a => pc'[b] = pc[b]
  BY DEF BootInv, AccountInv
<1>2. /\ \A e : AddressTaken(e)' <=> AddressTaken(e)
      /\ HoldsAdmin' = HoldsAdmin
      /\ \A b \in Attempt : Taken(b)' <=> Taken(b)
  BY DEF AddressTaken, HoldsAdmin, Taken
<1>3. RefusalMeansAccount'
  <2> SUFFICES ASSUME NEW b \in Attempt
               PROVE  /\ pc'[b] \in {"conflict", "error"} =>
                           \/ admin /\ EmailOf[b] = AdminEmail
                           \/ \E c \in users \ {b} : EmailOf[c] = EmailOf[b]
                      /\ pc'[b] = "created" => b \in users
    BY DEF RefusalMeansAccount
  <2>1. CASE b = a
    <3>1. a \notin users
      BY DEF BootInv, AccountInv
    <3> QED
      BY <1>1, <2>1, <3>1 DEF Taken, AddressTaken
  <2>2. CASE b # a
    BY <1>1, <2>2 DEF BootInv, AccountInv, RefusalMeansAccount
  <2> QED
    BY <2>1, <2>2
<1>4. AccountInv'
  BY <1>1, <1>3 DEF BootInv, AccountInv
<1>5. Exclusive'
  <2>1. \A b \in Attempt : pc'[b] = "commit" => ~ Taken(b)'
    BY <1>1, <1>2 DEF BootInv, Exclusive
  <2>2. \A b, c \in Attempt :
          pc'[b] = "commit" /\ pc'[c] = "commit" /\ EmailOf[b] = EmailOf[c] => b = c
    BY <1>1 DEF BootInv, Exclusive, Uncommitted
  <2>3. \A b \in Attempt : pc'[b] = "commit" /\ EmailOf[b] = AdminEmail => HoldsAdmin = {}
    BY <1>1 DEF BootInv, Exclusive, Uncommitted
  <2>4. OneAccountPerEmail'
    BY DEF BootInv, Exclusive, OneAccountPerEmail, Usurped
  <2> QED
    BY <1>2, <2>1, <2>2, <2>3, <2>4 DEF BootInv, Exclusive
<1>6. SeedInv'
  BY <1>2 DEF BootInv, SeedInv, SeedAllOrNothing, Usurped
<1> QED
  BY <1>4, <1>5, <1>6 DEF BootInv

\* The account is committed: its address was free, and nobody else was at it.
LEMMA UserCommitted == ASSUME BootInv, NEW a \in Attempt, CommitUser(a) PROVE BootInv'
<1>1. /\ pc[a] = "commit" /\ users' = users \cup {a}
      /\ pc'[a] = "created" /\ \A b \in Attempt : b # a => pc'[b] = pc[b]
      /\ UNCHANGED <<admin, welcome, seeding, adds>>
  BY DEF CommitUser, Goto, BootInv, AccountInv, dbVars, seedVars
<1>2. pc' \in [Attempt -> Place] /\ users' \subseteq Attempt
  BY <1>1 DEF CommitUser, Goto, BootInv, AccountInv, Place
<1>3. /\ ~ Taken(a) /\ HoldsAdmin' = HoldsAdmin
      /\ \A e : AddressTaken(e)' <=> AddressTaken(e) \/ e = EmailOf[a]
      /\ EmailOf[a] = AdminEmail => HoldsAdmin = {}
  BY <1>1 DEF BootInv, Exclusive, HoldsAdmin, AddressTaken
<1>4. \A b \in Attempt : pc'[b] = "created" <=> b \in users'
  BY <1>1 DEF BootInv, AccountInv
<1>5. RefusalMeansAccount'
  BY <1>1, <1>4 DEF BootInv, AccountInv, RefusalMeansAccount
<1>6. Exclusive'
  <2>1. \A b \in Attempt : pc'[b] = "commit" =>
          b # a /\ pc[b] = "commit" /\ ~ Taken(b) /\ EmailOf[b] # EmailOf[a]
    BY <1>1 DEF BootInv, Exclusive
  <2>2. \A b \in Attempt : pc'[b] = "commit" => ~ Taken(b)'
    BY <1>3, <2>1 DEF Taken
  <2>3. OneAccountPerEmail'
    <3>1. \A b \in users : EmailOf[b] # EmailOf[a]
      BY <1>3 DEF Taken, AddressTaken
    <3>2. admin => EmailOf[a] # AdminEmail
      BY <1>3 DEF Taken, AddressTaken
    <3> QED
      BY <1>1, <3>1, <3>2 DEF BootInv, Exclusive, OneAccountPerEmail, Usurped
  <2> QED
    BY <1>3, <2>1, <2>2, <2>3 DEF BootInv, Exclusive
<1>7. SeedInv'
  BY <1>1, <1>3 DEF BootInv, SeedInv, SeedAllOrNothing, Usurped
<1> QED
  BY <1>2, <1>4, <1>5, <1>6, <1>7 DEF BootInv, AccountInv

\* A run of the script flushes its administrator: only when the address is free.
LEMMA AdminFlushed == ASSUME BootInv, NEW s \in Seeder, LookUpWelcome(s) PROVE BootInv'
<1>1. /\ seeding[s] = "promo" /\ UNCHANGED <<admin, welcome, users, pc>>
      /\ \A z \in Seeder : z # s => seeding'[z] = seeding[z] /\ adds'[z] = adds[z]
  BY DEF LookUpWelcome, BootInv, SeedInv, dbVars
<1>2. \A e : AddressTaken(e)' <=> AddressTaken(e)
  BY <1>1 DEF AddressTaken
<1>3. \/ seeding'[s] = "failed" /\ UNCHANGED adds
      \/ seeding'[s] = "commit" /\ ("welcome" \in adds'[s] \/ welcome)
         /\ ("admin" \in adds'[s] <=> "admin" \in adds[s])
  BY DEF LookUpWelcome, BootInv, SeedInv
<1>4. seeding'[s] = "commit" /\ "admin" \in adds'[s] =>
        ~ AddressTaken(AdminEmail) /\ ~ Uncommitted(AdminEmail)
  BY <1>3 DEF LookUpWelcome, BootInv, SeedInv
<1>5. \/ HoldsAdmin' = HoldsAdmin
      \/ /\ HoldsAdmin = {} /\ HoldsAdmin' = {s}
         /\ ~ AddressTaken(AdminEmail) /\ ~ Uncommitted(AdminEmail)
  <2>1. s \notin HoldsAdmin /\ \A z \in Seeder \ {s} : z \in HoldsAdmin' <=> z \in HoldsAdmin
    BY <1>1 DEF HoldsAdmin
  <2>2. CASE s \in HoldsAdmin'
    <3>1. ~ AddressTaken(AdminEmail) /\ ~ Uncommitted(AdminEmail)
      BY <1>4, <2>2 DEF HoldsAdmin
    <3>2. HoldsAdmin = {}
      BY <3>1 DEF Uncommitted
    <3>3. HoldsAdmin' = {s}
      BY <2>1, <2>2, <3>2 DEF HoldsAdmin
    <3> QED
      BY <3>1, <3>2, <3>3
  <2>3. CASE s \notin HoldsAdmin'
    <3>1. HoldsAdmin' = HoldsAdmin
      BY <2>1, <2>3 DEF HoldsAdmin
    <3> QED
      BY <3>1
  <2> QED
    BY <2>2, <2>3
<1>6. Exclusive'
  <2>1. \A a \in Attempt : pc[a] = "commit" /\ EmailOf[a] = AdminEmail => HoldsAdmin' = {}
    BY <1>5 DEF BootInv, Exclusive, Uncommitted
  <2>2. HoldsAdmin' # {} => ~ AddressTaken(AdminEmail)
    BY <1>5 DEF BootInv, Exclusive
  <2>3. \A y, z \in HoldsAdmin' : y = z
    BY <1>5 DEF BootInv, Exclusive
  <2>4. OneAccountPerEmail'
    BY <1>1 DEF BootInv, Exclusive, OneAccountPerEmail, Usurped
  <2> QED
    BY <1>1, <1>2, <2>1, <2>2, <2>3, <2>4 DEF BootInv, Exclusive, Taken
<1>7. SeedInv'
  <2>1. /\ seeding' \in [Seeder -> {"off", "admin", "tariff", "promo", "commit", "done", "failed"}]
        /\ adds' \in [Seeder -> SUBSET {"admin", "welcome"}]
    BY DEF LookUpWelcome, BootInv, SeedInv
  <2>2. SeedAllOrNothing'
    BY <1>1 DEF BootInv, SeedInv, SeedAllOrNothing, Usurped
  <2> QED
    BY <1>1, <1>2, <1>3, <2>1, <2>2 DEF BootInv, SeedInv
<1>8. AccountInv'
  BY <1>1 DEF BootInv, AccountInv, RefusalMeansAccount
<1> QED
  BY <1>6, <1>7, <1>8 DEF BootInv

\* The script commits what it adds, or nothing.
LEMMA SeedCommitted == ASSUME BootInv, NEW s \in Seeder, CommitSeed(s) PROVE BootInv'
<1>1. /\ seeding[s] = "commit" /\ UNCHANGED <<adds, users, pc>>
      /\ seeding'[s] \in {"done", "failed"}
      /\ \A z \in Seeder : z # s => seeding'[z] = seeding[z]
      /\ seeding' \in [Seeder -> {"off", "admin", "tariff", "promo", "commit", "done", "failed"}]
  BY DEF CommitSeed, BootInv, SeedInv
<1>2. \/ UNCHANGED <<admin, welcome>>
      \/ /\ admin' <=> admin \/ "admin" \in adds[s]
         /\ welcome' <=> welcome \/ "welcome" \in adds[s]
  BY DEF CommitSeed
<1>3. HoldsAdmin' = HoldsAdmin \ {s}
  BY <1>1 DEF HoldsAdmin
<1>4. ASSUME NEW e PROVE AddressTaken(e)' <=> AddressTaken(e) \/ (admin' /\ e = AdminEmail)
  <2>1. admin => admin'
    BY <1>2
  <2> QED
    BY <1>1, <2>1 DEF AddressTaken
<1>5. CASE s \in HoldsAdmin /\ ~ admin
  <2>1. /\ HoldsAdmin' = {} /\ ~ AddressTaken(AdminEmail) /\ ~ Usurped
        /\ \A a \in Attempt : pc[a] = "commit" => EmailOf[a] # AdminEmail
    BY <1>3, <1>5, TakenOrUsurped DEF BootInv, Exclusive
  <2>2. Exclusive'
    <3>1. OneAccountPerEmail'
      BY <1>1, <2>1 DEF BootInv, Exclusive, OneAccountPerEmail, Usurped
    <3>2. \A a \in Attempt : pc'[a] = "commit" => ~ Taken(a)'
      BY <1>1, <1>4, <2>1 DEF BootInv, Exclusive, Taken
    <3> QED
      BY <1>1, <2>1, <3>1, <3>2 DEF BootInv, Exclusive
  <2> QED
    <3>1. SeedAllOrNothing'
      BY <1>1, <1>2, <1>5 DEF BootInv, SeedInv, SeedAllOrNothing, HoldsAdmin, Usurped
    <3>2. welcome => welcome'
      BY <1>2
    <3>3. SeedInv'
      BY <1>1, <1>4, <3>1, <3>2 DEF BootInv, SeedInv
    <3>4. AccountInv'
      BY <1>1, <1>2 DEF BootInv, AccountInv, RefusalMeansAccount
    <3> QED
      BY <2>2, <3>3, <3>4 DEF BootInv
<1>6. CASE s \notin HoldsAdmin \/ admin
  <2>1. "admin" \notin adds[s] \/ admin
    BY <1>1, <1>6 DEF HoldsAdmin
  <2>2. admin' <=> admin
    BY <1>2, <2>1
  <2>3. \A e : AddressTaken(e)' <=> AddressTaken(e)
    BY <1>1, <2>2 DEF AddressTaken
  <2>4. AddressTaken(AdminEmail)
    BY <1>1, <2>1 DEF BootInv, SeedInv, AddressTaken
  <2>5. Exclusive'
    BY <1>1, <1>3, <2>2, <2>3 DEF BootInv, Exclusive, Taken, OneAccountPerEmail, Usurped
  <2>6. SeedAllOrNothing'
    BY <1>1, <1>2, <2>2, <2>4, TakenOrUsurped DEF BootInv, SeedInv, SeedAllOrNothing, Usurped
  <2>7. welcome => welcome'
    BY <1>2
  <2>8. SeedInv'
    BY <1>1, <2>3, <2>6, <2>7 DEF BootInv, SeedInv
  <2>9. AccountInv'
    BY <1>1, <2>2 DEF BootInv, AccountInv, RefusalMeansAccount
  <2> QED
    BY <2>5, <2>8, <2>9 DEF BootInv
<1> QED
  BY <1>5, <1>6

\* The other steps of the script and those of the container insert nothing.
LEMMA PlatformMoves ==
  ASSUME BootInv,
         \/ Start \/ CreateTables \/ SeedOver \/ LookUpTariffs \/ InsertTariffs \/ Stop
         \/ \E s \in Seeder : RunSeed(s) \/ LookUpAdmin(s) \/ LookUpPro(s)
         \/ Terminated \/ UNCHANGED vars
  PROVE  BootInv'
<1>1. UNCHANGED <<admin, welcome, users>>
  BY DEF Start, CreateTables, SeedOver, LookUpTariffs, InsertTariffs, Stop, RunSeed, LookUpAdmin,
         LookUpPro, Terminated, vars, dbVars
<1>2. /\ \A a \in Attempt : pc'[a] = pc[a] \/ (pc[a] # "created" /\ pc'[a] = "dead")
      /\ pc' \in [Attempt -> Place]
  BY DEF Start, CreateTables, SeedOver, LookUpTariffs, InsertTariffs, Stop, RunSeed, LookUpAdmin,
         LookUpPro, Terminated, vars, BootInv, AccountInv, Place
<1>3. /\ seeding' \in [Seeder -> {"off", "admin", "tariff", "promo", "commit", "done", "failed"}]
      /\ adds' \in [Seeder -> SUBSET {"admin", "welcome"}]
  BY DEF Start, CreateTables, SeedOver, LookUpTariffs, InsertTariffs, Stop, RunSeed, LookUpAdmin,
         LookUpPro, Terminated, vars, seedVars, BootInv, SeedInv
<1>4. \A s \in Seeder :
        \/ seeding'[s] = seeding[s] /\ adds'[s] = adds[s]
        \/ seeding'[s] \in {"off", "admin", "tariff", "done"}
        \/ seeding'[s] = "promo" /\ ("admin" \in adds'[s] \/ AddressTaken(AdminEmail))
  BY DEF Start, CreateTables, SeedOver, LookUpTariffs, InsertTariffs, Stop, RunSeed, LookUpAdmin,
         LookUpPro, Terminated, vars, seedVars, BootInv, SeedInv
<1>5. HoldsAdmin' \subseteq HoldsAdmin
  BY <1>4 DEF HoldsAdmin
<1>6. AddressTaken(AdminEmail)' <=> AddressTaken(AdminEmail)
  BY <1>1 DEF AddressTaken
<1>7. SeedInv'
  BY <1>1, <1>3, <1>4, <1>6 DEF BootInv, SeedInv, SeedAllOrNothing, Usurped
<1> QED
  BY <1>1, <1>2, <1>5, <1>7, NoInsert DEF BootInv

\* Every step keeps addresses unique, refusals justified and the seeding whole.
LEMMA BootStep == BootInv /\ [Next]_vars => BootInv'
<1> SUFFICES ASSUME BootInv, [Next]_vars
             PROVE  BootInv'
  OBVIOUS
<1>1. ASSUME NEW a \in Attempt, LookUpEmail(a)
      PROVE  BootInv'
  BY <1>1, OneMoves DEF LookUpEmail, Goto, Place, dbVars, seedVars
<1>2. ASSUME NEW a \in Attempt, LookUpFree(a)
      PROVE  BootInv'
  BY <1>2, OneMoves DEF LookUpFree, Goto, Place, dbVars, seedVars
<1>3. ASSUME NEW a \in Attempt, InsertUser(a)
      PROVE  BootInv'
  BY <1>3, OneMoves DEF InsertUser, Goto, Place, dbVars, seedVars
<1> QED
  BY <1>1, <1>2, <1>3, UserCommitted, AdminFlushed, SeedCommitted, PlatformMoves DEF Next

\* However many registrations name an address, whether or not it is the one the seed
\* script is about to use, and wherever the container stops, it has one account at most.
THEOREM AddressesAreUnique == Spec => []OneAccountPerEmail
<1>1. BootInv => OneAccountPerEmail
  BY DEF BootInv, Exclusive
<1> QED
  BY BootInit, BootStep, <1>1, PTL DEF Spec

\* Nobody is refused an address that has no account, and nobody who was answered
\* 201 is without one.
THEOREM RefusalsAreJustified == Spec => []RefusalMeansAccount
<1>1. BootInv => RefusalMeansAccount
  BY DEF BootInv, AccountInv
<1> QED
  BY BootInit, BootStep, <1>1, PTL DEF Spec

\* Wherever containers stop, scripts race and whoever registers whatever address
\* meanwhile, there is no administrator without WELCOME50, and no WELCOME50 without an
\* account of the administrator's address.
THEOREM SeedIsAtomic == Spec => []SeedAllOrNothing
<1>1. BootInv => SeedAllOrNothing
  BY DEF BootInv, SeedInv
<1> QED
  BY BootInit, BootStep, <1>1, PTL DEF Spec

-----------------------------------------------------------------------------
(* The second start.                                                       *)

\* Once the script of the entrypoint is done, both rows are there unless there
\* were no tariffs; and no tariffs appear before the lifespan.
EntrypointSeeds ==
  stage = "seed" /\ seeding[Entrypoint] = "done" /\ tariffs =>
    welcome /\ AddressTaken(AdminEmail)

\* A script of the entrypoint that is done has left both behind.
LEMMA EntrypointStep == BootInv /\ EntrypointSeeds /\ [Next]_vars => EntrypointSeeds'
<1> SUFFICES ASSUME BootInv, EntrypointSeeds, [Next]_vars
             PROVE  EntrypointSeeds'
  OBVIOUS
<1>k. UNCHANGED <<admin, users>> => (AddressTaken(AdminEmail)' <=> AddressTaken(AdminEmail))
  BY DEF AddressTaken
<1> USE DEF BootInv, SeedInv, EntrypointSeeds
<1>1. CASE Start \/ CreateTables \/ SeedOver \/ LookUpTariffs \/ InsertTariffs \/ Stop
  BY <1>1, <1>k
  DEF Start, CreateTables, SeedOver, LookUpTariffs, InsertTariffs, Stop, dbVars, seedVars
<1>2. ASSUME NEW s \in Seeder, RunSeed(s) \/ LookUpAdmin(s) \/ LookUpPro(s)
      PROVE  EntrypointSeeds'
  BY <1>2, <1>k DEF RunSeed, LookUpAdmin, LookUpPro, dbVars
<1>3. ASSUME NEW s \in Seeder, LookUpWelcome(s)
      PROVE  EntrypointSeeds'
  BY <1>3, <1>k DEF LookUpWelcome, dbVars
<1>4. ASSUME NEW s \in Seeder, CommitSeed(s)
      PROVE  EntrypointSeeds'
  <2>1. seeding[s] = "commit" /\ UNCHANGED <<stage, tariffs, users>> /\ (welcome => welcome')
    BY <1>4 DEF CommitSeed
  <2>2. AddressTaken(AdminEmail) => AddressTaken(AdminEmail)'
    BY <1>4 DEF CommitSeed, AddressTaken
  <2>3. CASE s # Entrypoint
    <3>1. seeding'[Entrypoint] = seeding[Entrypoint]
      BY <1>4, <2>3 DEF CommitSeed
    <3> QED
      BY <2>1, <2>2, <3>1
  <2>4. CASE s = Entrypoint /\ seeding'[s] = "done"
    <3>1. /\ admin' <=> admin \/ "admin" \in adds[s]
          /\ welcome' <=> welcome \/ "welcome" \in adds[s]
      BY <1>4, <2>4 DEF CommitSeed
    <3>2. welcome'
      BY <2>1, <3>1
    <3>3. AddressTaken(AdminEmail)'
      <4>1. CASE "admin" \in adds[s]
        BY <3>1, <4>1 DEF AddressTaken
      <4>2. CASE "admin" \notin adds[s]
        BY <2>1, <2>2, <4>2
      <4> QED
        BY <4>1, <4>2
    <3> QED
      BY <3>2, <3>3
  <2> QED
    BY <2>3, <2>4
<1>5. ASSUME NEW a \in Attempt,
             LookUpEmail(a) \/ LookUpFree(a) \/ InsertUser(a) \/ CommitUser(a)
      PROVE  EntrypointSeeds'
  <2>1. UNCHANGED <<stage, tariffs, admin, welcome, seeding>> /\ users \subseteq users'
    BY <1>5 DEF LookUpEmail, LookUpFree, InsertUser, CommitUser, dbVars, seedVars
  <2> QED
    BY <2>1 DEF AddressTaken
<1>6. CASE Terminated \/ UNCHANGED vars
  BY <1>6, <1>k DEF Terminated, vars, dbVars, seedVars
<1> QED
  BY <1>1, <1>2, <1>3, <1>4, <1>5, <1>6 DEF Next

\* An API that starts over tables that have their tariffs serves with the promo code
\* and with an administrator, unless somebody registered the administrator's address.
THEOREM LaterStartsSeed == Spec => SecondStartSeeds
<1> DEFINE Inv == BootInv /\ EntrypointSeeds
           Seeds == stage = "seed" /\ stage' = "lifespan" /\ tariffs
                      => welcome /\ (admin \/ Usurped)
<1>1. Init => Inv
  BY BootInit DEF Init, EntrypointSeeds
<1>2. Inv /\ [Next]_vars => Inv'
  BY BootStep, EntrypointStep
<1>3. Inv /\ [Next]_vars => [Seeds]_vars
  <2> SUFFICES ASSUME Inv, Next, stage = "seed", stage' = "lifespan"
               PROVE  seeding[Entrypoint] = "done"
    BY TakenOrUsurped DEF EntrypointSeeds
  <2>1. SeedOver
    BY DEF Next, Start, CreateTables, SeedOver, LookUpTariffs, InsertTariffs, Stop, RunSeed,
           LookUpAdmin, LookUpPro, LookUpWelcome, CommitSeed, LookUpEmail, LookUpFree,
           InsertUser, CommitUser, Terminated
  <2> QED
    BY <2>1 DEF SeedOver
<1> QED
  BY <1>1, <1>2, <1>3, PTL DEF Spec, SecondStartSeeds

-----------------------------------------------------------------------------
\* The part of the types that neither the accounts nor the seed have needed.
PlatformTypes ==
  /\ stage \in {"down", "tables", "seed", "lifespan", "tariffs", "ready"}
  /\ starts \in 0..MaxStarts
  /\ tables \in BOOLEAN /\ tariffs \in BOOLEAN /\ admin \in BOOLEAN /\ welcome \in BOOLEAN

\* Every step keeps it.
LEMMA PlatformStep == PlatformTypes /\ [Next]_vars => PlatformTypes'
<1> SUFFICES ASSUME PlatformTypes, [Next]_vars
             PROVE  PlatformTypes'
  OBVIOUS
<1> USE DEF PlatformTypes, dbVars, seedVars
<1>1. CASE Start
  <2>1. starts' \in 0..MaxStarts
    BY <1>1 DEF Start
  <2> QED
    BY <1>1, <2>1, Zenon DEF Start
<1>2. CASE CreateTables \/ InsertTariffs \/ SeedOver \/ LookUpTariffs \/ Stop
  BY <1>2, Zenon DEF CreateTables, InsertTariffs, SeedOver, LookUpTariffs, Stop
<1>3. ASSUME NEW s \in Seeder, RunSeed(s) \/ LookUpAdmin(s) \/ LookUpPro(s) \/ LookUpWelcome(s)
      PROVE  PlatformTypes'
  BY <1>3, Zenon DEF RunSeed, LookUpAdmin, LookUpPro, LookUpWelcome
<1>4. ASSUME NEW s \in Seeder, CommitSeed(s)
      PROVE  PlatformTypes'
  <2>1. admin' \in BOOLEAN /\ welcome' \in BOOLEAN
    BY <1>4, Zenon DEF CommitSeed
  <2> QED
    BY <1>4, <2>1, Zenon DEF CommitSeed
<1>5. ASSUME NEW a \in Attempt,
             LookUpEmail(a) \/ LookUpFree(a) \/ InsertUser(a) \/ CommitUser(a)
      PROVE  PlatformTypes'
  BY <1>5, Zenon DEF LookUpEmail, LookUpFree, InsertUser, CommitUser
<1>6. CASE Terminated \/ UNCHANGED vars
  BY <1>6, Zenon DEF Terminated, vars
<1> QED
  BY <1>1, <1>2, <1>3, <1>4, <1>5, <1>6 DEF Next

\* Every variable of start and registration keeps its type.
THEOREM BootstrapTypes == Spec => []TypeOK
<1>1. Init => PlatformTypes
  <2> SUFFICES ASSUME Init PROVE PlatformTypes
    OBVIOUS
  <2>1. starts \in 0..MaxStarts
    BY DEF Init
  <2> QED
    BY <2>1, Zenon DEF Init, PlatformTypes
<1>2. PlatformTypes /\ BootInv => TypeOK
  BY Zenon DEF PlatformTypes, BootInv, AccountInv, SeedInv, Place, TypeOK
<1> QED
  BY BootInit, BootStep, PlatformStep, <1>1, <1>2, PTL DEF Spec
=============================================================================
