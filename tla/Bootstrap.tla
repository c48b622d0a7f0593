------------------------------ MODULE Bootstrap ------------------------------
(***************************************************************************)
(* The start of the service and the accounts it lets people register:      *)
(* entrypoint.sh creates the tables, runs scripts/seed.py and starts the   *)
(* API, whose lifespan seeds the tariffs before it serves; an operator may *)
(* run the seed script by hand as well, as its message says.  Once the API *)
(* is up, /auth/register runs as concurrent database sessions.             *)
(*                                                                         *)
(* The administrator is told by an address, which anybody may register     *)
(* while there is no administrator yet.  An INSERT that meets an equal     *)
(* uncommitted key waits for that session, and fails when the key is there.*)
(***************************************************************************)
EXTENDS Naturals

CONSTANTS Attempt,    \* registration requests
          EmailOf,    \* the address each of them names
          AdminEmail, \* ADMIN_EMAIL, the address of the administrator
          Seeder,     \* runs of the seed script
          Entrypoint, \* the one that entrypoint.sh starts
          MaxStarts   \* bound: how often the container is started

ASSUME BootstrapAssumption == Entrypoint \in Seeder /\ MaxStarts \in Nat

VARIABLES
  stage,    \* where the API container is
  starts,   \* how often it has been started
  tables,   \* the tables exist
  tariffs,  \* the three rows of tariffs are committed
  admin,    \* the administrator's row of users is committed
  welcome,  \* the row WELCOME50 of promo_codes is committed
  seeding,  \* where each run of the seed script is
  adds,     \* what it has added to its session
  users,    \* users: the attempts whose row is committed
  pc        \* where each attempt is, or how it was answered

seedVars == <<seeding, adds>>
dbVars   == <<tables, tariffs, admin, welcome>>
vars     == <<stage, starts, dbVars, seedVars, users, pc>>

TypeOK ==
  /\ stage \in {"down", "tables", "seed", "lifespan", "tariffs", "ready"}
  /\ starts \in 0..MaxStarts
  /\ tables \in BOOLEAN /\ tariffs \in BOOLEAN /\ admin \in BOOLEAN /\ welcome \in BOOLEAN
  /\ seeding \in [Seeder -> {"off", "admin", "tariff", "promo", "commit", "done", "failed"}]
  /\ adds \in [Seeder -> SUBSET {"admin", "welcome"}]
  /\ users \subseteq Attempt
  /\ pc \in [Attempt -> {"idle", "tariff", "insert", "commit", "created", "conflict",
                         "error", "tariffless", "dead"}]

Init ==
  /\ stage = "down" /\ starts = 0
  /\ tables = FALSE /\ tariffs = FALSE /\ admin = FALSE /\ welcome = FALSE
  /\ seeding = [s \in Seeder |-> "off"]
  /\ adds = [s \in Seeder |-> {}]
  /\ users = {}
  /\ pc = [a \in Attempt |-> "idle"]

-----------------------------------------------------------------------------
(* entrypoint.sh and the lifespan of the API.                              *)

Start ==
  /\ stage = "down" /\ starts < MaxStarts
  /\ stage' = "tables"
  /\ starts' = starts + 1
  /\ UNCHANGED <<dbVars, seedVars, users, pc>>

CreateTables ==
  /\ stage = "tables"
  /\ tables' = TRUE
  /\ stage' = "seed"
  /\ seeding' = [seeding EXCEPT ![Entrypoint] = "admin"]
  /\ UNCHANGED <<starts, tariffs, admin, welcome, adds, users, pc>>

\* set -e: the API is started only if the script did not fail.
SeedOver ==
  /\ stage = "seed"
  /\ seeding[Entrypoint] \in {"done", "failed"}
  /\ stage' = IF seeding[Entrypoint] = "done" THEN "lifespan" ELSE "down"
  /\ UNCHANGED <<starts, dbVars, seedVars, users, pc>>

LookUpTariffs ==
  /\ stage = "lifespan"
  /\ stage' = IF tariffs THEN "ready" ELSE "tariffs"
  /\ UNCHANGED <<starts, dbVars, seedVars, users, pc>>

InsertTariffs ==
  /\ stage = "tariffs"
  /\ tariffs' = TRUE
  /\ stage' = "ready"
  /\ UNCHANGED <<starts, tables, admin, welcome, seedVars, users, pc>>

\* The container is stopped or dies, with whatever it was doing.
Stop ==
  /\ stage # "down"
  /\ stage' = "down"
  /\ seeding' = [seeding EXCEPT ![Entrypoint] = IF stage = "seed" THEN "off" ELSE @]
  /\ adds' = [adds EXCEPT ![Entrypoint] = IF stage = "seed" THEN {} ELSE @]
  /\ pc' = [a \in Attempt |-> IF pc[a] \in {"tariff", "insert", "commit"} THEN "dead" ELSE pc[a]]
  /\ UNCHANGED <<starts, dbVars, users>>

-----------------------------------------------------------------------------
(* users.email is unique, the administrator's row included.                *)

AddressTaken(e) == (admin /\ e = AdminEmail) \/ \E a \in users : EmailOf[a] = e

\* Runs of the script whose row of the administrator is flushed, not committed.
HoldsAdmin == {s \in Seeder : seeding[s] = "commit" /\ "admin" \in adds[s]}

\* An INSERT of the address has to wait for another session.
Uncommitted(e) == \/ e = AdminEmail /\ HoldsAdmin # {}
                  \/ \E a \in Attempt : pc[a] = "commit" /\ EmailOf[a] = e

-----------------------------------------------------------------------------
(* scripts/seed.py, one session.                                           *)

\* An operator runs it once the tables exist.
RunSeed(s) ==
  /\ s # Entrypoint
  /\ tables
  /\ seeding[s] = "off"
  /\ seeding' = [seeding EXCEPT ![s] = "admin"]
  /\ UNCHANGED <<stage, starts, dbVars, adds, users, pc>>

\* Whoever has the administrator's address is taken for the administrator.
LookUpAdmin(s) ==
  /\ seeding[s] = "admin"
  /\ seeding' = [seeding EXCEPT ![s] = IF AddressTaken(AdminEmail) THEN "promo" ELSE "tariff"]
  /\ adds' = [adds EXCEPT ![s] = {}]
  /\ UNCHANGED <<stage, starts, dbVars, users, pc>>

\* Mutant: the script asks for a tariff that is never seeded.
LookUpProInVain(s) ==
  /\ seeding[s] = "tariff"
  /\ seeding' = [seeding EXCEPT ![s] = "done"]
  /\ UNCHANGED <<stage, starts, dbVars, adds, users, pc>>

\* Without the tariff of the administrator the script returns at once.
LookUpPro(s) ==
  /\ seeding[s] = "tariff"
  /\ IF tariffs
     THEN /\ adds' = [adds EXCEPT ![s] = {"admin"}]
          /\ seeding' = [seeding EXCEPT ![s] = "promo"]
     ELSE /\ seeding' = [seeding EXCEPT ![s] = "done"]
          /\ UNCHANGED adds
  /\ UNCHANGED <<stage, starts, dbVars, users, pc>>

\* The SELECT of the promo code flushes the administrator first.
LookUpWelcome(s) ==
  /\ seeding[s] = "promo"
  /\ "admin" \in adds[s] => ~ Uncommitted(AdminEmail)
  /\ IF "admin" \in adds[s] /\ AddressTaken(AdminEmail)
     THEN /\ seeding' = [seeding EXCEPT ![s] = "failed"]
          /\ UNCHANGED adds
     ELSE /\ seeding' = [seeding EXCEPT ![s] = "commit"]
          /\ adds' = [adds EXCEPT ![s] = IF welcome THEN @ ELSE @ \cup {"welcome"}]
  /\ UNCHANGED <<stage, starts, dbVars, users, pc>>

\* Mutant: the promo code is added in a session of its own.
CommitAdminOnly(s) ==
  /\ seeding[s] = "commit"
  /\ admin' = (admin \/ "admin" \in adds[s])
  /\ seeding' = [seeding EXCEPT ![s] = "done"]
  /\ UNCHANGED <<stage, starts, tables, tariffs, welcome, adds, users, pc>>

\* One commit for the administrator and the promo code.
CommitSeed(s) ==
  /\ seeding[s] = "commit"
  /\ IF welcome /\ "welcome" \in adds[s]
     THEN /\ seeding' = [seeding EXCEPT ![s] = "failed"]
          /\ UNCHANGED <<admin, welcome>>
     ELSE /\ admin' = (admin \/ "admin" \in adds[s])
          /\ welcome' = (welcome \/ "welcome" \in adds[s])
          /\ seeding' = [seeding EXCEPT ![s] = "done"]
  /\ UNCHANGED <<stage, starts, tables, tariffs, adds, users, pc>>

-----------------------------------------------------------------------------
(* POST /auth/register.                                                    *)

Goto(a, place) == pc' = [pc EXCEPT ![a] = place]

\* Mutant: an address is taken as soon as somebody is registering it.
TakenInFlight(a) == \E b \in Attempt \ {a} :
  EmailOf[b] = EmailOf[a] /\ pc[b] \in {"commit", "created"}

Taken(a) == AddressTaken(EmailOf[a])

\* 409 email_already_registered, or on to the tariff.
LookUpEmail(a) ==
  /\ stage = "ready"
  /\ pc[a] = "idle"
  /\ Goto(a, IF Taken(a) THEN "conflict" ELSE "tariff")
  /\ UNCHANGED <<stage, starts, dbVars, seedVars, users>>

\* 500 default_tariff_missing, or on to the INSERT.
LookUpFree(a) ==
  /\ pc[a] = "tariff"
  /\ Goto(a, IF tariffs THEN "insert" ELSE "tariffless")
  /\ UNCHANGED <<stage, starts, dbVars, seedVars, users>>

\* Mutant: users.email is not unique.
InsertUserAnyway(a) ==
  /\ pc[a] = "insert"
  /\ Goto(a, "commit")
  /\ UNCHANGED <<stage, starts, dbVars, seedVars, users>>

\* The flush: an IntegrityError that nobody handles, or a row not yet committed.
InsertUser(a) ==
  /\ pc[a] = "insert"
  /\ ~ Uncommitted(EmailOf[a])
  /\ Goto(a, IF Taken(a) THEN "error" ELSE "commit")
  /\ UNCHANGED <<stage, starts, dbVars, seedVars, users>>

\* Mutant: the account is stored under its address.
CommitUserByEmail(a) ==
  /\ pc[a] = "commit"
  /\ users' = users \cup {EmailOf[a]}
  /\ Goto(a, "created")
  /\ UNCHANGED <<stage, starts, dbVars, seedVars>>

\* The user, the signup bonus and its credit_transactions row.
CommitUser(a) ==
  /\ pc[a] = "commit"
  /\ users' = users \cup {a}
  /\ Goto(a, "created")
  /\ UNCHANGED <<stage, starts, dbVars, seedVars>>

-----------------------------------------------------------------------------
\* The operator starts the container no more, and nothing else is to be done.
Terminated ==
  /\ stage = "down" /\ starts = MaxStarts
  /\ \A s \in Seeder : seeding[s] \in {"done", "failed", "off"}
  /\ UNCHANGED vars

Next ==
  \/ Start \/ CreateTables \/ SeedOver \/ LookUpTariffs \/ InsertTariffs \/ Stop
  \/ \E s \in Seeder : RunSeed(s) \/ LookUpAdmin(s) \/ LookUpPro(s) \/ LookUpWelcome(s)
                       \/ CommitSeed(s)
  \/ \E a \in Attempt : LookUpEmail(a) \/ LookUpFree(a) \/ InsertUser(a) \/ CommitUser(a)
  \/ Terminated

Spec == Init /\ [][Next]_vars

-----------------------------------------------------------------------------
\* Somebody has registered the administrator's address.
Usurped == \E a \in users : EmailOf[a] = AdminEmail

\* Wherever the containers stopped and whoever ran the seed script meanwhile, there
\* is no administrator without the promo code, and no promo code without the
\* administrator unless somebody else had registered the administrator's address.
SeedAllOrNothing == (admin => welcome) /\ (welcome => admin \/ Usurped)

\* When the script of entrypoint.sh passes over existing tariffs, the API starts
\* with the promo code and an administrator, also when another run of the script
\* raced with it: there is none only where somebody registered that address.
SecondStartSeeds ==
  [][stage = "seed" /\ stage' = "lifespan" /\ tariffs => welcome /\ (admin \/ Usurped)]_vars

\* An address has one account at most, however many requests register it and
\* whether or not the seed script does as well.
OneAccountPerEmail ==
  /\ \A a, b \in users : EmailOf[a] = EmailOf[b] => a = b
  /\ admin => ~ Usurped

\* A registration is refused, or fails with an IntegrityError, only because the
\* address has an account of somebody else, be it the administrator; and who was
\* answered 201 has one, restarts included.
RefusalMeansAccount == \A a \in Attempt :
  /\ pc[a] \in {"conflict", "error"} =>
       \/ admin /\ EmailOf[a] = AdminEmail
       \/ \E b \in users \ {a} : EmailOf[b] = EmailOf[a]
  /\ pc[a] = "created" => a \in users
=============================================================================
