---------------------------- MODULE Statistics ----------------------------
(***************************************************************************)
(* my_stats of app/api/promo.py: five SELECTs, one after the other, while  *)
(* the service that PredictionContract specifies goes on.  At READ         *)
(* COMMITTED every SELECT has a snapshot of its own, so the five numbers   *)
(* may belong to five different states of the user's tasks.                *)
(***************************************************************************)
EXTENDS Integers, Sequences, FiniteSets, FiniteSetsExt

CONSTANTS Task, Charge,   \* the user's tasks and what one may cost
          MaxRefunds      \* bound: failed attempts of a task

ASSUME ChargeAssumption == Charge \subseteq Nat \ {0} /\ Charge # {}
ASSUME TaskAssumption   == IsFiniteSet(Task)

VARIABLES
  state, held, repaid,   \* the service: the variables of PredictionContract
  done,    \* how many of the SELECTs were answered, in the order of Selects
  answer,  \* what they returned
  moves    \* changes of a task's state since the first SELECT, as far as they matter

vars == <<state, held, repaid, done, answer, moves>>

Service == INSTANCE PredictionContract

\* Mutant: the sum is asked for first.
SelectsSumFirst == <<"spent", "total", "pending", "completed", "failed">>

Selects == <<"total", "pending", "completed", "failed", "spent">>

Column == {"total", "pending", "completed", "failed", "spent"}

\* A task is counted three times at most beyond its due, whatever happens.
MaxMoves == 3 * Cardinality(Task)

TypeOK ==
  /\ Service!TypeOK
  /\ done \in 0..Len(Selects)
  /\ answer \in [Column -> Nat]
  /\ moves \in 0..MaxMoves

Init ==
  /\ Service!Init
  /\ done = 0
  /\ answer = [c \in Column |-> 0]
  /\ moves = 0

Tasks(shown) == Cardinality({t \in Task : state[t] \in shown})

\* Mutant: the sum over the refund rows as well, as a balance would be.
SpentNet == MapThenSumSet(LAMBDA t : held[t] - repaid[t], Task)

\* The sum over the reserve rows: what was given back since is still "spent".
Spent == MapThenSumSet(LAMBDA t : held[t], Task)

\* Mutant: tasks being worked on are taken for pending ones.
CountUnsettled(status) ==
  CASE status = "total" -> Tasks({"pending", "processing", "completed", "failed"})
    [] status = "pending" -> Tasks({"pending", "processing", "completed"})
    [] OTHER -> Tasks({status})

\* The count of the user's tasks, or of those with one status.
Count(status) ==
  IF status = "total" THEN Tasks({"pending", "processing", "completed", "failed"})
                      ELSE Tasks({status})

Select ==
  /\ done < Len(Selects)
  /\ LET s == Selects[done + 1] IN
     answer' = [answer EXCEPT ![s] = IF s = "spent" THEN Spent ELSE Count(s)]
  /\ done' = done + 1
  /\ UNCHANGED <<state, held, repaid, moves>>

\* The numbers are returned; the next request starts over.
Respond ==
  /\ done = Len(Selects)
  /\ done' = 0
  /\ answer' = [c \in Column |-> 0]
  /\ moves' = 0
  /\ UNCHANGED <<state, held, repaid>>

\* Submissions, attempts, retries and cleanup, between any two SELECTs.
ServiceStep ==
  /\ \/ \E t \in Task :
          \/ Service!Accept(t) \/ Service!Start(t) \/ Service!Complete(t)
          \/ repaid[t] < MaxRefunds * held[t] /\ (Service!Fail(t) \/ Service!Repay(t))
     \/ \E S \in SUBSET Task : Service!TimeOut(S)
  /\ moves' = IF done = 0 THEN 0
              ELSE LET n == moves + Cardinality({t \in Task : state'[t] # state[t]})
                   IN  IF n < MaxMoves THEN n ELSE MaxMoves
  /\ UNCHANGED <<done, answer>>

Next == Select \/ Respond \/ ServiceStep

Spec == Init /\ [][Next]_vars

-----------------------------------------------------------------------------
Responding == done = Len(Selects)

Listed == answer["pending"] + answer["completed"] + answer["failed"]

\* The dashboard never shows predictions that were had for less than the lowest
\* price: although total and spent come from different snapshots, spent is read
\* last, and a task never becomes visible before the reserve row that pays for it.
SpentCoversTotal ==
  Responding => \A least \in Charge :
    (\A c \in Charge : least <= c) => answer["spent"] >= least * answer["total"]

\* The three counts disagree with the total only by the tasks that are being
\* worked on, which no count names, and by those that changed state meanwhile:
\* each such change moves a task by one column.
OffByMoves ==
  Responding =>
    /\ Listed - answer["total"] <= moves
    /\ answer["total"] - Listed <= Tasks({"processing"}) + moves
=============================================================================
