------------------------- MODULE PredictionContract -------------------------
(***************************************************************************)
(* What a client of the prediction service can rely on, one task at a      *)
(* time: a task is accepted together with the charge for it, it is shown   *)
(* completed or failed only after work on it began, it never becomes       *)
(* pending again, and credits come back only after an attempt at it, each  *)
(* time exactly what was charged.  What it cannot rely on is that a task   *)
(* whose credits came back is shown as failed.  Wallets, sessions,         *)
(* messages, workers and retries are all invisible here.                   *)
(***************************************************************************)
EXTENDS Naturals

CONSTANTS Task, Charge   \* the tasks, and the amounts one may cost

VARIABLES state,   \* what GET /ml/tasks/{id} shows of each task
          held,    \* what was charged for it
          repaid   \* what has been given back for it

vars == <<state, held, repaid>>

Begun == {"processing", "completed", "failed"}

TypeOK ==
  /\ state \in [Task -> {"absent", "pending"} \cup Begun]
  /\ held \in [Task -> Charge \cup {0}]
  /\ repaid \in [Task -> Nat]

Init ==
  /\ state = [t \in Task |-> "absent"]
  /\ held = [t \in Task |-> 0]
  /\ repaid = [t \in Task |-> 0]

Accept(t) == \E amount \in Charge :
  /\ state[t] = "absent"
  /\ state' = [state EXCEPT ![t] = "pending"]
  /\ held' = [held EXCEPT ![t] = amount]
  /\ UNCHANGED repaid

\* Every attempt starts over, whatever the task's state was.
Start(t) ==
  /\ state[t] # "absent"
  /\ state' = [state EXCEPT ![t] = "processing"]
  /\ UNCHANGED <<held, repaid>>

Complete(t) ==
  /\ state[t] \in Begun
  /\ state' = [state EXCEPT ![t] = "completed"]
  /\ UNCHANGED <<held, repaid>>

\* An attempt fails, possibly before it could be shown as processing.
Fail(t) ==
  /\ state[t] # "absent"
  /\ state' = [state EXCEPT ![t] = "failed"]
  /\ repaid' = [repaid EXCEPT ![t] = @ + held[t]]
  /\ UNCHANGED held

\* An attempt fails whose worker had found the task failed already: the credits
\* come back, and the task stays what another attempt has made of it since.
Repay(t) ==
  /\ state[t] \in Begun
  /\ repaid' = [repaid EXCEPT ![t] = @ + held[t]]
  /\ UNCHANGED <<state, held>>

\* Tasks that seem stuck are failed together, and nothing is given back.
TimeOut(S) ==
  /\ \A t \in S : state[t] \in Begun
  /\ state' = [t \in Task |-> IF t \in S THEN "failed" ELSE state[t]]
  /\ UNCHANGED <<held, repaid>>

Next ==
  \/ \E t \in Task : Accept(t) \/ Start(t) \/ Complete(t) \/ Fail(t) \/ Repay(t)
  \/ \E S \in SUBSET Task : TimeOut(S)

Spec == Init /\ [][Next]_vars
=============================================================================
