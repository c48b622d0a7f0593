-------------------------- MODULE StatisticsProofs --------------------------
(***************************************************************************)
(* Proofs about my_stats, for any number of tasks and any prices: what the *)
(* five numbers of one answer have to do with each other although each of  *)
(* them is taken from a state of its own.                                  *)
(***************************************************************************)
EXTENDS Statistics, CreditProofs

USE ChargeAssumption, TaskAssumption

-----------------------------------------------------------------------------
(* Counting tasks.                                                         *)

\* A union has at most as many elements as its parts together, and as many if
\* they are disjoint.
LEMMA UnionCount ==
  ASSUME NEW X, NEW Y, IsFiniteSet(X), IsFiniteSet(Y)
  PROVE  /\ IsFiniteSet(X \cup Y)
         /\ Cardinality(X) \in Nat /\ Cardinality(Y) \in Nat /\ Cardinality(X \cup Y) \in Nat
         /\ Cardinality(X \cup Y) <= Cardinality(X) + Cardinality(Y)
         /\ X \cap Y = {} => Cardinality(X \cup Y) = Cardinality(X) + Cardinality(Y)
<1>1. /\ IsFiniteSet(X \cup Y)
      /\ Cardinality(X \cup Y) = Cardinality(X) + Cardinality(Y) - Cardinality(X \cap Y)
  BY FS_Union
<1>2. IsFiniteSet(X \cap Y)
  BY FS_Intersection
<1>3. Cardinality(X) \in Nat /\ Cardinality(Y) \in Nat /\ Cardinality(X \cap Y) \in Nat
      /\ Cardinality(X \cup Y) \in Nat
  BY <1>1, <1>2, FS_CardinalityType
<1>4. X \cap Y = {} => Cardinality(X \cap Y) = 0
  BY FS_EmptySet
<1>5. QED
  BY <1>1, <1>3, <1>4

\* A count of tasks is a number, at most that of all tasks, and counts of
\* different columns add up.
LEMMA TasksCount ==
  ASSUME NEW S
  PROVE  /\ Tasks(S) \in Nat /\ Tasks(S) <= Cardinality(Task)
         /\ \A s : s \notin S => Tasks(S \cup {s}) = Tasks(S) + Tasks({s})
<1>1. \A R : IsFiniteSet({t \in Task : state[t] \in R})
  BY FS_Subset
<1>2. Tasks(S) \in Nat /\ Tasks(S) <= Cardinality(Task)
  BY <1>1, FS_Subset, FS_CardinalityType DEF Tasks
<1>3. ASSUME NEW s, s \notin S PROVE Tasks(S \cup {s}) = Tasks(S) + Tasks({s})
  <2> DEFINE A == {t \in Task : state[t] \in S}
             B == {t \in Task : state[t] \in {s}}
  <2>1. {t \in Task : state[t] \in S \cup {s}} = A \cup B /\ A \cap B = {}
    BY <1>3
  <2>2. IsFiniteSet(A) /\ IsFiniteSet(B)
    BY <1>1
  <2>3. Tasks(S \cup {s}) = Cardinality(A \cup B)
    BY <2>1 DEF Tasks
  <2> HIDE DEF A, B
  <2>4. Cardinality(A \cup B) = Cardinality(A) + Cardinality(B)
    BY <2>1, <2>2, UnionCount
  <2>5. QED
    BY <2>3, <2>4 DEF A, B, Tasks
<1>4. QED
  BY <1>2, <1>3

\* The same, of the state after a step.
LEMMA CountAfter == ASSUME NEW S PROVE Tasks(S)' \in Nat
<1>1. IsFiniteSet({t \in Task : state'[t] \in S})
  BY FS_Subset
<1>2. QED
  BY <1>1, FS_CardinalityType DEF Tasks

\* The tasks whose state a step changes.
Changed == {t \in Task : state'[t] # state[t]}

\* No count changes by more than the number of tasks that changed.
LEMMA TasksMove ==
  ASSUME NEW S
  PROVE  /\ Cardinality(Changed) \in Nat
         /\ Tasks(S)' <= Tasks(S) + Cardinality(Changed)
         /\ Tasks(S) <= Tasks(S)' + Cardinality(Changed)
<1> DEFINE A == {t \in Task : state[t] \in S}
           B == {t \in Task : state'[t] \in S}
<1>1. IsFiniteSet(A) /\ IsFiniteSet(B) /\ IsFiniteSet(Changed)
  BY FS_Subset DEF Changed
<1>2. B \subseteq A \cup Changed /\ A \subseteq B \cup Changed
  BY DEF Changed
<1>3. Tasks(S) = Cardinality(A) /\ Tasks(S)' = Cardinality(B)
  BY DEF Tasks
<1> HIDE DEF A, B
<1>4. Cardinality(B) <= Cardinality(A \cup Changed) /\ Cardinality(A) <= Cardinality(B \cup Changed)
  BY <1>1, <1>2, UnionCount, FS_Subset
<1>5. /\ Cardinality(A) \in Nat /\ Cardinality(B) \in Nat /\ Cardinality(Changed) \in Nat
      /\ Cardinality(A \cup Changed) \in Nat
      /\ Cardinality(A \cup Changed) <= Cardinality(A) + Cardinality(Changed)
  BY <1>1, UnionCount
<1>6. /\ Cardinality(B \cup Changed) \in Nat
      /\ Cardinality(B \cup Changed) <= Cardinality(B) + Cardinality(Changed)
  BY <1>1, UnionCount
<1>7. QED
  BY <1>3, <1>4, <1>5, <1>6

-----------------------------------------------------------------------------
(* The invariant.  A task whose column was not asked for yet is ahead: with *)
(* those counted already it adds up to the total, give or take the tasks    *)
(* that changed columns since.  The counter of changes stops at a bound     *)
(* that no difference of the counts can exceed.                             *)

Shown == {"pending", "processing", "completed", "failed"}

Ahead(k) == {"processing"} \cup {Selects[i] : i \in (k + 1)..4}

Within(n, bound) == n <= bound /\ -n <= bound

\* What was asked is at most the number of tasks, what was not is still 0.
AnswersCounted ==
  /\ \A c \in Column \ {"spent"} : answer[c] <= Cardinality(Task)
  /\ \A i \in 1..4 : done < i => answer[Selects[i]] = 0

TotalSeen == answer["total"] <= Tasks(Shown)

Charged == \A t \in Task : state[t] # "absent" => held[t] \in Charge

Drift == done > 0 /\ moves < MaxMoves =>
  Within(Listed + Tasks(Ahead(done)) - answer["total"], moves)

StatInv == TypeOK /\ AnswersCounted /\ TotalSeen /\ Charged /\ Drift /\ SpentCoversTotal
-----------------------------------------------------------------------------
\* The sum over the reserve rows covers the lowest price of every task there is.
LEMMA SpentCovers ==
  ASSUME TypeOK, Charged
  PROVE  /\ Spent \in Nat
         /\ \A least \in Charge : (\A c \in Charge : least <= c) => Spent >= least * Tasks(Shown)
<1>1. Spent = SumFunctionOnSet(held, Task)
  BY DEF Spent, MapThenSumSet, SumFunctionOnSet, FoldFunctionOnSet
<1>2. \A t \in Task : held[t] \in Nat
  <2>1. \A t \in Task : held[t] \in Charge \cup {0}
    BY DEF TypeOK, Service!TypeOK
  <2>2. Charge \cup {0} \subseteq Nat
    OBVIOUS
  <2>3. QED
    BY <2>1, <2>2
<1>3. SumFunctionOnSet(held, Task) \in Nat
  BY <1>2, SumType
<1>4. ASSUME NEW least \in Charge, \A c \in Charge : least <= c
      PROVE  least * Tasks(Shown) <= SumFunctionOnSet(held, Task)
  <2> DEFINE part == {t \in Task : state[t] \in Shown}
  <2>1. part \subseteq Task /\ least \in Nat /\ \A t \in part : least <= held[t]
    BY <1>4 DEF Charged, Shown
  <2> HIDE DEF part
  <2>2. least * Cardinality(part) <= SumFunctionOnSet(held, Task)
    BY <1>2, <2>1, SumAtLeast
  <2>3. QED
    BY <2>2 DEF part, Tasks
<1>5. ASSUME NEW least \in Charge, least * Tasks(Shown) <= SumFunctionOnSet(held, Task)
      PROVE  Spent >= least * Tasks(Shown)
  <2>1. least * Tasks(Shown) \in Int
    BY TasksCount
  <2>2. QED
    BY <1>1, <1>3, <1>5, <2>1
<1>6. QED
  BY <1>1, <1>3, <1>4, <1>5

\* The numbers of tasks there are, and of changes that count.
LEMMA Sizes ==
  /\ Cardinality(Task) \in Nat /\ MaxMoves = 3 * Cardinality(Task) /\ MaxMoves \in Nat
  /\ Len(Selects) = 5
  /\ Selects[1] = "total" /\ Selects[2] = "pending" /\ Selects[3] = "completed"
  /\ Selects[4] = "failed" /\ Selects[5] = "spent"
BY FS_CardinalityType DEF MaxMoves, Selects

\* What is ahead before and after each of the SELECTs.
LEMMA AheadValues ==
  /\ Ahead(1) = Shown
  /\ Ahead(1) = Ahead(2) \cup {"pending"} /\ "pending" \notin Ahead(2)
  /\ Ahead(2) = Ahead(3) \cup {"completed"} /\ "completed" \notin Ahead(3)
  /\ Ahead(3) = Ahead(4) \cup {"failed"} /\ "failed" \notin Ahead(4)
  /\ Ahead(4) = {"processing"} /\ Ahead(5) = {"processing"}
<1>1. Ahead(1) = {"processing", "pending", "completed", "failed"}
  BY Sizes DEF Ahead
<1>2. Ahead(2) = {"processing", "completed", "failed"}
  BY Sizes DEF Ahead
<1>3. Ahead(3) = {"processing", "failed"}
  BY Sizes DEF Ahead
<1>4. Ahead(4) = {"processing"} /\ Ahead(5) = {"processing"}
  BY DEF Ahead
<1>5. QED
  BY <1>1, <1>2, <1>3, <1>4 DEF Shown
-----------------------------------------------------------------------------
\* An answer is a number.
LEMMA TypeSelect == ASSUME TypeOK, Charged, Select PROVE TypeOK'
<1>1. Spent \in Nat /\ \A s : Count(s) \in Nat
  BY SpentCovers, TasksCount DEF Count
<1>2. answer' \in [Column -> Nat]
  <2>1. \E n \in Nat : answer' = [answer EXCEPT ![Selects[done + 1]] = n]
    BY <1>1 DEF Select
  <2>2. QED
    BY <2>1 DEF TypeOK
<1>3. done' \in 0..Len(Selects)
  BY Sizes DEF TypeOK, Select
<1>4. Service!TypeOK' /\ moves' \in 0..MaxMoves
  BY DEF TypeOK, Service!TypeOK, Select, Service!Begun
<1>5. QED
  BY <1>2, <1>3, <1>4 DEF TypeOK

\* One more SELECT moves the tasks of its column from ahead to counted.
LEMMA StatSelect ==
  ASSUME StatInv, Select PROVE StatInv'
<1> DEFINE n == Cardinality(Task)
<1>t. /\ done \in 0..4 /\ answer \in [Column -> Nat] /\ moves \in Nat /\ moves <= MaxMoves
      /\ n \in Nat /\ MaxMoves \in Nat
  BY Sizes DEF StatInv, TypeOK, Select
<1>f. done' = done + 1 /\ state' = state /\ held' = held /\ repaid' = repaid /\ moves' = moves
  BY DEF Select
<1>c. \A S : Tasks(S)' = Tasks(S) /\ Tasks(S) \in Nat /\ Tasks(S) <= n
  BY <1>f, TasksCount DEF Tasks
<1>s. Spent \in Nat /\ Charged /\ Charged'
  BY <1>f, SpentCovers DEF StatInv, Charged
<1>y. TypeOK' /\ Len(Selects) = 5
  BY TypeSelect, Sizes DEF StatInv
<1>1. ASSUME NEW c \in Column \ {"spent"}, Selects[done + 1] = c, done < 4
      PROVE  /\ answer' = [answer EXCEPT ![c] = Count(c)] /\ Count(c) \in Nat /\ Count(c) <= n
             /\ AnswersCounted'
  <2>1. answer' = [answer EXCEPT ![c] = Count(c)]
    BY <1>1 DEF Select
  <2>2. Count(c) \in Nat /\ Count(c) <= n
    BY <1>c DEF Count
  <2>3. \A i \in 1..4 : done' < i => answer'[Selects[i]] = 0
    BY <1>1, <1>t, <1>f, <2>1, Sizes DEF StatInv, AnswersCounted, Column
  <2>4. \A k \in Column \ {"spent"} : answer'[k] <= n
    BY <1>t, <2>1, <2>2 DEF StatInv, AnswersCounted
  <2>5. QED
    BY <2>1, <2>2, <2>3, <2>4 DEF AnswersCounted
<1>2. CASE done = 0
  <2>1. answer' = [answer EXCEPT !["total"] = Tasks(Shown)] /\ AnswersCounted'
    <3>1. Selects[done + 1] = "total" /\ done < 4 /\ "total" \in Column \ {"spent"}
      BY <1>2, Sizes DEF Column
    <3>2. Count("total") = Tasks(Shown)
      BY DEF Count, Shown
    <3>3. QED
      BY <1>1, <3>1, <3>2
  <2>2. Listed' = 0
    BY <1>2, <1>t, <2>1, Sizes DEF Listed, StatInv, AnswersCounted, Column
  <2>3. answer'["total"] = Tasks(Shown)
    BY <1>t, <2>1 DEF Column
  <2>4. Drift' /\ TotalSeen'
    BY <1>2, <1>t, <1>f, <1>c, <2>2, <2>3, AheadValues DEF Drift, TotalSeen, Within
  <2>5. QED
    BY <1>2, <1>y, <1>f, <1>s, <2>1, <2>4 DEF StatInv, SpentCoversTotal, Responding
<1>3. ASSUME NEW c \in {"pending", "completed", "failed"}, NEW k \in 1..3, done = k,
             Selects[k + 1] = c, Ahead(k) = Ahead(k + 1) \cup {c}, c \notin Ahead(k + 1)
      PROVE  StatInv'
  <2>1. /\ answer' = [answer EXCEPT ![c] = Tasks({c})] /\ AnswersCounted'
        /\ answer[c] = 0
    BY <1>1, <1>3, Sizes DEF Column, Count, StatInv, AnswersCounted
  <2>2. Listed' = Listed + Tasks({c}) /\ Listed \in Nat /\ answer'["total"] = answer["total"]
    BY <1>t, <1>c, <2>1 DEF Listed, Column
  <2>3. Tasks(Ahead(k)) = Tasks(Ahead(k + 1)) + Tasks({c})
    BY <1>3, TasksCount
  <2>4. TotalSeen'
    BY <1>c, <2>2 DEF TotalSeen, StatInv
  <2>5. Drift'
    <3>1. Listed' + Tasks(Ahead(k + 1)) - answer["total"]
          = Listed + Tasks(Ahead(k)) - answer["total"]
      BY <1>t, <1>c, <2>2, <2>3 DEF Column
    <3>2. moves < MaxMoves => Within(Listed + Tasks(Ahead(k)) - answer["total"], moves)
      BY <1>3 DEF StatInv, Drift
    <3>3. moves < MaxMoves => Within(Listed' + Tasks(Ahead(k + 1))' - answer'["total"], moves)
      BY <1>c, <2>2, <3>1, <3>2
    <3>4. done' = k + 1 /\ Ahead(done)' = Ahead(k + 1)
      BY <1>3, <1>f DEF Ahead
    <3>5. QED
      BY <1>f, <3>3, <3>4 DEF Drift, Within, Tasks
  <2>6. QED
    BY <1>3, <1>y, <1>f, <1>s, <2>1, <2>4, <2>5 DEF StatInv, SpentCoversTotal, Responding
<1>4. CASE done = 4
  <2>1. answer' = [answer EXCEPT !["spent"] = Spent]
    <3>1. Selects[done + 1] = "spent"
      BY <1>4, Sizes
    <3>2. QED
      BY <3>1 DEF Select
  <2>2. /\ answer'["spent"] = Spent
        /\ \A c \in Column \ {"spent"} : answer'[c] = answer[c]
    BY <1>t, <2>1 DEF Column
  <2>3. Listed' = Listed /\ answer'["total"] = answer["total"]
    BY <2>2 DEF Listed, Column
  <2>4. AnswersCounted'
    BY <1>4, <1>f, <2>2 DEF AnswersCounted, StatInv
  <2>5. TotalSeen' /\ Drift'
    <3>1. Ahead(done) = {"processing"} /\ Ahead(done)' = {"processing"}
      BY <1>4, <1>f, AheadValues DEF Ahead
    <3>2. Tasks(Ahead(done))' = Tasks({"processing"})
      BY <1>f, <3>1 DEF Tasks
    <3>3. Drift /\ TotalSeen /\ done > 0
      BY <1>4 DEF StatInv
    <3>4. QED
      BY <1>f, <1>c, <2>3, <3>1, <3>2, <3>3 DEF TotalSeen, Drift, Within
  <2>6. SpentCoversTotal'
    <3>1. ASSUME NEW least \in Charge, \A c \in Charge : least <= c
          PROVE  answer'["spent"] >= least * answer'["total"]
      <4>1. Spent >= least * Tasks(Shown)
        BY <1>s, <3>1, SpentCovers DEF StatInv
      <4>2. answer["total"] <= Tasks(Shown) /\ answer["total"] \in Nat /\ least \in Nat
        BY <1>t DEF StatInv, TotalSeen, Column
      <4>3. \A a, b, m \in Nat : a <= b => m * a <= m * b
        OBVIOUS
      <4>4. least * answer["total"] <= least * Tasks(Shown)
        BY <1>c, <4>2, <4>3
      <4>5. least * answer["total"] \in Nat /\ least * Tasks(Shown) \in Nat
        BY <1>c, <4>2
      <4>6. QED
        BY <1>s, <2>2, <2>3, <4>1, <4>4, <4>5
    <3>2. QED
      BY <3>1 DEF SpentCoversTotal
  <2>7. QED
    BY <1>y, <1>s, <2>4, <2>5, <2>6 DEF StatInv
<1>5. QED
  BY <1>2, <1>3, <1>4, <1>t, Sizes, AheadValues
\* The next request starts over with nothing answered and no changes counted.
LEMMA StatRespond ==
  ASSUME StatInv, Respond PROVE StatInv'
<1>1. /\ done' = 0 /\ moves' = 0 /\ answer' = [c \in Column |-> 0]
      /\ state' = state /\ held' = held /\ repaid' = repaid
  BY DEF Respond
<1>2. TypeOK'
  BY <1>1, Sizes DEF StatInv, TypeOK, Service!TypeOK, Service!Begun
<1>3. \A c \in Column : answer'[c] = 0
  BY <1>1
<1>4. AnswersCounted'
  BY <1>3, Sizes DEF AnswersCounted, Column
<1>5. TotalSeen'
  <2>1. Tasks(Shown)' \in Nat
    BY <1>1, TasksCount DEF Tasks
  <2>2. QED
    BY <1>3, <2>1 DEF TotalSeen, Column
<1>6. Charged' /\ Drift' /\ SpentCoversTotal'
  BY <1>1, Sizes DEF StatInv, Charged, Drift, SpentCoversTotal, Responding
<1>7. QED
  BY <1>2, <1>4, <1>5, <1>6 DEF StatInv

\* What the service does to its tables: their types stay, no task disappears,
\* and one that appears comes with a charge.
LEMMA ServiceKeeps ==
  ASSUME Service!TypeOK, Charged, ServiceStep
  PROVE  /\ Service!TypeOK' /\ Charged'
         /\ \A t \in Task : state[t] \in Shown => state'[t] \in Shown
<1> USE DEF Service!TypeOK, Service!Begun, Charged, Shown
<1>1. ASSUME NEW t \in Task, Service!Accept(t)
      PROVE  /\ Service!TypeOK' /\ Charged'
             /\ \A s \in Task : state[s] \in Shown => state'[s] \in Shown
  BY <1>1 DEF Service!Accept
<1>2. ASSUME NEW t \in Task, Service!Start(t) \/ Service!Complete(t)
      PROVE  /\ Service!TypeOK' /\ Charged'
             /\ \A s \in Task : state[s] \in Shown => state'[s] \in Shown
  BY <1>2 DEF Service!Start, Service!Complete
<1>3. ASSUME NEW t \in Task, Service!Fail(t) \/ Service!Repay(t)
      PROVE  /\ Service!TypeOK' /\ Charged'
             /\ \A s \in Task : state[s] \in Shown => state'[s] \in Shown
  <2>1. repaid[t] + held[t] \in Nat
    <3>1. repaid[t] \in Nat /\ held[t] \in Charge \cup {0}
      OBVIOUS
    <3>2. Charge \cup {0} \subseteq Nat
      OBVIOUS
    <3>3. held[t] \in Nat
      BY <3>1, <3>2, Zenon
    <3>4. QED
      BY <3>1, <3>3
  <2>2. QED
    BY <1>3, <2>1 DEF Service!Fail, Service!Repay
<1>4. ASSUME NEW S \in SUBSET Task, Service!TimeOut(S)
      PROVE  /\ Service!TypeOK' /\ Charged'
             /\ \A s \in Task : state[s] \in Shown => state'[s] \in Shown
  BY <1>4 DEF Service!TimeOut
<1>5. QED
  BY <1>1, <1>2, <1>3, <1>4 DEF ServiceStep

\* Between two SELECTs no count drifts by more than the changes that are counted.
LEMMA StatService ==
  ASSUME StatInv, ServiceStep PROVE StatInv'
<1> DEFINE m == Cardinality(Changed)
<1>t. /\ done \in 0..5 /\ answer \in [Column -> Nat] /\ moves \in Nat /\ moves <= MaxMoves
      /\ MaxMoves \in Nat /\ m \in Nat
  BY Sizes, TasksMove DEF StatInv, TypeOK
<1>f. /\ done' = done /\ answer' = answer
      /\ moves' = IF done = 0 THEN 0 ELSE IF moves + m < MaxMoves THEN moves + m ELSE MaxMoves
  BY DEF ServiceStep, Changed
<1>1. Service!TypeOK' /\ Charged' /\ \A t \in Task : state[t] \in Shown => state'[t] \in Shown
  BY ServiceKeeps DEF StatInv, TypeOK
<1>2. TypeOK'
  BY <1>1, <1>f, <1>t, Sizes DEF StatInv, TypeOK
<1>3. AnswersCounted' /\ SpentCoversTotal'
  BY <1>f DEF StatInv, AnswersCounted, SpentCoversTotal, Responding
<1>4. TotalSeen'
  <2>1. IsFiniteSet({t \in Task : state'[t] \in Shown})
    BY FS_Subset
  <2>2. Cardinality({t \in Task : state[t] \in Shown})
        <= Cardinality({t \in Task : state'[t] \in Shown})
    BY <1>1, <2>1, FS_Subset
  <2>3. Tasks(Shown) <= Tasks(Shown)' /\ Tasks(Shown) \in Nat /\ Tasks(Shown)' \in Nat
    BY <2>1, <2>2, TasksCount, FS_CardinalityType DEF Tasks
  <2>4. answer["total"] <= Tasks(Shown) /\ answer["total"] \in Nat
    BY <1>t DEF StatInv, TotalSeen, Column
  <2>5. QED
    BY <1>f, <2>3, <2>4 DEF TotalSeen
<1>5. Drift'
  <2>1. SUFFICES ASSUME done > 0, moves' < MaxMoves
                 PROVE  Within(Listed + Tasks(Ahead(done))' - answer["total"], moves')
    BY <1>f DEF Drift, Listed
  <2>2. moves' = moves + m /\ moves < MaxMoves
    BY <1>t, <1>f, <2>1
  <2>3. PICK k : k = done
    OBVIOUS
  <2>4. Ahead(done) = Ahead(k) /\ Ahead(done)' = Ahead(k)
    BY <1>f, <2>3 DEF Ahead
  <2>5. /\ Tasks(Ahead(k))' <= Tasks(Ahead(k)) + m /\ Tasks(Ahead(k)) <= Tasks(Ahead(k))' + m
    BY TasksMove
  <2>6. Tasks(Ahead(k)) \in Nat /\ Tasks(Ahead(k))' \in Nat
    <3>1. \A S : Tasks(S)' \in Nat
      BY CountAfter
    <3>2. QED
      BY <3>1, TasksCount
  <2>7. Tasks(Ahead(done))' = Tasks(Ahead(k))'
    BY <2>4 DEF Tasks
  <2>8. Within(Listed + Tasks(Ahead(k)) - answer["total"], moves)
    BY <2>1, <2>2, <2>4 DEF StatInv, Drift
  <2>9. Listed \in Nat /\ answer["total"] \in Nat
    BY <1>t DEF Listed, Column
  <2> HIDE DEF m
  <2>10. QED
    BY <1>t, <2>2, <2>5, <2>6, <2>7, <2>8, <2>9 DEF Within
<1>6. QED
  BY <1>1, <1>2, <1>3, <1>4, <1>5 DEF StatInv

\* The inductive invariant.
THEOREM StatisticsInvariant == Spec => []StatInv
<1>1. Init => StatInv
  <2> SUFFICES ASSUME Init PROVE StatInv
    OBVIOUS
  <2>1. TypeOK
    BY Sizes DEF Init, Service!Init, TypeOK, Service!TypeOK, Service!Begun
  <2>2. \A c \in Column : answer[c] = 0
    BY DEF Init
  <2>3. AnswersCounted
    BY <2>2, Sizes DEF AnswersCounted, Column
  <2>4. TotalSeen
    BY <2>2, TasksCount DEF TotalSeen, Column
  <2>5. Charged /\ Drift /\ SpentCoversTotal
    BY Sizes DEF Init, Service!Init, Charged, Drift, SpentCoversTotal, Responding
  <2>6. QED
    BY <2>1, <2>3, <2>4, <2>5 DEF StatInv
<1>2. StatInv /\ UNCHANGED vars => StatInv'
  <2> SUFFICES ASSUME StatInv, UNCHANGED vars PROVE StatInv'
    OBVIOUS
  <2>1. QED
    BY DEF vars, StatInv, TypeOK, Service!TypeOK, Service!Begun, AnswersCounted, TotalSeen, Charged,
           Drift, SpentCoversTotal, Tasks, Ahead, Listed, Responding
<1>3. StatInv /\ [Next]_vars => StatInv'
  BY <1>2, StatSelect, StatRespond, StatService DEF Next
<1>4. QED
  BY <1>1, <1>3, PTL DEF Spec

\* The variables keep their types, for any number of tasks.
THEOREM StatisticsTyped == Spec => []TypeOK
<1>1. StatInv => TypeOK
  BY DEF StatInv
<1>2. QED
  BY <1>1, StatisticsInvariant, PTL

\* Whatever the service does between the SELECTs, the credits shown as spent pay for
\* every prediction shown: a task is never visible before the row that pays for it.
THEOREM SpentPaysForTotal == Spec => []SpentCoversTotal
<1>1. StatInv => SpentCoversTotal
  BY DEF StatInv
<1>2. QED
  BY <1>1, StatisticsInvariant, PTL

\* The three counts differ from the total by the tasks being worked on and by the
\* changes between the SELECTs, and by nothing else.
THEOREM CountsOffByMoves == Spec => []OffByMoves
<1>1. ASSUME StatInv, Responding
      PROVE  /\ Listed - answer["total"] <= moves
             /\ answer["total"] - Listed <= Tasks({"processing"}) + moves
  <2> DEFINE n == Cardinality(Task)
             r == Tasks({"processing"})
  <2>1. /\ answer \in [Column -> Nat] /\ moves \in Nat /\ moves <= MaxMoves /\ r \in Nat
        /\ n \in Nat /\ MaxMoves = 3 * n
    BY <1>1, Sizes, TasksCount DEF StatInv, TypeOK
  <2>2. /\ answer["total"] <= n /\ answer["pending"] <= n
        /\ answer["completed"] <= n /\ answer["failed"] <= n
    BY <1>1 DEF StatInv, AnswersCounted, Column
  <2>3. /\ answer["total"] \in Nat /\ answer["pending"] \in Nat
        /\ answer["completed"] \in Nat /\ answer["failed"] \in Nat
    BY <2>1 DEF Column
  <2>4. CASE moves < MaxMoves
    <3>1. done = 5 /\ Ahead(done) = {"processing"}
      BY <1>1, Sizes, AheadValues DEF Responding
    <3>2. Within(Listed + r - answer["total"], moves)
      BY <1>1, <2>4, <3>1 DEF StatInv, Drift
    <3> HIDE DEF r
    <3>3. QED
      BY <2>1, <2>3, <3>2 DEF Within, Listed, r
  <2>5. CASE moves = MaxMoves
    <3> HIDE DEF n, r
    <3>1. QED
      BY <2>1, <2>2, <2>3, <2>5 DEF Listed, r
  <2>6. QED
    BY <2>1, <2>4, <2>5
<1>2. StatInv => OffByMoves
  BY <1>1 DEF OffByMoves
<1>3. QED
  BY <1>2, StatisticsInvariant, PTL
=============================================================================
