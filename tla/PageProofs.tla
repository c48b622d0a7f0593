----------------------------- MODULE PageProofs -----------------------------
(***************************************************************************)
(* Proofs about StreamlitPage for any number of tasks, polls and clicks.   *)
(* The types and the balance of clicks are one inductive invariant; where  *)
(* each prediction is kept (the places) is another on top of it.           *)
(***************************************************************************)
EXTENDS StreamlitPage, FiniteSetTheorems, TLAPS

\* TypeOK, but for the bound of lost, which is a consequence of ClicksPayOnce.
PageTypes ==
  /\ Service!TypeOK
  /\ token \in {"none", "valid", "expired"}
  /\ screen \in {"login", "panel", "traceback"}
  /\ pc \in {"idle", "run", "form", "post", "poll", "settle"}
  /\ trigger \subseteq Widget /\ want \subseteq Widget
  /\ awaiting \in Task \cup {NoTask} /\ last \in Task \cup {NoTask}
  /\ polls \in 0..Polls
  /\ clicks \in 0..MaxClicks /\ lost \in Nat
  /\ late \subseteq Task /\ reported \subseteq Task
  /\ unseen \subseteq Task /\ dropped \subseteq Task

USE NoTaskAssumption, PollsAssumption, ChargeAssumption, ClicksAssumption

\* A charge, or none, is a number.
LEMMA ChargesAreNumbers == \A c \in Charge \cup {0} : c \in Nat
BY ChargeAssumption

\* The page starts with its types.
LEMMA TypesInit == Init => PageTypes
BY DEF Init, PageTypes, Service!Init, Service!TypeOK

\* Steps of the service alone, an acceptance included.
LEMMA ServiceTypes ==
  ASSUME Service!TypeOK,
         \/ \E t \in Task : \/ Service!Accept(t) \/ Service!Start(t)
                            \/ Service!Complete(t) \/ Service!Fail(t) \/ Service!Repay(t)
         \/ \E S \in SUBSET Task : Service!TimeOut(S)
  PROVE  Service!TypeOK'
<1>1. ASSUME NEW t \in Task, Service!Accept(t)
      PROVE  Service!TypeOK'
  BY <1>1 DEF Service!TypeOK, Service!Accept, Service!Begun
<1>2. ASSUME NEW t \in Task, Service!Start(t) \/ Service!Complete(t)
      PROVE  Service!TypeOK'
  BY <1>2 DEF Service!TypeOK, Service!Start, Service!Complete, Service!Begun
<1>3. ASSUME NEW t \in Task, Service!Fail(t) \/ Service!Repay(t)
      PROVE  Service!TypeOK'
  <2>1. held[t] \in Charge \cup {0} /\ repaid[t] \in Nat
    BY DEF Service!TypeOK
  <2>2. held[t] \in Nat
    BY <2>1, ChargesAreNumbers
  <2> QED
    BY <1>3, <2>1, <2>2 DEF Service!TypeOK, Service!Fail, Service!Repay, Service!Begun
<1>4. ASSUME NEW S \in SUBSET Task, Service!TimeOut(S)
      PROVE  Service!TypeOK'
  BY <1>4 DEF Service!TypeOK, Service!TimeOut, Service!Begun
<1> QED
  BY <1>1, <1>2, <1>3, <1>4

\* At most two POSTs of a click are still to come: the one asked for and the one
\* on its way.
LEMMA OutstandingType == Outstanding \in 0..2
BY DEF Outstanding

\* A run restarts, ends or goes on: the buttons stay widgets.
LEMMA TypesStep == PageTypes /\ [Next]_vars => PageTypes'
<1> SUFFICES ASSUME PageTypes, [Next]_vars
             PROVE  PageTypes'
  OBVIOUS
<1>a. UNCHANGED serviceVars => Service!TypeOK'
  BY DEF PageTypes, serviceVars, Service!TypeOK
<1>1. CASE \E w \in Widget : Use(w)
  BY <1>1, <1>a DEF PageTypes, Use
<1>2. CASE LogIn \/ Expire \/ Rerun
  BY <1>2, <1>a DEF PageTypes, LogIn, Expire, Rerun, Restart, ghostVars
<1>3. CASE Reload
  <2>1. lost' \in Nat
    BY <1>3, OutstandingType DEF Reload, PageTypes
  <2> QED
    BY <1>3, <1>a, <2>1 DEF PageTypes, Reload
<1>4. CASE Welcome
  BY <1>4, <1>a DEF PageTypes, Welcome, Restart, GoesTo, FetchMe, ghostVars
<1>5. CASE TurnedAway \/ FetchRaises
  BY <1>5, <1>a DEF PageTypes, TurnedAway, FetchRaises, Ends, ghostVars
<1>6. CASE Form
  BY <1>6, <1>a DEF PageTypes, Form, Restart, Ends, GoesTo, Popped
<1>7. CASE \E t \in Task : Accepted(t)
  <2> PICK t \in Task : Accepted(t)
    BY <1>7
  <2>1. Service!TypeOK'
    BY ServiceTypes DEF Accepted, PageTypes
  <2> QED
    BY <2>1 DEF PageTypes, Accepted, Restart, GoesTo, Drop
<1>8. CASE Refused \/ PostRaises
  BY <1>8, <1>a DEF PageTypes, Refused, PostRaises, Ends, ghostVars
<1>9. CASE PollRefused \/ PollUnsettled
  BY <1>9, <1>a DEF PageTypes, PollRefused, PollUnsettled, Restart, StopWaiting, Drop, ghostVars
<1>10. CASE PollSettled
  BY <1>10, <1>a DEF PageTypes, PollSettled, Restart, GoesTo, StopWaiting, ghostVars
<1>11. CASE GiveUp \/ PollRaises
  BY <1>11, <1>a DEF PageTypes, GiveUp, PollRaises, Ends, StopWaiting, Drop
<1>12. CASE Settle
  BY <1>12, <1>a DEF PageTypes, Settle, FetchMe, Restart, Ends, ghostVars
<1>13. CASE \E t \in Task : AcceptedLate(t)
  <2> PICK t \in Task : AcceptedLate(t)
    BY <1>13
  <2>1. Service!TypeOK'
    BY ServiceTypes DEF AcceptedLate, PageTypes
  <2> QED
    BY <2>1 DEF PageTypes, AcceptedLate, runVars
<1>14. CASE RefusedLate
  BY <1>14, <1>a DEF PageTypes, RefusedLate, runVars
<1>15. CASE ServiceStep
  <2>1. Service!TypeOK'
    BY <1>15, ServiceTypes DEF ServiceStep, PageTypes
  <2> QED
    BY <1>15, <2>1 DEF PageTypes, ServiceStep, runVars, ghostVars
<1>16. CASE UNCHANGED vars
  BY <1>16, <1>a DEF PageTypes, vars, runVars, ghostVars
<1> QED
  BY <1>1, <1>2, <1>3, <1>4, <1>5, <1>6, <1>7, <1>8, <1>9, <1>10, <1>11, <1>12, <1>13,
     <1>14, <1>15, <1>16 DEF Next, ScriptStep

\* Every variable of the page has its type, but for the bound on lost POSTs, which
\* PageTypeCorrect adds.
THEOREM TypesHold == Spec => []PageTypes
<1> QED
  BY TypesInit, TypesStep, PTL DEF Spec

-----------------------------------------------------------------------------
(* Clicks and charges.                                                     *)

\* A POST is only made by a run that the predict button started.
PostWasAskedFor == pc = "post" => "predict" \in trigger

ClickInv == PageTypes /\ PostWasAskedFor /\ ClicksPayOnce

\* The predictions made can be counted.
LEMMA MadeIsFinite == IsFiniteSet(Made) /\ Cardinality(Made) \in Nat
<1>1. Made \subseteq Task
  BY DEF Made
<1> QED
  BY <1>1, TaskAssumption, FS_Subset, FS_CardinalityType

\* An accepted POST makes one prediction more.
LEMMA OneMoreMade ==
  ASSUME Service!TypeOK, NEW t \in Task, Service!Accept(t)
  PROVE  Cardinality(Made') = Cardinality(Made) + 1
<1>1. t \notin Made /\ Made' = Made \cup {t}
  BY DEF Made, Service!TypeOK, Service!Accept
<1> QED
  BY <1>1, MadeIsFinite, FS_AddElement

\* Attempts and timeouts neither make a prediction nor undo one.
LEMMA AttemptsMakeNothing ==
  ASSUME Service!TypeOK,
         \/ \E t \in Task : \/ Service!Start(t) \/ Service!Complete(t)
                            \/ Service!Fail(t) \/ Service!Repay(t)
         \/ \E S \in SUBSET Task : Service!TimeOut(S)
  PROVE  \A t \in Task : state'[t] = "absent" <=> state[t] = "absent"
BY DEF Service!TypeOK, Service!Start, Service!Complete, Service!Fail, Service!Repay,
       Service!TimeOut, Service!Begun

\* Before the first click nothing was made.
LEMMA ClicksInit == Init => ClickInv
<1> SUFFICES ASSUME Init PROVE ClickInv
  OBVIOUS
<1>1. Made = {}
  BY DEF Init, Made, Service!Init
<1>2. Outstanding = 0
  BY DEF Init, Outstanding
<1> QED
  BY <1>1, <1>2, TypesInit, FS_EmptySet DEF Init, ClickInv, PostWasAskedFor, ClicksPayOnce

\* No step makes more predictions than were clicked for.
LEMMA ClicksStep == ClickInv /\ [Next]_vars => ClickInv'
<1> SUFFICES ASSUME ClickInv, [Next]_vars
             PROVE  ClickInv'
  OBVIOUS
<1>0. PageTypes /\ PageTypes'
  BY TypesStep DEF ClickInv
<1>a. /\ Service!TypeOK /\ Cardinality(Made) \in Nat /\ Outstanding \in 0..2
      /\ clicks \in Nat /\ lost \in Nat
  BY <1>0, MadeIsFinite, OutstandingType DEF PageTypes
<1>b. SUFFICES PostWasAskedFor' /\ ClicksPayOnce'
  BY <1>0 DEF ClickInv
<1>c. UNCHANGED serviceVars => Cardinality(Made') = Cardinality(Made)
  <2> SUFFICES ASSUME UNCHANGED serviceVars PROVE Made' = Made
    OBVIOUS
  <2> QED
    BY DEF serviceVars, Made
<1>d. Restart => Outstanding' <= Outstanding
  BY DEF Restart, Outstanding
<1>e. Outstanding' \in 0..2
  BY DEF Outstanding
<1> USE <1>a, <1>e DEF ClickInv, PostWasAskedFor, ClicksPayOnce
<1>1. CASE \E w \in Widget : Use(w)
  <2> PICK w \in Widget : Use(w)
    BY <1>1
  <2>1. Outstanding' + clicks <= Outstanding + clicks'
    BY DEF Use, Outstanding
  <2> QED
    BY <1>c, <2>1 DEF Use
<1>2. CASE LogIn \/ Expire \/ Rerun
  <2>1. Outstanding' <= Outstanding
    BY <1>2, <1>d DEF LogIn, Expire, Rerun, Outstanding
  <2> QED
    BY <1>2, <1>c, <2>1 DEF LogIn, Expire, Rerun, Restart, ghostVars
<1>3. CASE Reload
  <2>1. Outstanding' = 0
    BY <1>3 DEF Reload, Outstanding
  <2> QED
    BY <1>3, <1>c, <2>1 DEF Reload
<1>4. CASE Welcome
  <2>1. Outstanding' <= Outstanding
    BY <1>4, <1>d DEF Welcome, GoesTo, Outstanding
  <2> QED
    BY <1>4, <1>c, <2>1 DEF Welcome, Restart, GoesTo, ghostVars
<1>5. CASE TurnedAway \/ FetchRaises \/ Refused
  <2>1. Outstanding' <= Outstanding
    BY <1>5 DEF TurnedAway, FetchRaises, Refused, Ends, Outstanding
  <2> QED
    BY <1>5, <1>c, <2>1 DEF TurnedAway, FetchRaises, Refused, Ends, ghostVars
<1>6. CASE Form
  <2>1. Outstanding' <= Outstanding
    BY <1>6, <1>d DEF Form, Ends, GoesTo, Outstanding
  <2> QED
    BY <1>6, <1>c, <2>1 DEF Form, Restart, Ends, GoesTo
<1>7. CASE \E t \in Task : Accepted(t)
  <2> PICK t \in Task : Accepted(t)
    BY <1>7
  <2>1. Cardinality(Made') = Cardinality(Made) + 1
    BY OneMoreMade DEF Accepted
  <2>2. Outstanding' < Outstanding
    BY DEF Accepted, Restart, GoesTo, Outstanding
  <2>3. clicks' = clicks /\ lost' = lost
    BY DEF Accepted
  <2>4. ClicksPayOnce'
    BY <2>1, <2>2, <2>3
  <2>5. PostWasAskedFor'
    BY DEF Accepted, Restart, GoesTo
  <2> QED
    BY <2>4, <2>5
<1>8. CASE PostRaises
  <2>1. Outstanding' < Outstanding
    BY <1>8 DEF PostRaises, Ends, Outstanding
  <2>2. /\ Cardinality(Made') = Cardinality(Made)
        /\ clicks' = clicks /\ lost' = lost + 1 /\ pc' # "post"
    BY <1>8, <1>c DEF PostRaises, Ends
  <2> QED
    BY <2>1, <2>2
<1>9. CASE PollRefused \/ PollUnsettled
  <2>1. Outstanding' <= Outstanding
    BY <1>9, <1>d DEF PollRefused, PollUnsettled, Outstanding
  <2> QED
    BY <1>9, <1>c, <2>1 DEF PollRefused, PollUnsettled, Restart, ghostVars
<1>10. CASE PollSettled \/ GiveUp \/ PollRaises \/ Settle
  <2>1. Outstanding' <= Outstanding
    BY <1>10, <1>d DEF PollSettled, GiveUp, PollRaises, Settle, GoesTo, Ends, Outstanding
  <2> QED
    BY <1>10, <1>c, <2>1 DEF PollSettled, GiveUp, PollRaises, Settle, Restart, GoesTo, Ends,
       ghostVars
<1>11. CASE \E t \in Task : AcceptedLate(t)
  <2> PICK t \in Task : AcceptedLate(t)
    BY <1>11
  <2>1. Cardinality(Made') = Cardinality(Made) + 1
    BY OneMoreMade DEF AcceptedLate
  <2>2. Outstanding' = Outstanding
    BY DEF AcceptedLate, runVars, Outstanding
  <2> QED
    BY <2>1, <2>2 DEF AcceptedLate, runVars
<1>12. CASE RefusedLate
  <2>1. Outstanding' = Outstanding
    BY <1>12 DEF RefusedLate, runVars, Outstanding
  <2> QED
    BY <1>12, <1>c, <2>1 DEF RefusedLate, runVars
<1>13. CASE ServiceStep
  <2>1. Made' = Made
    BY <1>13, AttemptsMakeNothing DEF ServiceStep, Made
  <2>2. Outstanding' = Outstanding
    BY <1>13 DEF ServiceStep, runVars, Outstanding
  <2> QED
    BY <1>13, <2>1, <2>2 DEF ServiceStep, runVars, ghostVars
<1>14. CASE UNCHANGED vars
  <2>1. Outstanding' = Outstanding
    BY <1>14 DEF vars, runVars, Outstanding
  <2> QED
    BY <1>14, <1>c, <2>1 DEF vars, runVars, ghostVars
<1> QED
  BY <1>1, <1>2, <1>3, <1>4, <1>5, <1>6, <1>7, <1>8, <1>9, <1>10, <1>11, <1>12, <1>13, <1>14
  DEF Next, ScriptStep

\* However the user clicks and reloads and however many answers are lost, the
\* service never charges for more predictions than there were clicks.
THEOREM ClicksArePaidOnce == Spec => []ClicksPayOnce
<1>1. ClickInv => ClicksPayOnce
  BY DEF ClickInv
<1> QED
  BY ClicksInit, ClicksStep, <1>1, PTL DEF Spec

\* Every variable of the page keeps its type; that no more POSTs are lost than
\* were clicked for is where ClicksPayOnce is needed.
THEOREM PageTypeCorrect == Spec => []TypeOK
<1>1. ClickInv => TypeOK
  <2> SUFFICES ASSUME ClickInv PROVE lost \in 0..MaxClicks
    BY DEF ClickInv, PageTypes, TypeOK
  <2> QED
    BY MadeIsFinite, OutstandingType DEF ClickInv, PageTypes, ClicksPayOnce
<1> QED
  BY ClicksInit, ClicksStep, <1>1, PTL DEF Spec

-----------------------------------------------------------------------------
(* Where each prediction is.                                               *)

\* A task is awaited during the polling loop only; a run that may make a
\* prediction has taken the verdict of the one before out of the session.
Awaits ==
  /\ pc # "poll" => awaiting = NoTask
  /\ pc \in {"post", "poll"} => last = NoTask

Ended == reported \cup unseen \cup dropped \cup late

Somewhere == {awaiting, last} \cup Ended

\* Exactly the predictions that were made are somewhere, ...
Kept == \A t \in Task : t \in Made <=> t \in Somewhere

\* ... and no two of the six places share one.
Apart ==
  /\ awaiting # NoTask => awaiting # last /\ awaiting \notin Ended
  /\ last # NoTask => last \notin Ended
  /\ reported \cap (unseen \cup dropped \cup late) = {}
  /\ unseen \cap (dropped \cup late) = {}
  /\ dropped \cap late = {}

PlaceInv == PageTypes /\ Awaits /\ Kept /\ Apart

\* At the start no prediction is anywhere.
LEMMA PlaceInit == Init => PlaceInv
BY TypesInit DEF Init, PlaceInv, Awaits, Kept, Apart, Somewhere, Ended, Made, Service!Init

\* Most steps move no task, and neither enter nor leave the polling loop nor get
\* to the POST.
LEMMA NothingMoves ==
  ASSUME PlaceInv, Made' = Made,
         UNCHANGED <<awaiting, last, reported, unseen, dropped, late>>,
         pc' = pc \/ (pc # "poll" /\ pc' \notin {"post", "poll"})
  PROVE  Awaits' /\ Kept' /\ Apart'
BY DEF PlaceInv, Awaits, Kept, Apart, Somewhere, Ended

\* Every step keeps each charged prediction in exactly one place.
LEMMA PlaceStep == PlaceInv /\ [Next]_vars => PlaceInv'
<1> SUFFICES ASSUME PlaceInv, [Next]_vars
             PROVE  Awaits' /\ Kept' /\ Apart'
  BY TypesStep DEF PlaceInv
<1>a. UNCHANGED serviceVars => Made' = Made
  BY DEF serviceVars, Made
<1>b. PageTypes
  BY DEF PlaceInv
<1>1. CASE \/ \E w \in Widget : Use(w)
           \/ LogIn \/ Expire \/ Rerun \/ RefusedLate \/ UNCHANGED vars
  BY <1>1, <1>a, NothingMoves
  DEF Use, LogIn, Expire, Rerun, RefusedLate, Restart, vars, runVars, ghostVars
<1>2. CASE Welcome \/ TurnedAway \/ FetchRaises \/ Refused \/ PostRaises
  BY <1>2, <1>a, NothingMoves
  DEF Welcome, TurnedAway, FetchRaises, Refused, PostRaises, Restart, Ends, GoesTo, ghostVars
<1>3. CASE PollRefused \/ Settle
  BY <1>3, <1>a, NothingMoves DEF PollRefused, Settle, Restart, Ends, ghostVars
<1>4. CASE ServiceStep
  <2>1. Made' = Made
    BY <1>4, <1>b, AttemptsMakeNothing DEF ServiceStep, Made, PageTypes
  <2> QED
    BY <1>4, <2>1, NothingMoves DEF ServiceStep, runVars, ghostVars
<1>5. CASE Reload
  <2>1. /\ awaiting' = NoTask /\ last' = NoTask /\ pc' = "run" /\ Made' = Made
        /\ UNCHANGED <<reported, unseen, late>>
        /\ dropped' = dropped \cup ({awaiting, last} \ {NoTask})
    BY <1>5, <1>a DEF Reload
  <2>2. Awaits'
    BY <2>1 DEF Awaits
  <2>3. Kept'
    BY <2>1 DEF PlaceInv, Kept, Somewhere, Ended
  <2>4. Apart'
    BY <2>1 DEF PlaceInv, Apart, Ended
  <2> QED
    BY <2>2, <2>3, <2>4
<1>6. CASE Form
  <2>1. /\ awaiting = NoTask /\ awaiting' = NoTask /\ pc' # "poll" /\ Made' = Made
        /\ UNCHANGED <<dropped, late>>
        /\ \/ /\ last' = NoTask /\ UNCHANGED reported
              /\ unseen' = unseen \cup ({last} \ {NoTask})
           \/ UNCHANGED <<last, unseen, reported>> /\ pc' = "run"
           \/ /\ last' = NoTask /\ UNCHANGED unseen
              /\ reported' = reported \cup ({last} \ {NoTask})
    BY <1>6, <1>a DEF Form, PlaceInv, Awaits, Restart, Ends, GoesTo, Popped
  <2>2. Awaits'
    BY <2>1 DEF Awaits
  <2>3. Kept'
    BY <2>1 DEF PlaceInv, Kept, Somewhere, Ended
  <2>4. Apart'
    BY <2>1 DEF PlaceInv, Apart, Ended
  <2> QED
    BY <2>2, <2>3, <2>4
<1>7. CASE \E t \in Task : Accepted(t)
  <2> PICK t \in Task : Accepted(t)
    BY <1>7
  <2>1. t \notin Made /\ Made' = Made \cup {t}
    BY <1>b DEF Accepted, PageTypes, Made, Service!TypeOK, Service!Accept
  <2>2. t \notin Somewhere
    BY <2>1 DEF PlaceInv, Kept
  <2>3. /\ awaiting = NoTask /\ last = NoTask /\ UNCHANGED <<last, reported, unseen, late>>
        /\ \/ pc' = "run" /\ UNCHANGED awaiting /\ dropped' = dropped \cup {t}
           \/ pc' = "poll" /\ awaiting' = t /\ UNCHANGED dropped
    BY DEF Accepted, PlaceInv, Awaits, Restart, GoesTo, Drop
  <2>4. Awaits'
    BY <2>3 DEF Awaits
  <2>5. Kept'
    BY <2>1, <2>3 DEF PlaceInv, Kept, Somewhere, Ended
  <2>6. Apart'
    BY <2>2, <2>3 DEF PlaceInv, Apart, Somewhere, Ended
  <2> QED
    BY <2>4, <2>5, <2>6
<1>8. CASE \E t \in Task : AcceptedLate(t)
  <2> PICK t \in Task : AcceptedLate(t)
    BY <1>8
  <2>1. t \notin Made /\ Made' = Made \cup {t}
    BY <1>b DEF AcceptedLate, PageTypes, Made, Service!TypeOK, Service!Accept
  <2>2. t \notin Somewhere
    BY <2>1 DEF PlaceInv, Kept
  <2>3. late' = late \cup {t} /\ UNCHANGED <<pc, awaiting, last, reported, unseen, dropped>>
    BY DEF AcceptedLate, runVars
  <2>4. Awaits'
    BY <2>3 DEF PlaceInv, Awaits
  <2>5. Kept'
    BY <2>1, <2>3 DEF PlaceInv, Kept, Somewhere, Ended
  <2>6. Apart'
    BY <2>2, <2>3 DEF PlaceInv, Apart, Somewhere, Ended
  <2> QED
    BY <2>4, <2>5, <2>6
<1>9. CASE PollUnsettled \/ GiveUp \/ PollRaises
  <2>1. /\ pc = "poll" /\ Made' = Made /\ UNCHANGED <<last, reported, unseen, late>>
        /\ \/ /\ pc' # "post" /\ pc' # "poll" /\ awaiting' = NoTask
              /\ dropped' = dropped \cup ({awaiting} \ {NoTask})
           \/ UNCHANGED <<pc, awaiting, dropped>>
    BY <1>9, <1>a
    DEF PollUnsettled, GiveUp, PollRaises, Restart, Ends, StopWaiting, Drop, ghostVars
  <2>2. Awaits'
    BY <2>1 DEF PlaceInv, Awaits
  <2>3. Kept'
    BY <2>1 DEF PlaceInv, Kept, Somewhere, Ended
  <2>4. Apart'
    BY <2>1 DEF PlaceInv, Apart, Ended
  <2> QED
    BY <2>2, <2>3, <2>4
<1>10. CASE PollSettled
  <2>1. /\ last = NoTask /\ last' = awaiting /\ awaiting' = NoTask /\ Made' = Made
        /\ pc' \in {"run", "settle"} /\ UNCHANGED <<reported, unseen, dropped, late>>
    BY <1>10, <1>a DEF PollSettled, PlaceInv, Awaits, Restart, GoesTo, StopWaiting, ghostVars
  <2>2. Awaits'
    BY <2>1 DEF Awaits
  <2>3. Kept'
    BY <2>1 DEF PlaceInv, Kept, Somewhere, Ended
  <2>4. Apart'
    BY <2>1 DEF PlaceInv, Apart, Ended
  <2> QED
    BY <2>2, <2>3, <2>4
<1> QED
  BY <1>1, <1>2, <1>3, <1>4, <1>5, <1>6, <1>7, <1>8, <1>9, <1>10 DEF Next, ScriptStep

\* Every prediction the user paid for is in exactly one place: no verdict is shown
\* twice or overwritten by the next, and the ones nobody saw are those of a run that
\* was interrupted right after it had taken the verdict out.
THEOREM VerdictsAreAccountedFor == Spec => []EachAccountedOnce
<1>1. PlaceInv => EachAccountedOnce
  <2> SUFFICES ASSUME PlaceInv, NEW t \in Made
               PROVE  \E p \in 1..6 : t \in Place[p] /\ \A q \in 1..6 : t \in Place[q] => q = p
    BY DEF EachAccountedOnce
  <2>1. /\ Place[1] = {awaiting} /\ Place[2] = {last} /\ Place[3] = reported
        /\ Place[4] = unseen /\ Place[5] = dropped /\ Place[6] = late
    BY DEF Place
  <2>2. t \in Task /\ t # NoTask /\ t \in Somewhere
    BY DEF PlaceInv, Kept, Made
  <2>3. \A q \in 1..6 : q = 1 \/ q = 2 \/ q = 3 \/ q = 4 \/ q = 5 \/ q = 6
    OBVIOUS
  <2>4. PICK p \in 1..6 : t \in Place[p]
    BY <2>1, <2>2 DEF Somewhere, Ended
  <2>5. ASSUME NEW q \in 1..6, t \in Place[q]
        PROVE  q = p
    BY <2>1, <2>2, <2>3, <2>4, <2>5 DEF PlaceInv, Apart, Ended
  <2> QED
    BY <2>4, <2>5
<1> QED
  BY PlaceInit, PlaceStep, <1>1, PTL DEF Spec
=============================================================================
