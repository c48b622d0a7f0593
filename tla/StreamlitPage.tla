--------------------------- MODULE StreamlitPage ---------------------------
(***************************************************************************)
(* One browser session of streamlit_app/app.py, as a client of the         *)
(* service that PredictionContract specifies.  Streamlit runs the whole    *)
(* script for every use of a widget: a button is TRUE only in the run it   *)
(* started, st.session_state survives from run to run, and a run that is   *)
(* asked to give way does so at its next st.* call.  Requests made while   *)
(* a run has not given way yet are merged into one.                        *)
(***************************************************************************)
EXTENDS Integers, FiniteSets

CONSTANTS Task, Charge,
          NoTask,      \* no task is awaited, no verdict is kept
          Polls,       \* range(20): how often the page asks for the verdict
          MaxClicks,   \* bound: clicks on the predict button
          MaxRefunds   \* bound: failed attempts of a task, as seen by the page

ASSUME NoTaskAssumption == NoTask \notin Task
ASSUME PollsAssumption  == Polls \in Nat \ {0}
ASSUME TaskAssumption   == IsFiniteSet(Task)
ASSUME ChargeAssumption == Charge \subseteq Nat \ {0}
ASSUME ClicksAssumption == MaxClicks \in Nat /\ MaxRefunds \in Nat

VARIABLES
  state, held, repaid,   \* the service: the variables of PredictionContract
  token,      \* session_state.token: none, valid, or no longer accepted
  screen,     \* what is displayed: the login forms, the panel, or a traceback
  pc,         \* where the script is; "idle" when it has run to its end
  trigger,    \* the buttons that are TRUE in this run
  want,       \* the widgets used since, a rerun for which is pending
  awaiting,   \* task_id, while its verdict is awaited
  polls,      \* iterations of the polling loop left
  last,       \* session_state.last_result: the task whose verdict it holds
  clicks,     \* how often the user pressed the predict button
  lost,       \* POSTs whose answer the page gave up waiting for
  late,       \* the tasks the service made of those
  reported,   \* the tasks whose verdict was displayed
  unseen,     \* the tasks whose verdict was taken out and never displayed
  dropped     \* tasks given up on: the wait ran out, raised, or was interrupted

serviceVars == <<state, held, repaid>>
ghostVars   == <<clicks, lost, late, reported, unseen, dropped>>
runVars     == <<token, screen, pc, trigger, want, awaiting, polls, last>>
vars        == <<serviceVars, runVars, ghostVars>>

Service == INSTANCE PredictionContract

Widget == {"predict", "credit", "logout", "other"}

TypeOK ==
  /\ Service!TypeOK
  /\ token \in {"none", "valid", "expired"}
  /\ screen \in {"login", "panel", "traceback"}
  /\ pc \in {"idle", "run", "form", "post", "poll", "settle"}
  /\ trigger \subseteq Widget /\ want \subseteq Widget
  /\ awaiting \in Task \cup {NoTask} /\ last \in Task \cup {NoTask}
  /\ polls \in 0..Polls
  /\ clicks \in 0..MaxClicks /\ lost \in 0..MaxClicks
  /\ late \subseteq Task /\ reported \subseteq Task
  /\ unseen \subseteq Task /\ dropped \subseteq Task

Init ==
  /\ Service!Init
  /\ token = "none" /\ screen = "login" /\ pc = "run"
  /\ trigger = {} /\ want = {}
  /\ awaiting = NoTask /\ last = NoTask /\ polls = 0
  /\ clicks = 0 /\ lost = 0
  /\ late = {} /\ reported = {} /\ unseen = {} /\ dropped = {}

-----------------------------------------------------------------------------
\* Mutant: the buttons of the run that ends stay TRUE in the next one.
RestartKeepsButtons ==
  /\ pc' = "run"
  /\ trigger' = trigger \cup want
  /\ want' = {}

\* st.rerun(), or a pending request that the script gives way to: the script
\* starts over with the buttons pressed since, and no other.
Restart ==
  /\ pc' = "run"
  /\ trigger' = want
  /\ want' = {}

\* The script ran to its end, or raised.
Ends ==
  /\ pc' = "idle"
  /\ trigger' = {}
  /\ UNCHANGED want

GoesTo(next) == pc' = next /\ UNCHANGED <<trigger, want>>

\* An st.* call: a pending request interrupts the script here.
Yields == want # {}

Drop(t) == dropped' = dropped \cup ({t} \ {NoTask})

-----------------------------------------------------------------------------
(* The user.                                                               *)

\* Any widget of the panel may be used while the script runs; a traceback
\* leaves none, but the browser's menu still offers a rerun.
Use(w) ==
  /\ \/ screen = "panel"
     \/ screen = "traceback" /\ w = "other"
  /\ want' = want \cup {w}
  /\ IF w = "predict" THEN clicks < MaxClicks /\ clicks' = clicks + 1
                      ELSE UNCHANGED clicks
  /\ UNCHANGED <<serviceVars, token, screen, pc, trigger, awaiting, polls, last,
                 lost, late, reported, unseen, dropped>>

Rerun ==
  /\ pc = "idle" /\ Yields
  /\ Restart
  /\ UNCHANGED <<serviceVars, token, screen, awaiting, polls, last, ghostVars>>

\* The login and the sign-up form: 200 or 201, a token, and a rerun.  A refusal,
\* or a fetch_me that clears the token at once, shows the same forms again.
LogIn ==
  /\ pc = "idle" /\ screen = "login" /\ ~ Yields
  /\ token' = "valid"
  /\ Restart
  /\ UNCHANGED <<serviceVars, screen, awaiting, polls, last, ghostVars>>

\* exp of the token passes, or the account is disabled.
Expire ==
  /\ token = "valid"
  /\ token' = "expired"
  /\ UNCHANGED <<serviceVars, screen, pc, trigger, want, awaiting, polls, last, ghostVars>>

\* The clicks that no POST was made for yet, but may be.
Outstanding ==
  (IF "predict" \in trigger /\ pc \in {"run", "form", "post"} THEN 1 ELSE 0)
  + (IF "predict" \in want THEN 1 ELSE 0)

\* F5: a new session, with nothing in st.session_state.  The script of the old one
\* may run on and answer clicks, for nobody.
Reload ==
  /\ token' = "none" /\ screen' = "login" /\ pc' = "run"
  /\ trigger' = {} /\ want' = {}
  /\ awaiting' = NoTask /\ last' = NoTask /\ polls' = 0
  /\ dropped' = dropped \cup ({awaiting, last} \ {NoTask})
  /\ lost' \in lost..(lost + Outstanding)
  /\ UNCHANGED <<serviceVars, clicks, late, reported, unseen>>

-----------------------------------------------------------------------------
(* main(): fetch_me, the sidebar, the form.                                *)

\* fetch_me: any answer but 200, be it 401 or 500, clears the token.
FetchMe ==
  \/ token = "valid" /\ UNCHANGED token
  \/ token' = "none"

\* The sidebar is drawn.  "Выйти" drops the token, a promo code or a top-up that
\* succeeded fetches the user again, and both rerun the script at once.
Welcome ==
  /\ pc = "run" /\ token = "valid"
  /\ IF Yields THEN Restart /\ UNCHANGED token
     ELSE IF "logout" \in trigger THEN Restart /\ token' = "none"
     ELSE \/ "credit" \in trigger /\ Restart /\ FetchMe
          \/ GoesTo("form") /\ UNCHANGED token
  /\ screen' = "panel"
  /\ UNCHANGED <<serviceVars, awaiting, polls, last, ghostVars>>

TurnedAway ==
  /\ pc = "run"
  /\ token' = "none" /\ screen' = "login"
  /\ Ends
  /\ UNCHANGED <<serviceVars, awaiting, polls, last, ghostVars>>

\* requests raised (a timeout, a refused connection): nothing was drawn yet.
FetchRaises ==
  /\ pc = "run" /\ token # "none"
  /\ screen' = "traceback"
  /\ Ends
  /\ UNCHANGED <<serviceVars, token, awaiting, polls, last, ghostVars>>

\* Mutant: the verdict is read and not taken out.
Unpopped == last

\* What pop("last_result") leaves in the session.
Popped == NoTask

\* render_predict_form up to "if not submitted": the verdict of an earlier run is
\* taken out of the session and shown.  A pending request interrupts this before
\* the verdict is taken out, after it is shown, or in between: at the st.success
\* that would have shown it.
Form ==
  /\ pc = "form"
  /\ \/ UNCHANGED <<last, reported, unseen>> /\ Yields
     \/ last' = Popped /\ unseen' = unseen \cup ({last} \ {NoTask}) /\ Yields /\ UNCHANGED reported
     \/ last' = Popped /\ reported' = reported \cup ({last} \ {NoTask}) /\ UNCHANGED unseen
  /\ IF Yields THEN Restart ELSE IF "predict" \in trigger THEN GoesTo("post") ELSE Ends
  /\ UNCHANGED <<serviceVars, token, screen, awaiting, polls, clicks, lost, late, dropped>>

-----------------------------------------------------------------------------
(* POST /ml/submit.                                                        *)

\* 202.  The st.empty() that follows may give way before the first poll.
Accepted(t) ==
  /\ pc = "post" /\ token = "valid"
  /\ Service!Accept(t)
  /\ IF Yields
     THEN Restart /\ Drop(t) /\ UNCHANGED <<awaiting, polls>>
     ELSE /\ GoesTo("poll")
          /\ awaiting' = t /\ polls' = Polls
          /\ UNCHANGED dropped
  /\ UNCHANGED <<token, screen, last, clicks, lost, late, reported, unseen>>

\* 402, 429, 401 or 500: the page says so.
Refused ==
  /\ pc = "post"
  /\ Ends
  /\ UNCHANGED <<serviceVars, token, screen, awaiting, polls, last, ghostVars>>

\* No answer in ten seconds: the script raises, the service may still accept.
PostRaises ==
  /\ pc = "post"
  /\ lost' = lost + 1
  /\ Ends
  /\ UNCHANGED <<serviceVars, token, screen, awaiting, polls, last,
                 clicks, late, reported, unseen, dropped>>

\* The service gets to a POST nobody waits for: it accepts, or it refuses.
AcceptedLate(t) ==
  /\ lost > 0
  /\ lost' = lost - 1
  /\ Service!Accept(t)
  /\ late' = late \cup {t}
  /\ UNCHANGED <<runVars, clicks, reported, unseen, dropped>>

RefusedLate ==
  /\ lost > 0
  /\ lost' = lost - 1
  /\ UNCHANGED <<serviceVars, runVars, clicks, late, reported, unseen, dropped>>

-----------------------------------------------------------------------------
(* The polling loop.                                                       *)

\* GET /ml/tasks/{task_id}: the committed status of the user's own task.
Status == state[awaiting]

StopWaiting == awaiting' = NoTask /\ polls' = 0

\* Mutant: one iteration too many.
PollRefusedPastEnd ==
  /\ pc = "poll"
  /\ polls' = polls - 1
  /\ UNCHANGED <<serviceVars, token, screen, pc, trigger, want, awaiting, last, ghostVars>>

\* Mutant: the loop starts over instead of running out.
PollRefusedForever ==
  /\ pc = "poll" /\ polls > 0
  /\ polls' = IF polls > 1 THEN polls - 1 ELSE Polls
  /\ UNCHANGED <<serviceVars, token, screen, pc, trigger, want, awaiting, last, ghostVars>>

\* Any answer but 200: "continue", without an st.* call.
PollRefused ==
  /\ pc = "poll" /\ polls > 0
  /\ polls' = polls - 1
  /\ UNCHANGED <<serviceVars, token, screen, pc, trigger, want, awaiting, last, ghostVars>>

\* Pending or processing: the page shows that, and may be interrupted there.
PollUnsettled ==
  /\ pc = "poll" /\ polls > 0 /\ token = "valid"
  /\ Status \in {"pending", "processing"}
  /\ IF Yields THEN Restart /\ StopWaiting /\ Drop(awaiting)
     ELSE polls' = polls - 1 /\ UNCHANGED <<pc, trigger, want, awaiting, dropped>>
  /\ UNCHANGED <<serviceVars, token, screen, last, clicks, lost, late, reported, unseen>>

\* The verdict is kept for the next run.  A failure reruns at once; a success
\* fetches the user first.
PollSettled ==
  /\ pc = "poll" /\ polls > 0 /\ token = "valid"
  /\ Status \in {"completed", "failed"}
  /\ last' = awaiting
  /\ StopWaiting
  /\ IF Status = "failed" THEN Restart ELSE GoesTo("settle")
  /\ UNCHANGED <<serviceVars, token, screen, ghostVars>>

\* The loop ran out: "check the History tab".
GiveUp ==
  /\ pc = "poll" /\ polls = 0
  /\ StopWaiting
  /\ Drop(awaiting)
  /\ Ends
  /\ UNCHANGED <<serviceVars, token, screen, last, clicks, lost, late, reported, unseen>>

\* A poll timed out or its connection broke.
PollRaises ==
  /\ pc = "poll" /\ polls > 0
  /\ StopWaiting
  /\ Drop(awaiting)
  /\ Ends
  /\ UNCHANGED <<serviceVars, token, screen, last, clicks, lost, late, reported, unseen>>

\* After the success: fetch_me for the new balance, then a rerun; if it raises,
\* the verdict waits in the session for the next run.
Settle ==
  /\ pc = "settle"
  /\ \/ FetchMe /\ Restart
     \/ Ends /\ UNCHANGED token
  /\ UNCHANGED <<serviceVars, screen, awaiting, polls, last, ghostVars>>

-----------------------------------------------------------------------------
\* What else goes on in the service: attempts, retries and the cleanup.
ServiceStep ==
  /\ \/ \E t \in Task :
          \/ Service!Start(t) \/ Service!Complete(t)
          \/ repaid[t] < MaxRefunds * held[t] /\ (Service!Fail(t) \/ Service!Repay(t))
     \/ \E S \in SUBSET Task : Service!TimeOut(S)
  /\ UNCHANGED <<runVars, ghostVars>>

ScriptStep ==
  \/ Rerun \/ Welcome \/ TurnedAway \/ FetchRaises \/ Form
  \/ (\E t \in Task : Accepted(t)) \/ Refused \/ PostRaises
  \/ PollRefused \/ PollUnsettled \/ PollSettled \/ GiveUp \/ PollRaises \/ Settle

Next ==
  \/ \E w \in Widget : Use(w)
  \/ LogIn \/ Expire \/ Reload
  \/ ScriptStep
  \/ (\E t \in Task : AcceptedLate(t)) \/ RefusedLate
  \/ ServiceStep

Spec == Init /\ [][Next]_vars

\* Streamlit runs the script on, and every request of it has a timeout.
FairSpec == Spec /\ WF_vars(ScriptStep)

-----------------------------------------------------------------------------
Made == {t \in Task : state[t] # "absent"}

\* Every prediction the service charged for answers a click of its own, and so
\* does every POST that may still be made or accepted: no rerun, no reload and no
\* lost answer makes the user pay twice for one click.
ClicksPayOnce == Cardinality(Made) + lost + Outstanding <= clicks

Place == <<{awaiting}, {last}, reported, unseen, dropped, late>>

\* Each charged prediction is in exactly one place: awaited, its verdict kept for
\* the next run, its verdict displayed, its verdict taken out of the session by a
\* run that another widget interrupted before it could display it (lost silently:
\* app.py pops before it shows), given up on by the polling loop, or accepted after
\* the page stopped listening.  No verdict is overwritten by the next one, shown
\* twice, or lost in any other way.
EachAccountedOnce == \A t \in Made : \E p \in 1..6 :
  t \in Place[p] /\ \A q \in 1..6 : t \in Place[q] => q = p

\* A run of the script comes to its end, whatever the service answers and however
\* long it takes, unless the user keeps using widgets.
RunEnds == (pc # "idle") ~> (pc = "idle" \/ Yields)
=============================================================================
