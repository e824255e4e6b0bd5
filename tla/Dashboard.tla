------------------------------ MODULE Dashboard ------------------------------
(***************************************************************************)
(* The dashboard's App: the refresh that a timer starts every few seconds, *)
(* the recording switch, whose toggle is shown before it is carried out,   *)
(* and the rule between them, that a refresh leaves the switch alone for a *)
(* while after a toggle.  The gateway answers, or does not; a command that *)
(* it has passed on reaches the recorder some time later, or never; others *)
(* start and stop recordings too.                                          *)
(*                                                                         *)
(* Time passes in ticks.  A browser's timers run on time.  A request's     *)
(* timeout covers it up to the head of its answer; the body is read after  *)
(* the timeout has been cancelled, and that it takes no longer than Lag is *)
(* an assumption about the network, which no code enforces.                *)
(***************************************************************************)
EXTENDS Integers

CONSTANTS Polls,       \* the refreshes that can be under way at once
          Interval,    \* of useAutoRefresh: 5 seconds
          GetTimeout,  \* of a GET: 5 seconds
          PostTimeout, \* of a POST: 10 seconds
          Window,      \* a refresh leaves a toggle alone: 10 seconds
          Lag,         \* for the body of an answer
          MaxClicks, MaxFlips  \* bounds on toggles, here and elsewhere

ASSUME DashboardAssumption ==
  /\ Polls # {}
  /\ Interval \in Nat \ {0} /\ GetTimeout \in Nat \ {0} /\ PostTimeout \in Nat \ {0}
  /\ Window \in Nat /\ Lag \in Nat /\ GetTimeout + Lag <= Window
  /\ MaxClicks \in Nat /\ MaxFlips \in Nat

VARIABLES
  isRecording,  \* what the switch shows
  isLoading,    \* a refresh is under way
  sinceToggle,  \* ticks since recordingToggleTimestamp, up to Window + 1
  shown,        \* the modules on the page: "mock" or "data"
  apiError,     \* the banner
  timer,        \* ticks since the last refresh was due
  poll,         \* each refresh
  post,         \* the toggle's request; isRecordingLoading while there is one
  pending,      \* start (TRUE) and stop commands on their way to the recorder
  recording,    \* whether some recorder records, as the bridge has heard
  clicks, flips,
  choice,       \* what the last toggle has left on the switch
  outdated,     \* refreshes that began before the last toggle
  overtaken     \* refreshes that began before one that has been shown

pageVars == <<isRecording, isLoading, sinceToggle, shown, apiError>>
outsideVars == <<pending, recording, flips>>
markVars == <<choice, outdated, overtaken>>
vars == <<pageVars, timer, poll, post, outsideVars, clicks, markVars>>

Idle == [at |-> "idle", seen |-> "stopped", age |-> 0]
NoPost == [answer |-> "idle", want |-> FALSE, age |-> 0]

Asking(p) == poll[p].at \in {"asked", "sampled"}
Busy == {p \in Polls : poll[p].at # "idle"}
isRecordingLoading == post # NoPost

Init ==
  /\ isRecording = FALSE /\ isLoading = FALSE /\ sinceToggle = Window + 1
  /\ shown = "mock" /\ apiError = FALSE
  /\ timer = Interval
  /\ poll = [p \in Polls |-> Idle] /\ post = NoPost
  /\ pending = [w \in BOOLEAN |-> 0] /\ recording \in BOOLEAN
  /\ clicks = 0 /\ flips = 0 /\ choice = FALSE /\ outdated = {} /\ overtaken = {}

-----------------------------------------------------------------------------
(* The refresh *)

\* fetchAllData asks for the modules, PTP and recordings at once.
StartRefresh ==
  LET p == CHOOSE q \in Polls : poll[q].at = "idle" IN
  /\ isLoading' = TRUE /\ apiError' = FALSE
  /\ poll' = [poll EXCEPT ![p] = [Idle EXCEPT !.at = "asked"]]
  /\ outdated' = outdated \ {p} /\ overtaken' = overtaken \ {p}

\* Slip: fetchAllData does not look at isLoading.
AutoRefreshWhileLoading ==
  /\ timer = Interval /\ \E p \in Polls : poll[p].at = "idle"
  /\ timer' = 0
  /\ StartRefresh
  /\ UNCHANGED <<isRecording, sinceToggle, shown, post, outsideVars, clicks, choice>>

\* The timer's tick; useAutoRefresh also calls once when the page is mounted.
AutoRefresh ==
  /\ timer = Interval
  /\ timer' = 0
  /\ \/ ~ isLoading /\ StartRefresh
     \/ isLoading /\ UNCHANGED <<isLoading, apiError, poll, outdated, overtaken>>
  /\ UNCHANGED <<isRecording, sinceToggle, shown, post, outsideVars, clicks, choice>>

\* What the bridge's list says of the modules' recordings.
Heard == IF recording THEN "recording" ELSE "stopped"

\* The gateway asks the modules and, for their recordings, their environment and the
\* bridge.  Where one of these calls fails a status lacks its recording, and where no
\* recorder goes by the module's name it is "stopped": the answer is a 200 all the same.
Sample(p) ==
  /\ poll[p].at = "asked"
  /\ \E seen \in {Heard, "stopped"} :
       poll' = [poll EXCEPT ![p].at = "sampled", ![p].seen = seen]
  /\ UNCHANGED <<pageVars, timer, post, outsideVars, clicks, markVars>>

\* Slip: whatever was toggled.
ShowRecordingAtOnce(seen) == isRecording' = (seen = "recording")

\* Slip: the comparison the wrong way round.
ShowRecordingWithin(seen) ==
  \/ sinceToggle < Window /\ isRecording' = (seen = "recording")
  \/ sinceToggle >= Window /\ UNCHANGED isRecording

\* The switch shows what the modules say, unless it was toggled a moment ago.
ShowRecording(seen) ==
  \/ sinceToggle > Window /\ isRecording' = (seen = "recording")
  \/ sinceToggle <= Window /\ UNCHANGED isRecording

\* Promise.allSettled, the modules have been answered: they are shown, with the
\* mock ones gone, and the topics are asked for.
ShowModules(p) ==
  /\ poll[p].at = "sampled"
  /\ shown' = "data"
  /\ ShowRecording(poll[p].seen)
  /\ poll' = [poll EXCEPT ![p] = [Idle EXCEPT !.at = "topics"]]
  /\ overtaken' = overtaken \cup {q \in Polls : Asking(q) /\ poll[q].age > poll[p].age}
  /\ UNCHANGED <<isLoading, sinceToggle, apiError, timer, post, outsideVars, clicks, choice, outdated>>

\* Promise.allSettled, the modules have not: what is shown stays, and there is
\* an error unless PTP, at least, was answered.
KeepModules(p, ptp) ==
  /\ Asking(p)
  /\ apiError' = (apiError \/ ~ ptp)
  /\ isLoading' = FALSE
  /\ poll' = [poll EXCEPT ![p] = Idle]
  /\ UNCHANGED <<isRecording, sinceToggle, shown, timer, post, outsideVars, clicks, markVars>>

\* The topics of every module are there, or none for it.
TopicsDone(p) ==
  /\ poll[p].at = "topics"
  /\ isLoading' = FALSE
  /\ poll' = [poll EXCEPT ![p] = Idle]
  /\ UNCHANGED <<isRecording, sinceToggle, shown, apiError, timer, post, outsideVars, clicks, markVars>>

-----------------------------------------------------------------------------
(* The recording switch *)

\* Slip: the timestamp is not taken.
ToggleUnstamped ==
  /\ clicks < MaxClicks /\ clicks' = clicks + 1
  /\ ~ isRecordingLoading
  /\ isRecording' = ~ isRecording
  /\ choice' = ~ isRecording
  /\ post' = [answer |-> "none", want |-> ~ isRecording, age |-> 0]
  /\ outdated' = Busy
  /\ UNCHANGED <<sinceToggle, isLoading, shown, apiError, timer, poll, outsideVars, overtaken>>

\* handleRecordingToggle: shown at once, then asked for.
Toggle ==
  /\ clicks < MaxClicks /\ clicks' = clicks + 1
  /\ ~ isRecordingLoading
  /\ isRecording' = ~ isRecording
  /\ choice' = ~ isRecording
  /\ sinceToggle' = 0
  /\ post' = [answer |-> "none", want |-> ~ isRecording, age |-> 0]
  /\ outdated' = Busy
  /\ UNCHANGED <<isLoading, shown, apiError, timer, poll, outsideVars, overtaken>>

Send(w) == pending' = [pending EXCEPT ![w] = @ + 1]

\* performRecordingOperation: a command that was passed on may still be refused,
\* when the bridge answers too late.
Operate(answer) ==
  /\ post.answer = "none"
  /\ post' = [post EXCEPT !.answer = answer]
  /\ \/ Send(post.want)
     \/ answer = "refused" /\ UNCHANGED pending
  /\ UNCHANGED <<pageVars, timer, poll, recording, flips, clicks, markVars>>

Revert ==
  /\ isRecording' = ~ post.want
  /\ choice' = ~ post.want
  /\ post' = NoPost

\* startRecording or stopRecording has its answer.
ToggleDone ==
  /\ \/ /\ post.answer = "success"
        /\ post' = NoPost /\ UNCHANGED <<isRecording, choice>>
     \/ post.answer = "refused" /\ Revert
  /\ UNCHANGED <<isLoading, sinceToggle, shown, apiError, timer, poll, outsideVars, clicks,
                 outdated, overtaken>>

\* Slip: the switch is not enabled again.
ToggleFailedLoading ==
  /\ isRecordingLoading
  /\ isRecording' = ~ post.want /\ choice' = ~ post.want
  /\ UNCHANGED <<isLoading, sinceToggle, shown, apiError, timer, poll, post, outsideVars, clicks,
                 outdated, overtaken>>

\* The request failed or its timeout is over; the gateway may go on with it.
ToggleFailed ==
  /\ isRecordingLoading
  /\ Revert
  /\ \/ UNCHANGED pending
     \/ post.answer = "none" /\ Send(post.want)
  /\ UNCHANGED <<isLoading, sinceToggle, shown, apiError, timer, poll, recording, flips, clicks,
                 outdated, overtaken>>

-----------------------------------------------------------------------------
(* Outside *)

\* A command reaches the recorders, which may be down or paused.
Arrive(w) ==
  /\ pending[w] > 0
  /\ pending' = [pending EXCEPT ![w] = @ - 1]
  /\ recording' \in {w, recording}
  /\ UNCHANGED <<pageVars, timer, poll, post, flips, clicks, markVars>>

\* Somebody else starts or stops.
Flip ==
  /\ flips < MaxFlips /\ flips' = flips + 1
  /\ recording' = ~ recording
  /\ UNCHANGED <<pageVars, timer, poll, post, pending, clicks, markVars>>

\* Time passes, but not beyond what is due: a refresh, the end of a request.
Tick ==
  /\ timer < Interval
  /\ \A p \in Busy : poll[p].age < GetTimeout + Lag
  /\ isRecordingLoading => post.age < PostTimeout + Lag
  /\ timer' = timer + 1
  /\ sinceToggle' = IF sinceToggle > Window THEN sinceToggle ELSE sinceToggle + 1
  /\ poll' = [p \in Polls |-> IF p \in Busy THEN [poll[p] EXCEPT !.age = @ + 1] ELSE poll[p]]
  /\ post' = IF isRecordingLoading THEN [post EXCEPT !.age = @ + 1] ELSE post
  /\ UNCHANGED <<isRecording, isLoading, shown, apiError, outsideVars, clicks, markVars>>

Refresh(p) ==
  \/ ShowModules(p) \/ TopicsDone(p)
  \/ \E ptp \in BOOLEAN : KeepModules(p, ptp)

Next ==
  \/ AutoRefresh
  \/ \E p \in Polls : Sample(p) \/ Refresh(p)
  \/ Toggle
  \/ \E answer \in {"success", "refused"} : Operate(answer)
  \/ ToggleDone
  \/ ToggleFailed
  \/ \E w \in BOOLEAN : Arrive(w)
  \/ Flip
  \/ Tick

Spec == Init /\ [][Next]_vars

\* Timers run and requests end: by their timeouts, or with the body of their answer.
FairSpec ==
  /\ Spec
  /\ WF_vars(Tick) /\ WF_vars(AutoRefresh)
  /\ WF_vars(ToggleDone \/ ToggleFailed)
  /\ \A p \in Polls : WF_vars(Refresh(p))
  /\ \A w \in BOOLEAN : WF_vars(Arrive(w))

-----------------------------------------------------------------------------
(* Properties *)

TypeOK ==
  /\ isRecording \in BOOLEAN /\ isLoading \in BOOLEAN /\ sinceToggle \in 0..Window + 1
  /\ shown \in {"mock", "data"} /\ apiError \in BOOLEAN /\ timer \in 0..Interval
  /\ poll \in [Polls -> [at : {"idle", "asked", "sampled", "topics"},
                         seen : {"recording", "stopped"}, age : 0..GetTimeout + Lag]]
  /\ post \in [answer : {"idle", "none", "success", "refused"}, want : BOOLEAN,
               age : 0..PostTimeout + Lag]
  /\ pending \in [BOOLEAN -> Nat] /\ recording \in BOOLEAN
  /\ clicks \in 0..MaxClicks /\ flips \in 0..MaxFlips /\ choice \in BOOLEAN
  /\ outdated \subseteq Polls /\ overtaken \subseteq Polls

\* "Don't override recording state if recently toggled": while the window of a
\* toggle lasts, the switch shows the toggle, or its failure, and nothing else.
ChoiceHolds == sinceToggle <= Window => isRecording = choice

\* A refresh that began before a toggle never changes the switch after it: the
\* window outlasts every request that was under way.  (A later one may, with a
\* sample from before the command took effect, once the window is over.)
\* recordingToggleTimestamp and the timeout of fetchWithTimeout only work together.
NoStaleOverride ==
  [][\A p \in Polls : ShowModules(p) /\ isRecording' # isRecording =>
       p \notin outdated]_vars

\* The page never goes back from a list of modules to one asked for earlier.
SnapshotsInOrder ==
  [][\A p \in Polls : ShowModules(p) => p \notin overtaken]_vars

\* A sample lacks a recording that the bridge knows of.
Misled == \E p \in Polls : Sample(p) /\ recording /\ poll'[p].seen = "stopped"

\* Once everybody is done toggling, a gateway that now and then answers, and whose
\* calls for the recordings fail only finitely often, brings the switch to what the
\* recorders do, for good, whatever was lost, late, or reverted in between.  (While
\* these calls fail the switch says "stopped", whatever the recorders do.)
SwitchTellsTheTruth ==
  /\ []<><<\E p \in Polls : ShowModules(p)>>_vars
  /\ <>[][~ Misled]_vars
  => <>[](isRecording = recording)

\* The page does not stop refreshing, and the switch does not stay disabled.
EveryWaitEnds ==
  /\ isLoading ~> ~ isLoading
  /\ isRecordingLoading ~> ~ isRecordingLoading
=============================================================================
