-------------------------- MODULE Dashboard_proofs --------------------------
(***************************************************************************)
(* Proofs about Dashboard: a toggle holds for its window, and a refresh    *)
(* from before it never undoes it, for any timeouts that fit into the      *)
(* window.                                                                 *)
(***************************************************************************)
EXTENDS Dashboard, TLAPS

\* A refresh from before the last toggle has been under way for at least as long
\* as the toggle is old.
OutdatedInv ==
  \A p \in Polls :
    Asking(p) /\ p \in outdated => sinceToggle <= poll[p].age

Inv == TypeOK /\ ChoiceHolds /\ OutdatedInv

PollType == [at : {"idle", "asked", "sampled", "topics"},
             seen : {"recording", "stopped"}, age : 0..GetTimeout + Lag]
PostType == [answer : {"idle", "none", "success", "refused"}, want : BOOLEAN,
             age : 0..PostTimeout + Lag]

-----------------------------------------------------------------------------
\* The initial page satisfies the invariant: it has no refresh and no toggle.
LEMMA InitInv == Init => Inv
<1> SUFFICES ASSUME Init PROVE Inv
  OBVIOUS
<1> USE DashboardAssumption
<1>1. TypeOK
  <2>1. Idle \in PollType /\ NoPost \in PostType
    BY DEF Idle, NoPost, PollType, PostType
  <2>2. poll \in [Polls -> PollType] /\ post \in PostType /\ pending \in [BOOLEAN -> Nat]
    BY <2>1 DEF Init
  <2>3. sinceToggle \in 0..Window + 1 /\ timer \in 0..Interval
        /\ clicks \in 0..MaxClicks /\ flips \in 0..MaxFlips
    BY DEF Init
  <2>4. isRecording \in BOOLEAN /\ isLoading \in BOOLEAN /\ shown \in {"mock", "data"}
        /\ apiError \in BOOLEAN /\ recording \in BOOLEAN /\ choice \in BOOLEAN
        /\ outdated \subseteq Polls /\ overtaken \subseteq Polls
    BY DEF Init
  <2> QED
    BY <2>2, <2>3, <2>4 DEF TypeOK, PollType, PostType
<1>2. ChoiceHolds
  BY DEF Init, ChoiceHolds
<1>3. OutdatedInv
  BY DEF Init, OutdatedInv, Asking, Idle
<1> QED
  BY <1>1, <1>2, <1>3 DEF Inv

\* Every action preserves the types.
LEMMA TypeStep == TypeOK /\ [Next]_vars => TypeOK'
<1> SUFFICES ASSUME TypeOK, [Next]_vars PROVE TypeOK'
  OBVIOUS
<1> USE DashboardAssumption
<1>p. poll \in [Polls -> PollType] /\ post \in PostType /\ timer \in 0..Interval
      /\ sinceToggle \in 0..Window + 1 /\ pending \in [BOOLEAN -> Nat]
  BY DEF TypeOK, PollType, PostType
<1>i. Idle \in PollType /\ NoPost \in PostType
  BY DEF Idle, NoPost, PollType, PostType
<1>s. \A w \in BOOLEAN : [pending EXCEPT ![w] = @ + 1] \in [BOOLEAN -> Nat]
  BY <1>p
<1>1. CASE AutoRefresh
  <2>1. [Idle EXCEPT !.at = "asked"] \in PollType
    BY <1>i DEF PollType
  <2>2. poll' \in [Polls -> PollType]
    BY <1>1, <1>p, <2>1 DEF AutoRefresh, StartRefresh
  <2>3. timer' \in 0..Interval
    BY <1>1 DEF AutoRefresh
  <2>4. isLoading' \in BOOLEAN /\ apiError' \in BOOLEAN
        /\ outdated' \subseteq Polls /\ overtaken' \subseteq Polls
    BY <1>1 DEF AutoRefresh, StartRefresh, TypeOK
  <2> QED
    BY <1>1, <2>2, <2>3, <2>4 DEF AutoRefresh, TypeOK, PollType, outsideVars
<1>2. CASE \E p \in Polls : Sample(p)
  <2> PICK p \in Polls : Sample(p)
    BY <1>2
  <2>1. PICK seen \in {"recording", "stopped"} :
          poll' = [poll EXCEPT ![p].at = "sampled", ![p].seen = seen]
    BY DEF Sample, Heard
  <2>3. poll' \in [Polls -> PollType]
    BY <1>p, <2>1 DEF PollType
  <2> QED
    BY <2>3 DEF Sample, TypeOK, PollType, pageVars, outsideVars, markVars
<1>3. CASE \E p \in Polls : ShowModules(p)
  <2> PICK p \in Polls : ShowModules(p)
    BY <1>3
  <2>1. poll' \in [Polls -> PollType]
    <3>1. [Idle EXCEPT !.at = "topics"] \in PollType
      BY <1>i DEF PollType
    <3>2. poll' = [poll EXCEPT ![p] = [Idle EXCEPT !.at = "topics"]]
      BY DEF ShowModules
    <3> QED
      BY <1>p, <3>1, <3>2
  <2>2. isRecording' \in BOOLEAN
    BY DEF ShowModules, ShowRecording, TypeOK
  <2>3. overtaken' \subseteq Polls
    BY DEF ShowModules, TypeOK
  <2> QED
    BY <2>1, <2>2, <2>3 DEF ShowModules, TypeOK, PollType, outsideVars
<1>4. CASE \E p \in Polls : TopicsDone(p) \/ \E ptp \in BOOLEAN : KeepModules(p, ptp)
  <2>1. poll' \in [Polls -> PollType]
    BY <1>4, <1>p, <1>i DEF TopicsDone, KeepModules
  <2>2. apiError' \in BOOLEAN
    BY <1>4 DEF TopicsDone, KeepModules, TypeOK
  <2> QED
    BY <1>4, <2>1, <2>2 DEF TopicsDone, KeepModules, TypeOK, PollType, outsideVars, markVars
<1>5. CASE Toggle
  <2>1. outdated' \subseteq Polls
    BY <1>5 DEF Toggle, Busy
  <2>2. post' \in PostType
    BY <1>5 DEF Toggle, PostType, TypeOK
  <2> QED
    BY <1>5, <2>1, <2>2 DEF Toggle, TypeOK, PollType, PostType, outsideVars
<1>6. CASE \E answer \in {"success", "refused"} : Operate(answer)
  <2> PICK answer \in {"success", "refused"} : Operate(answer)
    BY <1>6
  <2>1. post' \in PostType
    BY <1>p DEF Operate, PostType
  <2>2. pending' \in [BOOLEAN -> Nat]
    BY <1>p, <1>s DEF Operate, Send, PostType
  <2> QED
    BY <2>1, <2>2 DEF Operate, TypeOK, PostType, pageVars, markVars
<1>7. CASE ToggleDone
  BY <1>7, <1>p, <1>i DEF ToggleDone, Revert, TypeOK, PostType, outsideVars
<1>8. CASE ToggleFailed
  <2>1. pending' \in [BOOLEAN -> Nat]
    BY <1>8, <1>p, <1>s DEF ToggleFailed, Send, PostType
  <2> QED
    BY <1>8, <2>1, <1>p, <1>i DEF ToggleFailed, Revert, TypeOK, PostType
<1>9. CASE \E w \in BOOLEAN : Arrive(w)
  <2> PICK w \in BOOLEAN : Arrive(w)
    BY <1>9
  <2>1. pending' \in [BOOLEAN -> Nat]
    BY <1>p DEF Arrive
  <2> QED
    BY <2>1 DEF Arrive, TypeOK, pageVars, markVars
<1>10. CASE Flip
  BY <1>10 DEF Flip, TypeOK, pageVars, markVars
<1>11. CASE Tick
  <2>1. poll' \in [Polls -> PollType]
    BY <1>11, <1>p DEF Tick, PollType, Busy
  <2>2. post' \in PostType
    BY <1>11, <1>p DEF Tick, PostType, isRecordingLoading
  <2>3. sinceToggle' \in 0..Window + 1 /\ timer' \in 0..Interval
    BY <1>11, <1>p DEF Tick
  <2> QED
    BY <1>11, <2>1, <2>2, <2>3 DEF Tick, TypeOK, PollType, PostType, outsideVars, markVars
<1>12. CASE UNCHANGED vars
  BY <1>12 DEF vars, pageVars, outsideVars, markVars, TypeOK
<1> QED
  BY <1>1, <1>2, <1>3, <1>4, <1>5, <1>6, <1>7, <1>8, <1>9, <1>10, <1>11, <1>12
  DEF Next, Refresh

\* What the last toggle left on the switch stays there for its window: only a
\* refresh changes the switch besides, and it looks at the window.
LEMMA ChoiceStep == TypeOK /\ ChoiceHolds /\ [Next]_vars => ChoiceHolds'
<1> SUFFICES ASSUME TypeOK, ChoiceHolds, [Next]_vars, (sinceToggle <= Window)'
             PROVE  (isRecording = choice)'
  BY DEF ChoiceHolds
<1> USE DashboardAssumption
<1>t. sinceToggle \in 0..Window + 1
  BY DEF TypeOK
<1>1. CASE \E p \in Polls : ShowModules(p)
  <2> PICK p \in Polls : ShowModules(p)
    BY <1>1
  <2>1. sinceToggle' = sinceToggle /\ choice' = choice
    BY DEF ShowModules
  <2>2. sinceToggle <= Window /\ ~ (sinceToggle > Window)
    BY <2>1, <1>t
  <2>3. UNCHANGED isRecording
    BY <2>2, Zenon DEF ShowModules, ShowRecording
  <2> QED
    BY <2>1, <2>2, <2>3, Zenon DEF ChoiceHolds
<1>2. CASE Toggle
  BY <1>2 DEF Toggle
<1>3. CASE ToggleDone \/ ToggleFailed
  BY <1>3 DEF ToggleDone, ToggleFailed, Revert, ChoiceHolds
<1>4. CASE Tick
  <2>1. sinceToggle <= Window
    BY <1>4, <1>t DEF Tick
  <2>2. isRecording' = isRecording /\ choice' = choice
    BY <1>4 DEF Tick, markVars
  <2> QED
    BY <2>1, <2>2, Zenon DEF ChoiceHolds
<1>5. CASE UNCHANGED <<isRecording, sinceToggle, choice>>
  BY <1>5 DEF ChoiceHolds
<1> QED
  BY <1>1, <1>2, <1>3, <1>4, <1>5
  DEF Next, vars, pageVars, markVars, Refresh, AutoRefresh, Sample, TopicsDone, KeepModules,
      Operate, Arrive, Flip

\* A refresh ages with the toggle that outdates it.
LEMMA OutdatedStep == TypeOK /\ OutdatedInv /\ [Next]_vars => OutdatedInv'
<1> SUFFICES ASSUME TypeOK, OutdatedInv, [Next]_vars,
                    NEW q \in Polls, Asking(q)', q \in outdated'
             PROVE  sinceToggle' <= poll'[q].age
  BY DEF OutdatedInv
<1> USE DashboardAssumption
<1>p. poll \in [Polls -> PollType] /\ sinceToggle \in 0..Window + 1
  BY DEF TypeOK, PollType
<1>1. CASE AutoRefresh
  <2>1. poll'[q] = poll[q] /\ q \in outdated
    BY <1>1, <1>p DEF AutoRefresh, StartRefresh
  <2> QED
    BY <1>1, <2>1 DEF AutoRefresh, OutdatedInv, Asking
<1>2. CASE \E p \in Polls : Sample(p)
  <2> PICK p \in Polls : Sample(p)
    BY <1>2
  <2>1. poll'[q].age = poll[q].age /\ q \in outdated /\ Asking(q)
    BY <1>p DEF Sample, Asking, PollType, markVars
  <2> QED
    BY <2>1 DEF Sample, OutdatedInv, pageVars
<1>3. CASE \E p \in Polls : ShowModules(p)
  <2> PICK p \in Polls : ShowModules(p)
    BY <1>3
  <2>1. q # p
    BY <1>p DEF ShowModules, Asking, PollType
  <2>2. poll'[q].age = poll[q].age /\ q \in outdated /\ Asking(q)
    BY <2>1, <1>p DEF ShowModules, Asking, PollType
  <2> QED
    BY <2>2 DEF ShowModules, OutdatedInv
<1>4. CASE \E p \in Polls : TopicsDone(p) \/ \E ptp \in BOOLEAN : KeepModules(p, ptp)
  <2> PICK p \in Polls : TopicsDone(p) \/ \E ptp \in BOOLEAN : KeepModules(p, ptp)
    BY <1>4
  <2>1. poll'[q] = poll[q] /\ q \in outdated
    BY <1>p DEF TopicsDone, KeepModules, Idle, Asking, markVars
  <2> QED
    BY <2>1 DEF TopicsDone, KeepModules, OutdatedInv, Asking
<1>5. CASE Toggle
  <2>1. poll'[q].age = poll[q].age
    BY <1>5 DEF Toggle
  <2>2. poll[q].age >= 0
    BY <1>p DEF PollType
  <2> QED
    BY <1>5, <2>1, <2>2 DEF Toggle
<1>6. CASE Tick
  <2>1. q \in Busy
    BY <1>6, <1>p DEF Tick, Asking, Busy
  <2>2. poll'[q].age = poll[q].age + 1 /\ q \in outdated /\ Asking(q)
    BY <1>6, <2>1, <1>p DEF Tick, Asking, PollType, markVars
  <2>3. sinceToggle <= poll[q].age
    BY <2>2 DEF OutdatedInv
  <2>4. poll[q].age \in Nat
    BY <1>p DEF PollType
  <2>5. sinceToggle' <= sinceToggle + 1
    BY <1>6, <1>p DEF Tick
  <2>6. sinceToggle' \in Nat
    BY <1>6, <1>p DEF Tick
  <2> QED
    BY <2>2, <2>3, <2>4, <2>5, <2>6, <1>p
<1>7. CASE UNCHANGED <<poll, sinceToggle, outdated>>
  BY <1>7 DEF OutdatedInv, Asking
<1> QED
  BY <1>1, <1>2, <1>3, <1>4, <1>5, <1>6, <1>7
  DEF Next, vars, pageVars, markVars, Refresh, Operate, ToggleDone, ToggleFailed, Arrive, Flip

-----------------------------------------------------------------------------
\* The invariant of the page holds for any timeouts and any number of clicks.
THEOREM Invariance == Spec => []Inv
<1>1. Inv /\ [Next]_vars => Inv'
  BY TypeStep, ChoiceStep, OutdatedStep DEF Inv
<1> QED
  BY InitInv, <1>1, PTL DEF Spec

\* The page's variables keep their types; no request outlives its timeout.
THEOREM TypeCorrect == Spec => []TypeOK
<1>1. Inv => TypeOK
  BY DEF Inv
<1> QED
  BY Invariance, <1>1, PTL

\* A toggle holds for its window, whatever the refreshes say.
THEOREM ToggleHolds == Spec => []ChoiceHolds
<1>1. Inv => ChoiceHolds
  BY DEF Inv
<1> QED
  BY Invariance, <1>1, PTL

\* A refresh that began before a toggle does not change the switch after it.
THEOREM StaleIsIgnored == Spec => NoStaleOverride
<1>1. Inv /\ [Next]_vars =>
        [\A p \in Polls : ShowModules(p) /\ isRecording' # isRecording =>
           p \notin outdated]_vars
  <2> SUFFICES ASSUME Inv, NEW p \in Polls, ShowModules(p),
                      isRecording' # isRecording, p \in outdated
               PROVE  FALSE
    OBVIOUS
  <2>1. poll[p].age \in 0..GetTimeout + Lag /\ sinceToggle \in 0..Window + 1
    BY DEF Inv, TypeOK
  <2>2. sinceToggle <= poll[p].age
    BY DEF Inv, OutdatedInv, ShowModules, Asking
  <2>3. ~ (sinceToggle > Window)
    BY <2>1, <2>2, DashboardAssumption
  <2> QED
    BY <2>3, Zenon DEF ShowModules, ShowRecording
<1> QED
  BY Invariance, <1>1, PTL DEF Spec, NoStaleOverride
-----------------------------------------------------------------------------
(* One refresh at a time *)

\* The page is loading just when a refresh is under way, and there is one at most:
\* the timer looks at isLoading, which a refresh holds until its last answer.
OneRefresh ==
  /\ isLoading <=> Busy # {}
  /\ \A p, q \in Busy : p = q

\* So no refresh has been shown while an older one was still asking.
OrderInv == TypeOK /\ OneRefresh /\ overtaken = {}

\* While nothing loads every poll is free, and the one that is chosen is one of them.
LEMMA FreePoll ==
  ASSUME Busy = {}
  PROVE  (CHOOSE q \in Polls : poll[q].at = "idle") \in Polls
BY DashboardAssumption DEF Busy

\* Every action keeps the refreshes to one, and in order.
LEMMA OrderStep == OrderInv /\ [Next]_vars => OrderInv'
<1> SUFFICES ASSUME OrderInv, [Next]_vars PROVE (OneRefresh /\ overtaken = {})'
  BY TypeStep DEF OrderInv
<1>p. /\ poll \in [Polls -> PollType] /\ isLoading \in BOOLEAN
      /\ \A p \in Polls : poll[p].age \in Int
  BY DashboardAssumption DEF OrderInv, TypeOK, PollType
<1>o. /\ isLoading <=> Busy # {}
      /\ \A p, q \in Busy : p = q
      /\ overtaken = {}
  BY DEF OrderInv, OneRefresh
<1>1. CASE AutoRefresh /\ ~ isLoading
  <2> DEFINE f == CHOOSE q \in Polls : poll[q].at = "idle"
  <2>1. f \in Polls
    BY <1>o, <1>1, FreePoll
  <2> HIDE DEF f
  <2>2. /\ poll' = [poll EXCEPT ![f] = [Idle EXCEPT !.at = "asked"]]
        /\ isLoading' = TRUE /\ overtaken' = overtaken \ {f}
    BY <1>1 DEF AutoRefresh, StartRefresh, f
  <2>3. Busy' = {f}
    BY <2>1, <2>2, <1>p, <1>o, <1>1 DEF Busy, Idle
  <2> QED
    BY <2>2, <2>3, <1>o DEF OneRefresh
<1>2. CASE \E p \in Polls : Sample(p)
  <2> PICK p \in Polls : Sample(p)
    BY <1>2
  <2>1. Busy' = Busy
    BY <1>p DEF Sample, Busy, PollType
  <2> QED
    BY <2>1, <1>o DEF Sample, OneRefresh, pageVars, markVars
<1>3. CASE \E p \in Polls : ShowModules(p)
  <2> PICK p \in Polls : ShowModules(p)
    BY <1>3
  <2>1. Busy' = Busy
    BY <1>p DEF ShowModules, Busy, Idle, PollType
  \* Nobody else is asking, and a refresh is not older than itself.
  <2>2. {q \in Polls : Asking(q) /\ poll[q].age > poll[p].age} = {}
    <3>1. SUFFICES ASSUME NEW q \in Polls, Asking(q), poll[q].age > poll[p].age
                   PROVE  FALSE
      OBVIOUS
    <3>2. q \in Busy /\ p \in Busy
      BY <3>1 DEF ShowModules, Asking, Busy
    <3> QED
      BY <3>1, <3>2, <1>o, <1>p
  <2> QED
    BY <2>1, <2>2, <1>o DEF ShowModules, OneRefresh
<1>4. CASE \E p \in Polls : TopicsDone(p) \/ \E ptp \in BOOLEAN : KeepModules(p, ptp)
  <2> PICK p \in Polls : TopicsDone(p) \/ \E ptp \in BOOLEAN : KeepModules(p, ptp)
    BY <1>4
  <2>1. p \in Busy /\ poll' = [poll EXCEPT ![p] = Idle] /\ isLoading' = FALSE
        /\ overtaken' = overtaken
    BY DEF TopicsDone, KeepModules, Asking, Busy, markVars
  <2>2. Busy' = {}
    BY <2>1, <1>o, <1>p DEF Busy, Idle
  <2> QED
    BY <2>1, <2>2, <1>o DEF OneRefresh
<1>5. CASE Tick
  <2>1. Busy' = Busy
    BY <1>5, <1>p DEF Tick, Busy, PollType
  <2> QED
    BY <1>5, <2>1, <1>o DEF Tick, OneRefresh, markVars
<1>6. CASE UNCHANGED <<poll, isLoading, overtaken>>
  BY <1>6, <1>o DEF OneRefresh, Busy
<1> QED
  BY <1>1, <1>2, <1>3, <1>4, <1>5, <1>6
  DEF Next, Refresh, vars, pageVars, markVars, AutoRefresh, Toggle, Operate, ToggleDone,
      ToggleFailed, Arrive, Flip

\* The page is loading just when the one refresh there is has not ended: the core of
\* EveryWaitEnds, that a wait which ended did end by its refresh.
THEOREM OneAtATime == Spec => []OrderInv
<1>1. Init => OrderInv
  BY InitInv DEF Init, Inv, OrderInv, OneRefresh, Busy, Idle
<1> QED
  BY <1>1, OrderStep, PTL DEF Spec

\* A list of modules that is shown was asked for after the one it replaces.
THEOREM ShownInOrder == Spec => SnapshotsInOrder
<1>1. OrderInv /\ [Next]_vars => [\A p \in Polls : ShowModules(p) => p \notin overtaken]_vars
  BY DEF OrderInv
<1> QED
  BY OneAtATime, <1>1, PTL DEF Spec, SnapshotsInOrder
=============================================================================
