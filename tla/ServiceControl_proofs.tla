------------------------ MODULE ServiceControl_proofs ------------------------
(***************************************************************************)
(* Proofs about ServiceControl: for every configuration, any number of     *)
(* concurrent requests and any units, timers and names.                    *)
(***************************************************************************)
EXTENDS ServiceRequests, TLAPS

\* A command keeps its unit and verb, and its outcome once it has one.
Keeps(r) ==
  \/ command'[r] = command[r]
  \/ /\ command[r].outcome = "running"
     /\ command'[r] = [command[r] EXCEPT !.outcome = command'[r].outcome]

\* The last command of a request is for the primary unit, with its verb.
OnPrimary(r) ==
  Known(r) /\ command[r].unit = Primary(r) /\ command[r].verb = order[r].verb

\* What a request has commanded at each point of its handler.
CommandInv(r) ==
  /\ pc[r] \in {"idle", "lookup", "secondary"} => command[r] = NoCommand
  /\ pc[r] \in {"secondary", "stopping", "primary", "managing"} =>
       Known(r) /\ order[r].verb # "get"
  /\ pc[r] = "managing" => OnPrimary(r)
  /\ pc[r] \in {"status", "enabled"} =>
       /\ Known(r)
       /\ order[r].verb # "get" => OnPrimary(r) /\ command[r].outcome = "done"
       /\ order[r].verb = "get" => command[r] = NoCommand
  /\ command[r] # NoCommand => Allowed(command[r].unit)

\* What its answer says of that.
AnswerInv(r) ==
  /\ pc[r] # "replied" => reply[r] = "none"
  /\ reply[r] = "refused" => command[r] = NoCommand
  /\ reply[r] \in {"failed", "ok"} /\ order[r].verb # "get" => OnPrimary(r)
  /\ reply[r] = "ok" /\ order[r].verb # "get" => command[r].outcome = "done"
  /\ (reply[r] # "none") <=> (pc[r] = "replied")
  /\ reply[r] # "none" => command[r].outcome # "running"

IInv == TypeOK /\ \A r \in Requests : CommandInv(r) /\ AnswerInv(r)

Jobs == {"none", "start", "stop", "restart"}
Outcomes == {"none", "running", "done", "failed"}
Commands == [unit : Units \cup {NoUnit}, verb : Verbs \cup {"none"}, outcome : Outcomes]
Reports == [state : States \cup {"none"}, enabled : BOOLEAN]
CommandType == command \in [Requests -> Commands]
SystemdType == unit \in [Units -> States] /\ enabled \in SUBSET Units /\ job \in [Units -> Jobs]

\* A systemctl command is the caller's new command, and other requests keep
\* theirs, but for the outcome of one that is cancelled.
LEMMA SystemctlEffect ==
  ASSUME TypeOK, NEW r \in Requests, NEW u \in Units, NEW verb \in Verbs \ {"get"},
         Systemctl(r, u, verb)
  PROVE  /\ CommandType' /\ SystemdType'
         /\ command'[r].unit = u /\ command'[r].verb = verb
         /\ \A q \in Requests \ {r} : Keeps(q)
<1> DEFINE told(outcome) == [unit |-> u, verb |-> verb, outcome |-> outcome]
<1> USE DEF Commands, Outcomes
<1>0. \A outcome \in Outcomes :
        told(outcome) \in Commands /\ told(outcome).unit = u /\ told(outcome).verb = verb
  BY DEF Verbs
<1>1. CASE command' = [command EXCEPT ![r] = told("failed")] /\ UNCHANGED systemdVars
  BY <1>1, <1>0 DEF TypeOK, CommandType, SystemdType, systemdVars, Keeps, Jobs
<1>2. CASE /\ command' = [command EXCEPT ![r] = told("done")]
           /\ enabled' = IF verb = "enable" THEN enabled \cup {u} ELSE enabled \ {u}
           /\ UNCHANGED <<unit, job>>
  BY <1>2, <1>0 DEF TypeOK, CommandType, SystemdType, Keeps, Jobs
<1>3. CASE /\ verb \in {"start", "stop", "restart"}
           /\ command' = [q \in Requests |->
                IF q = r THEN told("running")
                ELSE IF Waits(q, u) /\ Contradicts(command[q].verb, verb)
                THEN [command[q] EXCEPT !.outcome = "failed"] ELSE command[q]]
           /\ job' = [job EXCEPT ![u] = verb]
           /\ unit' = [unit EXCEPT ![u] =
                IF verb = "stop" THEN IF @ \in Alive THEN "deactivating" ELSE @
                ELSE IF @ = "active" /\ verb = "start" THEN @ ELSE "activating"]
           /\ UNCHANGED enabled
  <2>1. CommandType'
    BY <1>3, <1>0 DEF TypeOK, CommandType
  <2>2. SystemdType'
    BY <1>3 DEF TypeOK, SystemdType, States, Jobs, Alive
  <2>3. command'[r].unit = u /\ command'[r].verb = verb
    BY <1>3, <1>0
  <2>4. ASSUME NEW q \in Requests \ {r} PROVE Keeps(q)
    BY <1>3 DEF TypeOK, Keeps, Waits
  <2> QED
    BY <2>1, <2>2, <2>3, <2>4
<1> QED
  BY <1>1, <1>2, <1>3 DEF Systemctl

\* The end of a job changes no more than outcomes of commands that wait for it.
LEMMA FinishEffect ==
  ASSUME TypeOK, NEW u \in Units, NEW state \in States,
         NEW outcome \in {"done", "failed"}, Finish(u, state, outcome)
  PROVE  CommandType' /\ SystemdType' /\ \A q \in Requests : Keeps(q)
<1>1. CommandType'
  BY DEF Finish, TypeOK, CommandType, Commands, Outcomes
<1>2. SystemdType'
  BY DEF Finish, TypeOK, SystemdType, Jobs
<1>3. ASSUME NEW q \in Requests PROVE Keeps(q)
  BY DEF Finish, TypeOK, Keeps, Waits
<1> QED
  BY <1>1, <1>2, <1>3

\* What a request has commanded stays true when only outcomes change.
LEMMA KeepsInv ==
  ASSUME TypeOK, NEW r \in Requests, Keeps(r), CommandInv(r), AnswerInv(r),
         pc'[r] = pc[r], order'[r] = order[r], reply'[r] = reply[r]
  PROVE  CommandInv(r)' /\ AnswerInv(r)'
<1>1. /\ command'[r].unit = command[r].unit /\ command'[r].verb = command[r].verb
      /\ command[r].outcome # "running" => command'[r] = command[r]
  BY DEF Keeps, TypeOK
<1>2. command[r] = NoCommand => command'[r] = NoCommand
  BY <1>1 DEF NoCommand
<1>3. Allowed(command[r].unit) = Allowed(command'[r].unit)
  BY <1>1
<1>4. (OnPrimary(r) <=> OnPrimary(r)') /\ (Known(r) <=> Known(r)')
  BY <1>1 DEF OnPrimary, Known, Primary
<1>5. CommandInv(r)'
  BY <1>1, <1>2, <1>3, <1>4 DEF CommandInv, Allowed
<1>6. AnswerInv(r)'
  BY <1>1, <1>2, <1>4 DEF AnswerInv
<1> QED
  BY <1>5, <1>6

\* At the start nothing has been commanded.
THEOREM InitInv == Init => IInv
<1> SUFFICES ASSUME Init PROVE IInv
  OBVIOUS
<1>1. (CHOOSE n \in Names : TRUE) \in Names
  BY MappingAssumption
<1>2. unit \in [Units -> States]
  BY DEF Init, States
<1>3. TypeOK
  BY <1>1, <1>2, MappingAssumption DEF Init, TypeOK, Verbs, NoCommand, NoReport
<1>4. ASSUME NEW r \in Requests PROVE CommandInv(r) /\ AnswerInv(r)
  BY DEF Init, CommandInv, AnswerInv, NoCommand
<1> QED
  BY <1>3, <1>4 DEF IInv

\* A step of one request's handler that leaves systemd alone.
LEMMA QuietStep ==
  ASSUME IInv, NEW r \in Requests, UNCHANGED <<command, systemdVars>>,
         TypeOK',
         \A q \in Requests \ {r} :
           pc'[q] = pc[q] /\ order'[q] = order[q] /\ reply'[q] = reply[q],
         CommandInv(r)', AnswerInv(r)'
  PROVE  IInv'
<1>1. ASSUME NEW q \in Requests \ {r} PROVE CommandInv(q)' /\ AnswerInv(q)'
  BY <1>1, KeepsInv DEF IInv, Keeps
<1> QED
  BY <1>1 DEF IInv

\* A step that runs systemctl.
LEMMA CommandStep ==
  ASSUME IInv, NEW r \in Requests, NEW u \in Units, NEW verb \in Verbs \ {"get"},
         NEW stage \in {"stopping", "managing"},
         Systemctl(r, u, verb), Allowed(u), pc' = [pc EXCEPT ![r] = stage],
         pc[r] \in {"secondary", "primary"},
         UNCHANGED <<order, report, reply>>, Known(r), order[r].verb # "get",
         stage = "managing" => Known(r) /\ u = Primary(r) /\ verb = order[r].verb
  PROVE  IInv'
<1>1. /\ CommandType' /\ SystemdType'
      /\ command'[r].unit = u /\ command'[r].verb = verb
      /\ \A q \in Requests \ {r} : Keeps(q)
  BY SystemctlEffect DEF IInv
<1>2. TypeOK'
  BY <1>1 DEF IInv, TypeOK, CommandType, SystemdType, Commands, Outcomes, Jobs
<1>3. ASSUME NEW q \in Requests \ {r} PROVE CommandInv(q)' /\ AnswerInv(q)'
  <2>1. pc'[q] = pc[q]
    BY DEF IInv, TypeOK
  <2> QED
    BY <1>1, <2>1, KeepsInv DEF IInv
<1>4. pc'[r] = stage
  BY DEF IInv, TypeOK
<1>5. CommandInv(r)'
  <2>1. Allowed(command'[r].unit)
    BY <1>1
  <2>2. stage = "managing" => OnPrimary(r)'
    BY <1>1 DEF OnPrimary, Known, Primary
  <2>3. Known(r)' /\ order'[r].verb # "get"
    BY DEF Known
  <2> QED
    BY <1>4, <2>1, <2>2, <2>3 DEF CommandInv, Allowed
<1>6. AnswerInv(r)'
  BY <1>4 DEF IInv, AnswerInv
<1> QED
  BY <1>2, <1>3, <1>5, <1>6 DEF IInv

\* Every step keeps the invariant.
THEOREM StepInv == IInv /\ [Next]_vars => IInv'
<1> SUFFICES ASSUME IInv, [Next]_vars PROVE IInv'
  OBVIOUS
<1>a. \A r \in Requests : CommandInv(r) /\ AnswerInv(r)
  BY DEF IInv
<1>0. ASSUME UNCHANGED vars PROVE IInv'
  BY <1>0 DEF IInv, vars, TypeOK, CommandInv, AnswerInv, OnPrimary, Known, Primary, Allowed
<1>1. ASSUME NEW r \in Requests, NEW verb \in Verbs, NEW name \in Names, Arrive(r, verb, name) PROVE IInv'
  <2>1. CommandInv(r) /\ AnswerInv(r)
    BY <1>a
  <2>2. TypeOK'
    BY <1>1 DEF IInv, TypeOK, Arrive, Answer, systemdVars, States, Verbs
  <2>3. CommandInv(r)'
    BY <1>1, <2>1 DEF IInv, TypeOK, CommandInv, OnPrimary, Known, Primary, Allowed, Arrive, Answer
  <2>4. AnswerInv(r)'
    BY <1>1, <2>1 DEF IInv, TypeOK, CommandInv, AnswerInv, OnPrimary, Known, Primary, NoCommand, Arrive, Answer
  <2>5. /\ UNCHANGED <<command, systemdVars>>
        /\ \A q \in Requests \ {r} :
             pc'[q] = pc[q] /\ order'[q] = order[q] /\ reply'[q] = reply[q]
    BY <1>1 DEF IInv, TypeOK, Arrive, Answer
  <2> QED
    BY <2>2, <2>3, <2>4, <2>5, QuietStep
<1>2. ASSUME NEW r \in Requests, Unknown(r) PROVE IInv'
  <2>1. CommandInv(r) /\ AnswerInv(r)
    BY <1>a
  <2>2. TypeOK'
    BY <1>2 DEF IInv, TypeOK, Unknown, Answer, systemdVars, States, Verbs
  <2>3. CommandInv(r)'
    BY <1>2, <2>1 DEF IInv, TypeOK, CommandInv, OnPrimary, Known, Primary, Allowed, Unknown, Answer
  <2>4. AnswerInv(r)'
    BY <1>2, <2>1 DEF IInv, TypeOK, CommandInv, AnswerInv, OnPrimary, Known, Primary, NoCommand, Unknown, Answer
  <2>5. /\ UNCHANGED <<command, systemdVars>>
        /\ \A q \in Requests \ {r} :
             pc'[q] = pc[q] /\ order'[q] = order[q] /\ reply'[q] = reply[q]
    BY <1>2 DEF IInv, TypeOK, Unknown, Answer
  <2> QED
    BY <2>2, <2>3, <2>4, <2>5, QuietStep
<1>3. ASSUME NEW r \in Requests, Lookup(r) PROVE IInv'
  <2>1. CommandInv(r) /\ AnswerInv(r)
    BY <1>a
  <2>2. TypeOK'
    BY <1>3 DEF IInv, TypeOK, Lookup, Answer, systemdVars, States, Verbs
  <2>3. CommandInv(r)'
    BY <1>3, <2>1 DEF IInv, TypeOK, CommandInv, OnPrimary, Known, Primary, Allowed, Lookup, Answer
  <2>4. AnswerInv(r)'
    BY <1>3, <2>1 DEF IInv, TypeOK, CommandInv, AnswerInv, OnPrimary, Known, Primary, NoCommand, Lookup, Answer
  <2>5. /\ UNCHANGED <<command, systemdVars>>
        /\ \A q \in Requests \ {r} :
             pc'[q] = pc[q] /\ order'[q] = order[q] /\ reply'[q] = reply[q]
    BY <1>3 DEF IInv, TypeOK, Lookup, Answer
  <2> QED
    BY <2>2, <2>3, <2>4, <2>5, QuietStep
<1>4. ASSUME NEW r \in Requests, SecondaryNotAllowed(r) PROVE IInv'
  <2>1. CommandInv(r) /\ AnswerInv(r)
    BY <1>a
  <2>2. TypeOK'
    BY <1>4 DEF IInv, TypeOK, SecondaryNotAllowed, Answer, systemdVars, States, Verbs
  <2>3. CommandInv(r)'
    BY <1>4, <2>1 DEF IInv, TypeOK, CommandInv, OnPrimary, Known, Primary, Allowed, SecondaryNotAllowed, Answer
  <2>4. AnswerInv(r)'
    BY <1>4, <2>1 DEF IInv, TypeOK, CommandInv, AnswerInv, OnPrimary, Known, Primary, NoCommand, SecondaryNotAllowed, Answer
  <2>5. /\ UNCHANGED <<command, systemdVars>>
        /\ \A q \in Requests \ {r} :
             pc'[q] = pc[q] /\ order'[q] = order[q] /\ reply'[q] = reply[q]
    BY <1>4 DEF IInv, TypeOK, SecondaryNotAllowed, Answer
  <2> QED
    BY <2>2, <2>3, <2>4, <2>5, QuietStep
<1>5. ASSUME NEW r \in Requests, SecondaryStopped(r) PROVE IInv'
  <2>1. CommandInv(r) /\ AnswerInv(r)
    BY <1>a
  <2>2. TypeOK'
    BY <1>5 DEF IInv, TypeOK, SecondaryStopped, Answer, systemdVars, States, Verbs
  <2>3. CommandInv(r)'
    BY <1>5, <2>1 DEF IInv, TypeOK, CommandInv, OnPrimary, Known, Primary, Allowed, SecondaryStopped, Answer
  <2>4. AnswerInv(r)'
    BY <1>5, <2>1 DEF IInv, TypeOK, CommandInv, AnswerInv, OnPrimary, Known, Primary, NoCommand, SecondaryStopped, Answer
  <2>5. /\ UNCHANGED <<command, systemdVars>>
        /\ \A q \in Requests \ {r} :
             pc'[q] = pc[q] /\ order'[q] = order[q] /\ reply'[q] = reply[q]
    BY <1>5 DEF IInv, TypeOK, SecondaryStopped, Answer
  <2> QED
    BY <2>2, <2>3, <2>4, <2>5, QuietStep
<1>6. ASSUME NEW r \in Requests, ManageFailed(r) PROVE IInv'
  <2>1. CommandInv(r) /\ AnswerInv(r)
    BY <1>a
  <2>2. TypeOK'
    BY <1>6 DEF IInv, TypeOK, ManageFailed, Answer, systemdVars, States, Verbs
  <2>3. CommandInv(r)'
    BY <1>6, <2>1 DEF IInv, TypeOK, CommandInv, OnPrimary, Known, Primary, Allowed, ManageFailed, Answer
  <2>4. AnswerInv(r)'
    BY <1>6, <2>1 DEF IInv, TypeOK, CommandInv, AnswerInv, OnPrimary, Known, Primary, NoCommand, ManageFailed, Answer
  <2>5. /\ UNCHANGED <<command, systemdVars>>
        /\ \A q \in Requests \ {r} :
             pc'[q] = pc[q] /\ order'[q] = order[q] /\ reply'[q] = reply[q]
    BY <1>6 DEF IInv, TypeOK, ManageFailed, Answer
  <2> QED
    BY <2>2, <2>3, <2>4, <2>5, QuietStep
<1>7. ASSUME NEW r \in Requests, ManageSucceeded(r) PROVE IInv'
  <2>1. CommandInv(r) /\ AnswerInv(r)
    BY <1>a
  <2>2. TypeOK'
    BY <1>7 DEF IInv, TypeOK, ManageSucceeded, Answer, systemdVars, States, Verbs
  <2>3. CommandInv(r)'
    BY <1>7, <2>1 DEF IInv, TypeOK, CommandInv, OnPrimary, Known, Primary, Allowed, ManageSucceeded, Answer
  <2>4. AnswerInv(r)'
    BY <1>7, <2>1 DEF IInv, TypeOK, CommandInv, AnswerInv, OnPrimary, Known, Primary, NoCommand, ManageSucceeded, Answer
  <2>5. /\ UNCHANGED <<command, systemdVars>>
        /\ \A q \in Requests \ {r} :
             pc'[q] = pc[q] /\ order'[q] = order[q] /\ reply'[q] = reply[q]
    BY <1>7 DEF IInv, TypeOK, ManageSucceeded, Answer
  <2> QED
    BY <2>2, <2>3, <2>4, <2>5, QuietStep
<1>8. ASSUME NEW r \in Requests, ReadStatus(r) PROVE IInv'
  <2>1. CommandInv(r) /\ AnswerInv(r)
    BY <1>a
  <2>2. TypeOK'
    <3>1. Primary(r) \in Units
      BY <2>1, <1>8, MappingAssumption DEF CommandInv, ReadStatus, Known, Primary
    <3>2. \A x \in States :
            [report EXCEPT ![r].state = x] \in [Requests -> Reports]
      BY DEF IInv, TypeOK, Reports
    <3>3. unit[Primary(r)] \in States
      BY <3>1 DEF IInv, TypeOK
    <3>4. report' \in [Requests -> Reports]
      BY <3>2, <3>3, <1>8 DEF IInv, TypeOK, ReadStatus, Reports
    <3> QED
      BY <3>4, <1>8 DEF IInv, TypeOK, ReadStatus, Answer, systemdVars, Reports
  <2>3. CommandInv(r)'
    BY <1>8, <2>1 DEF IInv, TypeOK, CommandInv, OnPrimary, Known, Primary, Allowed, ReadStatus, Answer
  <2>4. AnswerInv(r)'
    BY <1>8, <2>1 DEF IInv, TypeOK, CommandInv, AnswerInv, OnPrimary, Known, Primary, NoCommand, ReadStatus, Answer
  <2>5. /\ UNCHANGED <<command, systemdVars>>
        /\ \A q \in Requests \ {r} :
             pc'[q] = pc[q] /\ order'[q] = order[q] /\ reply'[q] = reply[q]
    BY <1>8 DEF IInv, TypeOK, ReadStatus, Answer
  <2> QED
    BY <2>2, <2>3, <2>4, <2>5, QuietStep
<1>9. ASSUME NEW r \in Requests, ReadEnabled(r) PROVE IInv'
  <2>1. CommandInv(r) /\ AnswerInv(r)
    BY <1>a
  <2>2. TypeOK'
    <3>1. Primary(r) \in Units
      BY <2>1, <1>9, MappingAssumption DEF CommandInv, ReadEnabled, Known, Primary
    <3>2. \A x \in BOOLEAN :
            [report EXCEPT ![r].enabled = x] \in [Requests -> Reports]
      BY DEF IInv, TypeOK, Reports
    <3>3. PICK x \in BOOLEAN : report' = [report EXCEPT ![r].enabled = x]
      BY <1>9 DEF ReadEnabled
    <3>4. report' \in [Requests -> Reports]
      BY <3>2, <3>3
    <3> QED
      BY <3>4, <1>9 DEF IInv, TypeOK, ReadEnabled, Answer, systemdVars, Reports
  <2>3. CommandInv(r)'
    BY <1>9, <2>1 DEF IInv, TypeOK, CommandInv, OnPrimary, Known, Primary, Allowed, ReadEnabled, Answer
  <2>4. AnswerInv(r)'
    BY <1>9, <2>1 DEF IInv, TypeOK, CommandInv, AnswerInv, OnPrimary, Known, Primary, NoCommand, ReadEnabled, Answer
  <2>5. /\ UNCHANGED <<command, systemdVars>>
        /\ \A q \in Requests \ {r} :
             pc'[q] = pc[q] /\ order'[q] = order[q] /\ reply'[q] = reply[q]
    BY <1>9 DEF IInv, TypeOK, ReadEnabled, Answer
  <2> QED
    BY <2>2, <2>3, <2>4, <2>5, QuietStep
<1>10. ASSUME NEW r \in Requests, StopSecondary(r) PROVE IInv'
  <2>1. Known(r) /\ Secondary(r) \in Units /\ order[r].verb # "get"
    BY <1>a, <1>10, MappingAssumption DEF CommandInv, StopSecondary, Known, Allowed
  <2> QED
    BY <1>10, <2>1, CommandStep DEF StopSecondary, Verbs
<1>11. ASSUME NEW r \in Requests, ManageService(r) PROVE IInv'
  <2>1. Known(r) /\ Primary(r) \in Units /\ Allowed(Primary(r))
    BY <1>a, <1>11, MappingAssumption DEF CommandInv, ManageService, Known, Primary, Allowed
  <2>2. order[r].verb \in Verbs \ {"get"}
    BY <1>a, <1>11 DEF IInv, TypeOK, CommandInv, ManageService
  <2> QED
    BY <1>11, <2>1, <2>2, CommandStep DEF ManageService
<1>12. ASSUME NEW u \in Units, JobEnds(u) PROVE IInv'
  <2>1. PICK state \in States, outcome \in {"done", "failed"} : Finish(u, state, outcome)
    BY <1>12 DEF JobEnds, States
  <2>2. CommandType' /\ SystemdType' /\ \A q \in Requests : Keeps(q)
    BY <2>1, FinishEffect DEF IInv
  <2>3. UNCHANGED requestVars
    BY <2>1 DEF Finish
  <2>4. TypeOK'
    BY <2>2, <2>3 DEF IInv, TypeOK, requestVars, CommandType, SystemdType, Commands, Outcomes, Jobs
  <2> QED
    BY <1>a, <2>2, <2>3, <2>4, KeepsInv DEF IInv, requestVars
<1>13. ASSUME NEW p \in Triggers, TimerFires(p[1], p[2]) PROVE IInv'
  <2>1. TypeOK'
    BY <1>13 DEF IInv, TypeOK, TimerFires, requestVars, States
  <2>2. UNCHANGED <<requestVars, command>>
    BY <1>13 DEF TimerFires
  <2> QED
    BY <1>a, <2>1, <2>2, KeepsInv DEF IInv, requestVars, Keeps
<1> QED
  BY <1>0, <1>1, <1>2, <1>3, <1>4, <1>5, <1>6, <1>7, <1>8, <1>9, <1>10, <1>11, <1>12, <1>13 DEF Next, Serve

\* The inductive invariant, for every configuration and any requests.
THEOREM Invariance == Spec => []IInv
  BY InitInv, StepInv, PTL DEF Spec

\* Types of ServiceManagerService's requests and of the units.
THEOREM TypeCorrect == Spec => []TypeOK
<1>1. IInv => TypeOK
  BY DEF IInv
<1> QED
  BY <1>1, Invariance, PTL

\* No configuration lets a request command a unit outside the allowlist.
THEOREM AllowlistHolds == Spec => []OnlyAllowedUnits
<1>1. IInv => OnlyAllowedUnits
  BY DEF IInv, CommandInv, OnlyAllowedUnits
<1> QED
  BY <1>1, Invariance, PTL

\* Who is refused has commanded nothing; who is not has commanded the primary.
THEOREM AllOrNothing == Spec => []NothingHalfDone
<1>1. IInv => NothingHalfDone
  BY DEF IInv, AnswerInv, OnPrimary, NothingHalfDone
<1> QED
  BY <1>1, Invariance, PTL

\* An OK answer follows a command that systemd carried out.
THEOREM OkIsTrue == Spec => []OkMeansDone
<1>1. IInv => OkMeansDone
  BY DEF IInv, AnswerInv, OkMeansDone
<1> QED
  BY <1>1, Invariance, PTL

-----------------------------------------------------------------------------
(* What a stop reports *)

Untriggered(u) == \A p \in Triggers : p[2] # u

\* Nobody starts the unit: no timer, and no request that has come so far.
Unstarted(u) == Untriggered(u) /\ \A q \in Requests : ~ Starts(q, u)

\* Then systemd has no job to start it.
StartInv == \A u \in Units : Unstarted(u) => job[u] \in {"none", "stop"}

\* Once a stop of it is done it is down, and that is what is read and reported.
DownInv(r) ==
  order[r].verb = "stop" /\ Known(r) /\ Unstarted(Primary(r)) =>
    /\ pc[r] \in {"managing", "status"} /\ command[r].outcome = "done" =>
         unit[Primary(r)] \notin Alive
    /\ pc[r] = "enabled" \/ reply[r] = "ok" => report[r].state \notin Alive

StopInv == StartInv /\ \A r \in Requests : DownInv(r)

\* A handler that has begun keeps its order and goes on.
LEMMA HandlersGoOn ==
  ASSUME IInv, [Next]_vars, NEW q \in Requests, pc[q] # "idle"
  PROVE  order'[q] = order[q] /\ pc'[q] # "idle"
<1> USE DEF IInv, TypeOK
<1>1. CASE UNCHANGED vars
  BY <1>1 DEF vars
<1>2. ASSUME NEW r \in Requests, NEW verb \in Verbs, NEW name \in Names, Arrive(r, verb, name)
      PROVE  pc'[q] = pc[q] /\ order'[q] = order[q]
  BY <1>2 DEF Arrive
<1>3. ASSUME NEW r \in Requests, Serve(r)
      PROVE  order'[q] = order[q] /\ pc'[q] # "idle"
  <2>1. CASE Unknown(r) \/ SecondaryNotAllowed(r) \/ ManageFailed(r) \/ ReadEnabled(r)
    BY <2>1 DEF Unknown, SecondaryNotAllowed, ManageFailed, ReadEnabled, Answer
  <2>2. CASE Lookup(r)
    BY <2>2 DEF Lookup
  <2>3. CASE StopSecondary(r) \/ SecondaryStopped(r) \/ ManageService(r) \/ ManageSucceeded(r)
    BY <2>3 DEF StopSecondary, SecondaryStopped, ManageService, ManageSucceeded
  <2>4. CASE ReadStatus(r)
    BY <2>4 DEF ReadStatus, Answer
  <2> QED
    BY <1>3, <2>1, <2>2, <2>3, <2>4 DEF Serve
<1>4. CASE (\E u \in Units : JobEnds(u)) \/ (\E p \in Triggers : TimerFires(p[1], p[2]))
  BY <1>4 DEF JobEnds, Finish, TimerFires, requestVars
<1> QED
  BY <1>1, <1>2, <1>3, <1>4 DEF Next

\* A handler changes nothing of another request, but for the outcome of a
\* command that it cancels: nobody else's command is done by it.
LEMMA OthersKeep ==
  ASSUME IInv, NEW q \in Requests, Serve(q), NEW r \in Requests \ {q}
  PROVE  /\ UNCHANGED <<pc[r], reply[r], report[r]>>
         /\ command'[r].outcome = "done" => command[r].outcome = "done"
<1> USE DEF IInv, TypeOK
<1>1. CASE Unknown(q) \/ SecondaryNotAllowed(q) \/ ManageFailed(q) \/ ReadEnabled(q)
  BY <1>1 DEF Unknown, SecondaryNotAllowed, ManageFailed, ReadEnabled, Answer
<1>2. CASE Lookup(q) \/ SecondaryStopped(q) \/ ManageSucceeded(q)
  BY <1>2 DEF Lookup, SecondaryStopped, ManageSucceeded
<1>3. CASE ReadStatus(q)
  BY <1>3 DEF ReadStatus, Answer
<1>4. ASSUME NEW u, NEW verb, Systemctl(q, u, verb)
      PROVE  command'[r].outcome = "done" => command[r].outcome = "done"
  <2>1. CASE \E told : command' = [command EXCEPT ![q] = told]
    BY <2>1
  <2>2. CASE command' = [p \in Requests |->
               IF p = q THEN [unit |-> u, verb |-> verb, outcome |-> "running"]
               ELSE IF Waits(p, u) /\ Contradicts(command[p].verb, verb)
               THEN [command[p] EXCEPT !.outcome = "failed"] ELSE command[p]]
    <3>1. command'[r] \in {command[r], [command[r] EXCEPT !.outcome = "failed"]}
      BY <2>2
    <3> QED
      BY <3>1
  <2> QED
    BY <1>4, <2>1, <2>2 DEF Systemctl
<1>5. CASE StopSecondary(q) \/ ManageService(q)
  BY <1>4, <1>5 DEF StopSecondary, ManageService
<1> QED
  BY <1>1, <1>2, <1>3, <1>5 DEF Serve

\* Who has come to start a unit stays, so that a unit nobody starts now was
\* started by nobody before.
LEMMA UnstartedBefore ==
  ASSUME IInv, [Next]_vars, NEW u \in Units, Unstarted(u)'
  PROVE  Unstarted(u)
<1> SUFFICES ASSUME NEW q \in Requests, Starts(q, u) PROVE FALSE
  BY DEF Unstarted, Untriggered
<1>1. order'[q] = order[q] /\ pc'[q] # "idle"
  BY HandlersGoOn DEF Starts
<1>2. Starts(q, u)'
  BY <1>1 DEF Starts, Known, Primary
<1> QED
  BY <1>2 DEF Unstarted

\* A request's step gives no job to a unit nobody starts but one that stops it,
\* and does not raise it.
LEMMA ServeSparesUnstarted ==
  ASSUME IInv, NEW q \in Requests, Serve(q), NEW u \in Units, Unstarted(u)
  PROVE  /\ job'[u] = job[u] \/ job'[u] = "stop"
         /\ unit[u] \notin Alive => unit'[u] \notin Alive
<1> USE DEF IInv, TypeOK
<1>1. ASSUME NEW w \in Units, NEW verb \in Verbs, Systemctl(q, w, verb),
             w = u => verb \notin {"start", "restart"}
      PROVE  /\ job'[u] = job[u] \/ job'[u] = "stop"
             /\ unit[u] \notin Alive => unit'[u] \notin Alive
  <2>1. CASE UNCHANGED <<unit, job>>
    BY <2>1
  <2>2. CASE w # u /\ ~ UNCHANGED <<unit, job>>
    BY <1>1, <2>2 DEF Systemctl, systemdVars
  <2>3. CASE w = u /\ ~ UNCHANGED <<unit, job>>
    <3>1. verb = "stop"
      BY <1>1, <2>3 DEF Systemctl, systemdVars
    <3> QED
      BY <1>1, <2>3, <3>1 DEF Systemctl, systemdVars
  <2> QED
    BY <2>1, <2>2, <2>3
<1>2. CASE StopSecondary(q)
  <2>1. Secondary(q) \in Units
    BY <1>2, MappingAssumption DEF StopSecondary, Allowed
  <2> QED
    BY <1>1, <1>2, <2>1 DEF StopSecondary, Verbs
<1>3. CASE ManageService(q)
  <2>1. Known(q) /\ pc[q] # "idle" /\ Primary(q) \in Units /\ order[q].verb \in Verbs
    BY <1>3, MappingAssumption DEF ManageService, Primary, Known, CommandInv
  <2>2. Primary(q) = u => order[q].verb \notin {"start", "restart"}
    BY <2>1 DEF Unstarted, Starts
  <2> QED
    BY <1>1, <1>3, <2>1, <2>2 DEF ManageService
<1>4. CASE UNCHANGED systemdVars
  BY <1>4 DEF systemdVars
<1> QED
  BY <1>2, <1>3, <1>4 DEF Serve, Unknown, Lookup, SecondaryNotAllowed, SecondaryStopped,
     ManageFailed, ManageSucceeded, ReadStatus, ReadEnabled

\* The same of systemd's own steps, and the end of a job leaves the unit down.
LEMMA SystemdSparesUnstarted ==
  ASSUME IInv, StartInv, NEW u \in Units, Unstarted(u),
         (\E w \in Units : JobEnds(w)) \/ (\E p \in Triggers : TimerFires(p[1], p[2]))
  PROVE  /\ job'[u] = job[u] \/ job'[u] = "none"
         /\ unit[u] \notin Alive => unit'[u] \notin Alive
<1> USE DEF IInv, TypeOK
<1>1. ASSUME NEW w \in Units, JobEnds(w)
      PROVE  /\ job'[u] = job[u] \/ job'[u] = "none"
             /\ unit[u] \notin Alive => unit'[u] \notin Alive
  <2>1. CASE w = u
    BY <1>1, <2>1 DEF JobEnds, Finish, StartInv, Alive
  <2>2. CASE w # u
    BY <1>1, <2>2 DEF JobEnds, Finish
  <2> QED
    BY <2>1, <2>2
<1>2. ASSUME NEW p \in Triggers, TimerFires(p[1], p[2])
      PROVE  UNCHANGED <<job[u], unit[u]>>
  BY <1>2 DEF TimerFires, Unstarted, Untriggered
<1> QED
  BY <1>1, <1>2

\* A unit that nobody starts keeps having no job to start it.
LEMMA StartStep == IInv /\ StartInv /\ [Next]_vars => StartInv'
<1> SUFFICES ASSUME IInv, StartInv, [Next]_vars, NEW u \in Units, Unstarted(u)'
             PROVE  job'[u] \in {"none", "stop"}
  BY DEF StartInv
<1>1. Unstarted(u) /\ job[u] \in {"none", "stop"}
  BY UnstartedBefore DEF StartInv
<1>2. CASE UNCHANGED job
  BY <1>1, <1>2
<1>3. ASSUME NEW q \in Requests, Serve(q) PROVE job'[u] \in {"none", "stop"}
  BY <1>1, <1>3, ServeSparesUnstarted
<1>4. CASE (\E w \in Units : JobEnds(w)) \/ (\E p \in Triggers : TimerFires(p[1], p[2]))
  BY <1>1, <1>4, SystemdSparesUnstarted
<1> QED
  BY <1>2, <1>3, <1>4 DEF Next, vars, Arrive, systemdVars

\* A stop of a unit nobody starts brings it down, and nothing raises it before
\* it is read, whatever other requests do.
LEMMA DownStep ==
  ASSUME IInv, StopInv, [Next]_vars, NEW r \in Requests
  PROVE  DownInv(r)'
<1> DEFINE u == Primary(r)
           Down == /\ pc[r] \in {"managing", "status"} /\ command[r].outcome = "done" =>
                        unit[u] \notin Alive
                   /\ pc[r] = "enabled" \/ reply[r] = "ok" => report[r].state \notin Alive
<1> SUFFICES ASSUME order'[r].verb = "stop", Known(r)', Unstarted(u)' PROVE Down'
  BY DEF DownInv, Alive
<1> USE DEF IInv, TypeOK
<1>b. CommandInv(r) /\ AnswerInv(r) /\ AnswerInv(r)'
  BY StepInv
<1>1. CASE pc[r] = "idle"
  <2>1. pc'[r] \in {"idle", "lookup"}
    BY <1>1 DEF Next, vars, Arrive, Serve, Unknown, Lookup, SecondaryNotAllowed, StopSecondary,
       SecondaryStopped, ManageService, ManageFailed, ManageSucceeded, ReadStatus, ReadEnabled,
       Answer, JobEnds, Finish, TimerFires, requestVars
  <2> QED
    BY <1>b, <2>1 DEF AnswerInv
<1>2. CASE pc[r] # "idle"
  <2>1. order'[r] = order[r]
    BY <1>2, HandlersGoOn
  <2>2. order[r].verb = "stop" /\ Known(r) /\ u' = u /\ u \in Units
    BY <2>1, MappingAssumption DEF Known, Primary
  <2>3. Unstarted(u)
    <3> HIDE DEF u
    <3> QED
      BY <2>2, UnstartedBefore
  <2>4. Down /\ job[u] \in {"none", "stop"}
    BY <2>2, <2>3 DEF StopInv, DownInv, StartInv
  <2> HIDE DEF u
  <2>5. CASE UNCHANGED vars
    BY <2>2, <2>4, <2>5 DEF vars
  <2>6. ASSUME NEW q \in Requests, NEW verb \in Verbs, NEW name \in Names, Arrive(q, verb, name)
        PROVE  Down'
    BY <1>2, <2>2, <2>4, <2>6 DEF Arrive, systemdVars
  <2>7. ASSUME NEW q \in Requests \ {r}, Serve(q) PROVE Down'
    <3>1. /\ UNCHANGED <<pc[r], reply[r], report[r]>>
          /\ command'[r].outcome = "done" => command[r].outcome = "done"
      BY <2>7, OthersKeep
    <3>2. unit[u] \notin Alive => unit'[u] \notin Alive
      BY <2>2, <2>3, <2>7, ServeSparesUnstarted
    <3> QED
      BY <2>2, <2>4, <3>1, <3>2
  <2>8. CASE Serve(r)
    <3>1. CASE Unknown(r) \/ SecondaryNotAllowed(r) \/ ManageFailed(r)
      BY <3>1 DEF Unknown, SecondaryNotAllowed, ManageFailed, Answer
    <3>2. CASE Lookup(r) \/ StopSecondary(r) \/ SecondaryStopped(r)
      BY <1>b, <2>2, <3>2 DEF Lookup, StopSecondary, SecondaryStopped, AnswerInv
    <3>3. CASE ManageService(r)
      <4>1. command'[r].outcome \in {"failed", "running"} /\ pc'[r] = "managing"
        BY <2>2, <3>3 DEF ManageService, Systemctl
      <4> QED
        BY <1>b, <4>1 DEF AnswerInv
    <3>4. CASE ManageSucceeded(r)
      <4>1. UNCHANGED <<unit, command>> /\ pc'[r] = "status" /\ pc[r] = "managing"
        BY <3>4 DEF ManageSucceeded, systemdVars
      <4>2. unit[u] \notin Alive
        BY <2>4, <3>4 DEF ManageSucceeded
      <4> QED
        BY <1>b, <2>2, <4>1, <4>2 DEF AnswerInv
    <3>5. CASE ReadStatus(r)
      <4>1. unit[u] \notin Alive
        BY <1>b, <2>2, <2>4, <3>5 DEF ReadStatus, CommandInv
      <4>2. CASE Answer(r, "failed")
        BY <4>2 DEF Answer
      <4>3. CASE report' = [report EXCEPT ![r].state = unit[Primary(r)]]
                 /\ pc' = [pc EXCEPT ![r] = "enabled"]
        <5>1. report'[r].state = unit[u] /\ pc'[r] = "enabled"
          BY <4>3 DEF u
        <5> QED
          BY <4>1, <5>1
      <4> QED
        BY <3>5, <4>2, <4>3 DEF ReadStatus
    <3>6. CASE ReadEnabled(r)
      <4>1. report'[r].state = report[r].state /\ pc'[r] = "replied" /\ pc[r] = "enabled"
        BY <3>6 DEF ReadEnabled, Answer
      <4> QED
        BY <2>4, <4>1
    <3> QED
      BY <2>8, <3>1, <3>2, <3>3, <3>4, <3>5, <3>6 DEF Serve
  <2>9. ASSUME NEW w \in Units, JobEnds(w) PROVE Down'
    <3>1. UNCHANGED <<pc, reply, report>>
      BY <2>9 DEF JobEnds, Finish, requestVars
    <3>2. CASE w = u
      <4>1. unit'[u] \in {"inactive", "failed"}
        BY <2>2, <2>4, <2>9, <3>2 DEF JobEnds, Finish
      <4> QED
        BY <2>2, <2>4, <3>1, <4>1 DEF Alive
    <3>3. CASE w # u
      <4>1. unit'[u] = unit[u]
        BY <2>2, <2>9, <3>3 DEF JobEnds, Finish
      <4>2. ASSUME pc[r] \in {"managing", "status"} PROVE command'[r] = command[r]
        <5>1. command[r].unit = u
          BY <1>b, <2>2, <4>2 DEF CommandInv, OnPrimary, u
        <5> QED
          BY <2>9, <3>3, <5>1 DEF JobEnds, Finish, Waits
      <4> QED
        BY <2>2, <2>4, <3>1, <4>1, <4>2
    <3> QED
      BY <3>2, <3>3
  <2>10. ASSUME NEW p \in Triggers, TimerFires(p[1], p[2]) PROVE Down'
    <3>1. unit[u] \notin Alive => unit'[u] \notin Alive
      BY <2>2, <2>3, <2>10, SystemdSparesUnstarted DEF StopInv
    <3> QED
      BY <2>2, <2>4, <2>10, <3>1 DEF TimerFires, requestVars
  <2> QED
    BY <2>5, <2>6, <2>7, <2>8, <2>9, <2>10 DEF Next
<1> QED
  BY <1>1, <1>2

\* Nobody is asked for anything before the first request.
LEMMA StopInit == Init => StopInv
<1> SUFFICES ASSUME Init PROVE StopInv
  OBVIOUS
<1>1. StartInv
  BY DEF Init, StartInv
<1>2. ASSUME NEW r \in Requests PROVE order[r].verb = "get"
  BY DEF Init
<1> QED
  BY <1>1, <1>2 DEF StopInv, DownInv

\* A stop that succeeds is answered with a unit that is down, unless a timer or
\* another request starts that very unit: however many requests there are, and
\* whatever else they do to it and to other units.
THEOREM StopsAreTold == Spec => []StopReportsStopped
<1>1. IInv /\ StopInv /\ [Next]_vars => StopInv'
  BY StartStep, DownStep DEF StopInv
<1>2. IInv /\ StopInv => StopReportsStopped
  <2> SUFFICES ASSUME IInv, StopInv, NEW r \in Requests,
                      reply[r] = "ok", order[r].verb = "stop",
                      \A q \in Requests \ {r} : ~ Starts(q, Primary(r)),
                      \A p \in Triggers : p[2] # Primary(r)
               PROVE  report[r].state \notin Alive
    BY DEF StopReportsStopped
  <2>1. Known(r)
    BY DEF IInv, AnswerInv, OnPrimary
  <2>2. Unstarted(Primary(r))
    BY DEF Unstarted, Untriggered, Starts
  <2> QED
    BY <2>1, <2>2 DEF StopInv, DownInv
<1> QED
  BY <1>1, <1>2, StopInit, Invariance, PTL DEF Spec

-----------------------------------------------------------------------------
(* The requests and their callers *)

\* What of a request its call, and what its caller knows, go back to.
CallInv(r) ==
  /\ stub[r] \in {"none", "refused"} => wire[r] = NoCall
  /\ wire[r] = NoCall => pc[r] = "idle"
  /\ pc[r] # "idle" => order[r] = wire[r]
  /\ stub[r] \in {"ok", "error"} => pc[r] = "replied"
  /\ stub[r] = "ok" => reply[r] = "ok"

CallsInv == RequestsTypeOK /\ \A r \in Requests : CallInv(r)

\* A step of the requests is a step of ServiceControl, or leaves it alone.
LEMMA ControlStep == [RequestsNext]_requestsVars /\ RequestsTypeOK => [Next]_vars
<1> SUFFICES ASSUME [RequestsNext]_requestsVars, RequestsTypeOK PROVE [Next]_vars
  OBVIOUS
<1>1. CASE UNCHANGED requestsVars
  BY <1>1 DEF requestsVars
<1>2. ASSUME NEW r \in Requests, Caller(r) PROVE UNCHANGED vars
  BY <1>2 DEF Caller, Route, RestartSensors, Command, Invoke, Refused, Unreachable,
              GiveUp, Answered
<1>3. ASSUME NEW r \in Requests, Dispatch(r) PROVE Next
  <2>1. wire[r].verb \in Verbs /\ wire[r].name \in Names
    BY <1>3 DEF Dispatch, RequestsTypeOK, Message
  <2> QED
    BY <1>3, <2>1 DEF Dispatch, Next
<1>4. ASSUME NEW r \in Requests, Serve(r) PROVE Next
  BY <1>4 DEF Next
<1>5. ASSUME NEW u \in Units, JobEnds(u) PROVE Next
  BY <1>5 DEF Next
<1>6. ASSUME NEW p \in Triggers, TimerFires(p[1], p[2]) PROVE Next
  BY <1>6 DEF Next
<1> QED
  BY <1>1, <1>2, <1>3, <1>4, <1>5, <1>6 DEF RequestsNext

\* A handler that serves a request neither starts nor forgets one.
LEMMA ServeEffect ==
  ASSUME IInv, NEW r \in Requests, Serve(r)
  PROVE  /\ pc[r] \notin {"idle", "replied"} /\ pc'[r] # "idle" /\ UNCHANGED order
         /\ \A q \in Requests \ {r} : pc'[q] = pc[q] /\ reply'[q] = reply[q]
<1> USE DEF IInv, TypeOK
<1>1. CASE Unknown(r)
  BY <1>1 DEF Unknown, Answer
<1>2. CASE Lookup(r)
  BY <1>2 DEF Lookup
<1>3. CASE SecondaryNotAllowed(r)
  BY <1>3 DEF SecondaryNotAllowed, Answer
<1>4. CASE StopSecondary(r)
  BY <1>4 DEF StopSecondary
<1>5. CASE SecondaryStopped(r)
  BY <1>5 DEF SecondaryStopped
<1>6. CASE ManageService(r)
  BY <1>6 DEF ManageService
<1>7. CASE ManageFailed(r)
  BY <1>7 DEF ManageFailed, Answer
<1>8. CASE ManageSucceeded(r)
  BY <1>8 DEF ManageSucceeded
<1>9. CASE ReadStatus(r)
  BY <1>9 DEF ReadStatus, Answer
<1>10. CASE ReadEnabled(r)
  BY <1>10 DEF ReadEnabled, Answer
<1> QED
  BY <1>1, <1>2, <1>3, <1>4, <1>5, <1>6, <1>7, <1>8, <1>9, <1>10 DEF Serve

\* Calls agree with the requests they became, at every step.
LEMMA CallsStep == IInv /\ CallsInv /\ [RequestsNext]_requestsVars => CallsInv'
<1> SUFFICES ASSUME IInv, CallsInv, [RequestsNext]_requestsVars PROVE CallsInv'
  OBVIOUS
<1> USE DEF CallsInv, RequestsTypeOK, CallInv
<1>0. pc \in [Requests -> {"idle", "lookup", "secondary", "stopping", "primary",
                           "managing", "status", "enabled", "replied"}]
      /\ order \in [Requests -> [verb : Verbs, name : Names]]
  BY DEF IInv, TypeOK
<1>n. NoCall \notin Message
  BY DEF NoCall, Message, Verbs
<1>1. CASE UNCHANGED requestsVars
  BY <1>1 DEF requestsVars, vars, callVars
<1>2. ASSUME NEW r \in Requests, NEW verb \in Verbs, NEW name \in Names,
             Invoke(r, verb, name)
      PROVE  CallsInv'
  BY <1>2, <1>0, <1>n DEF Invoke, Message, vars
<1>3. ASSUME NEW r \in Requests, Caller(r) PROVE CallsInv'
  <2>1. CASE Route(r) \/ RestartSensors(r) \/ Command(r)
    BY <2>1, <1>2, SensorAssumption DEF Route, RestartSensors, Command, Verbs
  <2>2. CASE Refused(r)
    BY <2>2, <1>0 DEF Refused, vars
  <2>3. CASE Unreachable(r)
    BY <2>3, <1>0 DEF Unreachable, vars
  <2>4. CASE GiveUp(r)
    BY <2>4, <1>0 DEF GiveUp, vars
  <2>5. CASE Answered(r)
    BY <2>5, <1>0 DEF Answered, vars
  <2> QED
    BY <1>3, <2>1, <2>2, <2>3, <2>4, <2>5 DEF Caller
<1>4. ASSUME NEW r \in Requests, Dispatch(r) PROVE CallsInv'
  <2>1. wire[r] \in Message /\ [verb |-> wire[r].verb, name |-> wire[r].name] = wire[r]
    BY <1>4 DEF Dispatch, Message
  <2> QED
    BY <1>4, <2>1, <1>0 DEF Dispatch, Arrive, callVars
<1>5. ASSUME NEW r \in Requests, Serve(r), UNCHANGED callVars PROVE CallsInv'
  <2>1. /\ pc[r] \notin {"idle", "replied"} /\ pc'[r] # "idle" /\ UNCHANGED order
        /\ \A q \in Requests \ {r} : pc'[q] = pc[q] /\ reply'[q] = reply[q]
    BY <1>5, ServeEffect
  <2> QED
    BY <1>5, <2>1 DEF callVars
<1>6. ASSUME NEW u \in Units, JobEnds(u), UNCHANGED callVars PROVE CallsInv'
  BY <1>6 DEF JobEnds, Finish, requestVars, callVars
<1>7. ASSUME NEW p \in Triggers, TimerFires(p[1], p[2]), UNCHANGED callVars
      PROVE  CallsInv'
  BY <1>7 DEF TimerFires, requestVars, callVars
<1> QED
  BY <1>1, <1>3, <1>4, <1>5, <1>6, <1>7 DEF RequestsNext

\* Both invariants hold of the requests with their callers.
THEOREM RequestsInvariance == RequestsSpec => [](IInv /\ CallsInv)
<1>1. RequestsInit => IInv /\ CallsInv
  <2> SUFFICES ASSUME RequestsInit PROVE CallsInv
    BY InitInv DEF RequestsInit
  <2> QED
    BY DEF RequestsInit, Init, CallsInv, RequestsTypeOK, CallInv
<1>2. IInv /\ CallsInv /\ [RequestsNext]_requestsVars => (IInv /\ CallsInv)'
  <2>1. CallsInv => RequestsTypeOK
    BY DEF CallsInv
  <2> QED
    BY <2>1, ControlStep, StepInv, CallsStep
<1> QED
  BY <1>1, <1>2, PTL DEF RequestsSpec

\* Whoever calls, the requests do what ServiceControl says.
THEOREM UsesControl == RequestsSpec => Spec
<1>1. RequestsInit => Init
  BY DEF RequestsInit
<1>2. CallsInv /\ [RequestsNext]_requestsVars => [Next]_vars
  BY ControlStep DEF CallsInv
<1> QED
  BY <1>1, <1>2, RequestsInvariance, PTL DEF RequestsSpec, Spec

\* A caller with an answer has no command left in systemd.
THEOREM AnswersAreFinal == RequestsSpec => []OnlyLostCallsLeaveCommands
<1>1. IInv /\ CallsInv => OnlyLostCallsLeaveCommands
  <2> SUFFICES ASSUME IInv, CallsInv, NEW r \in Requests,
                      stub[r] \in {"ok", "error", "refused"}
               PROVE  command[r].outcome # "running"
    BY DEF OnlyLostCallsLeaveCommands
  <2> USE DEF IInv, CommandInv, AnswerInv, CallsInv, CallInv
  <2>1. CASE stub[r] = "refused"
    BY <2>1 DEF NoCommand
  <2>2. CASE stub[r] \in {"ok", "error"}
    BY <2>2
  <2> QED
    BY <2>1, <2>2
<1> QED
  BY <1>1, RequestsInvariance, PTL

\* What a request commands is what its caller sent.
THEOREM CommandsWereAskedFor == RequestsSpec => []AskedFor
<1>1. IInv /\ CallsInv => AskedFor
  BY DEF IInv, CommandInv, CallsInv, CallInv, AskedFor
<1> QED
  BY <1>1, RequestsInvariance, PTL

-----------------------------------------------------------------------------
(* The messages *)

\* A state has been read before a handler goes on to its answer.
ReportInv(r) == pc[r] = "enabled" \/ reply[r] = "ok" => report[r].state \in States

\* A step of the module-manager keeps it.
LEMMA ReportStep ==
  ASSUME IInv, \A r \in Requests : ReportInv(r), [Next]_vars
  PROVE  \A r \in Requests : ReportInv(r)'
<1> USE DEF ReportInv
<1>0. /\ pc \in [Requests -> {"idle", "lookup", "secondary", "stopping", "primary",
                              "managing", "status", "enabled", "replied"}]
      /\ reply \in [Requests -> {"none", "refused", "failed", "ok"}]
      /\ report \in [Requests -> Reports] /\ unit \in [Units -> States]
  BY DEF IInv, TypeOK, Reports
<1> TAKE q \in Requests
<1>1. CASE UNCHANGED vars
  BY <1>1 DEF vars
<1>2. ASSUME NEW r \in Requests, NEW verb \in Verbs, NEW name \in Names, Arrive(r, verb, name)
      PROVE  ReportInv(q)'
  BY <1>0, <1>2 DEF Arrive
<1>3. ASSUME NEW r \in Requests, Unknown(r) \/ SecondaryNotAllowed(r) PROVE ReportInv(q)'
  BY <1>0, <1>3 DEF Unknown, SecondaryNotAllowed, Answer
<1>4. ASSUME NEW r \in Requests, Lookup(r) PROVE ReportInv(q)'
  BY <1>0, <1>4 DEF Lookup
<1>5. ASSUME NEW r \in Requests, StopSecondary(r) \/ SecondaryStopped(r) PROVE ReportInv(q)'
  BY <1>0, <1>5 DEF StopSecondary, SecondaryStopped
<1>6. ASSUME NEW r \in Requests, ManageService(r) \/ ManageSucceeded(r) PROVE ReportInv(q)'
  BY <1>0, <1>6 DEF ManageService, ManageSucceeded
<1>7. ASSUME NEW r \in Requests, ManageFailed(r) PROVE ReportInv(q)'
  BY <1>0, <1>7 DEF ManageFailed, Answer
<1>8. ASSUME NEW r \in Requests, ReadStatus(r) PROVE ReportInv(q)'
  <2>1. CASE Answer(r, "failed") /\ UNCHANGED report
    BY <1>0, <2>1 DEF Answer
  <2>2. CASE /\ report' = [report EXCEPT ![r].state = unit[Primary(r)]]
             /\ pc' = [pc EXCEPT ![r] = "enabled"]
             /\ UNCHANGED reply
    <3>1. Primary(r) \in Units
      BY <1>8, MappingAssumption DEF ReadStatus, Primary, IInv, CommandInv, Known
    <3>2. unit[Primary(r)] \in States
      BY <1>0, <3>1
    <3>3. QED
      BY <1>0, <2>2, <3>2 DEF Reports
  <2>3. QED
    BY <1>8, <2>1, <2>2 DEF ReadStatus
<1>9. ASSUME NEW r \in Requests, ReadEnabled(r) PROVE ReportInv(q)'
  <2>1. PICK e \in BOOLEAN : report' = [report EXCEPT ![r].enabled = e]
    BY <1>9 DEF ReadEnabled
  <2>2. report'[q].state = report[q].state
    BY <1>0, <2>1 DEF Reports
  <2>3. QED
    BY <1>0, <1>9, <2>2 DEF ReadEnabled, Answer
<1>10. ASSUME NEW u \in Units, JobEnds(u) PROVE ReportInv(q)'
  BY <1>10 DEF JobEnds, Finish, requestVars
<1>11. ASSUME NEW p \in Triggers, TimerFires(p[1], p[2]) PROVE ReportInv(q)'
  BY <1>11 DEF TimerFires, requestVars
<1>12. QED
  BY <1>1, <1>2, <1>3, <1>4, <1>5, <1>6, <1>7, <1>8, <1>9, <1>10, <1>11 DEF Next, Serve

\* A message of a call or of an answer, method by method.
LEMMA MessageTypes ==
  ASSUME NEW verb \in Verbs, NEW name \in Names
  PROVE  /\ [method |-> Method(verb), request |-> [name |-> name]] \in Api!Call
         /\ \A state \in States, on \in BOOLEAN :
              [method |-> Method(verb),
               response |-> [service |-> [name |-> name, state |-> state, enabled |-> on]]]
                \in Api!Answer
<1>1. Method(verb) \in {"GetService", "StartService", "StopService", "RestartService",
                        "EnableService", "DisableService"}
  BY DEF Method, Verbs
<1>2. [method |-> Method(verb), request |-> [name |-> name]] \in Api!Call
  BY <1>1 DEF Api!Call, Api!GetServiceRequest, Api!StartServiceRequest, Api!StopServiceRequest,
              Api!RestartServiceRequest, Api!EnableServiceRequest, Api!DisableServiceRequest
<1>3. ASSUME NEW state \in States, NEW on \in BOOLEAN
      PROVE  [method |-> Method(verb),
              response |-> [service |-> [name |-> name, state |-> state, enabled |-> on]]]
               \in Api!Answer
  <2>1. [service |-> [name |-> name, state |-> state, enabled |-> on]]
          \in [service : Api!Service]
    BY DEF Api!Service, Api!ServiceState, States
  <2>2. QED
    BY <1>1, <2>1 DEF Api!Answer, Api!GetServiceResponse, Api!StartServiceResponse,
       Api!StopServiceResponse, Api!RestartServiceResponse, Api!EnableServiceResponse,
       Api!DisableServiceResponse
<1>4. QED
  BY <1>2, <1>3

\* Every message is one of drs.module.v1, and every OK answer has a service and
\* its state.
THEOREM MessagesHold == RequestsSpec => []MessagesFitTheApi
<1>1. RequestsInit => \A r \in Requests : ReportInv(r)
  BY DEF RequestsInit, Init, ReportInv
<1>2. /\ IInv /\ CallsInv /\ (\A r \in Requests : ReportInv(r)) /\ [RequestsNext]_requestsVars
      => (\A r \in Requests : ReportInv(r))'
  BY ControlStep, ReportStep DEF CallsInv
<1>3. IInv /\ CallsInv /\ (\A r \in Requests : ReportInv(r)) => MessagesFitTheApi
  <2> SUFFICES ASSUME IInv, CallsInv, \A q \in Requests : ReportInv(q), NEW r \in Requests
               PROVE  /\ wire[r] # NoCall => CallMessage(r) \in Api!Call
                      /\ stub[r] = "ok" => AnswerMessage(r) \in Api!Answer
    BY DEF MessagesFitTheApi
  <2>1. ASSUME wire[r] # NoCall PROVE CallMessage(r) \in Api!Call
    <3>1. wire[r].verb \in Verbs /\ wire[r].name \in Names
      BY <2>1 DEF CallsInv, RequestsTypeOK, Message
    <3>2. QED
      BY <3>1, MessageTypes DEF CallMessage
  <2>2. ASSUME stub[r] = "ok" PROVE AnswerMessage(r) \in Api!Answer
    <3>1. reply[r] = "ok"
      BY <2>2 DEF CallsInv, CallInv
    <3>2. report[r].state \in States /\ report[r].enabled \in BOOLEAN
      BY <3>1 DEF ReportInv, IInv, TypeOK
    <3>3. order[r].verb \in Verbs /\ order[r].name \in Names
      BY DEF IInv, TypeOK
    <3>4. QED
      BY <3>2, <3>3, MessageTypes DEF AnswerMessage
  <2>3. QED
    BY <2>1, <2>2
<1>4. QED
  BY <1>1, <1>2, <1>3, RequestsInvariance, PTL DEF RequestsSpec
=============================================================================
