---------------------------- MODULE ServiceControl ----------------------------
(***************************************************************************)
(* The services of a module-manager (ServiceManagerService): each request  *)
(* looks its service up in the configuration, for stop and restart first   *)
(* stops the service's secondary unit (stop_also), runs systemctl on the   *)
(* primary unit, waits for it, and reads the unit back for its answer.     *)
(* Requests are served concurrently and nothing locks a unit; systemd      *)
(* cancels the jobs that a newer one contradicts, and its timers start     *)
(* units whenever they like.                                               *)
(***************************************************************************)
CONSTANTS Requests,   \* gRPC requests, each once
          Names,      \* resource names that are asked for
          Mapping,    \* configured names -> [unit, also], also in Units or NoUnit
          Units,      \* units of systemd
          NoUnit,     \* no stop_also
          Oneshot,    \* the units of Type=oneshot: "activating" while they run
          Triggers,   \* <<timer, unit>>: the timer starts the unit
          Installed,  \* the units that are enabled at first
          Managed     \* services.enabled

ASSUME MappingAssumption ==
  /\ Names # {} /\ DOMAIN Mapping \subseteq Names
  /\ \A s \in DOMAIN Mapping :
       Mapping[s].unit \in Units /\ Mapping[s].also \in Units \cup {NoUnit}
  /\ NoUnit \notin Units /\ Oneshot \subseteq Units /\ Triggers \subseteq Units \X Units
  /\ Installed \subseteq Units
  /\ Managed \in BOOLEAN

VARIABLES
  pc,       \* where each request is
  order,    \* what it asks for
  command,  \* its systemctl command, the last one it gave
  report,   \* what it read back
  reply,    \* its answer
  unit,     \* ActiveState of each unit
  job,      \* systemd's job for each unit
  enabled   \* the units that are enabled

requestVars == <<pc, order, report, reply>>
systemdVars == <<unit, job, enabled>>
vars == <<pc, order, command, report, reply, unit, job, enabled>>

Verbs == {"get", "start", "stop", "restart", "enable", "disable"}
States == {"inactive", "activating", "active", "deactivating", "failed"}
NoCommand == [unit |-> NoUnit, verb |-> "none", outcome |-> "none"]
NoReport == [state |-> "none", enabled |-> FALSE]

Init ==
  /\ pc = [r \in Requests |-> "idle"]
  /\ order = [r \in Requests |-> [verb |-> "get", name |-> CHOOSE n \in Names : TRUE]]
  /\ command = [r \in Requests |-> NoCommand]
  /\ report = [r \in Requests |-> NoReport]
  /\ reply = [r \in Requests |-> "none"]
  /\ \E up \in SUBSET (Units \ Oneshot) :
       unit = [u \in Units |-> IF u \in up THEN "active" ELSE "inactive"]
  /\ job = [u \in Units |-> "none"]
  /\ enabled = Installed

-----------------------------------------------------------------------------
(* systemd *)

Alive == {"activating", "active", "deactivating"}

\* The jobs that contradict each other; the newer one cancels the older one.
Contradicts(v, w) == (v = "stop") # (w = "stop")

Waits(r, u) == command[r].unit = u /\ command[r].outcome = "running"

\* systemctl <verb> <unit>: the job is queued and the caller waits for it, or
\* the command fails by itself.  Enabling is not a job.
Systemctl(r, u, verb) ==
  LET told(outcome) == [unit |-> u, verb |-> verb, outcome |-> outcome] IN
  \/ /\ command' = [command EXCEPT ![r] = told("failed")]
     /\ UNCHANGED systemdVars
  \/ /\ verb \in {"enable", "disable"}
     /\ command' = [command EXCEPT ![r] = told("done")]
     /\ enabled' = IF verb = "enable" THEN enabled \cup {u} ELSE enabled \ {u}
     /\ UNCHANGED <<unit, job>>
  \/ /\ verb \in {"start", "stop", "restart"}
     /\ command' = [q \in Requests |->
          IF q = r THEN told("running")
          ELSE IF Waits(q, u) /\ Contradicts(command[q].verb, verb)
          THEN [command[q] EXCEPT !.outcome = "failed"] ELSE command[q]]
     /\ job' = [job EXCEPT ![u] = verb]
     /\ unit' = [unit EXCEPT ![u] =
          IF verb = "stop" THEN IF @ \in Alive THEN "deactivating" ELSE @
          ELSE IF @ = "active" /\ verb = "start" THEN @ ELSE "activating"]
     /\ UNCHANGED enabled

Finish(u, state, outcome) ==
  /\ unit' = [unit EXCEPT ![u] = state]
  /\ job' = [job EXCEPT ![u] = "none"]
  /\ command' = [r \in Requests |->
       IF Waits(r, u) THEN [command[r] EXCEPT !.outcome = outcome] ELSE command[r]]
  /\ UNCHANGED <<requestVars, enabled>>

\* A job ends well, or the unit fails.
JobEnds(u) ==
  /\ job[u] # "none"
  /\ \/ Finish(u, IF job[u] = "stop" \/ u \in Oneshot THEN "inactive" ELSE "active", "done")
     \/ Finish(u, "failed", "failed")

\* A timer that is active starts its unit.
TimerFires(t, u) ==
  /\ <<t, u>> \in Triggers /\ unit[t] = "active"
  /\ unit[u] \in {"inactive", "failed"} /\ job[u] = "none"
  /\ unit' = [unit EXCEPT ![u] = "activating"]
  /\ job' = [job EXCEPT ![u] = "start"]
  /\ UNCHANGED <<requestVars, command, enabled>>

-----------------------------------------------------------------------------
(* The requests *)

Known(r) == order[r].name \in DOMAIN Mapping
Primary(r) == Mapping[order[r].name].unit
Secondary(r) == Mapping[order[r].name].also

\* IsServiceAllowed: the unit is the primary unit of some configured service.
Allowed(u) == \E s \in DOMAIN Mapping : Mapping[s].unit = u

Answer(r, outcome) ==
  /\ reply' = [reply EXCEPT ![r] = outcome]
  /\ pc' = [pc EXCEPT ![r] = "replied"]

Arrive(r, verb, name) ==
  /\ pc[r] = "idle"
  /\ order' = [order EXCEPT ![r] = [verb |-> verb, name |-> name]]
  /\ pc' = [pc EXCEPT ![r] = "lookup"]
  /\ UNCHANGED <<command, report, reply, systemdVars>>

\* Unimplemented when services are not managed, NotFound for an unknown name.
Unknown(r) ==
  /\ pc[r] = "lookup" /\ (Managed => ~ Known(r))
  /\ Answer(r, "refused")
  /\ UNCHANGED <<order, command, report, systemdVars>>

\* The mapping is found: the next step is the verb's first command.
Lookup(r) ==
  /\ pc[r] = "lookup" /\ Managed /\ Known(r)
  /\ pc' = [pc EXCEPT ![r] =
       CASE order[r].verb = "get" -> "status"
         [] order[r].verb \in {"stop", "restart"} /\ Secondary(r) # NoUnit -> "secondary"
         [] OTHER -> "primary"]
  /\ UNCHANGED <<order, command, report, reply, systemdVars>>

\* The stop_also unit is no configured service: an error before anything is
\* stopped.
SecondaryNotAllowed(r) ==
  /\ pc[r] = "secondary" /\ ~ Allowed(Secondary(r))
  /\ Answer(r, "refused")
  /\ UNCHANGED <<order, command, report, systemdVars>>

StopSecondary(r) ==
  /\ pc[r] = "secondary" /\ Allowed(Secondary(r))
  /\ Systemctl(r, Secondary(r), "stop")
  /\ pc' = [pc EXCEPT ![r] = "stopping"]
  /\ UNCHANGED <<order, report, reply>>

\* Slip: a secondary unit that does not stop is an error after all.
SecondaryMustStop(r) ==
  /\ pc[r] = "stopping" /\ command[r].outcome # "running"
  /\ \/ /\ command[r].outcome = "done"
        /\ pc' = [pc EXCEPT ![r] = "primary"]
        /\ UNCHANGED reply
     \/ command[r].outcome = "failed" /\ Answer(r, "refused")
  /\ UNCHANGED <<order, command, report, systemdVars>>

\* A failure to stop the secondary unit is only logged.
SecondaryStopped(r) ==
  /\ pc[r] = "stopping" /\ command[r].outcome # "running"
  /\ pc' = [pc EXCEPT ![r] = "primary"]
  /\ UNCHANGED <<order, command, report, reply, systemdVars>>

\* Slip: a unit that is not active is not stopped again.
ManageUnlessDown(r) ==
  /\ pc[r] = "primary"
  /\ IF order[r].verb = "stop" /\ unit[Primary(r)] # "active"
     THEN /\ command' = [command EXCEPT ![r] =
                          [unit |-> Primary(r), verb |-> "stop", outcome |-> "done"]]
          /\ UNCHANGED systemdVars
     ELSE Systemctl(r, Primary(r), order[r].verb)
  /\ pc' = [pc EXCEPT ![r] = "managing"]
  /\ UNCHANGED <<order, report, reply>>

ManageService(r) ==
  /\ pc[r] = "primary"
  /\ Systemctl(r, Primary(r), order[r].verb)
  /\ pc' = [pc EXCEPT ![r] = "managing"]
  /\ UNCHANGED <<order, report, reply>>

\* systemctl returned with an error.
ManageFailed(r) ==
  /\ pc[r] = "managing" /\ command[r].outcome = "failed"
  /\ Answer(r, "failed")
  /\ UNCHANGED <<order, command, report, systemdVars>>

\* Slip: systemctl's exit code is ignored.
ManagedSomehow(r) ==
  /\ pc[r] = "managing" /\ command[r].outcome # "running"
  /\ pc' = [pc EXCEPT ![r] = "status"]
  /\ UNCHANGED <<order, command, report, reply, systemdVars>>

\* Slip: the command is started and not waited for.
ManagedUnwaited(r) ==
  /\ pc[r] = "managing" /\ command[r].outcome # "failed"
  /\ pc' = [pc EXCEPT ![r] = "status"]
  /\ UNCHANGED <<order, command, report, reply, systemdVars>>

ManageSucceeded(r) ==
  /\ pc[r] = "managing" /\ command[r].outcome = "done"
  /\ pc' = [pc EXCEPT ![r] = "status"]
  /\ UNCHANGED <<order, command, report, reply, systemdVars>>

\* Slip: an error of is-active is not looked at.
ReadStatusUnchecked(r) ==
  /\ pc[r] = "status"
  /\ \/ /\ report' = [report EXCEPT ![r].state = unit[Primary(r)]]
        /\ pc' = [pc EXCEPT ![r] = "enabled"]
        /\ UNCHANGED reply
     \/ Answer(r, "ok") /\ UNCHANGED report
  /\ UNCHANGED <<order, command, systemdVars>>

\* GetService: systemctl is-active, an error if it fails or knows no such unit ...
ReadStatus(r) ==
  /\ pc[r] = "status"
  /\ \/ /\ report' = [report EXCEPT ![r].state = unit[Primary(r)]]
        /\ pc' = [pc EXCEPT ![r] = "enabled"]
        /\ UNCHANGED reply
     \/ Answer(r, "failed") /\ UNCHANGED report
  /\ UNCHANGED <<order, command, systemdVars>>

\* ... then is-enabled, whose failure reads as not enabled, and the answer.
ReadEnabled(r) ==
  /\ pc[r] = "enabled"
  /\ \E e \in BOOLEAN :
       /\ e => Primary(r) \in enabled
       /\ report' = [report EXCEPT ![r].enabled = e]
  /\ Answer(r, "ok")
  /\ UNCHANGED <<order, command, systemdVars>>

-----------------------------------------------------------------------------
Serve(r) ==
  \/ Unknown(r) \/ Lookup(r)
  \/ SecondaryNotAllowed(r) \/ StopSecondary(r) \/ SecondaryStopped(r)
  \/ ManageService(r) \/ ManageFailed(r) \/ ManageSucceeded(r)
  \/ ReadStatus(r) \/ ReadEnabled(r)

Next ==
  \/ \E r \in Requests :
       Serve(r) \/ \E verb \in Verbs, name \in Names : Arrive(r, verb, name)
  \/ \E u \in Units : JobEnds(u)
  \/ \E p \in Triggers : TimerFires(p[1], p[2])

Spec == Init /\ [][Next]_vars

-----------------------------------------------------------------------------
(* Properties *)

TypeOK ==
  /\ pc \in [Requests -> {"idle", "lookup", "secondary", "stopping", "primary",
                          "managing", "status", "enabled", "replied"}]
  /\ order \in [Requests -> [verb : Verbs, name : Names]]
  /\ command \in [Requests -> [unit : Units \cup {NoUnit}, verb : Verbs \cup {"none"},
                               outcome : {"none", "running", "done", "failed"}]]
  /\ report \in [Requests -> [state : States \cup {"none"}, enabled : BOOLEAN]]
  /\ reply \in [Requests -> {"none", "refused", "failed", "ok"}]
  /\ unit \in [Units -> States] /\ enabled \in SUBSET Units
  /\ job \in [Units -> {"none", "start", "stop", "restart"}]

\* No configuration makes the module-manager touch a unit outside its
\* allowlist, not even as the secondary unit of a service.
OnlyAllowedUnits ==
  \A r \in Requests : command[r] # NoCommand => Allowed(command[r].unit)

\* All or nothing: a request that is turned away has commanded no unit, and one
\* that has stopped a secondary unit goes on to command the primary one.
NothingHalfDone ==
  \A r \in Requests :
    /\ reply[r] = "refused" => command[r] = NoCommand
    /\ reply[r] \in {"failed", "ok"} /\ order[r].verb # "get"
         => command[r].unit = Primary(r) /\ command[r].verb = order[r].verb

\* An OK answer says that systemd did what was asked: a command that failed, or
\* that another request's command cancelled, is never answered OK.
OkMeansDone ==
  \A r \in Requests :
    reply[r] = "ok" /\ order[r].verb # "get" => command[r].outcome = "done"

\* A request that has come to start the unit, or to restart it.
Starts(q, u) ==
  pc[q] # "idle" /\ order[q].verb \in {"start", "restart"} /\ Known(q) /\ Primary(q) = u

\* A stop that is answered OK reports a unit that does not run, unless somebody
\* else starts it: a timer, or a request that has come meanwhile.  Whatever other
\* requests do besides, to this unit or to another, the state that was read after
\* the command tells the caller what became of it.
StopReportsStopped ==
  \A r \in Requests :
    /\ reply[r] = "ok" /\ order[r].verb = "stop"
    /\ \A q \in Requests \ {r} : ~ Starts(q, Primary(r))
    /\ \A p \in Triggers : p[2] # Primary(r)
    => report[r].state \notin Alive

\* When the stop of a service has succeeded, and nobody interfered, its
\* secondary unit does not run: "ensures clean abort before disabling primary".
CleanAbort ==
  \A r \in Requests :
    /\ reply[r] = "ok" /\ order[r].verb = "stop"
    /\ \A q \in Requests \ {r} : pc[q] = "idle"
    /\ Secondary(r) # NoUnit
    => unit[Secondary(r)] \notin Alive
=============================================================================
