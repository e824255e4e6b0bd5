---------------------------- MODULE ServiceRequests ----------------------------
(***************************************************************************)
(* The callers of ServiceControl: the gateway's routes for one service,    *)
(* its route that restarts the sensor service, and drs-cli.  Each makes    *)
(* one unary call with a deadline.  The module-manager's handlers never    *)
(* look at their context, so that a call that was given up is served all   *)
(* the same, even when it arrives after that, and systemctl runs to its    *)
(* end.                                                                    *)
(*                                                                         *)
(* ServicesRestart starts a goroutine for every service of a list of one,  *)
(* and another that closes their channel: its answer is that one call's.   *)
(***************************************************************************)
EXTENDS ServiceControl

CONSTANT SensorName   \* services/drs_sensor

ASSUME SensorAssumption == SensorName \in Names

VARIABLES
  wire,  \* the call a request makes: its method's verb and its message's name
  stub   \* what the stub has returned to the caller

callVars == <<wire, stub>>
requestsVars == <<vars, callVars>>

NoCall == [verb |-> "none", name |-> SensorName]
Message == [verb : Verbs, name : Names]

\* The messages of drs.module.v1.
Api == INSTANCE ServiceManagerApi WITH ServiceName <- Names

Method(verb) ==
  CASE verb = "get" -> "GetService"
    [] verb = "start" -> "StartService"
    [] verb = "stop" -> "StopService"
    [] verb = "restart" -> "RestartService"
    [] verb = "enable" -> "EnableService"
    [] verb = "disable" -> "DisableService"

\* The call on the wire, and the answer made of what the handler has read back.
CallMessage(r) ==
  [method |-> Method(wire[r].verb), request |-> [name |-> wire[r].name]]
AnswerMessage(r) ==
  [method |-> Method(order[r].verb),
   response |-> [service |-> [name |-> order[r].name, state |-> report[r].state,
                              enabled |-> report[r].enabled]]]

RequestsInit ==
  /\ Init
  /\ wire = [r \in Requests |-> NoCall]
  /\ stub = [r \in Requests |-> "none"]

-----------------------------------------------------------------------------
(* The callers *)

\* The stub sends the message, and its caller waits.
Invoke(r, verb, name) ==
  /\ stub[r] = "none"
  /\ wire' = [wire EXCEPT ![r] = [verb |-> verb, name |-> name]]
  /\ stub' = [stub EXCEPT ![r] = "waiting"]
  /\ UNCHANGED vars

\* POST /modules/{hostname}/services/{service_name}/{start, stop, restart}.
Route(r) ==
  \E verb \in {"start", "stop", "restart"}, name \in Names : Invoke(r, verb, name)

\* ServicesRestart.
RestartSensors(r) == Invoke(r, "restart", SensorName)

\* drs-cli module services <verb> <name>: the name is sent as it was typed.
Command(r) == \E verb \in Verbs, name \in Names : Invoke(r, verb, name)

\* 404: the host is not configured; 403: its services are not to be managed.
Refused(r) ==
  /\ stub[r] = "none"
  /\ stub' = [stub EXCEPT ![r] = "refused"]
  /\ UNCHANGED <<vars, wire>>

\* There is no connection: nothing has been sent, and nothing will be.
Unreachable(r) ==
  /\ stub[r] = "waiting" /\ pc[r] = "idle"
  /\ stub' = [stub EXCEPT ![r] = "lost"]
  /\ wire' = [wire EXCEPT ![r] = NoCall]
  /\ UNCHANGED vars

\* The deadline passes, or the connection breaks, wherever the call is.
GiveUp(r) ==
  /\ stub[r] = "waiting"
  /\ stub' = [stub EXCEPT ![r] = "lost"]
  /\ UNCHANGED <<vars, wire>>

\* The module-manager's answer arrives: 200, or 500 with its error.
Answered(r) ==
  /\ stub[r] = "waiting" /\ pc[r] = "replied"
  /\ stub' = [stub EXCEPT ![r] = IF reply[r] = "ok" THEN "ok" ELSE "error"]
  /\ UNCHANGED <<vars, wire>>

Caller(r) ==
  \/ Route(r) \/ RestartSensors(r) \/ Command(r)
  \/ Refused(r) \/ Unreachable(r) \/ GiveUp(r) \/ Answered(r)

-----------------------------------------------------------------------------
(* The server *)

\* The method's handler decodes the message and calls the service.
Dispatch(r) ==
  /\ wire[r] # NoCall
  /\ Arrive(r, wire[r].verb, wire[r].name)
  /\ UNCHANGED callVars

RequestsNext ==
  \/ \E r \in Requests : Caller(r) \/ Dispatch(r) \/ (Serve(r) /\ UNCHANGED callVars)
  \/ \E u \in Units : JobEnds(u) /\ UNCHANGED callVars
  \/ \E p \in Triggers : TimerFires(p[1], p[2]) /\ UNCHANGED callVars

RequestsSpec == RequestsInit /\ [][RequestsNext]_requestsVars

-----------------------------------------------------------------------------
(* Properties *)

\* The types of calls and of what their callers know.
RequestsTypeOK ==
  /\ wire \in [Requests -> Message \cup {NoCall}]
  /\ stub \in [Requests -> {"none", "waiting", "ok", "error", "refused", "lost"}]

\* A caller who has an answer of the module-manager, or was refused before,
\* knows that his request is over: none of its commands is still on its way
\* through systemd.  Only a call that was given up leaves one behind.
OnlyLostCallsLeaveCommands ==
  \A r \in Requests :
    stub[r] \in {"ok", "error", "refused"} => command[r].outcome # "running"

\* Nothing happens that nobody asked for, and nothing twice: what a request
\* commands is what its caller sent, and a caller that was refused, or never
\* got through, sent nothing.
AskedFor ==
  \A r \in Requests :
    command[r] # NoCommand => wire[r] # NoCall /\ order[r] = wire[r]

\* Messages are what drs.module.v1 has: above all, an OK answer has a service
\* with a state that was read, for drs-cli looks into it without asking, and
\* the gateway hands it on to the dashboard.
MessagesFitTheApi ==
  \A r \in Requests :
    /\ wire[r] # NoCall => CallMessage(r) \in Api!Call
    /\ stub[r] = "ok" => AnswerMessage(r) \in Api!Answer
=============================================================================
