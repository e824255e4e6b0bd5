--------------------------- MODULE SystemOperation ---------------------------
(***************************************************************************)
(* The gateway's restart and shutdown operations: performSystemOperation   *)
(* fans a command out to every module but the gateway's own host, waits    *)
(* for these calls on a WaitGroup, commands its own host and answers;      *)
(* performModuleOperation commands one module.  The module-managers plan   *)
(* the restart of their hosts; a host that goes down takes its pending     *)
(* calls along, and the gateway's host takes the gateway's handlers along. *)
(*                                                                         *)
(* An RPC has a deadline (grpc.timeout) but the module-manager does not    *)
(* look at it: a call the gateway gave up may still be executed.           *)
(***************************************************************************)
EXTENDS SystemControl, FiniteSets

CONSTANTS Requests,        \* HTTP requests that reach the gateway, each once
          APIGatewayHost,  \* api_gateway_host; outside Modules when not set
          Delays           \* values of delay_seconds

ASSUME ModulesAssumption == IsFiniteSet(Modules)
ASSUME DelaysAssumption == Delays \subseteq Int

VARIABLES
  pc,       \* where the handler of each request is
  order,    \* the operation each request asks for
  worker,   \* the goroutine of each request for each module
  wg,       \* the handler's WaitGroup
  rpc,      \* the Reboot/Shutdown call of each request to each module
  results,  \* what each goroutine sent on the results channel
  reply,    \* the HTTP answer
  power,    \* the state of each module's host
  plan      \* the restart or shutdown a host has planned: at most one

handlerVars == <<pc, order, reply>>
hostVars == <<power, plan>>
vars == <<pc, order, worker, wg, rpc, results, reply, power, plan>>

Others == Modules \ {APIGatewayHost}

Orders == [kind : Kinds, targets : SUBSET Modules, delay : Int, system : BOOLEAN]
Plans == [kind : Kinds, minutes : Int, by : Requests]

Running(r) == pc[r] \in {"fanout", "gateway", "single"}

\* The gateway lives on its own host.
GatewayUp == APIGatewayHost \in Modules => power[APIGatewayHost] = "up"

\* A system operation gives the gateway's host at least five seconds.
MinGatewayDelay == 5
CallDelay(r, m) ==
  IF order[r].system /\ m = APIGatewayHost /\ order[r].delay < MinGatewayDelay
  THEN MinGatewayDelay ELSE order[r].delay

Init ==
  /\ pc = [r \in Requests |-> "idle"]
  /\ order = [r \in Requests |->
                [kind |-> "restart", targets |-> {}, delay |-> 0, system |-> FALSE]]
  /\ worker = [r \in Requests |-> [m \in Modules |-> "none"]]
  /\ wg = [r \in Requests |-> 0]
  /\ rpc = [r \in Requests |-> [m \in Modules |-> "none"]]
  /\ results = [r \in Requests |-> [m \in Modules |-> "none"]]
  /\ reply = [r \in Requests |-> "none"]
  /\ power = [m \in Modules |-> "up"]
  /\ plan = [m \in Modules |-> {}]

-----------------------------------------------------------------------------
(* The handlers *)

\* POST /system/restart or /system/shutdown: one goroutine per other module.
SystemRequest(r, kind, d) ==
  /\ pc[r] = "idle" /\ GatewayUp
  /\ pc' = [pc EXCEPT ![r] = "fanout"]
  /\ order' = [order EXCEPT ![r] =
       [kind |-> kind, targets |-> Modules, delay |-> d, system |-> TRUE]]
  /\ worker' = [worker EXCEPT ![r] =
       [m \in Modules |-> IF m \in Others THEN "start" ELSE "none"]]
  /\ wg' = [wg EXCEPT ![r] = Cardinality(Others)]
  /\ UNCHANGED <<rpc, results, reply, power, plan>>

\* POST /modules/{hostname}/restart or /shutdown: the handler calls by itself.
ModuleRequest(r, kind, m, d) ==
  /\ pc[r] = "idle" /\ GatewayUp
  /\ pc' = [pc EXCEPT ![r] = "single"]
  /\ order' = [order EXCEPT ![r] =
       [kind |-> kind, targets |-> {m}, delay |-> d, system |-> FALSE]]
  /\ worker' = [worker EXCEPT ![r][m] = "start"]
  /\ UNCHANGED <<wg, rpc, results, reply, power, plan>>

\* Slip: room for the results of the first wave only.
OthersCapacity == Cardinality(Others)

\* The results channel is made with this much room; nobody takes from it before
\* it is closed.
Capacity == Cardinality(Modules)
HasRoom(r) == Cardinality({m \in Modules : results[r][m] # "none"}) < Capacity

\* A goroutine puts its result on the channel; a handler that calls by itself
\* has none.
Send(r, m, result) ==
  /\ order[r].system => HasRoom(r)
  /\ results' = [results EXCEPT ![r][m] = result]
  /\ worker' = [worker EXCEPT ![r][m] = "sent"]

\* GetModuleClients fails: nothing is called.
NoClients(r, m) ==
  /\ Running(r) /\ worker[r][m] = "start"
  /\ Send(r, m, "failed")
  /\ UNCHANGED <<handlerVars, wg, rpc, hostVars>>

\* Reboot or Shutdown is called; a call to a host that is down never arrives.
Call(r, m) ==
  /\ Running(r) /\ worker[r][m] = "start"
  /\ worker' = [worker EXCEPT ![r][m] = "calling"]
  /\ rpc' = [rpc EXCEPT ![r][m] = IF power[m] = "up" THEN "pending" ELSE "cut"]
  /\ UNCHANGED <<handlerVars, wg, results, hostVars>>

\* The module-manager's answer arrives.
Outcome(response) == IF response.accepted THEN "accepted" ELSE "failed"
Return(r, m) ==
  /\ Running(r) /\ worker[r][m] = "calling"
  /\ \/ /\ rpc[r][m] = "executed"
        /\ Send(r, m, Outcome(AnswerMessage(order[r].kind, CallDelay(r, m)).response))
     \/ rpc[r][m] = "refused" /\ Send(r, m, "failed")
  /\ UNCHANGED <<handlerVars, wg, rpc, hostVars>>

\* Slip: the call's context has no deadline.
GiveUpWhenCut(r, m) ==
  /\ Running(r) /\ worker[r][m] = "calling" /\ rpc[r][m] = "cut"
  /\ Send(r, m, "failed")
  /\ UNCHANGED <<handlerVars, wg, rpc, hostVars>>

\* Slip: a call that timed out counts as accepted.
GiveUpAsAccepted(r, m) ==
  /\ Running(r) /\ worker[r][m] = "calling"
  /\ Send(r, m, "accepted")
  /\ UNCHANGED <<handlerVars, wg, rpc, hostVars>>

\* The call's deadline passes, or the connection breaks, before an answer.
GiveUp(r, m) ==
  /\ Running(r) /\ worker[r][m] = "calling"
  /\ Send(r, m, "failed")
  /\ UNCHANGED <<handlerVars, wg, rpc, hostVars>>

\* The deferred wg.Done, after the result was sent.
Done(r, m) ==
  /\ pc[r] \in {"fanout", "gateway"} /\ worker[r][m] = "sent"
  /\ worker' = [worker EXCEPT ![r][m] = "done"]
  /\ wg' = [wg EXCEPT ![r] = @ - 1]
  /\ UNCHANGED <<handlerVars, rpc, results, hostVars>>

\* Slip: no wg.Wait between the two waves.
StartGatewayHostAtOnce(r) ==
  /\ pc[r] = "fanout"
  /\ APIGatewayHost \in Modules
  /\ pc' = [pc EXCEPT ![r] = "gateway"]
  /\ worker' = [worker EXCEPT ![r][APIGatewayHost] = "start"]
  /\ wg' = [wg EXCEPT ![r] = @ + 1]
  /\ UNCHANGED <<order, reply, rpc, results, hostVars>>

\* wg.Wait returned and the gateway's host is configured: its turn.
StartGatewayHost(r) ==
  /\ pc[r] = "fanout" /\ wg[r] = 0
  /\ APIGatewayHost \in Modules
  /\ pc' = [pc EXCEPT ![r] = "gateway"]
  /\ worker' = [worker EXCEPT ![r][APIGatewayHost] = "start"]
  /\ wg' = [wg EXCEPT ![r] = @ + 1]
  /\ UNCHANGED <<order, reply, rpc, results, hostVars>>

\* close(results), and 200 unless some result on the channel is a failure.
Answer(r) ==
  /\ pc' = [pc EXCEPT ![r] = "replied"]
  /\ reply' = [reply EXCEPT ![r] =
       IF \E m \in Modules : results[r][m] = "failed" THEN "failed" ELSE "ok"]
  /\ UNCHANGED <<order, worker, wg, rpc, results, hostVars>>

\* Slip: the results are collected without a wg.Wait.
AnswerSystemUnwaited(r) ==
  /\ \/ pc[r] = "gateway"
     \/ pc[r] = "fanout" /\ APIGatewayHost \notin Modules
  /\ Answer(r)

AnswerSystem(r) ==
  /\ \/ pc[r] = "gateway"
     \/ pc[r] = "fanout" /\ APIGatewayHost \notin Modules
  /\ wg[r] = 0
  /\ Answer(r)

AnswerModule(r) ==
  /\ pc[r] = "single"
  /\ \A m \in order[r].targets : worker[r][m] = "sent"
  /\ Answer(r)

-----------------------------------------------------------------------------
(* The module-managers and their hosts *)

\* The command reboot(8) or shutdown(8) runs and succeeds: the new plan
\* replaces the old one unless the host is already going down.
Execute(r, m) ==
  /\ rpc[r][m] = "pending" /\ power[m] = "up"
  /\ ~ Refuses(order[r].kind, m, CallDelay(r, m))
  /\ rpc' = [rpc EXCEPT ![r][m] = "executed"]
  /\ plan' = [plan EXCEPT ![m] =
       IF \E p \in @ : p.minutes = 0 THEN @
       ELSE {[kind |-> order[r].kind,
              minutes |-> PlannedMinutes(CallDelay(r, m)), by |-> r]}]
  /\ UNCHANGED <<handlerVars, worker, wg, results, power>>

\* The call is disabled, its delay is negative, or the command fails.
Refuse(r, m) ==
  /\ rpc[r][m] = "pending" /\ power[m] = "up"
  /\ rpc' = [rpc EXCEPT ![r][m] = "refused"]
  /\ UNCHANGED <<handlerVars, worker, wg, results, hostVars>>

\* A minute of a plan goes by, whatever the gateway is doing: shutdown(8) knows
\* nothing of its requests.  (OperationTime says how long a minute is.)
MinutePasses(m) ==
  \E p \in plan[m] :
    /\ p.minutes > 0
    /\ plan' = [plan EXCEPT ![m] = {[p EXCEPT !.minutes = @ - 1]}]
    /\ UNCHANGED <<handlerVars, worker, wg, rpc, results, power>>

\* A planned restart or shutdown takes place.
GoDown(m) ==
  /\ power[m] = "up"
  /\ \E p \in plan[m] :
       /\ p.minutes = 0
       /\ power' = [power EXCEPT ![m] =
            IF p.kind = "restart" THEN "rebooting" ELSE "off"]
  /\ plan' = [plan EXCEPT ![m] = {}]
  /\ rpc' = [r \in Requests |->
       [rpc[r] EXCEPT ![m] = IF @ = "pending" THEN "cut" ELSE @]]
  /\ pc' = [r \in Requests |->
       IF m = APIGatewayHost /\ Running(r) THEN "lost" ELSE pc[r]]
  /\ UNCHANGED <<order, worker, wg, results, reply>>

Boot(m) ==
  /\ power[m] = "rebooting"
  /\ power' = [power EXCEPT ![m] = "up"]
  /\ UNCHANGED <<handlerVars, worker, wg, rpc, results, plan>>

-----------------------------------------------------------------------------
Worker(r, m) ==
  NoClients(r, m) \/ Call(r, m) \/ Return(r, m) \/ GiveUp(r, m) \/ Done(r, m)

Handler(r) == StartGatewayHost(r) \/ AnswerSystem(r) \/ AnswerModule(r)

Arrive(r) ==
  \E kind \in Kinds, d \in Delays :
    SystemRequest(r, kind, d) \/ \E m \in Modules : ModuleRequest(r, kind, m, d)

Manager(r, m) == Execute(r, m) \/ Refuse(r, m)

Host(m) == MinutePasses(m) \/ GoDown(m) \/ Boot(m)

Next ==
  \/ \E r \in Requests :
       Arrive(r) \/ Handler(r) \/ \E m \in Modules : Worker(r, m) \/ Manager(r, m)
  \/ \E m \in Modules : Host(m)

Spec == Init /\ [][Next]_vars

\* The Go scheduler runs every goroutine that can run, and a call ends at its
\* deadline at the latest.  Nothing is assumed of the module-managers.
FairSpec ==
  /\ Spec
  /\ \A r \in Requests : WF_vars(Handler(r))
  /\ \A r \in Requests, m \in Modules : WF_vars(Worker(r, m))

-----------------------------------------------------------------------------
(* Properties *)

\* The types.  That a WaitGroup is a Nat says something: sync.WaitGroup panics
\* when its counter becomes negative.
TypeOK ==
  /\ pc \in [Requests -> {"idle", "fanout", "gateway", "single", "replied", "lost"}]
  /\ order \in [Requests -> Orders]
  /\ worker \in [Requests -> [Modules -> {"none", "start", "calling", "sent", "done"}]]
  /\ wg \in [Requests -> Nat]
  /\ rpc \in [Requests -> [Modules -> {"none", "pending", "executed", "refused", "cut"}]]
  /\ results \in [Requests -> [Modules -> {"none", "accepted", "failed"}]]
  /\ reply \in [Requests -> {"none", "ok", "failed"}]
  /\ power \in [Modules -> {"up", "rebooting", "off"}]
  /\ plan \in [Modules -> SUBSET Plans]

\* What is called and answered are messages of drs.module.v1.
MessagesFitTheApi ==
  \A r \in Requests, m \in Modules : rpc[r][m] # "none" =>
    /\ CallMessage(order[r].kind, CallDelay(r, m)) \in Api!Call
    /\ AnswerMessage(order[r].kind, CallDelay(r, m)) \in Api!Answer

\* When the gateway's own host goes down because of a system operation, every
\* other module has been asked and has answered or been given up: no operation
\* takes the gateway away from under its own fan-out.
GatewayHostGoesDownLast ==
  APIGatewayHost \in Modules =>
    \A p \in plan[APIGatewayHost] :
      order[p.by].system => \A m \in Others : results[p.by][m] # "none"

\* A 200 answer is the truth: every module the operation is for has executed
\* the command, although the handler only looks for failures among the results
\* that happen to be on the channel when it is closed.
OkMeansExecuted ==
  \A r \in Requests :
    reply[r] = "ok" => \A m \in order[r].targets : rpc[r][m] = "executed"

\* A goroutine that has its result still to send will find the results channel open
\* and with room, in either wave: a send on a closed channel panics, and one that
\* blocks would keep wg.Wait, which comes before anybody reads the channel, for good.
SendsSucceed ==
  \A r \in Requests, m \in Modules :
    worker[r][m] \in {"start", "calling"} =>
      pc[r] # "replied" /\ (order[r].system => HasRoom(r))

\* A request never gets stuck: its handler can answer or begin the second wave, or
\* some goroutine it waits for can still send, or count down after it has sent.
NeverStuck ==
  \A r \in Requests : Running(r) =>
    \/ pc[r] # "single" /\ wg[r] = 0
    \/ \E m \in Modules :
         \/ worker[r][m] \in {"start", "calling"} /\ (order[r].system => HasRoom(r))
         \/ worker[r][m] = "sent"

\* No host goes down before the delay is over that its command gave: "Reboot
\* scheduled with %d seconds delay".
DelaysHonoured ==
  [][\A m \in Modules : plan'[m] # plan[m] =>
       \A p \in plan'[m] : rpc[p.by][m] # "executed" =>
         60 * p.minutes >= CallDelay(p.by, m)]_vars

\* Every request that the gateway takes up comes to an end: answered, or lost
\* with the gateway's host.
EveryRequestEnds == \A r \in Requests : Running(r) ~> ~ Running(r)

\* The goroutines, the WaitGroup and the channel implement the promise: the
\* phase, the outcomes and the answer are what can be seen of a handler.
Phase(stage) ==
  CASE stage = "idle" -> "new"
    [] stage = "replied" -> "answered"
    [] stage = "lost" -> "lost"
    [] OTHER -> "open"

Promise == INSTANCE OperationPromise WITH
  Last <- APIGatewayHost,
  phase <- [r \in Requests |-> Phase(pc[r])],
  wanted <- [r \in Requests |-> order[r].targets],
  outcome <- results,
  answer <- reply

KeepsPromise == Promise!ASpec
=============================================================================
