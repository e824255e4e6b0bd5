---------------------------- MODULE ModuleStatus ----------------------------
(***************************************************************************)
(* The gateway's status queries.  GetAllModules and GetPTPStatus start a   *)
(* goroutine per module; a closer waits for them on a WaitGroup and closes *)
(* the channel that the handler drains.  GetModule asks by itself.  For    *)
(* one module's status, several calls are made in a row; each may fail and *)
(* is then left out.  The environment, the disks and PTP share a deadline, *)
(* the services have their own, and so has the recording.                  *)
(*                                                                         *)
(* What a module answers is any value, except that the true state of its   *)
(* services is fixed.  The environment and the recording, which no         *)
(* property looks at, are asked for but not kept.                          *)
(***************************************************************************)
EXTENDS Integers, Sequences, FiniteSets

CONSTANTS Requests,     \* HTTP requests, each once
          Modules,      \* the hosts of config.yaml
          Hostnames,    \* hosts that are asked for; not all are configured
          Nas,          \* the host without recording
          Services,     \* drs_sensor and others that getServiceStatus looks for
          Watched,      \* enabled_services of each module: disk, ptp, services
          BridgeEnabled \* ros2_bridge.enabled

ASSUME StatusAssumption ==
  /\ IsFiniteSet(Modules) /\ Modules \subseteq Hostnames
  /\ Watched \in [Modules -> SUBSET {"disk", "ptp", "services"}]
  /\ Nas \in Hostnames /\ BridgeEnabled \in BOOLEAN
  /\ "drs_sensor" \in Services
  /\ Services \subseteq {"drs_sensor", "drs_recorder", "drs_transfer", "drs_transfer_service"}

VARIABLES
  truth,   \* the state of each module's services, or "unread": systemctl cannot
           \* tell, the service is not configured or the module does not answer
  pc,      \* where the handler of each request is
  query,   \* what it was asked
  worker,  \* the next call of its goroutine for each host
  spent,   \* the deadline of that goroutine's context is over
  info,    \* what it has learned
  wg,      \* the WaitGroup
  closer,  \* the goroutine that closes the channel
  channel, \* the statuses on the channel
  listed,  \* the statuses taken from it
  reply    \* the HTTP answer

vars == <<truth, pc, query, worker, spent, info, wg, closer, channel, listed, reply>>
handlerVars == <<truth, pc, query, reply>>
syncVars == <<wg, closer, channel, listed>>

States == {"active", "activating", "inactive", "failed"}
Usages == {"low", "above 80", "above 90"}

\* The zero values: no service known, no disk used, no PTP offset.
Blank == [services |-> [s \in Services |-> ""], disk |-> "low", ptp |-> "none",
          status |-> ""]

Watches(m, what) == what \in Watched[m]

\* The hosts whose goroutines a fan-out starts.
Asked(kind) == IF kind = "ptp" THEN {m \in Modules : Watches(m, "ptp")} ELSE Modules

Init ==
  /\ truth \in [Modules -> [Services -> States \cup {"unread"}]]
  /\ \A m \in Modules :
       ~ Watches(m, "services") => truth[m] = [s \in Services |-> "unread"]
  /\ pc = [r \in Requests |-> "idle"]
  /\ query = [r \in Requests |-> [kind |-> "all", host |-> Nas]]
  /\ worker = [r \in Requests |-> [h \in Hostnames |-> "none"]]
  /\ spent = [r \in Requests |-> [h \in Hostnames |-> FALSE]]
  /\ info = [r \in Requests |-> [h \in Hostnames |-> Blank]]
  /\ wg = [r \in Requests |-> 0]
  /\ closer = [r \in Requests |-> "none"]
  /\ channel = [r \in Requests |-> <<>>]
  /\ listed = [r \in Requests |-> <<>>]
  /\ reply = [r \in Requests |-> "none"]

-----------------------------------------------------------------------------
(* The handlers *)

\* GET /modules and GET /ptp/status.
FanOut(r, kind) ==
  /\ pc[r] = "idle"
  /\ pc' = [pc EXCEPT ![r] = "collect"]
  /\ query' = [query EXCEPT ![r] = [kind |-> kind, host |-> Nas]]
  /\ worker' = [worker EXCEPT ![r] =
       [h \in Hostnames |-> IF h \in Asked(kind) THEN "start" ELSE "none"]]
  /\ wg' = [wg EXCEPT ![r] = Cardinality(Asked(kind))]
  /\ closer' = [closer EXCEPT ![r] = "waiting"]
  /\ UNCHANGED <<truth, spent, info, channel, listed, reply>>

\* GET /modules/{hostname}.
GetModule(r, h) ==
  /\ pc[r] = "idle"
  /\ pc' = [pc EXCEPT ![r] = "single"]
  /\ query' = [query EXCEPT ![r] = [kind |-> "one", host |-> h]]
  /\ worker' = [worker EXCEPT ![r][h] = "start"]
  /\ UNCHANGED <<truth, spent, info, syncVars, reply>>

\* wg.Wait returns in the closer.
Close(r) ==
  /\ closer[r] = "waiting" /\ wg[r] = 0
  /\ closer' = [closer EXCEPT ![r] = "closed"]
  /\ UNCHANGED <<handlerVars, worker, spent, info, wg, channel, listed>>

\* range statusChan.
Collect(r) ==
  /\ pc[r] = "collect" /\ channel[r] # <<>>
  /\ listed' = [listed EXCEPT ![r] = Append(@, Head(channel[r]))]
  /\ channel' = [channel EXCEPT ![r] = Tail(@)]
  /\ UNCHANGED <<handlerVars, worker, spent, info, wg, closer>>

\* The channel is closed and empty: 200 with what was collected.
AnswerList(r) ==
  /\ pc[r] = "collect" /\ channel[r] = <<>> /\ closer[r] = "closed"
  /\ pc' = [pc EXCEPT ![r] = "replied"]
  /\ reply' = [reply EXCEPT ![r] = "ok"]
  /\ UNCHANGED <<truth, query, worker, spent, info, syncVars>>

\* 404 for an ERROR with no word of the services.
AnswerModule(r) ==
  /\ pc[r] = "single" /\ worker[r][query[r].host] = "sent"
  /\ pc' = [pc EXCEPT ![r] = "replied"]
  /\ LET known == info[r][query[r].host] IN
     reply' = [reply EXCEPT ![r] =
       IF known.status = "ERROR" /\ known.services["drs_sensor"] = "" THEN "not found" ELSE "ok"]
  /\ UNCHANGED <<truth, query, worker, spent, info, syncVars>>

-----------------------------------------------------------------------------
(* getModuleStatus, and the goroutines of GetPTPStatus *)

Goto(r, h, next) == worker' = [worker EXCEPT ![r][h] = next]
Learn(r, h, field, value) == info' = [info EXCEPT ![r][h] = [@ EXCEPT ![field] = value]]

\* A call without an answer: refused, or late and its context spent.
Miss(r, m) ==
  \E late \in BOOLEAN : spent' = [spent EXCEPT ![r][m] = @ \/ late]

\* What is asked next; what a module has not enabled is passed over.
FromRecording(m) == IF m # Nas /\ BridgeEnabled THEN "recording" ELSE "judge"
FromServices(m) == IF Watches(m, "services") THEN "services" ELSE FromRecording(m)
FromPTP(m) == IF Watches(m, "ptp") THEN "ptp" ELSE FromServices(m)
FromDisks(m) == IF Watches(m, "disk") THEN "disks" ELSE FromPTP(m)

\* GetModuleClients fails, as it does for a host that is not configured: ERROR
\* and nothing else, or no PTP status at all.
NoClients(r, h) ==
  /\ worker[r][h] = "start"
  /\ IF query[r].kind = "ptp" THEN Goto(r, h, "sent") /\ UNCHANGED info
     ELSE Goto(r, h, "send") /\ Learn(r, h, "status", "ERROR")
  /\ UNCHANGED <<handlerVars, spent, syncVars>>

Clients(r, m) ==
  /\ worker[r][m] = "start" /\ m \in Modules
  /\ Goto(r, m, IF query[r].kind = "ptp" THEN "ptp" ELSE "env")
  /\ UNCHANGED <<handlerVars, spent, info, syncVars>>

GetEnvironment(r, m) ==
  /\ worker[r][m] = "env"
  /\ Miss(r, m) \/ UNCHANGED spent
  /\ Goto(r, m, FromDisks(m))
  /\ UNCHANGED <<handlerVars, info, syncVars>>

\* The first disk of the list stands for the module.
ListDisks(r, m) ==
  /\ worker[r][m] = "disks"
  /\ \/ /\ ~ spent[r][m] /\ UNCHANGED spent
        /\ \E usage \in Usages : Learn(r, m, "disk", usage)
        /\ Goto(r, m, FromPTP(m))
     \/ Miss(r, m) /\ Goto(r, m, "usage") /\ UNCHANGED info
  /\ UNCHANGED <<handlerVars, syncVars>>

\* The fallback, with what is left of the deadline.
GetDiskUsage(r, m) ==
  /\ worker[r][m] = "usage"
  /\ \/ /\ ~ spent[r][m] /\ UNCHANGED spent
        /\ \E usage \in Usages : Learn(r, m, "disk", usage)
     \/ Miss(r, m) /\ UNCHANGED info
  /\ Goto(r, m, FromPTP(m))
  /\ UNCHANGED <<handlerVars, syncVars>>

PTPAnswered(r, m) ==
  /\ worker[r][m] = "ptp" /\ ~ spent[r][m]
  /\ \E ptp \in {"synced", "off"} : Learn(r, m, "ptp", ptp)
  /\ Goto(r, m, IF query[r].kind = "ptp" THEN "send" ELSE FromServices(m))
  /\ UNCHANGED <<handlerVars, spent, syncVars>>

\* Slip: an early return before wg.Done was deferred.
PTPMissedUncounted(r, m) ==
  /\ worker[r][m] = "ptp"
  /\ Miss(r, m)
  /\ Goto(r, m, IF query[r].kind = "ptp" THEN "done" ELSE FromServices(m))
  /\ UNCHANGED <<handlerVars, info, syncVars>>

\* A module that fails to respond is skipped.
PTPMissed(r, m) ==
  /\ worker[r][m] = "ptp"
  /\ Miss(r, m)
  /\ Goto(r, m, IF query[r].kind = "ptp" THEN "sent" ELSE FromServices(m))
  /\ UNCHANGED <<handlerVars, info, syncVars>>

\* The module-manager's ListServices: a service that cannot be read is left out.
Listed(m) == {s \in Services : truth[m][s] # "unread"}

\* deriveTransferringStatus: a oneshot service is "activating" while it runs.
Transferring(state) ==
  IF state \in {"active", "activating"} THEN "transferring"
  ELSE IF state = "failed" THEN "failed" ELSE "stopped"

\* What the states of the services in the list become, and of those not in it.
Shown(m, known, otherwise) ==
  [s \in Services |->
    IF s \notin known THEN otherwise
    ELSE IF s = "drs_transfer_service" THEN Transferring(truth[m][s]) ELSE truth[m][s]]

\* Slip: ListServices on the context of the calls before it.
ServicesOnSpentContext(r, m) ==
  Shown(m, IF spent[r][m] THEN {} ELSE Listed(m), "unknown")

\* getServiceStatus: on a context of its own, "unknown" without an answer.
ServicesFound(r, m) == Shown(m, Listed(m), "unknown")

ListServices(r, m) ==
  /\ worker[r][m] = "services"
  /\ Learn(r, m, "services", ServicesFound(r, m))
  /\ Goto(r, m, FromRecording(m))
  /\ UNCHANGED <<handlerVars, spent, syncVars>>

\* The module's id and the bridge's list, answered or not.
GetRecording(r, m) ==
  /\ worker[r][m] = "recording"
  /\ Goto(r, m, "judge")
  /\ UNCHANGED <<handlerVars, spent, info, syncVars>>

\* A transfer that is inactive is the normal case.
Wanted == Services \cap {"drs_sensor", "drs_recorder"}

\* determineOverallStatus: the first that applies.
Overall(known) ==
  IF \E s \in Services : known.services[s] = "failed" THEN "ERROR"
  ELSE IF known.ptp = "off" \/ \E s \in Wanted : known.services[s] = "inactive" THEN "WARN"
  ELSE IF known.disk = "above 90" THEN "ERROR"
  ELSE IF known.disk = "above 80" THEN "WARN" ELSE "OK"

Judge(r, m) ==
  /\ worker[r][m] = "judge"
  /\ Learn(r, m, "status", Overall(info[r][m]))
  /\ Goto(r, m, "send")
  /\ UNCHANGED <<handlerVars, spent, syncVars>>

\* Slip: the goroutines share the loop's variable.
LastHost(r, h) == CHOOSE last \in Asked(query[r].kind) : TRUE
OwnHost(r, h) == h

\* The status goes to the channel, which has room for one of each goroutine;
\* GetModule returns it.
Send(r, h) ==
  /\ worker[r][h] = "send"
  /\ IF query[r].kind = "one" THEN UNCHANGED channel
     ELSE /\ Len(channel[r]) < Cardinality(Asked(query[r].kind))
          /\ channel' = [channel EXCEPT ![r] = Append(@, OwnHost(r, h))]
  /\ Goto(r, h, "sent")
  /\ UNCHANGED <<handlerVars, spent, info, wg, closer, listed>>

\* The deferred wg.Done.
Done(r, h) ==
  /\ query[r].kind # "one" /\ worker[r][h] = "sent"
  /\ Goto(r, h, "done")
  /\ wg' = [wg EXCEPT ![r] = @ - 1]
  /\ UNCHANGED <<handlerVars, spent, info, closer, channel, listed>>

-----------------------------------------------------------------------------
Ask(r, m) ==
  \/ Clients(r, m) \/ GetEnvironment(r, m) \/ ListDisks(r, m) \/ GetDiskUsage(r, m)
  \/ PTPAnswered(r, m) \/ PTPMissed(r, m) \/ ListServices(r, m) \/ GetRecording(r, m)
  \/ Judge(r, m)

Worker(r, h) == NoClients(r, h) \/ Ask(r, h) \/ Send(r, h) \/ Done(r, h)

Handler(r) == Close(r) \/ Collect(r) \/ AnswerList(r) \/ AnswerModule(r)

Next ==
  \E r \in Requests :
    \/ \E kind \in {"all", "ptp"} : FanOut(r, kind)
    \/ Handler(r)
    \/ \E h \in Hostnames : GetModule(r, h) \/ Worker(r, h)

Spec == Init /\ [][Next]_vars

\* The goroutines run on, and a call ends at its deadline.
FairSpec ==
  /\ Spec
  /\ \A r \in Requests :
       /\ WF_vars(Close(r)) /\ WF_vars(Collect(r) \/ AnswerList(r)) /\ WF_vars(AnswerModule(r))
       /\ \A h \in Hostnames : WF_vars(Worker(r, h))

-----------------------------------------------------------------------------
(* Properties *)

\* The types; a WaitGroup that became negative would panic.
TypeOK ==
  /\ pc \in [Requests -> {"idle", "collect", "single", "replied"}]
  /\ worker \in [Requests -> [Hostnames ->
       {"none", "start", "env", "disks", "usage", "ptp", "services", "recording", "judge",
        "send", "sent", "done"}]]
  /\ info \in [Requests -> [Hostnames ->
       [services : [Services -> States \cup {"", "unknown", "transferring", "stopped"}],
        disk : Usages, ptp : {"none", "synced", "off"}, status : {"", "OK", "WARN", "ERROR"}]]]
  /\ spent \in [Requests -> [Hostnames -> BOOLEAN]]
  /\ wg \in [Requests -> Nat]
  /\ closer \in [Requests -> {"none", "waiting", "closed"}]
  /\ reply \in [Requests -> {"none", "ok", "not found"}]
  /\ \A r \in Requests : channel[r] \in Seq(Modules) /\ listed[r] \in Seq(Modules)

\* The list of all modules has each of them once, and the PTP list each that has
\* answered once, whatever the order in which the goroutines end.
NothingLost ==
  \A r \in Requests :
    reply[r] = "ok" /\ query[r].kind # "one" =>
      \A m \in Modules :
        Cardinality({i \in DOMAIN listed[r] : listed[r][i] = m}) =
          IF query[r].kind = "all" \/ info[r][m].ptp # "none" THEN 1 ELSE 0

\* No goroutine has a status left to send when the channel is closed.
NoSendAfterClose ==
  \A r \in Requests :
    closer[r] = "closed" => \A h \in Hostnames : worker[r][h] \in {"none", "done"}

\* A request never gets stuck: a fan-out has something to collect, or can be told
\* that there is no more, or waits for a goroutine that is still there; who sends
\* finds room on the channel; GetModule's work is never behind it.
NeverStuck ==
  \A r \in Requests :
    /\ pc[r] = "collect" =>
         \/ channel[r] # <<>> \/ closer[r] = "closed" \/ wg[r] = 0
         \/ \E h \in Hostnames : worker[r][h] \notin {"none", "done"}
    /\ pc[r] = "single" => worker[r][query[r].host] \notin {"none", "done"}
    /\ \A h \in Hostnames :
         worker[r][h] = "send" /\ query[r].kind # "one"
           => Len(channel[r]) < Cardinality(Asked(query[r].kind))

\* A failed service that a module's list tells of is shown as an ERROR, however
\* slow or bad its disks and its PTP are.
FailureIsShown ==
  \A r \in Requests, m \in Modules :
    /\ \E s \in Services : truth[m][s] = "failed"
    /\ Watches(m, "services")
    /\ query[r].kind # "ptp" /\ worker[r][m] \in {"sent", "done"}
    => info[r][m].status = "ERROR"

\* "Module not found or unreachable": a 404 is for a host of which nothing is known,
\* because it is not configured or none of its answers arrived.
NotFoundMeansUnreachable ==
  \A r \in Requests :
    reply[r] = "not found" =>
      [info[r][query[r].host] EXCEPT !.status = Blank.status] = Blank

\* Every query is answered.
EveryRequestEnds == \A r \in Requests : pc[r] # "idle" ~> pc[r] = "replied"
=============================================================================
