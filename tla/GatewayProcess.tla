---------------------------- MODULE GatewayProcess ----------------------------
(***************************************************************************)
(* The gateway's process around its client manager: main loads the         *)
(* configuration, serves HTTP until a signal comes, gives the requests     *)
(* under way ten seconds (http.Server.Shutdown) and closes the manager.    *)
(* Handlers and the health check at the start are the manager's callers:   *)
(* each asks for clients and makes its call over the connection it got.    *)
(*                                                                         *)
(* log.Fatalf ends the process at once, without the deferred Close.  What  *)
(* the operating system then closes is not modelled.                       *)
(***************************************************************************)
EXTENDS ClientManager

CONSTANTS Main, Health   \* the threads that are no handlers

ASSUME ThreadsAssumption == Main \in Threads /\ Health \in Threads /\ Main # Health

VARIABLES
  process,  \* "up", "exited" with Close, or "died" without
  main,     \* where main is
  quit,     \* a signal is in main's channel and not yet read
  stage,    \* what each caller does with the clients it asked for
  ask       \* the modules that the health check has still to ask

processVars == <<process, main, quit, stage, ask>>
gatewayVars == <<vars, processVars>>

Handlers == Threads \ {Main, Health}
Serving == {t \in Handlers : stage[t] # "free"}

GatewayInit ==
  /\ Init
  /\ process = "up" /\ main = "start" /\ quit = FALSE
  /\ stage = [t \in Threads |-> "free"]
  /\ ask = {}

-----------------------------------------------------------------------------
(* main *)

\* config.Load, or log.Fatalf when there is no file, or none that parses; then
\* the server, the health check and signal.Notify.
Load ==
  /\ main = "start"
  /\ \/ /\ main' = "waiting"
        /\ ask' = configured \ {Bridge}
        /\ UNCHANGED process
     \/ process' = "died" /\ UNCHANGED <<main, ask>>
  /\ UNCHANGED <<vars, quit, stage>>

\* SIGINT or SIGTERM: before signal.Notify it kills the process, afterwards it
\* waits in the channel.  Nobody reads a second one.
Raise ==
  /\ \/ main = "start" /\ process' = "died" /\ UNCHANGED quit
     \/ main = "waiting" /\ quit' = TRUE /\ UNCHANGED process
  /\ UNCHANGED <<vars, main, stage, ask>>

\* ListenAndServe cannot listen, which it finds out before anything is served:
\* log.Fatalf in its goroutine.
ServerFails ==
  /\ main = "waiting" /\ \A t \in Threads : stage[t] = "free"
  /\ process' = "died"
  /\ UNCHANGED <<vars, main, quit, stage, ask>>

Shutdown ==
  /\ main = "waiting" /\ quit
  /\ quit' = FALSE /\ main' = "shutdown"
  /\ UNCHANGED <<vars, process, stage, ask>>

\* Every connection of a client is idle: Shutdown returns, and the deferred
\* Close begins.
ShutdownReturns ==
  /\ main = "shutdown" /\ Serving = {}
  /\ main' = "closing"
  /\ CallClose(Main)
  /\ UNCHANGED <<configured, process, quit, stage, ask>>

\* Slip: a Shutdown that ran out of time is logged, and main goes on to Close.
ShutdownTimesOutAndCloses ==
  /\ main = "shutdown" /\ Serving # {}
  /\ main' = "closing"
  /\ CallClose(Main)
  /\ UNCHANGED <<configured, process, quit, stage, ask>>

\* Slip: Shutdown without a deadline.
ShutdownWaits == FALSE /\ UNCHANGED gatewayVars

\* The ten seconds are over: log.Fatalf.
ShutdownTimesOut ==
  /\ main = "shutdown" /\ Serving # {}
  /\ process' = "died"
  /\ UNCHANGED <<vars, main, quit, stage, ask>>

Exit ==
  /\ main = "closing" /\ pc[Main] = "idle"
  /\ process' = "exited"
  /\ UNCHANGED <<vars, main, quit, stage, ask>>

-----------------------------------------------------------------------------
(* The callers *)

\* A request comes; Shutdown still lets one in on a connection accepted before.
Accept(t) ==
  /\ t \in Handlers \ Serving /\ main \in {"waiting", "shutdown"}
  /\ stage' = [stage EXCEPT ![t] = "serving"]
  /\ UNCHANGED <<vars, process, main, quit, ask>>

\* A handler asks for the clients of a target ...
AskFor(t, k) ==
  /\ stage[t] = "serving"
  /\ stage' = [stage EXCEPT ![t] = "asked"]
  /\ Call(t, k)
  /\ UNCHANGED <<configured, process, main, quit, ask>>

\* ... and HealthCheck for those of the next module.
Check(k) ==
  /\ stage[Health] = "free" /\ k \in ask
  /\ ask' = ask \ {k}
  /\ stage' = [stage EXCEPT ![Health] = "asked"]
  /\ Call(Health, k)
  /\ UNCHANGED <<configured, process, main, quit>>

\* What a caller is when it has neither clients nor a call.
Between(t) == IF t = Health THEN "free" ELSE "serving"

\* The clients' call begins, or there are none.
Invoke(t) ==
  /\ stage[t] = "asked" /\ pc[t] = "idle"
  /\ stage' = [stage EXCEPT ![t] = IF got[t] = NoConn THEN Between(t) ELSE "calling"]
  /\ UNCHANGED <<vars, process, main, quit, ask>>

\* The call is answered, fails, or its deadline (GetContext) passes.
CallEnds(t) ==
  /\ stage[t] = "calling"
  /\ stage' = [stage EXCEPT ![t] = Between(t)]
  /\ UNCHANGED <<vars, process, main, quit, ask>>

Respond(t) ==
  /\ t \in Handlers /\ stage[t] = "serving"
  /\ stage' = [stage EXCEPT ![t] = "free"]
  /\ UNCHANGED <<vars, process, main, quit, ask>>

-----------------------------------------------------------------------------
\* The client manager's own steps, under the lock and before it.
Manage(t) == process = "up" /\ Run(t) /\ UNCHANGED processVars
GetLock(t) == process = "up" /\ Lock(t) /\ UNCHANGED processVars

MainStep ==
  /\ process = "up"
  /\ \/ Load \/ Shutdown \/ ShutdownReturns \/ ShutdownTimesOut \/ Exit

Caller(t) == process = "up" /\ (Invoke(t) \/ CallEnds(t))

GatewayNext ==
  \/ MainStep
  \/ process = "up" /\ (Raise \/ ServerFails)
  \/ \E t \in Threads : Manage(t) \/ GetLock(t) \/ Caller(t)
  \/ /\ process = "up"
     /\ \/ \E t \in Handlers : Accept(t) \/ Respond(t) \/ \E k \in Targets : AskFor(t, k)
        \/ \E k \in Targets : Check(k)

GatewaySpec == GatewayInit /\ [][GatewayNext]_gatewayVars

\* Every goroutine that can run does, and sync.Mutex, which the writers queue
\* on, lets none of them wait for ever.  Nothing is assumed of how long a
\* handler works, nor of a module that is called.
FairGateway ==
  /\ GatewaySpec
  /\ WF_gatewayVars(MainStep)
  /\ \A t \in Threads : WF_gatewayVars(Manage(t)) /\ SF_gatewayVars(GetLock(t))

-----------------------------------------------------------------------------
(* Properties *)

\* The types of what main and its goroutines keep.
GatewayTypeOK ==
  /\ process \in {"up", "exited", "died"}
  /\ main \in {"start", "waiting", "shutdown", "closing"}
  /\ quit \in BOOLEAN
  /\ stage \in [Threads -> {"free", "serving", "asked", "calling"}]
  /\ ask \in SUBSET Targets

\* The connection a handler calls over is open until the call has ended: the
\* Close at the end of main never takes it away.  (From the health check, which
\* nobody waits for, it may.)
ConnectionsOutliveCalls ==
  \A t \in Handlers : stage[t] = "calling" => <<want[t], got[t]>> \in open

\* Every use of the manager comes back while the process is there: no thread
\* waits for ever on the lock, however long other callers' calls take.
EveryCallReturns ==
  \A t \in Threads : pc[t] # "idle" ~> pc[t] = "idle" \/ process # "up"

\* A signal that was taken in ends the process, whatever the handlers do, and
\* however long the modules they call take.
SignalEndsGateway == quit ~> process # "up"
=============================================================================
