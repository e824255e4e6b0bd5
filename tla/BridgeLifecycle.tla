--------------------------- MODULE BridgeLifecycle ---------------------------
(***************************************************************************)
(* The life of the ROS2 bridge's process.  main makes the gRPC server and  *)
(* its handlers, starts it, leaves the waiting for its end to a thread and *)
(* spins the ROS node, whose callbacks take a mutex that calls take too:    *)
(* recordings_mutex_ and position_mutex_, one of each handler.             *)
(* A signal interrupts a thread wherever it is, stops the server and shuts *)
(* ROS down from inside its handler, and main cleans up when spin returns. *)
(*                                                                         *)
(* What is not safe in a signal handler, its allocations and its logging,  *)
(* may hang it when the thread it interrupts does the same.                *)
(***************************************************************************)
EXTENDS Sequences

CONSTANTS Signals,  \* SIGINT and SIGTERM, each raised once or never
          Pollers   \* threads of the gRPC server

ASSUME ThreadsAssumption ==
  {"main", "waiter"} \cap Pollers = {} /\ {"exit", "nobody"} \cap Signals = {}

VARIABLES
  main,      \* where main is
  waiter,    \* the thread that calls g_server->Wait()
  poller,    \* what each thread of the gRPC server does
  mutex,     \* who holds each mutex
  handlers,  \* the service handlers
  server,    \* the gRPC server
  shutter,   \* who is in its Shutdown, which others wait for
  started,   \* started_
  context,   \* the ROS context is valid
  stop,      \* where each call of GrpcServer::Stop is: main's, and the handlers'
  stack,     \* the signal handlers on each thread
  hit        \* where each signal has found the process

serverVars == <<server, shutter, started>>
threadVars == <<main, waiter, poller, mutex, handlers>>
signalVars == <<stack, hit>>
vars == <<main, waiter, poller, mutex, handlers, server, shutter, started, context,
          stop, stack, hit>>

Threads == {"main", "waiter"} \cup Pollers
Callers == Signals \cup {"exit"}
Mutexes == {"recordings", "position"}

Init ==
  /\ main = "create" /\ waiter = "none"
  /\ poller = [p \in Pollers |-> "none"]
  /\ mutex = [x \in Mutexes |-> "free"] /\ handlers = "none"
  /\ server = "none" /\ shutter = "nobody" /\ started = FALSE /\ context = TRUE
  /\ stop = [c \in Callers |-> "none"]
  /\ stack = [t \in Threads |-> <<>>]
  /\ hit = [s \in Signals |-> "nothing"]

Ended == main \in {"exited", "aborted"}

\* No signal handler is on the thread.
Runs(t) == stack[t] = <<>> /\ ~ Ended

-----------------------------------------------------------------------------
(* GrpcServer *)

\* The thread that executes a call of Stop can go on.
Executes(c) ==
  /\ ~ Ended
  /\ IF c = "exit" THEN Runs("main")
     ELSE \E t \in Threads : stack[t] # <<>> /\ Head(stack[t]) = c

StopTo(c, next) == stop' = [stop EXCEPT ![c] = next]

\* Slip: started_ is cleared before the server is shut down.
StopClearsFirst(c) ==
  /\ stop[c] = "check" /\ Executes(c)
  /\ IF server # "none" /\ started
     THEN StopTo(c, "shutdown") /\ started' = FALSE
     ELSE StopTo(c, "left") /\ UNCHANGED started
  /\ UNCHANGED <<threadVars, signalVars, server, shutter, context>>

Stop(c) ==
  /\ stop[c] = "check" /\ Executes(c)
  /\ StopTo(c, IF server # "none" /\ started THEN "shutdown" ELSE "left")
  /\ UNCHANGED <<threadVars, signalVars, serverVars, context>>

\* grpc::Server::Shutdown: one at a time; no new calls, and no deadline.
Shutdown(c) ==
  /\ stop[c] = "shutdown" /\ Executes(c) /\ shutter = "nobody"
  /\ IF server = "up"
     THEN /\ server' = "closing" /\ shutter' = c /\ StopTo(c, "waiting")
     ELSE StopTo(c, "clear") /\ UNCHANGED <<server, shutter>>
  /\ UNCHANGED <<threadVars, signalVars, started, context>>

\* It returns when all calls have ended and with them the server's threads.
ShutdownReturns(c) ==
  /\ stop[c] = "waiting" /\ Executes(c)
  /\ \A p \in Pollers : poller[p] = "idle" /\ stack[p] = <<>>
  /\ server' = "down" /\ shutter' = "nobody"
  /\ poller' = [p \in Pollers |-> "none"]
  /\ StopTo(c, "clear")
  /\ UNCHANGED <<main, waiter, mutex, handlers, started, context, signalVars>>

ClearStarted(c) ==
  /\ stop[c] = "clear" /\ Executes(c)
  /\ started' = FALSE
  /\ StopTo(c, "left")
  /\ UNCHANGED <<threadVars, signalVars, server, shutter, context>>

\* The thread of GrpcServer::Wait.
Wait ==
  /\ Runs("waiter")
  /\ \/ waiter = "check" /\ waiter' = IF server # "none" /\ started THEN "waiting" ELSE "done"
     \/ waiter = "waiting" /\ server = "down" /\ waiter' = "done"
  /\ UNCHANGED <<main, poller, mutex, handlers, serverVars, context, stop, signalVars>>

Released(t) == [x \in Mutexes |-> IF mutex[x] = t THEN "free" ELSE mutex[x]]

\* The calls of both services: one that takes no mutex, a command or ListNodes,
\* or a reading that waits for one.  A call begins only while the server is up.
Serve(p) ==
  /\ Runs(p)
  /\ \/ /\ poller[p] = "idle" /\ server = "up"
        /\ \E wanted \in Mutexes \cup {"unlocked"} : poller' = [poller EXCEPT ![p] = wanted]
        /\ UNCHANGED mutex
     \/ \E x \in Mutexes :
          /\ poller[p] = x /\ mutex[x] = "free"
          /\ poller' = [poller EXCEPT ![p] = "locked"]
          /\ mutex' = [mutex EXCEPT ![x] = p]
     \/ /\ poller[p] \in {"unlocked", "locked"}
        /\ poller' = [poller EXCEPT ![p] = "idle"]
        /\ mutex' = Released(p)
  /\ UNCHANGED <<main, waiter, handlers, serverVars, context, stop, signalVars>>

-----------------------------------------------------------------------------
(* main *)

Goto(from, next) == main = from /\ Runs("main") /\ main' = next

\* The process is made to end by what main returns; the handlers go first.
Leave == handlers' = IF handlers = "none" THEN "none" ELSE "destroyed"

\* The server object, then the handlers, whose publishers and subscriptions
\* throw when a signal has shut ROS down already: exit code 1.
MakeHandlers ==
  /\ \/ Goto("create", "build") /\ context /\ handlers' = "alive"
     \/ Goto("create", "exited") /\ ~ context /\ Leave
  /\ UNCHANGED <<waiter, poller, mutex, serverVars, context, stop, signalVars>>

\* BuildAndStart may fail: exit code 1.  When it does not, calls come in.
BuildAndStart ==
  /\ \/ /\ Goto("build", "mark")
        /\ server' = "up" /\ poller' = [p \in Pollers |-> "idle"]
        /\ UNCHANGED handlers
     \/ Goto("build", "exited") /\ Leave /\ UNCHANGED <<server, poller>>
  /\ UNCHANGED <<waiter, mutex, shutter, started, context, stop, signalVars>>

MarkStarted ==
  /\ Goto("mark", "spawn")
  /\ started' = TRUE
  /\ UNCHANGED <<waiter, poller, mutex, handlers, server, shutter, context, stop, signalVars>>

StartWaiter ==
  /\ Goto("spawn", "enter")
  /\ waiter' = "check"
  /\ UNCHANGED <<poller, mutex, handlers, serverVars, context, stop, signalVars>>

\* rclcpp::spin.  On a context that is shut down it returns, or its executor
\* throws and the thread, not joined, ends the process by std::terminate.
Spin ==
  /\ \/ Goto("enter", "spin") /\ context
     \/ Goto("enter", "aborted") /\ ~ context
  /\ UNCHANGED <<waiter, poller, mutex, handlers, serverVars, context, stop, signalVars>>

\* recorderStatusCallback, navSatFixCallback.
BeginCallback(x) ==
  /\ Goto("spin", "callback") /\ context /\ mutex[x] = "free"
  /\ mutex' = [mutex EXCEPT ![x] = "main"]
  /\ UNCHANGED <<waiter, poller, handlers, serverVars, context, stop, signalVars>>

EndCallback ==
  /\ Goto("callback", "spin")
  /\ mutex' = Released("main")
  /\ UNCHANGED <<waiter, poller, handlers, serverVars, context, stop, signalVars>>

SpinReturns ==
  /\ main \in {"enter", "spin"} /\ Goto(main, "stop") /\ ~ context
  /\ StopTo("exit", "check")
  /\ UNCHANGED <<waiter, poller, mutex, handlers, serverVars, context, signalVars>>

\* The thread is joined; the handlers are destroyed where the try block ends.
Join ==
  /\ Goto("stop", "exited") /\ stop["exit"] = "left" /\ waiter = "done"
  /\ Leave
  /\ UNCHANGED <<waiter, poller, mutex, serverVars, context, stop, signalVars>>

-----------------------------------------------------------------------------
(* signalHandler *)

Lives(t) ==
  CASE t = "main" -> TRUE
    [] t = "waiter" -> waiter \in {"check", "waiting"}
    [] OTHER -> poller[t] # "none"

\* What a signal interrupts.
Place(t) ==
  IF t = "main"
  THEN CASE main = "spin" -> "main at rest"
         [] main \in {"callback", "stop"} -> main
         [] OTHER -> "startup"
  ELSE IF t = "waiter" THEN "waiter" ELSE "server"

\* The signal comes to any thread that no signal has interrupted before, or to
\* main once more; its handler logs, and hangs if the thread was just logging.
Raise(s, t) ==
  /\ hit[s] = "nothing" /\ ~ Ended /\ Lives(t)
  /\ t = "main" \/ stack[t] = <<>>
  /\ stack' = [stack EXCEPT ![t] = <<s>> \o @]
  /\ \/ hit' = [hit EXCEPT ![s] = Place(t)] /\ StopTo(s, "check")
     \/ /\ t # "main" \/ main \notin {"spin", "stop"} \/ stack["main"] # <<>>
        /\ hit' = [hit EXCEPT ![s] = "logging"] /\ StopTo(s, "hung")
  /\ UNCHANGED <<threadVars, serverVars, context>>

\* Slip: ROS is shut down only by a handler that has stopped the server.
ReturnWithoutRos(s) ==
  /\ stop[s] = "left" /\ Executes(s)
  /\ context' = (context /\ server # "down")
  /\ StopTo(s, "returned")
  /\ stack' = [t \in Threads |->
       IF stack[t] # <<>> /\ Head(stack[t]) = s THEN Tail(stack[t]) ELSE stack[t]]
  /\ UNCHANGED <<threadVars, serverVars, hit>>

\* rclcpp::shutdown, and the thread goes on where it was.
Return(s) ==
  /\ stop[s] = "left" /\ Executes(s)
  /\ context' = FALSE
  /\ StopTo(s, "returned")
  /\ stack' = [t \in Threads |->
       IF stack[t] # <<>> /\ Head(stack[t]) = s THEN Tail(stack[t]) ELSE stack[t]]
  /\ UNCHANGED <<threadVars, serverVars, hit>>

-----------------------------------------------------------------------------
Main ==
  \/ MakeHandlers \/ BuildAndStart \/ MarkStarted \/ StartWaiter
  \/ Spin \/ SpinReturns \/ Join

Stopping(c) == Stop(c) \/ Shutdown(c) \/ ShutdownReturns(c) \/ ClearStarted(c)

Next ==
  \/ Main \/ EndCallback \/ Wait
  \/ \E x \in Mutexes : BeginCallback(x)
  \/ \E p \in Pollers : Serve(p)
  \/ \E c \in Callers : Stopping(c)
  \/ \E s \in Signals : Return(s) \/ \E t \in Threads : Raise(s, t)

Spec == Init /\ [][Next]_vars

\* Every thread runs on, its signal handler first, and a thread that waits for
\* the mutex gets it.  Signals, calls and messages need not come.
FairSpec ==
  /\ Spec
  /\ WF_vars(Main) /\ WF_vars(EndCallback) /\ WF_vars(Wait)
  /\ \A p \in Pollers : SF_vars(poller[p] # "idle" /\ Serve(p))
  /\ \A c \in Callers : WF_vars(Stopping(c))
  /\ \A s \in Signals : WF_vars(Return(s))

-----------------------------------------------------------------------------
(* Properties *)

TypeOK ==
  /\ main \in {"create", "build", "mark", "spawn", "enter", "spin", "callback", "stop",
               "exited", "aborted"}
  /\ waiter \in {"none", "check", "waiting", "done"}
  /\ poller \in [Pollers -> {"none", "idle", "unlocked", "locked"} \cup Mutexes]
  /\ mutex \in [Mutexes -> Pollers \cup {"free", "main"}]
  /\ handlers \in {"none", "alive", "destroyed"}
  /\ server \in {"none", "up", "closing", "down"}
  /\ shutter \in Callers \cup {"nobody"}
  /\ started \in BOOLEAN /\ context \in BOOLEAN
  /\ stop \in [Callers -> {"none", "check", "shutdown", "waiting", "clear", "left",
                           "returned", "hung"}]
  /\ stack \in [Threads -> Seq(Signals)]
  /\ hit \in [Signals -> {"nothing", "main at rest", "callback", "stop", "startup",
                          "waiter", "server", "logging"}]

\* No call runs in a handler that main has destroyed, wherever and however often
\* signals have interrupted the process, and whoever has stopped the server.
HandlersOutliveCalls ==
  handlers = "destroyed" => \A p \in Pollers : poller[p] \in {"none", "idle"}

\* A signal ends the process, also one that comes before there is a server to
\* stop: unless it has interrupted the callback or a thread of the server, whose
\* calls Shutdown then waits for in vain, or another one follows.
SignalEndsProcess ==
  \A s \in Signals :
    /\ hit[s] \in {"main at rest", "startup", "waiter"}
    /\ \A q \in Signals \ {s} : hit[q] = "nothing"
    ~> Ended \/ \E q \in Signals \ {s} : hit[q] # "nothing"
=============================================================================
