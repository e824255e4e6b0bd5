------------------------ MODULE BridgeLifecycle_proofs ------------------------
(***************************************************************************)
(* No call of the ROS2 bridge runs in a destroyed handler, for any number  *)
(* of signals and of server threads.  main leaves its try block either     *)
(* before there is a server or after a Stop; a Stop that does nothing is   *)
(* one that finds started_ false, and then a Stop has gone all the way.    *)
(*                                                                         *)
(* The sensing handler lives in that process, and by position_mutex_ a     *)
(* position and its time are one for whoever reads them.                   *)
(***************************************************************************)
EXTENDS SensingHandler, TLAPS

\* Where main is, and what there is of the server then.
MainInv ==
  /\ main \in {"create", "build"} => server = "none" /\ ~ started
  /\ main \in {"create", "build", "mark"} => handlers # "destroyed"
  /\ main \in {"mark", "spawn", "enter", "spin", "callback", "stop"} => server # "none"
  /\ main \in {"spawn", "enter", "spin", "callback", "stop"} => started \/ server = "down"
  /\ stop["exit"] # "none" => main \in {"stop", "exited"}

\* How far the server is when a call of Stop is at each of its steps.
StopInv ==
  /\ server = "closing" => shutter # "nobody"
  /\ \A c \in Callers : stop[c] \in {"shutdown", "waiting"} => server # "none"
  /\ \A c \in Callers : stop[c] = "clear" => server = "down"
  /\ stop["exit"] = "left" => server = "down"

\* Without a server there are no calls, and without handlers there is none.
ServerInv ==
  /\ server \in {"none", "down"} => \A p \in Pollers : poller[p] = "none"
  /\ handlers = "destroyed" => Ended /\ server \in {"none", "down"}

IInv == TypeOK /\ MainInv /\ StopInv /\ ServerInv

\* TypeOK in three parts: the stacks, the flags, and all the rest.
StackTypeOK == stack \in [Threads -> Seq(Signals)]
FlagTypeOK == started \in BOOLEAN /\ context \in BOOLEAN

PlainTypeOK ==
  /\ main \in {"create", "build", "mark", "spawn", "enter", "spin", "callback", "stop",
               "exited", "aborted"}
  /\ waiter \in {"none", "check", "waiting", "done"}
  /\ poller \in [Pollers -> {"none", "idle", "unlocked", "locked"} \cup Mutexes]
  /\ mutex \in [Mutexes -> Pollers \cup {"free", "main"}]
  /\ handlers \in {"none", "alive", "destroyed"}
  /\ server \in {"none", "up", "closing", "down"}
  /\ shutter \in Callers \cup {"nobody"}
  /\ stop \in [Callers -> {"none", "check", "shutdown", "waiting", "clear", "left",
                           "returned", "hung"}]
  /\ hit \in [Signals -> {"nothing", "main at rest", "callback", "stop", "startup",
                          "waiter", "server", "logging"}]

-----------------------------------------------------------------------------
\* The initial state has the invariant: no server, no handlers, nobody stopping.
LEMMA InitInv == Init => IInv
<1> SUFFICES ASSUME Init PROVE IInv
  OBVIOUS
<1>1. StackTypeOK
  BY DEF Init, StackTypeOK
<1>2. PlainTypeOK
  BY DEF Init, PlainTypeOK
<1>3. MainInv /\ StopInv /\ ServerInv
  <2>1. "exit" \in Callers
    BY DEF Callers
  <2> QED BY <2>1 DEF Init, MainInv, StopInv, ServerInv
<1>4. FlagTypeOK
  BY Zenon DEF Init, FlagTypeOK
<1> QED BY <1>1, <1>2, <1>3, <1>4, Zenon DEF IInv, TypeOK, StackTypeOK, PlainTypeOK, FlagTypeOK

-----------------------------------------------------------------------------
\* Every step keeps the types of all but the stacks and the flags ...
LEMMA PlainTypeStep == TypeOK /\ [Next]_vars => PlainTypeOK'
<1> SUFFICES ASSUME TypeOK, [Next]_vars PROVE PlainTypeOK'
  OBVIOUS
<1>0. PlainTypeOK
  BY DEF TypeOK, PlainTypeOK
<1> USE <1>0 DEF PlainTypeOK, serverVars, threadVars, signalVars, StopTo
<1>1. ASSUME Main PROVE PlainTypeOK'
  <2>0. "exit" \in Callers
    BY DEF Callers
  <2>1. CASE MakeHandlers
    BY <2>1 DEF MakeHandlers, Goto, Leave
  <2>2. CASE BuildAndStart
    <3>1. UNCHANGED <<waiter, mutex, shutter, stop, hit>>
      BY <2>2 DEF BuildAndStart
    <3>2. poller' \in [Pollers -> {"none", "idle", "unlocked", "locked"} \cup Mutexes]
      BY <2>2 DEF BuildAndStart
    <3>3. /\ main' \in {"mark", "exited"} /\ server' \in {"up", server}
          /\ handlers' \in {"none", "destroyed", handlers}
      BY <2>2 DEF BuildAndStart, Goto, Leave
    <3> QED BY <3>1, <3>2, <3>3
  <2>3. CASE MarkStarted \/ StartWaiter \/ Spin
    BY <2>3 DEF MarkStarted, StartWaiter, Spin, Goto
  <2>4. CASE SpinReturns
    BY <2>0, <2>4 DEF SpinReturns, Goto
  <2>5. CASE Join
    BY <2>5 DEF Join, Goto, Leave
  <2> QED BY <1>1, <2>1, <2>2, <2>3, <2>4, <2>5 DEF Main
<1>2. CASE EndCallback \/ \E x \in Mutexes : BeginCallback(x)
  BY <1>2 DEF EndCallback, BeginCallback, Goto, Released
<1>3. CASE Wait
  BY <1>3 DEF Wait
<1>4. ASSUME NEW p \in Pollers, Serve(p) PROVE PlainTypeOK'
  <2>1. \E doing \in {"idle", "unlocked", "locked"} \cup Mutexes : poller' = [poller EXCEPT ![p] = doing]
    BY <1>4 DEF Serve
  <2>2. mutex' \in [Mutexes -> Pollers \cup {"free", "main"}]
    <3>1. Released(p) \in [Mutexes -> Pollers \cup {"free", "main"}]
      BY DEF Released
    <3>2. \A x \in Mutexes : [mutex EXCEPT ![x] = p] \in [Mutexes -> Pollers \cup {"free", "main"}]
      OBVIOUS
    <3>3. mutex' \in {mutex, Released(p)} \/ \E x \in Mutexes : mutex' = [mutex EXCEPT ![x] = p]
      BY <1>4 DEF Serve
    <3> QED BY <3>1, <3>2, <3>3
  <2>3. UNCHANGED <<main, waiter, handlers, server, shutter, stop, hit>>
    BY <1>4 DEF Serve
  <2>4. poller' \in [Pollers -> {"none", "idle", "unlocked", "locked"} \cup Mutexes]
    BY <2>1
  <2> QED BY <2>2, <2>3, <2>4
<1>5. ASSUME NEW c \in Callers, Stopping(c) PROVE PlainTypeOK'
  <2>1. CASE Stop(c)
    BY <1>5, <2>1 DEF Stop
  <2>2. CASE Shutdown(c)
    BY <1>5, <2>2 DEF Shutdown
  <2>3. CASE ShutdownReturns(c)
    BY <1>5, <2>3 DEF ShutdownReturns
  <2>4. CASE ClearStarted(c)
    BY <1>5, <2>4 DEF ClearStarted
  <2> QED BY <1>5, <2>1, <2>2, <2>3, <2>4 DEF Stopping
<1>6. ASSUME NEW s \in Signals, Return(s) PROVE PlainTypeOK'
  BY <1>6 DEF Return, Callers
<1>7. ASSUME NEW s \in Signals, NEW t \in Threads, Raise(s, t) PROVE PlainTypeOK'
  <2>1. Place(t) \in {"main at rest", "callback", "stop", "startup", "waiter", "server"}
    BY DEF Place
  <2>2. s \in Callers
    BY DEF Callers
  <2>3. \E place \in {Place(t), "logging"} : hit' = [hit EXCEPT ![s] = place]
    BY <1>7 DEF Raise
  <2>4. \E next \in {"check", "hung"} : stop' = [stop EXCEPT ![s] = next]
    BY <1>7 DEF Raise
  <2>5. UNCHANGED <<main, waiter, poller, mutex, handlers, server, shutter>>
    BY <1>7 DEF Raise
  <2>6. hit' \in [Signals -> {"nothing", "main at rest", "callback", "stop", "startup",
                              "waiter", "server", "logging"}]
    BY <2>1, <2>3
  <2>7. stop' \in [Callers -> {"none", "check", "shutdown", "waiting", "clear", "left",
                               "returned", "hung"}]
    BY <2>2, <2>4
  <2> QED BY <2>5, <2>6, <2>7
<1>8. CASE UNCHANGED vars
  BY <1>8 DEF vars
<1> QED BY <1>1, <1>2, <1>3, <1>4, <1>5, <1>6, <1>7, <1>8 DEF Next

\* ... and the stacks, which signals and their handlers alone change.
LEMMA StackStep == TypeOK /\ [Next]_vars => StackTypeOK'
<1> SUFFICES ASSUME TypeOK, [Next]_vars PROVE StackTypeOK'
  OBVIOUS
<1>0. stack \in [Threads -> Seq(Signals)]
  BY DEF TypeOK
<1> USE <1>0 DEF StackTypeOK
<1>1. ASSUME NEW s \in Signals, Return(s) PROVE StackTypeOK'
  <2>1. \A t \in Threads : stack[t] # <<>> => Tail(stack[t]) \in Seq(Signals)
    OBVIOUS
  <2> QED BY <1>1, <2>1 DEF Return
<1>2. ASSUME NEW s \in Signals, NEW t \in Threads, Raise(s, t) PROVE StackTypeOK'
  <2>1. <<s>> \o stack[t] \in Seq(Signals)
    OBVIOUS
  <2> QED BY <1>2, <2>1 DEF Raise
<1>3. ASSUME UNCHANGED stack PROVE StackTypeOK'
  BY <1>3
<1>4. Main \/ EndCallback \/ (\E x \in Mutexes : BeginCallback(x)) \/ Wait \/ (\E p \in Pollers : Serve(p)) => UNCHANGED stack
  BY DEF Main, MakeHandlers, BuildAndStart, MarkStarted, StartWaiter, Spin, SpinReturns, Join,
         EndCallback, BeginCallback, Wait, Serve, signalVars
<1>5. (\E c \in Callers : Stopping(c)) => UNCHANGED stack
  BY DEF Stopping, Stop, Shutdown, ShutdownReturns, ClearStarted, signalVars
<1> QED BY <1>1, <1>2, <1>3, <1>4, <1>5 DEF Next, vars

\* Every step keeps the flags Boolean.
LEMMA FlagStep == TypeOK /\ [Next]_vars => FlagTypeOK'
<1> SUFFICES ASSUME TypeOK, [Next]_vars PROVE FlagTypeOK'
  OBVIOUS
<1>0. started \in BOOLEAN /\ context \in BOOLEAN
  BY Zenon DEF TypeOK
<1>1. CASE Main
  BY <1>0, <1>1, Zenon DEF Main, MakeHandlers, BuildAndStart, MarkStarted, StartWaiter, Spin,
     SpinReturns, Join, FlagTypeOK, serverVars
<1>2. CASE EndCallback \/ (\E x \in Mutexes : BeginCallback(x)) \/ Wait \/ \E p \in Pollers : Serve(p)
  BY <1>0, <1>2, Zenon DEF EndCallback, BeginCallback, Wait, Serve, FlagTypeOK, serverVars
<1>3. CASE \E c \in Callers : Stopping(c)
  BY <1>0, <1>3, Zenon DEF Stopping, Stop, Shutdown, ShutdownReturns, ClearStarted, FlagTypeOK,
     serverVars
<1>4. CASE \E s \in Signals : Return(s) \/ \E t \in Threads : Raise(s, t)
  BY <1>0, <1>4, Zenon DEF Return, Raise, FlagTypeOK, serverVars
<1>5. CASE UNCHANGED vars
  BY <1>0, <1>5, Zenon DEF vars, FlagTypeOK
<1> QED BY <1>1, <1>2, <1>3, <1>4, <1>5, Zenon DEF Next

\* Every step keeps the types.
LEMMA TypeStep == TypeOK /\ [Next]_vars => TypeOK'
<1> SUFFICES ASSUME TypeOK, [Next]_vars PROVE TypeOK'
  OBVIOUS
<1> QED BY PlainTypeStep, StackStep, FlagStep, Zenon DEF TypeOK, PlainTypeOK, StackTypeOK, FlagTypeOK

-----------------------------------------------------------------------------
\* Every step keeps the rest of the invariant.
LEMMA InvStep == IInv /\ [Next]_vars => (MainInv /\ StopInv /\ ServerInv)'
<1> SUFFICES ASSUME IInv, [Next]_vars PROVE (MainInv /\ StopInv /\ ServerInv)'
  OBVIOUS
<1> USE DEF IInv, TypeOK, MainInv, StopInv, ServerInv, serverVars, threadVars, signalVars,
            StopTo, Ended
<1>0. "exit" \in Callers
  BY DEF Callers
<1>1. ASSUME Main PROVE (MainInv /\ StopInv /\ ServerInv)'
  <2>1. CASE MakeHandlers
    BY <2>1 DEF MakeHandlers, Goto, Leave
  <2>2. CASE BuildAndStart
    BY <2>2 DEF BuildAndStart, Goto, Leave
  <2>3. CASE MarkStarted
    BY <2>3 DEF MarkStarted, Goto
  <2>4. CASE StartWaiter
    BY <2>4 DEF StartWaiter, Goto
  <2>5. CASE Spin
    BY <2>5 DEF Spin, Goto
  <2>6. CASE SpinReturns
    BY <1>0, <2>6 DEF SpinReturns, Goto
  <2>7. CASE Join
    BY <1>0, <2>7 DEF Join, Goto, Leave
  <2> QED BY <1>1, <2>1, <2>2, <2>3, <2>4, <2>5, <2>6, <2>7 DEF Main
<1>2. CASE EndCallback \/ \E x \in Mutexes : BeginCallback(x)
  BY <1>2 DEF EndCallback, BeginCallback, Goto
<1>3. CASE Wait
  BY <1>3 DEF Wait
<1>4. ASSUME NEW p \in Pollers, Serve(p) PROVE (MainInv /\ StopInv /\ ServerInv)'
  <2>1. poller[p] # "none" /\ ~ Ended
    BY <1>4 DEF Serve, Runs, Mutexes
  <2>2. PICK doing : poller' = [poller EXCEPT ![p] = doing]
    BY <1>4 DEF Serve
  <2>3. UNCHANGED <<main, handlers, serverVars, stop>>
    BY <1>4 DEF Serve
  <2> QED BY <2>1, <2>2, <2>3
<1>5. ASSUME NEW c \in Callers, Stopping(c) PROVE (MainInv /\ StopInv /\ ServerInv)'
  <2>0. ~ Ended
    BY <1>5 DEF Stopping, Stop, Shutdown, ShutdownReturns, ClearStarted, Executes
  <2>1. CASE Stop(c)
    BY <1>0, <1>5, <2>0, <2>1 DEF Stop
  <2>2. CASE Shutdown(c)
    <3>1. CASE server = "up"
      <4>1. c # "nobody"
        BY <1>5, ThreadsAssumption DEF Callers
      <4> QED BY <1>0, <1>5, <2>0, <2>2, <3>1, <4>1 DEF Shutdown
    <3>2. CASE server # "up"
      <4>1. server = "down"
        BY <1>5, <2>2, <3>2 DEF Shutdown
      <4>2. stop' = [stop EXCEPT ![c] = "clear"] /\ server' = "down"
        BY <2>2, <3>2, <4>1 DEF Shutdown
      <4> QED BY <1>0, <1>5, <2>0, <2>2, <4>1, <4>2 DEF Shutdown
    <3> QED BY <3>1, <3>2
  <2>3. CASE ShutdownReturns(c)
    BY <1>0, <1>5, <2>0, <2>3 DEF ShutdownReturns
  <2>4. CASE ClearStarted(c)
    BY <1>0, <1>5, <2>0, <2>4 DEF ClearStarted
  <2> QED BY <1>5, <2>1, <2>2, <2>3, <2>4 DEF Stopping
<1>6. ASSUME NEW s \in Signals, Return(s) PROVE (MainInv /\ StopInv /\ ServerInv)'
  <2>1. s # "exit" /\ s \in Callers
    BY ThreadsAssumption DEF Callers
  <2> QED BY <1>0, <1>6, <2>1 DEF Return
<1>7. ASSUME NEW s \in Signals, NEW t \in Threads, Raise(s, t) PROVE (MainInv /\ StopInv /\ ServerInv)'
  <2>1. s # "exit" /\ s \in Callers
    BY ThreadsAssumption DEF Callers
  <2> QED BY <1>0, <1>7, <2>1 DEF Raise
<1>8. CASE UNCHANGED vars
  BY <1>8 DEF vars
<1> QED BY <1>1, <1>2, <1>3, <1>4, <1>5, <1>6, <1>7, <1>8 DEF Next

-----------------------------------------------------------------------------
\* The inductive invariant holds in every behaviour.
THEOREM Invariance == Spec => []IInv
<1>1. IInv /\ [Next]_vars => IInv'
  BY TypeStep, InvStep DEF IInv
<1> QED BY InitInv, <1>1, PTL DEF Spec

\* The types of the process's threads, of its server and of its signals.
THEOREM TypeCorrect == Spec => []TypeOK
<1>1. IInv => TypeOK
  BY DEF IInv
<1> QED BY Invariance, <1>1, PTL

\* No call runs in a handler that main has destroyed.
THEOREM HandlersLive == Spec => []HandlersOutliveCalls
<1>1. IInv => HandlersOutliveCalls
  BY DEF IInv, ServerInv, HandlersOutliveCalls
<1> QED BY Invariance, <1>1, PTL
-----------------------------------------------------------------------------
\* With the sensing handler's data each step of the process is one of
\* BridgeLifecycle or none: what is proved of that holds with them.
THEOREM UsesLifecycle == SensingSpec => Spec
<1>1. SensingInit => Init
  BY DEF SensingInit
<1>2. [SensingNext]_allVars => [Next]_vars
  <2>1. Store \/ SecondPasses => UNCHANGED vars
    BY DEF Store, SecondPasses
  <2>2. Stamp \/ Elsewhere => Next
    BY DEF Stamp, Elsewhere, Next
  <2> QED BY <2>1, <2>2 DEF SensingNext, allVars
<1> QED BY <1>1, <1>2, PTL DEF SensingSpec, Spec

\* The times' types, and that of the cache.
DataTypeOK ==
  position \in {"none", "some"} /\ age \in 0 .. MaxAge + 1 /\ held \in 0 .. MaxAge + 1

\* The executor holds a mutex in a callback only, and one at a time; between its
\* two assignments it is position_mutex_.
ExecutorInv ==
  /\ main # "callback" => \A x \in Mutexes : mutex[x] # "main"
  /\ \A x, y \in Mutexes : mutex[x] = "main" /\ mutex[y] = "main" => x = y
  /\ stored => main = "callback" /\ mutex["position"] = "main"

\* Otherwise the position is not younger than its time says.
TimeInv == position = "some" /\ ~ stored => age <= held

SensingInv == DataTypeOK /\ ExecutorInv /\ TimeInv

\* The mutexes keep to the executor's discipline when the process moves on.
LEMMA ExecutorElsewhere ==
  ASSUME TypeOK, ExecutorInv, Elsewhere
  PROVE  ExecutorInv'
<1> USE DEF ExecutorInv
<1>0. stored' <=> stored
  BY DEF Elsewhere, sensingVars
<1>a. "position" \in Mutexes /\ "recordings" \in Mutexes /\ "position" # "recordings"
  BY DEF Mutexes
<1>1. CASE Main
  <2>1. UNCHANGED mutex
    BY <1>1 DEF Main, MakeHandlers, BuildAndStart, MarkStarted, StartWaiter, Spin, SpinReturns, Join
  <2>2. main # "callback" /\ main' # "callback"
    BY <1>1 DEF Main, MakeHandlers, BuildAndStart, MarkStarted, StartWaiter, Spin, SpinReturns,
       Join, Goto
  <2> QED BY <1>0, <2>1, <2>2
<1>2. ASSUME NEW x \in Mutexes, BeginCallback(x) PROVE ExecutorInv'
  <2>1. /\ main = "spin" /\ main' = "callback"
        /\ mutex' = [mutex EXCEPT ![x] = "main"]
    BY <1>2 DEF BeginCallback, Goto
  <2>2. \A y \in Mutexes : mutex'[y] = "main" <=> y = x
    BY <2>1 DEF TypeOK
  <2> QED BY <1>0, <2>1, <2>2
<1>3. CASE EndCallback /\ mutex["recordings"] = "main"
  <2>1. main' = "spin" /\ mutex' = Released("main")
    BY <1>3 DEF EndCallback, Goto
  <2>2. \A x \in Mutexes : mutex'[x] # "main"
    BY <2>1 DEF Released
  <2>3. ~ stored
    BY <1>3, <1>a
  <2> QED BY <1>0, <2>1, <2>2, <2>3
<1>4. ASSUME NEW p \in Pollers, Serve(p) PROVE ExecutorInv'
  <2>1. main' = main
    BY <1>4 DEF Serve
  <2>2. p # "main"
    BY ThreadsAssumption
  <2>3. mutex' \in {mutex, Released(p)} \/ \E x \in Mutexes : mutex[x] = "free" /\ mutex' = [mutex EXCEPT ![x] = p]
    BY <1>4 DEF Serve
  <2>4. \A x \in Mutexes : mutex'[x] = "main" <=> mutex[x] = "main"
    BY <2>2, <2>3 DEF Released, TypeOK
  <2> QED BY <1>0, <1>a, <2>1, <2>4
<1>5. CASE Wait \/ (\E c \in Callers : Stopping(c)) \/ (\E s \in Signals : Return(s) \/ \E t \in Threads : Raise(s, t))
  <2>1. UNCHANGED <<main, mutex>>
    BY <1>5 DEF Wait, Stopping, Stop, Shutdown, ShutdownReturns, ClearStarted, Return, Raise, threadVars
  <2> QED BY <1>0, <2>1
<1> QED BY <1>1, <1>2, <1>3, <1>4, <1>5 DEF Elsewhere

\* Every step keeps the sensing handler's invariant.
LEMMA SensingStep == TypeOK /\ SensingInv /\ [SensingNext]_allVars => SensingInv'
<1> SUFFICES ASSUME TypeOK, SensingInv, [SensingNext]_allVars PROVE SensingInv'
  OBVIOUS
<1> USE AgeAssumption DEF SensingInv
<1>0. age \in Nat /\ held \in Nat /\ MaxAge \in Nat
  BY DEF DataTypeOK
<1>1. CASE Store
  <2>1. DataTypeOK'
    BY <1>0, <1>1 DEF Store, DataTypeOK
  <2>2. ExecutorInv'
    BY <1>1 DEF Store, ExecutorInv, vars
  <2>3. TimeInv'
    BY <1>1 DEF Store, TimeInv
  <2> QED BY <2>1, <2>2, <2>3
<1>2. CASE Stamp
  <2>1. DataTypeOK'
    BY <1>0, <1>2 DEF Stamp, DataTypeOK
  <2>2. ExecutorInv'
    BY <1>2 DEF Stamp, EndCallback, Goto, Released, ExecutorInv
  <2>3. TimeInv'
    BY <1>0, <1>2 DEF Stamp, TimeInv
  <2> QED BY <2>1, <2>2, <2>3
<1>3. CASE SecondPasses
  <2>1. DataTypeOK'
    BY <1>0, <1>3 DEF SecondPasses, DataTypeOK
  <2>2. ExecutorInv'
    BY <1>3 DEF SecondPasses, ExecutorInv, vars
  <2>3. TimeInv'
    BY <1>0, <1>3 DEF SecondPasses, TimeInv, DataTypeOK
  <2> QED BY <2>1, <2>2, <2>3
<1>4. CASE Elsewhere
  <2>1. DataTypeOK' /\ TimeInv'
    BY <1>4 DEF Elsewhere, sensingVars, DataTypeOK, TimeInv
  <2> QED BY <1>4, <2>1, ExecutorElsewhere
<1>5. CASE UNCHANGED allVars
  BY <1>5 DEF allVars, vars, sensingVars, DataTypeOK, ExecutorInv, TimeInv
<1> QED BY <1>1, <1>2, <1>3, <1>4, <1>5 DEF SensingNext

\* The inductive invariant of the sensing handler holds in every behaviour.
THEOREM SensingInvariance == SensingSpec => [](TypeOK /\ SensingInv)
<1>1. SensingInit => SensingInv
  BY AgeAssumption DEF SensingInit, Init, SensingInv, DataTypeOK, ExecutorInv, TimeInv
<1>2. SensingSpec => []TypeOK
  BY UsesLifecycle, TypeCorrect, PTL
<1> QED BY <1>1, <1>2, SensingStep, PTL DEF SensingSpec

\* GetPosition is answered truly, and with a whole message, for any number of
\* calls, however long a position is good for.
THEOREM PositionHolds == SensingSpec => []PositionToldTruly
<1>1. TypeOK /\ SensingInv => PositionToldTruly
  <2> SUFFICES ASSUME TypeOK, SensingInv, NEW p \in Pollers, mutex["position"] = p
               PROVE  /\ GetPosition.code = "unavailable" => held > MaxAge
                      /\ GetPosition.code = "ok" => GetPosition.answer \in Api!SensingAnswer
    BY DEF PositionToldTruly
  <2>1. ~ stored
    BY ThreadsAssumption DEF SensingInv, ExecutorInv
  <2>2. CASE position = "none"
    BY <2>2 DEF GetPosition
  <2>3. CASE position # "none" /\ age > MaxAge
    BY <2>1, <2>3, AgeAssumption DEF GetPosition, SensingInv, TimeInv, DataTypeOK
  <2>4. CASE position # "none" /\ ~ age > MaxAge
    <3>1. [header |-> [stamp |-> "measured"], navSatStatus |-> [fix |-> position = "some"]]
            \in Api!Position
      <4>1. (position = "some") \in BOOLEAN
        BY Zenon
      <4> QED BY <4>1, Zenon DEF Api!Position, Api!Header, Api!NavSatStatus
    <3>2. GetPosition = [code |-> "ok",
                         answer |-> [method |-> "GetPosition",
                                     response |-> [position |-> ConvertNavSatFix]]]
      BY <2>4 DEF GetPosition
    <3>3. [position |-> ConvertNavSatFix] \in Api!GetPositionResponse
      BY <3>1 DEF ConvertNavSatFix, Api!GetPositionResponse
    <3>4. GetPosition.answer \in Api!SensingAnswer
      BY <3>2, <3>3 DEF Api!SensingAnswer
    <3> QED BY <3>2, <3>4
  <2> QED BY <2>2, <2>3, <2>4
<1> QED BY <1>1, SensingInvariance, PTL

\* No call runs in a destroyed handler, with the sensing handler's data too.
THEOREM SensingHandlersLive == SensingSpec => []HandlersOutliveCalls
<1> QED BY UsesLifecycle, HandlersLive, PTL
=============================================================================
