---------------------------- MODULE SensingHandler ----------------------------
(***************************************************************************)
(* The bridge's SensingHandler in its process: what navSatFixCallback      *)
(* writes under position_mutex_, in two steps, while main spins, what a    *)
(* call of GetPosition finds when it holds the mutex, and what drs-cli is  *)
(* answered.  ListNodes takes no mutex and keeps nothing.                  *)
(***************************************************************************)
EXTENDS BridgeLifecycle, Naturals

CONSTANT MaxAge  \* seconds a position is good for: 5

ASSUME AgeAssumption == MaxAge \in Nat

VARIABLES
  position, \* cached_position_: "none" or "some"
  age,      \* whole seconds since last_position_update_, up to MaxAge + 1
  held,     \* whole seconds since the position was put in the cache, likewise
  stored    \* navSatFixCallback is between its two assignments

sensingVars == <<position, age, held, stored>>

\* A time_point starts at the clock's epoch, which is long ago.
SensingInit ==
  /\ Init
  /\ position = "none" /\ stored = FALSE
  /\ age = MaxAge + 1 /\ held = 0

-----------------------------------------------------------------------------
(* navSatFixCallback *)

\* Slip: the mutex guards the position, and not its time.
StoreAndUnlock ==
  /\ main = "callback" /\ Runs("main") /\ mutex["position"] = "main" /\ ~ stored
  /\ position' = "some" /\ held' = 0 /\ stored' = TRUE
  /\ mutex' = Released("main")
  /\ UNCHANGED <<age, main, waiter, poller, handlers, serverVars, context, stop, signalVars>>

Store ==
  /\ main = "callback" /\ Runs("main") /\ mutex["position"] = "main" /\ ~ stored
  /\ position' = "some" /\ held' = 0 /\ stored' = TRUE
  /\ UNCHANGED <<age, vars>>

Stamp ==
  /\ EndCallback /\ stored
  /\ age' = 0 /\ stored' = FALSE
  /\ UNCHANGED <<position, held>>

SecondPasses ==
  /\ position = "some" /\ ~ Ended
  /\ age' = IF age <= MaxAge THEN age + 1 ELSE age
  /\ held' = IF held <= MaxAge THEN held + 1 ELSE held
  /\ <<age', held'>> # <<age, held>>
  /\ UNCHANGED <<position, stored, vars>>

-----------------------------------------------------------------------------
(* GetPosition *)

Api == INSTANCE Ros2BridgeApi WITH
  HardwareId <- {}, Topic <- {}, NodeName <- {}, Filter <- {}, Stamp <- {"measured"},
  Nil <- "nil"

\* convertNavSatFixToPosition fills both sub-messages, of whatever it is given.
ConvertNavSatFix ==
  [header |-> [stamp |-> "measured"], navSatStatus |-> [fix |-> position = "some"]]

\* What a thread with the mutex answers.
GetPosition ==
  IF position = "none" THEN [code |-> "not found"]
  ELSE IF age > MaxAge THEN [code |-> "unavailable"]
  ELSE [code |-> "ok",
        answer |-> [method |-> "GetPosition", response |-> [position |-> ConvertNavSatFix]]]

-----------------------------------------------------------------------------
\* The process does what it does, and leaves the position alone.
Elsewhere ==
  /\ \/ Main \/ Wait \/ \E x \in Mutexes : BeginCallback(x)
     \/ EndCallback /\ mutex["recordings"] = "main"
     \/ \E p \in Pollers : Serve(p)
     \/ \E c \in Callers : Stopping(c)
     \/ \E s \in Signals : Return(s) \/ \E t \in Threads : Raise(s, t)
  /\ UNCHANGED sensingVars

SensingNext == Store \/ Stamp \/ SecondPasses \/ Elsewhere

allVars == <<vars, sensingVars>>

SensingSpec == SensingInit /\ [][SensingNext]_allVars

\* As FairSpec: every thread runs on, the callback to its end.
FairSensing ==
  /\ SensingSpec
  /\ WF_allVars(Main /\ UNCHANGED sensingVars)
  /\ WF_allVars(Wait /\ UNCHANGED sensingVars)
  /\ WF_allVars(Store \/ Stamp \/ (main = "callback" /\ EndCallback /\ Elsewhere))
  /\ \A p \in Pollers : SF_allVars(poller[p] # "idle" /\ Serve(p) /\ UNCHANGED sensingVars)
  /\ \A c \in Callers : WF_allVars(Stopping(c) /\ UNCHANGED sensingVars)
  /\ \A s \in Signals : WF_allVars(Return(s) /\ UNCHANGED sensingVars)

-----------------------------------------------------------------------------
(* Properties *)

\* The types of what the handler keeps.
SensingTypeOK ==
  /\ position \in {"none", "some"} /\ stored \in BOOLEAN
  /\ age \in 0 .. MaxAge + 1 /\ held \in 0 .. MaxAge + 1

\* Whoever holds the mutex to answer GetPosition answers truly: a position is
\* called stale only if it is older than MaxAge seconds itself, and not because
\* its time is still that of the one before it; and what is answered OK is the
\* whole message, through which drs-cli reads without asking.
PositionToldTruly ==
  \A p \in Pollers : mutex["position"] = p =>
    /\ GetPosition.code = "unavailable" => held > MaxAge
    /\ GetPosition.code = "ok" => GetPosition.answer \in Api!SensingAnswer
=============================================================================
