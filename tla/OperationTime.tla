---------------------------- MODULE OperationTime ----------------------------
(***************************************************************************)
(* SystemOperation in time: a call of the gateway ends by its deadline,    *)
(* and shutdown(8) waits the minutes that it was given.  Neither knows of  *)
(* the other.                                                              *)
(*                                                                         *)
(* Time passes in ticks.  What a goroutine does without waiting for        *)
(* anybody takes less than one; everything else may take any time: the     *)
(* start of a goroutine, a module-manager, a host, and a minute, which may *)
(* be longer than Minute but not shorter.                                  *)
(***************************************************************************)
EXTENDS SystemOperation

CONSTANTS Timeout,  \* of an RPC: grpc.timeout
          Minute    \* of shutdown(8)

ASSUME TimeAssumption == Timeout \in Nat /\ Minute \in Nat /\ Timeout < Minute

VARIABLES
  age,     \* how long each call has been under way
  waited   \* how long each host's plan has stood as it is, up to Minute

tvars == <<vars, age, waited>>

TimedInit ==
  /\ Init
  /\ age = [r \in Requests |-> [m \in Modules |-> 0]]
  /\ waited = [m \in Modules |-> 0]

\* The gateway waits for an answer.
Waits(r, m) == Running(r) /\ worker[r][m] = "calling"

\* Slip: the call's context has no deadline.
NeverExpired(r, m) == FALSE

\* The context's deadline has passed: the call returns now.
Expired(r, m) == Waits(r, m) /\ age[r][m] = Timeout

\* A goroutine of the request, or its handler, has nothing to wait for.
Ready(r) ==
  /\ Running(r)
  /\ \/ pc[r] # "single" /\ wg[r] = 0
     \/ \E m \in Modules : worker[r][m] = "sent"

Tick ==
  /\ \A r \in Requests : ~ Ready(r) /\ \A m \in Modules : ~ Expired(r, m)
  /\ age' = [r \in Requests |-> [m \in Modules |->
       IF Waits(r, m) THEN age[r][m] + 1 ELSE age[r][m]]]
  /\ waited' = [m \in Modules |-> IF waited[m] < Minute THEN waited[m] + 1 ELSE Minute]
  /\ UNCHANGED vars

\* A host takes a minute off its plan when the minute is over.
TimedHost(m) ==
  \/ waited[m] = Minute /\ MinutePasses(m)
  \/ GoDown(m)
  \/ Boot(m)

Step ==
  \/ \E r \in Requests :
       Arrive(r) \/ Handler(r) \/ \E m \in Modules : Worker(r, m) \/ Manager(r, m)
  \/ \E m \in Modules : TimedHost(m)

\* The deadline of a call counts from its start, a minute from the plan's last change.
TimedStep ==
  /\ Step
  /\ age' = [r \in Requests |-> [m \in Modules |->
       IF worker'[r][m] = "calling" THEN age[r][m] ELSE 0]]
  /\ waited' = [m \in Modules |-> IF plan'[m] = plan[m] THEN waited[m] ELSE 0]

TimedNext == TimedStep \/ Tick

TimedSpec == TimedInit /\ [][TimedNext]_tvars

-----------------------------------------------------------------------------
\* An operation with a delay of a minute or more never cuts off its own answer: when
\* the gateway's host goes down, it is on no plan of a request that is still running,
\* although a plan is made before its call returns, and the call's answer may be lost.
\* Only the deadline of the call, and that nothing is called after the gateway's own
\* host, keep the request from outlasting the minute.  (Shorter delays are none: see
\* DelaysHonoured.)
AnswersBeforeItsHostGoesDown ==
  [][\A r \in Requests :
       /\ APIGatewayHost \in Modules
       /\ power[APIGatewayHost] = "up" /\ power'[APIGatewayHost] # "up"
       /\ \E p \in plan[APIGatewayHost] : p.by = r
       /\ order[r].delay >= 60
       => ~ Running(r)]_tvars
=============================================================================
