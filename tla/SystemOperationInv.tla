-------------------------- MODULE SystemOperationInv --------------------------
(***************************************************************************)
(* The inductive invariant behind the safety properties of                 *)
(* SystemOperation: what holds of a request at each stage of its handler,  *)
(* of its results, of the order of its calls and of its answer, and of the *)
(* plans of the hosts.                                                     *)
(***************************************************************************)
EXTENDS SystemOperation

\* The goroutines a WaitGroup counts.
Counted(r) == {m \in Modules : worker[r][m] \in {"start", "calling", "sent"}}

\* Who has been started, and for which kind of order, at each stage.
StageInv(r) ==
  /\ order[r].system => order[r].targets = Modules
  /\ pc[r] = "idle" =>
       /\ \A m \in Modules : worker[r][m] = "none"
       /\ order[r].targets = {}
  /\ pc[r] = "fanout" =>
       \A m \in Modules : m \in Others <=> worker[r][m] # "none"
  /\ pc[r] = "gateway" =>
       /\ \A m \in Others : worker[r][m] = "done"
       /\ \A m \in Modules : worker[r][m] # "none"
  /\ pc[r] \in {"fanout", "gateway"} =>
       order[r].system /\ wg[r] = Cardinality(Counted(r))
  /\ pc[r] = "single" =>
       /\ ~ order[r].system
       /\ \E m \in Modules : order[r].targets = {m}
       /\ \A m \in Modules : m \in order[r].targets <=> worker[r][m] # "none"

\* A result is on the channel from the moment its goroutine has sent it, an
\* accepting one only for a call that was executed.
ResultInv(r) ==
  \A m \in Modules :
    /\ results[r][m] # "none" <=> worker[r][m] \in {"sent", "done"}
    /\ results[r][m] = "accepted" => rpc[r][m] = "executed"
    /\ rpc[r][m] # "none" => worker[r][m] \notin {"none", "start"}

\* The gateway's own host is called after the others only.
OrderInv(r) ==
  order[r].system /\ APIGatewayHost \in Modules /\ worker[r][APIGatewayHost] # "none"
    => \A m \in Others : results[r][m] # "none"

ReplyInv(r) ==
  /\ reply[r] = "none" <=> pc[r] # "replied"
  /\ pc[r] = "replied" => \A m \in order[r].targets : results[r][m] # "none"
  /\ reply[r] = "ok" => \A m \in order[r].targets : results[r][m] = "accepted"
  /\ pc[r] = "replied" => \A m \in Modules : worker[r][m] \notin {"start", "calling"}

PlanInv ==
  \A m \in Modules : \A p \in plan[m] : rpc[p.by][m] = "executed"

IInv ==
  /\ TypeOK
  /\ \A r \in Requests : StageInv(r) /\ ResultInv(r) /\ OrderInv(r) /\ ReplyInv(r)
  /\ PlanInv
=============================================================================
