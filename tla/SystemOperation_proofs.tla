------------------------ MODULE SystemOperation_proofs ------------------------
(***************************************************************************)
(* Proofs about SystemOperation: the invariant IInv is inductive, the      *)
(* safety properties follow from it, and the goroutines keep the promise   *)
(* of OperationPromise.                                                    *)
(***************************************************************************)
EXTENDS SystemOperationInv, OperationTime, FiniteSetTheorems, TLAPS

RInv(r) == StageInv(r) /\ ResultInv(r) /\ OrderInv(r) /\ ReplyInv(r)

\* An answer without an error says that the command was accepted.
LEMMA Accepted == \A kind, d : Outcome(AnswerMessage(kind, d).response) = "accepted"
BY DEF Outcome, AnswerMessage

\* The number of goroutines a WaitGroup counts is a natural number, and zero
\* exactly when there are none.
LEMMA CountedFinite ==
  ASSUME NEW r \in Requests
  PROVE  /\ IsFiniteSet(Counted(r))
         /\ Cardinality(Counted(r)) \in Nat
         /\ Cardinality(Counted(r)) = 0 <=> Counted(r) = {}
<1>1. Counted(r) \subseteq Modules
  BY DEF Counted
<1> QED
  BY <1>1, ModulesAssumption, FS_Subset, FS_CardinalityType, FS_EmptySet

\* A goroutine that is started adds one to the number, one that is done takes
\* one away.
LEMMA CountedStart ==
  ASSUME NEW r \in Requests, NEW m \in Modules,
         worker \in [Requests -> [Modules -> {"none", "start", "calling", "sent", "done"}]],
         worker[r][m] \in {"none", "done"},
         worker' = [worker EXCEPT ![r][m] = "start"]
  PROVE  /\ Cardinality(Counted(r)') = Cardinality(Counted(r)) + 1
         /\ \A q \in Requests \ {r} : Counted(q)' = Counted(q)
<1>1. Counted(r)' = Counted(r) \cup {m} /\ m \notin Counted(r)
  BY DEF Counted
<1>2. \A q \in Requests \ {r} : Counted(q)' = Counted(q)
  BY DEF Counted
<1> QED
  BY <1>1, <1>2, CountedFinite, FS_AddElement

\* A worker that is done leaves the counter one lower.
LEMMA CountedDone ==
  ASSUME NEW r \in Requests, NEW m \in Modules,
         worker \in [Requests -> [Modules -> {"none", "start", "calling", "sent", "done"}]],
         worker[r][m] = "sent",
         worker' = [worker EXCEPT ![r][m] = "done"]
  PROVE  /\ Cardinality(Counted(r)') = Cardinality(Counted(r)) - 1
         /\ Cardinality(Counted(r)) > 0
         /\ \A q \in Requests \ {r} : Counted(q)' = Counted(q)
<1>1. Counted(r)' = Counted(r) \ {m} /\ m \in Counted(r)
  BY DEF Counted
<1>2. \A q \in Requests \ {r} : Counted(q)' = Counted(q)
  BY DEF Counted
<1>3. Cardinality(Counted(r)) # 0
  BY <1>1, CountedFinite
<1>4. Cardinality(Counted(r)') = Cardinality(Counted(r)) - 1
  BY <1>1, CountedFinite, FS_RemoveElement
<1> QED
  BY <1>2, <1>3, <1>4, CountedFinite

\* A request that a step leaves alone keeps its part of the invariant.
LEMMA Frame ==
  ASSUME NEW q \in Requests, RInv(q),
         pc'[q] = pc[q], order'[q] = order[q], worker'[q] = worker[q],
         wg'[q] = wg[q], rpc'[q] = rpc[q], results'[q] = results[q],
         reply'[q] = reply[q]
  PROVE  RInv(q)'
<1>1. Counted(q)' = Counted(q)
  BY DEF Counted
<1>2. StageInv(q)'
  BY <1>1 DEF RInv, StageInv
<1>3. ResultInv(q)' /\ OrderInv(q)' /\ ReplyInv(q)'
  BY DEF RInv, ResultInv, OrderInv, ReplyInv
<1> QED
  BY <1>2, <1>3 DEF RInv

\* So does the stage of a request whose goroutines move on without one of them
\* being started or done.
LEMMA StageFrame ==
  ASSUME NEW r \in Requests, StageInv(r),
         pc'[r] = pc[r], order'[r] = order[r], wg'[r] = wg[r],
         \A n \in Modules :
           /\ worker'[r][n] # "none" <=> worker[r][n] # "none"
           /\ worker'[r][n] = "done" <=> worker[r][n] = "done",
         worker[r] \in [Modules -> {"none", "start", "calling", "sent", "done"}],
         worker'[r] \in [Modules -> {"none", "start", "calling", "sent", "done"}]
  PROVE  StageInv(r)'
<1>1. (order[r].system => order[r].targets = Modules)'
  BY DEF StageInv
<1>2. (pc[r] = "idle" => /\ \A m \in Modules : worker[r][m] = "none"
                         /\ order[r].targets = {})'
  BY DEF StageInv
<1>3. (pc[r] = "fanout" => \A m \in Modules : m \in Others <=> worker[r][m] # "none")'
  BY DEF StageInv, Others
<1>4. (pc[r] = "gateway" => /\ \A m \in Others : worker[r][m] = "done"
                            /\ \A m \in Modules : worker[r][m] # "none")'
  BY DEF StageInv, Others
<1>5. (pc[r] \in {"fanout", "gateway"} =>
         order[r].system /\ wg[r] = Cardinality(Counted(r)))'
  <2>1. Counted(r)' = Counted(r)
    BY DEF Counted
  <2> QED
    BY <2>1 DEF StageInv
<1>6. (pc[r] = "single" =>
         /\ ~ order[r].system
         /\ \E m \in Modules : order[r].targets = {m}
         /\ \A m \in Modules : m \in order[r].targets <=> worker[r][m] # "none")'
  BY DEF StageInv
<1> QED
  BY <1>1, <1>2, <1>3, <1>4, <1>5, <1>6 DEF StageInv

\* The invariant holds before any request.
THEOREM InitInv == Init => IInv
<1> SUFFICES ASSUME Init PROVE IInv
  OBVIOUS
<1>1. TypeOK
  BY DEF Init, TypeOK, Orders, Kinds, Plans
<1>2. ASSUME NEW r \in Requests PROVE StageInv(r) /\ ResultInv(r) /\ OrderInv(r) /\ ReplyInv(r)
  BY <1>2 DEF Init, StageInv, ResultInv, OrderInv, ReplyInv
<1>3. PlanInv
  BY DEF Init, PlanInv
<1> QED
  BY <1>1, <1>2, <1>3 DEF IInv

\* Every step of a handler, a worker, a module-manager or a host keeps the invariant.
THEOREM StepInv == IInv /\ [Next]_vars => IInv'
<1> SUFFICES ASSUME IInv, [Next]_vars PROVE IInv'
  OBVIOUS
<1> USE DEF IInv
<1>1. ASSUME NEW r \in Requests, NEW kind \in Kinds, NEW d \in Delays, SystemRequest(r, kind, d)
      PROVE  IInv'
  <2>1. TypeOK'
    BY <1>1, DelaysAssumption, ModulesAssumption, FS_Subset, FS_CardinalityType
    DEF SystemRequest, TypeOK, Orders, Plans, Others
  <2>2. ASSUME NEW q \in Requests PROVE RInv(q)'
    <3>1. CASE q = r
      <4>1. Counted(r)' = Others
        BY <1>1 DEF SystemRequest, TypeOK, Counted, Others
      <4>2. /\ pc'[r] = "fanout" /\ wg'[r] = Cardinality(Others)
            /\ order'[r].system /\ order'[r].targets = Modules
            /\ \A m \in Modules : worker'[r][m] = IF m \in Others THEN "start" ELSE "none"
        BY <1>1 DEF SystemRequest, TypeOK
      <4>3. /\ results'[r] = results[r] /\ reply'[r] = reply[r] /\ rpc'[r] = rpc[r]
            /\ pc[r] = "idle" /\ \A m \in Modules : worker[r][m] = "none"
        BY <1>1 DEF SystemRequest, StageInv
      <4>4. StageInv(r)'
        BY <4>1, <4>2 DEF StageInv, Others
      <4>5. ResultInv(r)' /\ OrderInv(r)'
        BY <4>2, <4>3 DEF ResultInv, OrderInv, Others
      <4>6. ReplyInv(r)'
        BY <4>2, <4>3 DEF ReplyInv
      <4> QED
        BY <3>1, <4>4, <4>5, <4>6 DEF RInv
    <3>2. CASE q # r
      <4>1. /\ pc'[q] = pc[q] /\ order'[q] = order[q] /\ worker'[q] = worker[q]
            /\ wg'[q] = wg[q]
        BY <1>1, <3>2 DEF SystemRequest, TypeOK
      <4>2. rpc'[q] = rpc[q] /\ results'[q] = results[q] /\ reply'[q] = reply[q]
        BY <1>1 DEF SystemRequest
      <4> QED
        BY <4>1, <4>2, Frame DEF RInv
    <3> QED
      BY <3>1, <3>2
  <2>3. PlanInv'
    BY <1>1 DEF SystemRequest, PlanInv
  <2> QED
    BY <2>1, <2>2, <2>3 DEF RInv
<1>2. ASSUME NEW r \in Requests, NEW kind \in Kinds, NEW m \in Modules, NEW d \in Delays, ModuleRequest(r, kind, m, d)
      PROVE  IInv'
  <2>1. TypeOK'
    BY <1>2, DelaysAssumption DEF ModuleRequest, TypeOK, Orders, Plans
  <2>2. ASSUME NEW q \in Requests PROVE RInv(q)'
    <3>1. CASE q = r
      BY <1>2, <3>1 DEF ModuleRequest, TypeOK, RInv, StageInv, ResultInv, OrderInv, ReplyInv, Others
    <3>2. CASE q # r
      BY <1>2, <3>2, Frame DEF ModuleRequest, TypeOK, RInv
    <3> QED
      BY <3>1, <3>2
  <2>3. PlanInv'
    BY <1>2 DEF ModuleRequest, PlanInv, TypeOK, Plans
  <2> QED
    BY <2>1, <2>2, <2>3 DEF RInv
<1>3. ASSUME NEW r \in Requests, NEW m \in Modules, NoClients(r, m)
      PROVE  IInv'
  <2>1. TypeOK'
    BY <1>3 DEF NoClients, Send, handlerVars, hostVars, TypeOK, Orders, Plans
  <2>2. ASSUME NEW q \in Requests PROVE RInv(q)'
    <3>1. CASE q = r
      <4>2. StageInv(r)'
        <5>1. /\ \A n \in Modules :
                   /\ worker'[r][n] # "none" <=> worker[r][n] # "none"
                   /\ worker'[r][n] = "done" <=> worker[r][n] = "done"
              /\ worker[r] \in [Modules -> {"none", "start", "calling", "sent", "done"}]
              /\ worker'[r] \in [Modules -> {"none", "start", "calling", "sent", "done"}]
          BY <1>3 DEF NoClients, Send, TypeOK
        <5>2. pc'[r] = pc[r] /\ order'[r] = order[r] /\ wg'[r] = wg[r]
          BY <1>3 DEF NoClients, Send, handlerVars
        <5> QED
          BY <5>1, <5>2, StageFrame
      <4>3. ResultInv(r)' /\ OrderInv(r)' /\ ReplyInv(r)'
        BY <1>3 DEF NoClients, Send, Running, handlerVars, hostVars, TypeOK, ResultInv, OrderInv, ReplyInv, Others
      <4> QED
        BY <3>1, <4>2, <4>3 DEF RInv
    <3>2. CASE q # r
      BY <1>3, <3>2, Frame DEF NoClients, Send, handlerVars, hostVars, TypeOK, RInv
    <3> QED
      BY <3>1, <3>2
  <2>3. PlanInv'
    BY <1>3 DEF NoClients, Send, handlerVars, hostVars, PlanInv, TypeOK, Plans
  <2> QED
    BY <2>1, <2>2, <2>3 DEF RInv
<1>4. ASSUME NEW r \in Requests, NEW m \in Modules, Call(r, m)
      PROVE  IInv'
  <2>1. TypeOK'
    BY <1>4 DEF Call, handlerVars, hostVars, TypeOK, Orders, Plans
  <2>2. ASSUME NEW q \in Requests PROVE RInv(q)'
    <3>1. CASE q = r
      <4>2. StageInv(r)'
        <5>1. /\ \A n \in Modules :
                   /\ worker'[r][n] # "none" <=> worker[r][n] # "none"
                   /\ worker'[r][n] = "done" <=> worker[r][n] = "done"
              /\ worker[r] \in [Modules -> {"none", "start", "calling", "sent", "done"}]
              /\ worker'[r] \in [Modules -> {"none", "start", "calling", "sent", "done"}]
          BY <1>4 DEF Call, TypeOK
        <5>2. pc'[r] = pc[r] /\ order'[r] = order[r] /\ wg'[r] = wg[r]
          BY <1>4 DEF Call, handlerVars
        <5> QED
          BY <5>1, <5>2, StageFrame
      <4>3. ResultInv(r)' /\ OrderInv(r)' /\ ReplyInv(r)'
        BY <1>4 DEF Call, Running, handlerVars, hostVars, TypeOK, ResultInv, OrderInv, ReplyInv, Others
      <4> QED
        BY <3>1, <4>2, <4>3 DEF RInv
    <3>2. CASE q # r
      BY <1>4, <3>2, Frame DEF Call, handlerVars, hostVars, TypeOK, RInv
    <3> QED
      BY <3>1, <3>2
  <2>3. PlanInv'
    BY <1>4 DEF Call, handlerVars, hostVars, PlanInv, TypeOK, Plans, ResultInv
  <2> QED
    BY <2>1, <2>2, <2>3 DEF RInv
<1>5. ASSUME NEW r \in Requests, NEW m \in Modules, Return(r, m)
      PROVE  IInv'
  <2>1. TypeOK'
    <3>1. \E o \in {"accepted", "failed"} : Send(r, m, o)
      BY <1>5, Accepted DEF Return
    <3> QED
      BY <1>5, <3>1 DEF Return, Send, handlerVars, hostVars, TypeOK
  <2>2. ASSUME NEW q \in Requests PROVE RInv(q)'
    <3>1. CASE q = r
      <4>2. StageInv(r)'
        <5>1. /\ \A n \in Modules :
                   /\ worker'[r][n] # "none" <=> worker[r][n] # "none"
                   /\ worker'[r][n] = "done" <=> worker[r][n] = "done"
              /\ worker[r] \in [Modules -> {"none", "start", "calling", "sent", "done"}]
              /\ worker'[r] \in [Modules -> {"none", "start", "calling", "sent", "done"}]
          <6>1. worker[r][m] = "calling" /\ worker' = [worker EXCEPT ![r][m] = "sent"]
            BY <1>5 DEF Return, Send
          <6> QED
            BY <6>1 DEF TypeOK
        <5>2. pc'[r] = pc[r] /\ order'[r] = order[r] /\ wg'[r] = wg[r]
          BY <1>5 DEF Return, Send, handlerVars
        <5> QED
          BY <5>1, <5>2, StageFrame
      <4>3. ResultInv(r)' /\ OrderInv(r)' /\ ReplyInv(r)'
        <5>1. CASE rpc[r][m] = "executed" /\ Send(r, m, "accepted")
          BY <1>5, <5>1 DEF Send, Running, Return, handlerVars, TypeOK, ResultInv, OrderInv, ReplyInv, Others
        <5>2. CASE rpc[r][m] = "refused" /\ Send(r, m, "failed")
          BY <1>5, <5>2 DEF Send, Running, Return, handlerVars, TypeOK, ResultInv, OrderInv, ReplyInv, Others
        <5> QED
          BY <1>5, <5>1, <5>2, Accepted DEF Return
      <4> QED
        BY <3>1, <4>2, <4>3 DEF RInv
    <3>2. CASE q # r
      BY <1>5, <3>2, Frame DEF Return, Send, handlerVars, hostVars, TypeOK, RInv
    <3> QED
      BY <3>1, <3>2
  <2>3. PlanInv'
    BY <1>5 DEF Return, Send, handlerVars, hostVars, PlanInv, TypeOK, Plans
  <2> QED
    BY <2>1, <2>2, <2>3 DEF RInv
<1>6. ASSUME NEW r \in Requests, NEW m \in Modules, GiveUp(r, m)
      PROVE  IInv'
  <2>1. TypeOK'
    BY <1>6 DEF GiveUp, Send, handlerVars, hostVars, TypeOK, Orders, Plans
  <2>2. ASSUME NEW q \in Requests PROVE RInv(q)'
    <3>1. CASE q = r
      <4>2. StageInv(r)'
        <5>1. /\ \A n \in Modules :
                   /\ worker'[r][n] # "none" <=> worker[r][n] # "none"
                   /\ worker'[r][n] = "done" <=> worker[r][n] = "done"
              /\ worker[r] \in [Modules -> {"none", "start", "calling", "sent", "done"}]
              /\ worker'[r] \in [Modules -> {"none", "start", "calling", "sent", "done"}]
          BY <1>6 DEF GiveUp, Send, TypeOK
        <5>2. pc'[r] = pc[r] /\ order'[r] = order[r] /\ wg'[r] = wg[r]
          BY <1>6 DEF GiveUp, Send, handlerVars
        <5> QED
          BY <5>1, <5>2, StageFrame
      <4>3. ResultInv(r)' /\ OrderInv(r)' /\ ReplyInv(r)'
        BY <1>6 DEF GiveUp, Send, Running, handlerVars, hostVars, TypeOK, ResultInv, OrderInv, ReplyInv, Others
      <4> QED
        BY <3>1, <4>2, <4>3 DEF RInv
    <3>2. CASE q # r
      BY <1>6, <3>2, Frame DEF GiveUp, Send, handlerVars, hostVars, TypeOK, RInv
    <3> QED
      BY <3>1, <3>2
  <2>3. PlanInv'
    BY <1>6 DEF GiveUp, Send, handlerVars, hostVars, PlanInv, TypeOK, Plans
  <2> QED
    BY <2>1, <2>2, <2>3 DEF RInv
<1>7. ASSUME NEW r \in Requests, NEW m \in Modules, Done(r, m)
      PROVE  IInv'
  <2>1. TypeOK'
    <3>1. wg[r] - 1 \in Nat
      <4>1. Cardinality(Counted(r)) > 0 /\ Cardinality(Counted(r)) \in Nat
        BY <1>7, CountedDone, CountedFinite DEF Done, TypeOK
      <4> QED
        BY <1>7, <4>1 DEF Done, StageInv
    <3> QED
      BY <1>7, <3>1 DEF Done, handlerVars, hostVars, TypeOK
  <2>2. ASSUME NEW q \in Requests PROVE RInv(q)'
    <3>1. CASE q = r
      <4>1. Cardinality(Counted(r)') = Cardinality(Counted(r)) - 1
        BY <1>7, CountedDone DEF Done, TypeOK
      <4> QED
        BY <1>7, <3>1, <4>1 DEF Done, handlerVars, hostVars, TypeOK, RInv, StageInv, ResultInv, OrderInv, ReplyInv, Others
    <3>2. CASE q # r
      BY <1>7, <3>2, Frame DEF Done, handlerVars, hostVars, TypeOK, RInv
    <3> QED
      BY <3>1, <3>2
  <2>3. PlanInv'
    BY <1>7 DEF Done, handlerVars, hostVars, PlanInv
  <2> QED
    BY <2>1, <2>2, <2>3 DEF RInv
<1>8. ASSUME NEW r \in Requests, StartGatewayHost(r)
      PROVE  IInv'
  <2>1. TypeOK'
    BY <1>8 DEF StartGatewayHost, handlerVars, hostVars, TypeOK
  <2>2. ASSUME NEW q \in Requests PROVE RInv(q)'
    <3>1. CASE q = r
      <4>1. /\ worker[r][APIGatewayHost] = "none"
            /\ \A m \in Others : worker[r][m] = "done"
        <5>1. Counted(r) = {}
          BY <1>8, CountedFinite DEF StartGatewayHost, StageInv
        <5>2. \A m \in Modules : worker[r][m] \in {"none", "done"}
          BY <5>1 DEF Counted, TypeOK
        <5> QED
          BY <1>8, <5>2 DEF StartGatewayHost, StageInv, Others
      <4>2. Cardinality(Counted(r)') = Cardinality(Counted(r)) + 1
        BY <1>8, <4>1, CountedStart DEF StartGatewayHost, TypeOK
      <4>3. StageInv(r)'
        BY <1>8, <4>1, <4>2 DEF StartGatewayHost, handlerVars, hostVars, TypeOK, StageInv, Others
      <4>4. ResultInv(r)' /\ OrderInv(r)' /\ ReplyInv(r)'
        BY <1>8, <4>1 DEF StartGatewayHost, handlerVars, hostVars, TypeOK, ResultInv, OrderInv, ReplyInv, Others
      <4> QED
        BY <3>1, <4>3, <4>4 DEF RInv
    <3>2. CASE q # r
      BY <1>8, <3>2, Frame DEF StartGatewayHost, handlerVars, hostVars, TypeOK, RInv
    <3> QED
      BY <3>1, <3>2
  <2>3. PlanInv'
    BY <1>8 DEF StartGatewayHost, handlerVars, hostVars, PlanInv
  <2> QED
    BY <2>1, <2>2, <2>3 DEF RInv
<1>9. ASSUME NEW r \in Requests, AnswerSystem(r)
      PROVE  IInv'
  <2>1. TypeOK'
    BY <1>9 DEF AnswerSystem, Answer, handlerVars, hostVars, TypeOK
  <2>2. ASSUME NEW q \in Requests PROVE RInv(q)'
    <3>1. CASE q = r
      <4>1. order[r].targets = Modules /\ \A m \in Modules : worker[r][m] = "done"
        <5>1. Counted(r) = {}
          BY <1>9, CountedFinite DEF AnswerSystem, StageInv
        <5>2. \A m \in Modules : worker[r][m] \in {"none", "done"}
          BY <5>1 DEF Counted, TypeOK
        <5> QED
          BY <1>9, <5>2 DEF AnswerSystem, StageInv, Others
      <4>2. \A m \in order[r].targets : results[r][m] \in {"accepted", "failed"}
        BY <4>1 DEF ResultInv, TypeOK
      <4>3. /\ pc'[r] = "replied" /\ order' = order /\ worker' = worker
            /\ rpc' = rpc /\ results' = results
            /\ reply'[r] = IF \E m \in Modules : results[r][m] = "failed" THEN "failed" ELSE "ok"
        BY <1>9 DEF AnswerSystem, Answer, TypeOK
      <4>4. StageInv(r)' /\ ResultInv(r)' /\ OrderInv(r)'
        BY <4>3 DEF StageInv, ResultInv, OrderInv
      <4>5. ReplyInv(r)'
        BY <4>1, <4>2, <4>3 DEF ReplyInv, TypeOK, Orders
      <4> QED
        BY <3>1, <4>4, <4>5 DEF RInv
    <3>2. CASE q # r
      BY <1>9, <3>2, Frame DEF AnswerSystem, Answer, handlerVars, hostVars, TypeOK, RInv
    <3> QED
      BY <3>1, <3>2
  <2>3. PlanInv'
    BY <1>9 DEF AnswerSystem, Answer, handlerVars, hostVars, PlanInv
  <2> QED
    BY <2>1, <2>2, <2>3 DEF RInv
<1>10. ASSUME NEW r \in Requests, AnswerModule(r)
      PROVE  IInv'
  <2>1. TypeOK'
    BY <1>10 DEF AnswerModule, Answer, handlerVars, hostVars, TypeOK
  <2>2. ASSUME NEW q \in Requests PROVE RInv(q)'
    <3>1. CASE q = r
      <4>1. /\ order[r].targets \subseteq Modules
            /\ \A m \in order[r].targets : worker[r][m] = "sent"
            /\ \A m \in Modules \ order[r].targets : worker[r][m] = "none"
        BY <1>10 DEF AnswerModule, StageInv, TypeOK, Orders
      <4>2. \A m \in order[r].targets : results[r][m] \in {"accepted", "failed"}
        BY <4>1 DEF ResultInv, TypeOK
      <4>3. /\ pc'[r] = "replied" /\ order' = order /\ worker' = worker
            /\ rpc' = rpc /\ results' = results
            /\ reply'[r] = IF \E m \in Modules : results[r][m] = "failed" THEN "failed" ELSE "ok"
        BY <1>10 DEF AnswerModule, Answer, TypeOK
      <4>4. StageInv(r)' /\ ResultInv(r)' /\ OrderInv(r)'
        BY <4>3 DEF StageInv, ResultInv, OrderInv
      <4>5. ReplyInv(r)'
        BY <4>1, <4>2, <4>3 DEF ReplyInv, TypeOK, Orders
      <4> QED
        BY <3>1, <4>4, <4>5 DEF RInv
    <3>2. CASE q # r
      BY <1>10, <3>2, Frame DEF AnswerModule, Answer, handlerVars, hostVars, TypeOK, RInv
    <3> QED
      BY <3>1, <3>2
  <2>3. PlanInv'
    BY <1>10 DEF AnswerModule, Answer, handlerVars, hostVars, PlanInv
  <2> QED
    BY <2>1, <2>2, <2>3 DEF RInv
<1>11. ASSUME NEW r \in Requests, NEW m \in Modules, Execute(r, m)
      PROVE  IInv'
  <2>1. [kind |-> order[r].kind, minutes |-> PlannedMinutes(CallDelay(r, m)), by |-> r] \in Plans
    BY <1>11 DEF TypeOK, Orders, Plans, PlannedMinutes, CallDelay, MinGatewayDelay
  <2>2. plan' \in [Modules -> SUBSET Plans]
    BY <1>11, <2>1 DEF Execute, TypeOK
  <2>3. TypeOK'
    BY <1>11, <2>2 DEF Execute, handlerVars, TypeOK
  <2>4. ASSUME NEW q \in Requests PROVE RInv(q)'
    <3>1. CASE q = r
      <4>1. Counted(r)' = Counted(r)
        BY <1>11 DEF Execute, Counted
      <4>2. StageInv(r)' /\ OrderInv(r)' /\ ReplyInv(r)'
        BY <1>11, <4>1 DEF Execute, handlerVars, StageInv, OrderInv, ReplyInv
      <4>3. ResultInv(r)'
        BY <1>11 DEF Execute, TypeOK, ResultInv
      <4> QED
        BY <3>1, <4>2, <4>3 DEF RInv
    <3>2. CASE q # r
      BY <1>11, <3>2, Frame DEF Execute, handlerVars, TypeOK, RInv
    <3> QED
      BY <3>1, <3>2
  <2>5. PlanInv'
    <3>1. rpc'[r][m] = "executed"
      BY <1>11 DEF Execute, TypeOK
    <3>2. \A q \in Requests, n \in Modules : rpc[q][n] = "executed" => rpc'[q][n] = "executed"
      BY <1>11 DEF Execute, TypeOK
    <3>3. \A n \in Modules : \A p \in plan'[n] : p \in plan[n] \/ (n = m /\ p.by = r)
      BY <1>11 DEF Execute, TypeOK
    <3> QED
      BY <3>1, <3>2, <3>3 DEF PlanInv, TypeOK, Plans
  <2> QED
    BY <2>3, <2>4, <2>5 DEF RInv
<1>12. ASSUME NEW r \in Requests, NEW m \in Modules, Refuse(r, m)
      PROVE  IInv'
  <2>1. TypeOK'
    BY <1>12 DEF Refuse, handlerVars, hostVars, TypeOK
  <2>2. ASSUME NEW q \in Requests PROVE RInv(q)'
    <3>1. CASE q = r
      <4>1. Counted(r)' = Counted(r)
        BY <1>12 DEF Refuse, Counted
      <4>2. StageInv(r)' /\ OrderInv(r)' /\ ReplyInv(r)'
        BY <1>12, <4>1 DEF Refuse, handlerVars, StageInv, OrderInv, ReplyInv
      <4>3. ResultInv(r)'
        BY <1>12 DEF Refuse, TypeOK, ResultInv
      <4> QED
        BY <3>1, <4>2, <4>3 DEF RInv
    <3>2. CASE q # r
      BY <1>12, <3>2, Frame DEF Refuse, handlerVars, TypeOK, RInv
    <3> QED
      BY <3>1, <3>2
  <2>3. PlanInv'
    BY <1>12 DEF Refuse, hostVars, PlanInv, TypeOK, Plans
  <2> QED
    BY <2>1, <2>2, <2>3 DEF RInv
<1>13. ASSUME NEW m \in Modules, MinutePasses(m)
      PROVE  IInv'
  <2>1. PICK p \in plan[m] : plan' = [plan EXCEPT ![m] = {[p EXCEPT !.minutes = @ - 1]}]
    BY <1>13 DEF MinutePasses
  <2>2. p \in Plans /\ [p EXCEPT !.minutes = @ - 1] \in Plans
    <3>1. p \in Plans
      BY <2>1 DEF TypeOK
    <3>2. p.minutes - 1 \in Int
      BY <3>1 DEF Plans
    <3> QED
      BY <3>1, <3>2 DEF Plans
  <2>3. UNCHANGED <<handlerVars, worker, wg, rpc, results, power>>
    BY <1>13 DEF MinutePasses
  <2>4. TypeOK'
    BY <2>1, <2>2, <2>3 DEF TypeOK, handlerVars
  <2>5. ASSUME NEW q \in Requests PROVE RInv(q)'
    BY <2>3, Frame DEF handlerVars, RInv
  <2>6. PlanInv'
    <3>1. \A n \in Modules : \A x \in plan'[n] :
            x \in plan[n] \/ (n = m /\ x.by = p.by)
      BY <2>1, <2>2 DEF TypeOK, Plans
    <3> QED
      BY <2>3, <3>1 DEF PlanInv
  <2> QED
    BY <2>4, <2>5, <2>6 DEF RInv
<1>14. ASSUME NEW m \in Modules, GoDown(m)
      PROVE  IInv'
  <2>1. \A q \in Requests, n \in Modules :
          rpc'[q][n] = IF n = m /\ rpc[q][n] = "pending" THEN "cut" ELSE rpc[q][n]
    BY <1>14 DEF GoDown, TypeOK
  <2>2. \A q \in Requests : pc'[q] = pc[q] \/ (Running(q) /\ pc'[q] = "lost")
    BY <1>14 DEF GoDown
  <2>3. /\ order' = order /\ worker' = worker /\ wg' = wg
        /\ results' = results /\ reply' = reply
    BY <1>14 DEF GoDown
  <2>4. TypeOK'
    <3>1. /\ pc' \in [Requests -> {"idle", "fanout", "gateway", "single", "replied", "lost"}]
          /\ rpc' \in [Requests -> [Modules -> {"none", "pending", "executed", "refused", "cut"}]]
      BY <1>14 DEF GoDown, TypeOK
    <3>2. power' \in [Modules -> {"up", "rebooting", "off"}] /\ plan' \in [Modules -> SUBSET Plans]
      BY <1>14 DEF GoDown, TypeOK
    <3> QED
      BY <2>3, <3>1, <3>2 DEF TypeOK
  <2>5. ASSUME NEW q \in Requests PROVE RInv(q)'
    <3>1. Counted(q)' = Counted(q)
      BY <2>3 DEF Counted
    <3>2. StageInv(q)'
      BY <2>2, <2>3, <3>1 DEF StageInv
    <3>3. ResultInv(q)' /\ OrderInv(q)'
      BY <2>1, <2>3 DEF ResultInv, OrderInv
    <3>4. ReplyInv(q)'
      BY <2>2, <2>3 DEF ReplyInv, Running
    <3> QED
      BY <3>2, <3>3, <3>4 DEF RInv
  <2>6. PlanInv'
    <3>1. \A n \in Modules : plan'[n] \subseteq plan[n]
      BY <1>14 DEF GoDown, TypeOK
    <3> SUFFICES ASSUME NEW n \in Modules, NEW p \in plan'[n]
                 PROVE  rpc'[p.by][n] = "executed"
      BY DEF PlanInv
    <3>2. p \in plan[n] /\ p \in Plans /\ p.by \in Requests
      BY <3>1 DEF TypeOK, Plans
    <3>3. rpc[p.by][n] = "executed"
      BY <3>2 DEF PlanInv
    <3> QED
      BY <2>1, <3>2, <3>3
  <2> QED
    BY <2>4, <2>5, <2>6 DEF RInv
<1>15. ASSUME NEW m \in Modules, Boot(m)
      PROVE  IInv'
  <2>1. TypeOK'
    BY <1>15 DEF Boot, handlerVars, TypeOK
  <2>2. ASSUME NEW q \in Requests PROVE RInv(q)'
    BY <1>15, Frame DEF Boot, handlerVars, RInv
  <2>3. PlanInv'
    BY <1>15 DEF Boot, PlanInv
  <2> QED
    BY <2>1, <2>2, <2>3 DEF RInv
<1>16. CASE UNCHANGED vars
  <2>1. TypeOK' /\ PlanInv'
    BY <1>16 DEF vars, TypeOK, PlanInv
  <2>2. ASSUME NEW q \in Requests PROVE RInv(q)'
    BY <1>16, Frame DEF vars, RInv
  <2> QED
    BY <2>1, <2>2 DEF RInv
<1> QED
  BY <1>1, <1>2, <1>3, <1>4, <1>5, <1>6, <1>7, <1>8, <1>9, <1>10, <1>11, <1>12,
     <1>13, <1>14, <1>15, <1>16
  DEF Next, Arrive, Handler, Worker, Manager, Host

\* The inductive invariant holds in every reachable state.
THEOREM Invariance == Spec => []IInv
<1> QED
  BY InitInv, StepInv, PTL DEF Spec

\* Types; in particular no WaitGroup counter ever becomes negative.
THEOREM TypeCorrect == Spec => []TypeOK
<1>1. IInv => TypeOK
  BY DEF IInv
<1> QED
  BY <1>1, Invariance, PTL

\* What the gateway sends is a call of drs.module.v1 with a delay, and what it is
\* answered repeats that delay.
THEOREM MessagesHold == Spec => []MessagesFitTheApi
<1>1. TypeOK => MessagesFitTheApi
  BY DEF TypeOK, Orders, Kinds, CallDelay, MinGatewayDelay, MessagesFitTheApi, CallMessage,
         AnswerMessage, Method, Api!Call, Api!Answer, Api!RebootRequest, Api!RebootResponse,
         Api!ShutdownRequest, Api!ShutdownResponse
<1>2. QED
  BY <1>1, TypeCorrect, PTL

\* The gateway's own host is not planned to go down by a system operation
\* whose calls to the other modules are not all over.
THEOREM GatewayLast == Spec => []GatewayHostGoesDownLast
<1>1. IInv => GatewayHostGoesDownLast
  <2> SUFFICES ASSUME IInv, APIGatewayHost \in Modules,
                      NEW p \in plan[APIGatewayHost], order[p.by].system,
                      NEW m \in Others
               PROVE  results[p.by][m] # "none"
    BY DEF GatewayHostGoesDownLast
  <2>1. p.by \in Requests /\ rpc[p.by][APIGatewayHost] = "executed"
    BY DEF IInv, TypeOK, Plans, PlanInv
  <2>2. worker[p.by][APIGatewayHost] # "none"
    BY <2>1 DEF IInv, ResultInv
  <2> QED
    BY <2>1, <2>2 DEF IInv, OrderInv
<1> QED
  BY <1>1, Invariance, PTL

\* A 200 answer means that every module of the operation executed it.
THEOREM OkIsTrue == Spec => []OkMeansExecuted
<1>1. IInv => OkMeansExecuted
  BY DEF IInv, OkMeansExecuted, ReplyInv, ResultInv, TypeOK, Orders
<1> QED
  BY <1>1, Invariance, PTL

-----------------------------------------------------------------------------
(* The goroutines, the WaitGroup and the channel implement the promise. *)

\* A step that leaves the stages, orders, results and answers alone stutters.
LEMMA PromiseStutter ==
  UNCHANGED <<pc, order, results, reply>> => UNCHANGED Promise!avars
  BY DEF Promise!avars, Phase

\* A goroutine that sends its result settles its module.
LEMMA PromiseSettle ==
  ASSUME IInv, NEW r \in Requests, NEW m \in Modules, NEW o \in {"accepted", "failed"},
         Running(r), worker[r][m] \in {"start", "calling"}, Send(r, m, o),
         UNCHANGED handlerVars
  PROVE  Promise!Settle(r, m)
<1>1. Phase(pc[r]) = "open"
  BY DEF Running, Phase
<1>2. m \in order[r].targets
  BY DEF IInv, StageInv, Running
<1>3. results[r][m] = "none"
  BY DEF IInv, ResultInv
<1>4. m = APIGatewayHost =>
        \A other \in order[r].targets \ {APIGatewayHost} : results[r][other] # "none"
  <2> SUFFICES ASSUME m = APIGatewayHost,
                      NEW other \in order[r].targets \ {APIGatewayHost}
               PROVE  results[r][other] # "none"
    OBVIOUS
  <2>1. CASE order[r].system
    BY <2>1 DEF IInv, OrderInv, Others, TypeOK, Orders
  <2>2. CASE ~ order[r].system
    <3>1. pc[r] = "single"
      BY <2>2 DEF IInv, StageInv, Running
    <3>2. order[r].targets = {m}
      BY <1>2, <3>1 DEF IInv, StageInv
    <3> QED
      BY <3>2
  <2> QED
    BY <2>1, <2>2
<1>5. results' = [results EXCEPT ![r][m] = o]
  BY DEF Send
<1> QED
  BY <1>1, <1>2, <1>3, <1>4, <1>5 DEF Promise!Settle, Promise!Settled, handlerVars, Phase

\* The promise begins with no operation open.
LEMMA PromiseInit == Init => Promise!AInit
  BY DEF Init, Promise!AInit, Phase

\* A request that arrives opens an operation on its targets.
LEMMA PromiseOpen ==
  ASSUME TypeOK, NEW r \in Requests, NEW S \in SUBSET Modules, NEW rec, NEW stage,
         pc[r] = "idle", stage \in {"fanout", "single"}, rec.targets = S,
         pc' = [pc EXCEPT ![r] = stage], order' = [order EXCEPT ![r] = rec],
         UNCHANGED <<results, reply>>
  PROVE  Promise!Open(r)
<1>1. [q \in Requests |-> Phase(pc[q])]' =
        [[q \in Requests |-> Phase(pc[q])] EXCEPT ![r] = "open"]
  BY DEF TypeOK, Phase
<1>2. [q \in Requests |-> order[q].targets]' =
        [[q \in Requests |-> order[q].targets] EXCEPT ![r] = S]
  BY DEF TypeOK
<1>3. Phase(pc[r]) = "new"
  BY DEF Phase
<1> QED
  BY <1>1, <1>2, <1>3 DEF Promise!Open

\* The handler's answer concludes the operation with every target settled.
LEMMA PromiseConclude ==
  ASSUME IInv, IInv', NEW r \in Requests, Running(r), Answer(r)
  PROVE  Promise!Conclude(r)
<1>1. [q \in Requests |-> Phase(pc[q])]' =
        [[q \in Requests |-> Phase(pc[q])] EXCEPT ![r] = "answered"]
  BY DEF IInv, TypeOK, Phase, Answer
<1>2. Phase(pc[r]) = "open"
  BY DEF Running, Phase
<1>3. /\ order' = order /\ results' = results
      /\ reply' = [reply EXCEPT ![r] =
           IF \E m \in Modules : results[r][m] = "failed" THEN "failed" ELSE "ok"]
  BY DEF Answer
<1>4. order[r].targets \subseteq Modules
  BY DEF IInv, TypeOK, Orders
<1>5. \A m \in order[r].targets : results[r][m] # "none"
  <2>1. pc'[r] = "replied"
    BY DEF Answer, IInv, TypeOK
  <2> QED
    BY <1>3, <2>1 DEF IInv, ReplyInv
<1>6. \A m \in Modules \ order[r].targets : results[r][m] = "none"
  <2>1. \A m \in Modules \ order[r].targets : worker[r][m] = "none"
    BY DEF Running, IInv, StageInv
  <2> QED
    BY <2>1 DEF IInv, ResultInv
<1>7. (\E m \in Modules : results[r][m] = "failed")
        <=> ~ \A m \in order[r].targets : results[r][m] = "accepted"
  <2>1. \A m \in Modules : results[r][m] \in {"none", "accepted", "failed"}
    BY DEF IInv, TypeOK
  <2> QED
    BY <1>4, <1>5, <1>6, <2>1
<1> QED
  BY <1>1, <1>2, <1>3, <1>5, <1>7 DEF Promise!Conclude, Promise!Settled

\* The gateway's host going down loses every open operation.
LEMMA PromiseLose ==
  ASSUME TypeOK, UNCHANGED <<order, results, reply>>,
         pc' = [q \in Requests |-> IF Running(q) THEN "lost" ELSE pc[q]]
  PROVE  Promise!LoseAll
<1>1. \A q \in Requests : Phase(pc'[q]) = IF Phase(pc[q]) = "open" THEN "lost" ELSE Phase(pc[q])
  BY DEF TypeOK, Running, Phase
<1> QED
  BY <1>1 DEF Promise!LoseAll

\* Every step is a step of the promise or leaves it alone.
LEMMA PromiseStep ==
  IInv /\ IInv' /\ [Next]_vars => [Promise!ANext]_(Promise!avars)
<1> SUFFICES ASSUME IInv, IInv', [Next]_vars
             PROVE  Promise!ANext \/ UNCHANGED Promise!avars
  OBVIOUS
<1>1. ASSUME NEW r \in Requests, NEW kind \in Kinds, NEW d \in Delays,
             SystemRequest(r, kind, d)
      PROVE  Promise!Open(r)
  BY <1>1, PromiseOpen, Modules \in SUBSET Modules DEF SystemRequest, IInv
<1>2. ASSUME NEW r \in Requests, NEW kind \in Kinds, NEW m \in Modules, NEW d \in Delays,
             ModuleRequest(r, kind, m, d)
      PROVE  Promise!Open(r)
  BY <1>2, PromiseOpen, {m} \in SUBSET Modules DEF ModuleRequest, IInv
<1>3. ASSUME NEW r \in Requests, NEW m \in Modules, NoClients(r, m) \/ Return(r, m) \/ GiveUp(r, m)
      PROVE  Promise!Settle(r, m)
  <2>1. \E o \in {"accepted", "failed"} : Send(r, m, o)
    BY <1>3, Accepted DEF NoClients, Return, GiveUp
  <2> QED
    BY <1>3, <2>1, PromiseSettle, Accepted DEF NoClients, Return, GiveUp
<1>4. ASSUME NEW r \in Requests, NEW m \in Modules,
             Call(r, m) \/ Done(r, m) \/ Execute(r, m) \/ Refuse(r, m)
      PROVE  UNCHANGED Promise!avars
  BY <1>4, PromiseStutter DEF Call, Done, Execute, Refuse, handlerVars
<1>5. ASSUME NEW r \in Requests, StartGatewayHost(r)
      PROVE  UNCHANGED Promise!avars
  <2>1. \A q \in Requests : Phase(pc'[q]) = Phase(pc[q])
    BY <1>5 DEF StartGatewayHost, Phase, IInv, TypeOK
  <2> QED
    BY <1>5, <2>1 DEF StartGatewayHost, Promise!avars
<1>6. ASSUME NEW r \in Requests, AnswerSystem(r) \/ AnswerModule(r)
      PROVE  Promise!Conclude(r)
  BY <1>6, PromiseConclude DEF AnswerSystem, AnswerModule, Running
<1>7. ASSUME NEW m \in Modules, GoDown(m)
      PROVE  Promise!LoseAll \/ UNCHANGED Promise!avars
  <2>1. CASE m = APIGatewayHost
    BY <1>7, <2>1, PromiseLose DEF GoDown, IInv
  <2>2. CASE m # APIGatewayHost
    <3>1. pc' = pc
      BY <1>7, <2>2 DEF GoDown, IInv, TypeOK
    <3> QED
      BY <1>7, <3>1, PromiseStutter DEF GoDown
  <2> QED
    BY <2>1, <2>2
<1>8. ASSUME NEW m \in Modules, MinutePasses(m) \/ Boot(m)
      PROVE  UNCHANGED Promise!avars
  BY <1>8, PromiseStutter DEF MinutePasses, Boot, handlerVars
<1>9. CASE UNCHANGED vars
  BY <1>9, PromiseStutter DEF vars
<1> QED
  BY <1>1, <1>2, <1>3, <1>4, <1>5, <1>6, <1>7, <1>8, <1>9
  DEF Next, Arrive, Handler, Worker, Manager, Host, Promise!ANext

\* Every behaviour of the handlers is a behaviour of the promise.
THEOREM Refinement == Spec => KeepsPromise
<1> QED
  BY PromiseInit, PromiseStep, Invariance, PTL DEF Spec, KeepsPromise, Promise!ASpec
-----------------------------------------------------------------------------
(* The delays *)

\* shutdown(8) is told the minutes that fit into the delay.
LEMMA MinutesFit ==
  ASSUME NEW d \in Int, d >= 0
  PROVE  /\ PlannedMinutes(d) \in Nat
         /\ 60 * PlannedMinutes(d) <= d /\ d < 60 * (PlannedMinutes(d) + 1)
BY DEF PlannedMinutes

\* A plan was made by a request that has begun, on a call that was executed.
LEMMA PlannersHaveBegun ==
  ASSUME IInv, NEW m \in Modules, NEW p \in plan[m]
  PROVE  /\ p.by \in Requests /\ p.minutes \in Int
         /\ rpc[p.by][m] = "executed" /\ worker[p.by][m] \notin {"none", "start"}
         /\ pc[p.by] # "idle"
<1>1. p \in Plans
  BY DEF IInv, TypeOK
<1>2. p.by \in Requests /\ p.minutes \in Int
  BY <1>1 DEF Plans
<1>3. rpc[p.by][m] = "executed"
  BY DEF IInv, PlanInv
<1>4. worker[p.by][m] \notin {"none", "start"}
  BY <1>2, <1>3 DEF IInv, ResultInv
<1> QED
  BY <1>2, <1>3, <1>4 DEF IInv, StageInv

\* What DelaysHonoured asks for is missed by less than a minute: a plan that a command
\* makes is the longest of whole minutes that fits into the delay it was given.
LessThanAMinuteEarly ==
  [][\A m \in Modules : plan'[m] # plan[m] =>
       \A p \in plan'[m] : rpc[p.by][m] # "executed" =>
         /\ 60 * p.minutes <= CallDelay(p.by, m)
         /\ CallDelay(p.by, m) < 60 * (p.minutes + 1)]_vars

\* Whatever the delays, the module-managers cut off less than a minute of them.
THEOREM DelaysNearlyHonoured == Spec => LessThanAMinuteEarly
<1>1. ASSUME IInv, [Next]_vars, NEW m \in Modules, plan'[m] # plan[m],
             NEW p \in plan'[m], rpc[p.by][m] # "executed"
      PROVE  /\ 60 * p.minutes <= CallDelay(p.by, m)
             /\ CallDelay(p.by, m) < 60 * (p.minutes + 1)
  <2>t. plan \in [Modules -> SUBSET Plans] /\ order \in [Requests -> Orders]
    BY <1>1 DEF IInv, TypeOK
  <2>1. \/ \E r \in Requests, n \in Modules : Execute(r, n)
        \/ \E n \in Modules : MinutePasses(n) \/ GoDown(n)
    BY <1>1 DEF Next, Arrive, Handler, Worker, Manager, Host, vars, hostVars, SystemRequest,
                ModuleRequest, StartGatewayHost, AnswerSystem, AnswerModule, Answer, NoClients,
                Call, Return, GiveUp, Done, Refuse, Boot
  \* Only the last command of a host makes a plan that its own request has not yet.
  <2>2. CASE \E r \in Requests, n \in Modules : Execute(r, n)
    <3> PICK r \in Requests, n \in Modules : Execute(r, n)
      BY <2>2
    <3>1. n = m
      BY <1>1, <2>t DEF Execute
    <3>2. p = [kind |-> order[r].kind, minutes |-> PlannedMinutes(CallDelay(r, m)), by |-> r]
      BY <1>1, <2>t, <3>1 DEF Execute
    <3>3. CallDelay(r, m) \in Int /\ CallDelay(r, m) >= 0
      <4>1. order[r].delay \in Int
        BY <2>t DEF Orders
      <4>2. CallDelay(r, m) \in Int
        BY <4>1 DEF CallDelay, MinGatewayDelay
      <4>3. ~ (CallDelay(r, m) < 0)
        BY <3>1 DEF Execute, Refuses, NegativeDelay
      <4> QED
        BY <4>2, <4>3
    <3>4. p.by = r /\ p.minutes = PlannedMinutes(CallDelay(r, m))
      BY <3>2
    <3> HIDE DEF CallDelay
    <3> QED
      BY <3>3, <3>4, MinutesFit
  <2>3. CASE \E n \in Modules : MinutePasses(n) \/ GoDown(n)
    <3> PICK n \in Modules : MinutePasses(n) \/ GoDown(n)
      BY <2>3
    <3>1. n = m
      BY <1>1, <2>t DEF MinutePasses, GoDown
    <3>2. PICK old \in plan[m] : plan'[m] = {[old EXCEPT !.minutes = @ - 1]} \/ plan'[m] = {}
      BY <2>t, <3>1 DEF MinutePasses, GoDown
    <3>3. p.by = old.by
      BY <1>1, <2>t, <3>2 DEF Plans
    <3> QED
      BY <1>1, <3>3 DEF IInv, PlanInv
  <2> QED
    BY <2>1, <2>2, <2>3
<1>2. IInv /\ [Next]_vars =>
        [\A m \in Modules : plan'[m] # plan[m] =>
           \A p \in plan'[m] : rpc[p.by][m] # "executed" =>
             /\ 60 * p.minutes <= CallDelay(p.by, m)
             /\ CallDelay(p.by, m) < 60 * (p.minutes + 1)]_vars
  BY <1>1
<1> QED
  BY <1>2, Invariance, PTL DEF Spec, LessThanAMinuteEarly
-----------------------------------------------------------------------------
(* Nothing gets stuck *)

\* While a goroutine has its result still to send, the channel has room for it.
LEMMA RoomForEveryResult ==
  ASSUME IInv, NEW r \in Requests, NEW m \in Modules, worker[r][m] \in {"start", "calling"}
  PROVE  HasRoom(r)
<1> DEFINE sent == {n \in Modules : results[r][n] # "none"}
<1>1. sent \in SUBSET Modules /\ m \notin sent
  BY DEF IInv, ResultInv
<1> HIDE DEF sent
<1>2. /\ Cardinality(sent) <= Cardinality(Modules)
      /\ Cardinality(sent) = Cardinality(Modules) => sent = Modules
      /\ IsFiniteSet(sent)
  BY <1>1, ModulesAssumption, FS_Subset
<1>3. Cardinality(sent) # Cardinality(Modules)
  BY <1>1, <1>2
<1>4. Cardinality(sent) \in Nat /\ Cardinality(Modules) \in Nat
  BY <1>2, ModulesAssumption, FS_CardinalityType
<1> QED
  BY <1>2, <1>3, <1>4 DEF HasRoom, Capacity, sent

\* No goroutine sends on the results channel after it was closed, nor waits for room
\* on it, for any number of modules.
THEOREM ChannelSafe == Spec => []SendsSucceed
<1>1. IInv => SendsSucceed
  BY RoomForEveryResult DEF IInv, SendsSucceed, ReplyInv
<1> QED
  BY <1>1, Invariance, PTL

\* Only goroutines are counted down; a handler that calls by itself is not one.
SingleInv == \A r \in Requests, m \in Modules : pc[r] = "single" => worker[r][m] # "done"

LEMMA SingleStep == IInv /\ SingleInv /\ [Next]_vars => SingleInv'
<1> SUFFICES ASSUME IInv, SingleInv, [Next]_vars PROVE SingleInv'
  OBVIOUS
<1> USE DEF SingleInv, IInv, TypeOK
<1>1. ASSUME NEW r \in Requests, Arrive(r) PROVE SingleInv'
  <2>1. ASSUME NEW kind \in Kinds, NEW d \in Delays, SystemRequest(r, kind, d)
        PROVE  SingleInv'
    BY <2>1 DEF SystemRequest
  <2>2. ASSUME NEW kind \in Kinds, NEW d \in Delays, NEW m \in Modules,
               ModuleRequest(r, kind, m, d)
        PROVE  SingleInv'
    <3>1. \A n \in Modules : worker[r][n] = "none"
      BY <2>2 DEF ModuleRequest, StageInv
    <3> QED
      BY <2>2, <3>1 DEF ModuleRequest
  <2> QED
    BY <1>1, <2>1, <2>2 DEF Arrive
<1>2. ASSUME NEW r \in Requests, Handler(r) PROVE SingleInv'
  BY <1>2 DEF Handler, StartGatewayHost, AnswerSystem, AnswerModule, Answer
<1>3. ASSUME NEW r \in Requests, NEW m \in Modules, Worker(r, m) PROVE SingleInv'
  <2>1. pc' = pc
    BY <1>3 DEF Worker, NoClients, Call, Return, GiveUp, Done, handlerVars
  <2>2. CASE Done(r, m)
    BY <2>1, <2>2 DEF Done
  <2>3. CASE NoClients(r, m) \/ Call(r, m) \/ Return(r, m) \/ GiveUp(r, m)
    <3>1. \E next \in {"calling", "sent"} : worker' = [worker EXCEPT ![r][m] = next]
      BY <2>3 DEF NoClients, Call, Return, GiveUp, Send
    <3> QED
      BY <2>1, <3>1
  <2> QED
    BY <1>3, <2>2, <2>3 DEF Worker
<1>4. ASSUME NEW r \in Requests, NEW m \in Modules, Manager(r, m) PROVE SingleInv'
  BY <1>4 DEF Manager, Execute, Refuse, handlerVars
<1>5. ASSUME NEW m \in Modules, Host(m) PROVE SingleInv'
  BY <1>5 DEF Host, MinutePasses, GoDown, Boot, handlerVars
<1>6. CASE UNCHANGED vars
  BY <1>6 DEF vars
<1> QED
  BY <1>1, <1>2, <1>3, <1>4, <1>5, <1>6 DEF Next

\* A handler that calls by itself never has a goroutine that is done.
LEMMA SingleHolds == Spec => []SingleInv
<1>1. Init => SingleInv
  BY DEF Init, SingleInv
<1> QED
  BY <1>1, SingleStep, Invariance, PTL DEF Spec

\* For any number of modules, a request under way can always go on: its channel is
\* never too small, and its WaitGroup never waits for a goroutine that is not there.
THEOREM NoDeadlock == Spec => []NeverStuck
<1>1. IInv /\ SingleInv => NeverStuck
  <2> SUFFICES ASSUME IInv, SingleInv, NEW r \in Requests, Running(r), pc[r] = "single" \/ wg[r] # 0
               PROVE  \E m \in Modules :
                        \/ worker[r][m] \in {"start", "calling"}
                             /\ (order[r].system => HasRoom(r))
                        \/ worker[r][m] = "sent"
    BY DEF NeverStuck
  <2>1. \E m \in Modules : worker[r][m] \in {"start", "calling", "sent"}
    <3>1. CASE pc[r] = "single"
      <4>1. PICK m \in Modules : worker[r][m] # "none" /\ order[r].targets = {m}
        BY <3>1 DEF IInv, StageInv
      <4>2. worker[r][m] # "done"
        BY <3>1 DEF SingleInv
      <4> QED
        BY <4>1, <4>2 DEF IInv, TypeOK
    <3>2. CASE pc[r] # "single"
      <4>1. wg[r] = Cardinality(Counted(r)) /\ wg[r] # 0
        BY <3>2 DEF Running, IInv, StageInv
      <4>2. Counted(r) # {}
        BY <4>1, CountedFinite
      <4> QED
        BY <4>2 DEF Counted
    <3> QED
      BY <3>1, <3>2
  <2> QED
    BY <2>1, RoomForEveryResult
<1> QED
  BY <1>1, SingleHolds, Invariance, PTL
-----------------------------------------------------------------------------
(* Operations in time *)

\* The variables of a handler and its calls, and that only goroutines count down.
RunInv == IInv /\ SingleInv

\* The plan of a request that still runs has the minutes it was made with, and has
\* stood no longer than its call has been under way; once the call has returned, no
\* longer than a call can be.
InTime(p) ==
  /\ p.minutes >= 1
  /\ waited[APIGatewayHost] <=
       IF worker[p.by][APIGatewayHost] = "calling" THEN age[p.by][APIGatewayHost] ELSE Timeout

ClockTypes ==
  /\ age \in [Requests -> [Modules -> 0..Timeout]]
  /\ waited \in [Modules -> 0..Minute]

\* A host has one plan, that of its last command.
OnePlan == \A m \in Modules : \A p, q \in plan[m] : p = q

PlansInTime ==
  APIGatewayHost \in Modules =>
    \A p \in plan[APIGatewayHost] :
      Running(p.by) /\ order[p.by].delay >= 60 => InTime(p)

TimeInv == ClockTypes /\ OnePlan /\ PlansInTime

\* The clocks of a step that takes no time.
Clocks ==
  /\ age' = [r \in Requests |-> [m \in Modules |->
       IF worker'[r][m] = "calling" THEN age[r][m] ELSE 0]]
  /\ waited' = [m \in Modules |-> IF plan'[m] = plan[m] THEN waited[m] ELSE 0]

\* The clocks keep their bounds: a call that has reached its deadline stops the time.
LEMMA ClockTypesStep == ClockTypes /\ [TimedNext]_tvars => ClockTypes'
<1> SUFFICES ASSUME ClockTypes, [TimedNext]_tvars PROVE ClockTypes'
  OBVIOUS
<1> USE TimeAssumption DEF ClockTypes
<1>1. CASE TimedStep
  BY <1>1 DEF TimedStep
<1>2. CASE Tick
  <2>1. ASSUME NEW r \in Requests, NEW m \in Modules, Waits(r, m)
        PROVE  age[r][m] + 1 \in 0..Timeout
    <3>1. age[r][m] # Timeout
      BY <1>2, <2>1 DEF Tick, Expired
    <3> QED
      BY <3>1
  <2>2. age' \in [Requests -> [Modules -> 0..Timeout]]
    BY <1>2, <2>1 DEF Tick
  <2>3. waited' \in [Modules -> 0..Minute]
    BY <1>2 DEF Tick
  <2> QED
    BY <2>2, <2>3
<1>3. CASE UNCHANGED tvars
  BY <1>3 DEF tvars
<1> QED
  BY <1>1, <1>2, <1>3 DEF TimedNext

\* A step of the gateway or of another host: the plan of the gateway's host stays, and
\* nobody who has a part in it begins to run or to call again.
LEMMA PlanStays ==
  ASSUME IInv, ClockTypes, PlansInTime, Clocks,
         APIGatewayHost \in Modules => plan'[APIGatewayHost] = plan[APIGatewayHost],
         \A r \in Requests :
           pc[r] # "idle" => (Running(r)' => Running(r)) /\ order'[r] = order[r],
         APIGatewayHost \in Modules =>
           \A r \in Requests :
             worker[r][APIGatewayHost] \notin {"none", "start"}
               /\ worker'[r][APIGatewayHost] = "calling"
               => worker[r][APIGatewayHost] = "calling"
  PROVE  PlansInTime'
<1> DEFINE g == APIGatewayHost
<1> SUFFICES ASSUME g \in Modules, NEW p \in plan'[g], Running(p.by)', order'[p.by].delay >= 60
             PROVE  InTime(p)'
  BY DEF PlansInTime
<1>1. p \in plan[g]
  OBVIOUS
<1>2. /\ p.by \in Requests /\ pc[p.by] # "idle"
      /\ worker[p.by][g] \notin {"none", "start"}
  BY <1>1, PlannersHaveBegun
<1>3. InTime(p)
  BY <1>1, <1>2 DEF PlansInTime
<1>4. waited'[g] = waited[g]
  BY DEF Clocks
<1>5. worker'[p.by][g] = "calling" =>
        worker[p.by][g] = "calling" /\ age'[p.by][g] = age[p.by][g]
  BY <1>2 DEF Clocks
<1>6. age[p.by][g] <= Timeout /\ age[p.by][g] \in Nat /\ waited[g] \in Nat
  BY <1>2, TimeAssumption DEF ClockTypes
<1> QED
  BY <1>3, <1>4, <1>5, <1>6, TimeAssumption DEF InTime

\* A host that takes a command has that one plan, or keeps the one by which it is just
\* going down.
LEMMA ExecuteInTime ==
  ASSUME IInv, TimeInv, Clocks, NEW r \in Requests, NEW m \in Modules, Execute(r, m)
  PROVE  PlansInTime'
<1> DEFINE g == APIGatewayHost
           new == [kind |-> order[r].kind,
                   minutes |-> PlannedMinutes(CallDelay(r, m)), by |-> r]
<1>t. /\ order \in [Requests -> Orders] /\ plan \in [Modules -> SUBSET Plans]
      /\ worker \in [Requests -> [Modules -> {"none", "start", "calling", "sent", "done"}]]
  BY DEF IInv, TypeOK
<1>1. /\ pc' = pc /\ order' = order /\ worker' = worker
      /\ \A n \in Modules : n # m => plan'[n] = plan[n]
      /\ plan'[m] = plan[m] \/ plan'[m] = {new}
  BY <1>t DEF Execute, handlerVars
<1>2. CASE g \in Modules /\ plan'[g] # plan[g]
  <2> SUFFICES ASSUME NEW p \in plan'[g], Running(p.by)', order'[p.by].delay >= 60
               PROVE  InTime(p)'
    BY DEF PlansInTime
  <2>1. m = g /\ p = new
    BY <1>1, <1>2
  <2>2. p.by = r /\ p.minutes = PlannedMinutes(CallDelay(r, m))
    BY <2>1
  <2>3. order[r].delay \in Int /\ order[r].delay >= 60
    BY <1>1, <1>t, <2>2 DEF Orders
  <2>4. CallDelay(r, m) = order[r].delay
    BY <2>3 DEF CallDelay, MinGatewayDelay
  <2>5. p.minutes >= 1
    BY <2>2, <2>3, <2>4 DEF PlannedMinutes
  <2>6. waited'[g] = 0
    BY <1>2 DEF Clocks
  <2>7. age'[r][g] >= 0 /\ Timeout >= 0
    BY <1>2, TimeAssumption DEF Clocks, TimeInv, ClockTypes
  <2> HIDE DEF new
  <2> QED
    BY <2>2, <2>5, <2>6, <2>7 DEF InTime
<1>3. CASE g \in Modules => plan'[g] = plan[g]
  BY <1>1, <1>3, PlanStays DEF TimeInv, Running
<1> QED
  BY <1>2, <1>3

\* Every step of the operation, of a module-manager or of a host keeps the plans in time.
LEMMA StepInTime ==
  ASSUME IInv, TimeInv, TimedStep
  PROVE  PlansInTime'
<1> DEFINE g == APIGatewayHost
<1>c. Clocks
  BY DEF TimedStep, Clocks
<1>t. /\ pc \in [Requests -> {"idle", "fanout", "gateway", "single", "replied", "lost"}]
      /\ order \in [Requests -> Orders] /\ plan \in [Modules -> SUBSET Plans]
      /\ worker \in [Requests -> [Modules -> {"none", "start", "calling", "sent", "done"}]]
  BY DEF IInv, TypeOK
<1>1. ASSUME NEW r \in Requests, Arrive(r) PROVE PlansInTime'
  <2>1. pc[r] = "idle" /\ plan' = plan
    BY <1>1 DEF Arrive, SystemRequest, ModuleRequest
  <2>2. \A q \in Requests \ {r} :
          pc'[q] = pc[q] /\ order'[q] = order[q] /\ worker'[q] = worker[q]
    BY <1>1, <1>t DEF Arrive, SystemRequest, ModuleRequest
  <2>3. \A m \in Modules : worker'[r][m] # "calling"
    <3>1. \A m \in Modules : worker[r][m] = "none"
      BY <2>1 DEF IInv, StageInv
    <3> QED
      BY <1>1, <1>t, <3>1 DEF Arrive, SystemRequest, ModuleRequest
  <2> QED
    BY <1>c, <2>1, <2>2, <2>3, PlanStays DEF TimeInv, Running
<1>2. ASSUME NEW r \in Requests, Handler(r) PROVE PlansInTime'
  <2>1. Running(r) /\ plan' = plan /\ order' = order
    BY <1>2 DEF Handler, StartGatewayHost, AnswerSystem, AnswerModule, Answer, Running, hostVars
  <2>2. \A q \in Requests \ {r} : pc'[q] = pc[q]
    BY <1>2, <1>t DEF Handler, StartGatewayHost, AnswerSystem, AnswerModule, Answer
  <2>3. \A q \in Requests : \A m \in Modules :
          worker'[q][m] = "calling" => worker[q][m] = "calling"
    BY <1>2, <1>t DEF Handler, StartGatewayHost, AnswerSystem, AnswerModule, Answer
  <2> QED
    BY <1>c, <2>1, <2>2, <2>3, PlanStays DEF TimeInv, Running
<1>3. ASSUME NEW r \in Requests, NEW m \in Modules, Worker(r, m) \/ Refuse(r, m)
      PROVE  PlansInTime'
  <2>1. plan' = plan /\ pc' = pc /\ order' = order
    BY <1>3 DEF Worker, NoClients, Call, Return, GiveUp, Done, Refuse, handlerVars, hostVars
  <2>2. \A q \in Requests : \A n \in Modules :
          worker[q][n] \notin {"none", "start"} /\ worker'[q][n] = "calling"
            => worker[q][n] = "calling"
    <3>1. CASE Call(r, m)
      BY <1>t, <3>1 DEF Call
    <3>2. CASE Refuse(r, m)
      BY <3>2 DEF Refuse
    <3>3. CASE NoClients(r, m) \/ Return(r, m) \/ GiveUp(r, m) \/ Done(r, m)
      <4>1. \E next \in {"sent", "done"} : worker' = [worker EXCEPT ![r][m] = next]
        BY <3>3 DEF NoClients, Return, GiveUp, Done, Send
      <4> QED
        BY <1>t, <4>1
    <3> QED
      BY <1>3, <3>1, <3>2, <3>3 DEF Worker
  <2> QED
    BY <1>c, <2>1, <2>2, PlanStays DEF TimeInv, Running
<1>4. ASSUME NEW r \in Requests, NEW m \in Modules, Execute(r, m) PROVE PlansInTime'
  BY <1>c, <1>4, ExecuteInTime
<1>5. ASSUME NEW m \in Modules, waited[m] = Minute, MinutePasses(m) PROVE PlansInTime'
  <2>1. PICK p \in plan[m] : plan' = [plan EXCEPT ![m] = {[p EXCEPT !.minutes = @ - 1]}]
    BY <1>5 DEF MinutePasses
  <2>2. pc' = pc /\ order' = order /\ worker' = worker
    BY <1>5 DEF MinutePasses, handlerVars
  <2>3. CASE m = g
    \* Its request is over: it would have had to wait longer than its call could.
    <3> DEFINE new == [p EXCEPT !.minutes = @ - 1]
    <3>1. new.by = p.by /\ p.by \in Requests /\ plan'[m] = {new}
      BY <1>t, <2>1 DEF Plans
    <3>2. ~ (Running(p.by) /\ order[p.by].delay >= 60)
      <4>1. SUFFICES ASSUME Running(p.by), order[p.by].delay >= 60 PROVE FALSE
        OBVIOUS
      <4>2. InTime(p)
        BY <2>3, <4>1 DEF TimeInv, PlansInTime
      <4>3. age[p.by][g] <= Timeout /\ age[p.by][g] \in Nat
        BY <2>3, <3>1, TimeAssumption DEF TimeInv, ClockTypes
      <4> QED
        BY <1>5, <2>3, <4>2, <4>3, TimeAssumption DEF InTime
    <3> HIDE DEF new
    <3> QED
      BY <2>2, <2>3, <3>1, <3>2 DEF PlansInTime, Running
  <2>4. CASE m # g
    <3>1. g \in Modules => plan'[g] = plan[g]
      BY <2>1, <2>4
    <3> QED
      BY <1>c, <2>2, <3>1, PlanStays DEF TimeInv, Running
  <2> QED
    BY <2>3, <2>4
<1>6. ASSUME NEW m \in Modules, GoDown(m) PROVE PlansInTime'
  <2>1. plan'[m] = {} /\ \A n \in Modules : n # m => plan'[n] = plan[n]
    BY <1>6, <1>t DEF GoDown
  <2>2. order' = order /\ worker' = worker /\ \A r \in Requests : Running(r)' => Running(r)
    BY <1>6, <1>t DEF GoDown, Running
  <2>3. CASE m = g
    BY <2>1, <2>3 DEF PlansInTime
  <2>4. CASE m # g
    <3>1. g \in Modules => plan'[g] = plan[g]
      BY <2>1, <2>4
    <3> QED
      BY <1>c, <2>2, <3>1, PlanStays DEF TimeInv
  <2> QED
    BY <2>3, <2>4
<1>7. ASSUME NEW m \in Modules, Boot(m) PROVE PlansInTime'
  <2>1. plan' = plan /\ pc' = pc /\ order' = order /\ worker' = worker
    BY <1>7 DEF Boot, handlerVars
  <2> QED
    BY <1>c, <2>1, PlanStays DEF TimeInv, Running
<1> QED
  BY <1>1, <1>2, <1>3, <1>4, <1>5, <1>6, <1>7 DEF TimedStep, Step, Manager, TimedHost

\* Time passes only while every running request waits for an answer: that of the
\* gateway's host, if there is a plan of it.
LEMMA TickInTime ==
  ASSUME RunInv, TimeInv, Tick
  PROVE  PlansInTime'
<1> DEFINE g == APIGatewayHost
<1> SUFFICES ASSUME g \in Modules, NEW p \in plan[g], Running(p.by), order[p.by].delay >= 60
             PROVE  InTime(p)'
  BY DEF PlansInTime, Tick, vars, Running
<1>1. p.by \in Requests /\ worker[p.by][g] \notin {"none", "start"}
  BY PlannersHaveBegun DEF RunInv
<1>2. InTime(p)
  BY DEF TimeInv, PlansInTime
<1>3. ~ Ready(p.by)
  BY <1>1 DEF Tick
<1>4. worker[p.by][g] = "calling"
  <2>1. worker[p.by][g] # "sent"
    BY <1>1, <1>3 DEF Ready
  <2>2. ASSUME worker[p.by][g] = "done" PROVE FALSE
    <3>1. pc[p.by] = "gateway"
      BY <1>1, <2>2 DEF RunInv, SingleInv, IInv, StageInv, Running, Others
    <3>2. Counted(p.by) = {}
      BY <1>1, <2>2, <3>1 DEF RunInv, IInv, StageInv, Counted, Others
    <3>3. wg[p.by] = 0
      BY <1>1, <3>1, <3>2, FS_EmptySet DEF RunInv, IInv, StageInv
    <3> QED
      BY <1>3, <3>1, <3>3 DEF Ready
  <2> QED
    BY <1>1, <2>1, <2>2 DEF RunInv, IInv, TypeOK
<1>5. age'[p.by][g] = age[p.by][g] + 1 /\ waited'[g] <= waited[g] + 1
  BY <1>1, <1>4, TimeAssumption DEF Tick, Waits, TimeInv, ClockTypes
<1>6. age[p.by][g] \in Nat /\ waited[g] \in Nat /\ waited'[g] \in Nat
  BY <1>1, TimeAssumption DEF Tick, TimeInv, ClockTypes
<1>7. worker' = worker
  BY DEF Tick, vars
<1> QED
  BY <1>2, <1>4, <1>5, <1>6, <1>7 DEF InTime

\* A host never has two plans.
LEMMA OnePlanStep == IInv /\ OnePlan /\ [Next]_vars => OnePlan'
<1> SUFFICES ASSUME IInv, OnePlan, [Next]_vars PROVE OnePlan'
  OBVIOUS
<1>t. plan \in [Modules -> SUBSET Plans]
  BY DEF IInv, TypeOK
<1>1. CASE plan' = plan
  BY <1>1 DEF OnePlan
<1>2. CASE \E m \in Modules : \E S : /\ plan' = [plan EXCEPT ![m] = S]
                                     /\ S = plan[m] \/ \A p, q \in S : p = q
  BY <1>2, <1>t DEF OnePlan
<1>3. ASSUME NEW r \in Requests, NEW m \in Modules, Execute(r, m) PROVE OnePlan'
  <2> DEFINE new == {[kind |-> order[r].kind,
                      minutes |-> PlannedMinutes(CallDelay(r, m)), by |-> r]}
  <2>1. plan' = [plan EXCEPT ![m] = plan[m]] \/ plan' = [plan EXCEPT ![m] = new]
    BY <1>3 DEF Execute
  <2>2. \A p, q \in new : p = q
    OBVIOUS
  <2> HIDE DEF new
  <2> QED
    BY <1>2, <2>1, <2>2
<1>4. ASSUME NEW m \in Modules, MinutePasses(m) \/ GoDown(m) PROVE OnePlan'
  <2>1. CASE GoDown(m)
    BY <1>t, <2>1 DEF GoDown, OnePlan
  <2>2. CASE MinutePasses(m)
    <3> PICK p \in plan[m] : plan' = [plan EXCEPT ![m] = {[p EXCEPT !.minutes = @ - 1]}]
      BY <2>2 DEF MinutePasses
    <3> DEFINE new == {[p EXCEPT !.minutes = @ - 1]}
    <3>1. \A x, y \in new : x = y
      OBVIOUS
    <3>2. plan' = [plan EXCEPT ![m] = new]
      OBVIOUS
    <3> HIDE DEF new
    <3> QED
      BY <1>2, <3>1, <3>2
  <2> QED
    BY <1>4, <2>1, <2>2
<1> QED
  BY <1>1, <1>3, <1>4
  DEF Next, Arrive, Handler, Worker, Manager, Host, vars, hostVars, SystemRequest,
      ModuleRequest, StartGatewayHost, AnswerSystem, AnswerModule, Answer, NoClients,
      Call, Return, GiveUp, Done, Refuse, Boot

\* A step in time is a step of the operation.
LEMMA TimedIsStep == [TimedNext]_tvars => [Next]_vars
BY DEF TimedNext, TimedStep, Step, Tick, TimedHost, tvars, Next, Host

\* Operations in time are operations: what is proved of SystemOperation holds in time.
THEOREM UsesOperation == TimedSpec => Spec
<1>1. TimedInit => Init
  BY DEF TimedInit
<1> QED
  BY <1>1, TimedIsStep, PTL DEF TimedSpec, Spec

\* While a request runs, its plan has stood no longer than its call, for any timeout
\* below a minute, any delays and overlapping requests.
THEOREM TimesHold == TimedSpec => []TimeInv
<1>1. TimedInit => TimeInv
  BY TimeAssumption DEF TimedInit, Init, TimeInv, ClockTypes, OnePlan, PlansInTime
<1>2. ASSUME RunInv, TimeInv, [TimedNext]_tvars PROVE TimeInv'
  <2>1. PlansInTime'
    <3>1. CASE UNCHANGED tvars
      BY <1>2, <3>1 DEF tvars, vars, TimeInv, PlansInTime, Running, InTime
    <3> QED
      BY <1>2, <3>1, StepInTime, TickInTime DEF TimedNext, RunInv
  <2> QED
    BY <1>2, <2>1, ClockTypesStep, OnePlanStep, TimedIsStep DEF TimeInv, RunInv
<1>3. RunInv /\ TimeInv /\ [TimedNext]_tvars => TimeInv'
  BY <1>2
<1>4. IInv /\ SingleInv => RunInv
  BY DEF RunInv
<1> QED
  BY <1>1, <1>3, <1>4, UsesOperation, Invariance, SingleHolds, PTL DEF TimedSpec

\* The gateway's host does not go down on the plan of a request that still runs, if its
\* delay is a minute or more: its own answer is not cut off.
THEOREM AnswersFirst == TimedSpec => AnswersBeforeItsHostGoesDown
<1> DEFINE g == APIGatewayHost
<1>1. ASSUME IInv, TimeInv, [TimedNext]_tvars, NEW r \in Requests, g \in Modules,
             power[g] = "up", power'[g] # "up", \E p \in plan[g] : p.by = r,
             order[r].delay >= 60
      PROVE  ~ Running(r)
  <2>t. power \in [Modules -> {"up", "rebooting", "off"}]
    BY <1>1 DEF IInv, TypeOK
  <2>1. PICK n \in Modules : GoDown(n) \/ Boot(n)
    BY <1>1, TimedIsStep
    DEF Next, Arrive, Handler, Worker, Manager, Host, vars, hostVars, SystemRequest,
        ModuleRequest, StartGatewayHost, AnswerSystem, AnswerModule, Answer, NoClients,
        Call, Return, GiveUp, Done, Execute, Refuse, MinutePasses
  <2>2. GoDown(g)
    BY <1>1, <2>t, <2>1 DEF Boot, GoDown
  <2>3. PICK p \in plan[g] : p.minutes = 0
    BY <2>2 DEF GoDown
  <2>4. p.by = r
    BY <1>1, <2>3 DEF TimeInv, OnePlan
  <2> QED
    BY <1>1, <2>3, <2>4 DEF TimeInv, PlansInTime, InTime
<1>2. IInv /\ TimeInv /\ [TimedNext]_tvars =>
        [\A r \in Requests :
           /\ APIGatewayHost \in Modules
           /\ power[APIGatewayHost] = "up" /\ power'[APIGatewayHost] # "up"
           /\ \E p \in plan[APIGatewayHost] : p.by = r
           /\ order[r].delay >= 60
           => ~ Running(r)]_tvars
  BY <1>1
<1> QED
  BY <1>2, UsesOperation, Invariance, TimesHold, PTL DEF TimedSpec, AnswersBeforeItsHostGoesDown
=============================================================================
