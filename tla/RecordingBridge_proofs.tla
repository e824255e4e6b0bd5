------------------------ MODULE RecordingBridge_proofs ------------------------
(***************************************************************************)
(* Proofs about RecordingBridge and RecordingMessages: the mutex keeps a   *)
(* status and its time together for every reader, so that a fresh status   *)
(* is never called stale, and is always given back; no command is lost on  *)
(* its way to a recorder; what is answered is what the api has, for any    *)
(* number of callers and of recorders and any ages.                        *)
(***************************************************************************)
EXTENDS RecordingMessages, FiniteSetTheorems, TLAPS

Values == {"true", "false"}
Codes == {"none", "ok", "failed", "not_found", "unavailable"}
Statuses == [from : Recorders, value : Values]
Replies == [code : Codes, listed : SUBSET (Recorders \X {"none", "true", "false"})]

\* The types that TypeOK leaves out.
Typed ==
  /\ order \in [Requests -> Orders \cup [op : {"list"}, arg : {NoFilter}]]
  /\ \A r \in Requests : pc[r] = "publish" => order[r].arg \in Commands
  /\ reply \in [Requests -> Replies]
  /\ executor \in [stage : {"waiting", "lock", "store", "stamp"},
                   from : Recorders \cup {NoFilter}, value : Values \cup {"none"}]
  /\ executor.stage # "waiting" => executor.from \in Recorders /\ executor.value \in Values
  /\ queue \in Seq(Statuses)
  /\ power \in [Recorders \cup {Bridge} -> {"up", "down"}]

\* The mutex: whoever is in the cache holds it.
Exclusion ==
  /\ \A r \in Requests : pc[r] \in {"find", "judge"} => lock = r
  /\ executor.stage \in {"store", "stamp"} => lock = Executor

\* What is judged is in the cache.
Judged ==
  \A r \in Requests : pc[r] = "judge" => cache[order[r].arg] # "none" /\ order[r].arg \in Recorders

\* Outside the callback a status is no older than the time says that it is.
TimesAgree ==
  \A k \in Recorders :
    cache[k] # "none" /\ ~ (executor.stage = "stamp" /\ executor.from = k)
      => age[k] <= held[k]

IInv == TypeOK /\ Typed /\ Exclusion /\ Judged /\ TimesAgree

\* The invariant holds at the start.
THEOREM InitInv == Init => IInv
<1> SUFFICES ASSUME Init PROVE IInv
  OBVIOUS
<1>1. MaxHalves \in Nat
  BY BridgeAssumption DEF MaxHalves
<1>2. TypeOK
  <2>1. Silent \in [Commanded -> {"none", "true", "false"}]
    BY DEF Silent
  <2>2. /\ http \in [Requests -> {"idle", "calling"}]
        /\ pc \in [Requests -> {"none", "publish", "lock", "find", "judge"}]
        /\ \A r \in Requests : reply[r].code = "none"
        /\ lock = Free /\ executor.stage = "waiting"
    BY DEF Init, NoReply, Waiting
  <2>3. Len(queue) <= Depth
    BY BridgeAssumption DEF Init
  <2>4. /\ cache \in [Recorders -> {"none", "true", "false"}]
        /\ age \in [Recorders -> 0 .. MaxHalves] /\ held \in [Recorders -> 0 .. MaxHalves]
    BY <1>1 DEF Init
  <2>5. /\ latched \in [Commanded -> {"none", "true", "false"}]
        /\ inbox \in [Recorders -> [Commanded -> {"none", "true", "false"}]]
        /\ mode \in [Recorders -> [Commanded -> {"none", "true", "false"}]]
    BY <2>1 DEF Init
  <2> QED
    BY <2>2, <2>3, <2>4, <2>5 DEF TypeOK
<1>3. Typed
  BY BridgeAssumption DEF Init, Typed, NoReply, Replies, Codes, Waiting, Statuses, Values
<1>4. Exclusion /\ Judged /\ TimesAgree
  BY DEF Init, Exclusion, Judged, TimesAgree, Waiting
<1> QED
  BY <1>2, <1>3, <1>4 DEF IInv
\* What an answer of the bridge changes keeps its types.
LEMMA AnswerTypes ==
  ASSUME IInv, NEW r \in Requests, NEW code \in Codes,
         NEW listed \in SUBSET (Recorders \X {"none", "true", "false"}),
         Answer(r, code, listed)
  PROVE  /\ reply' \in [Requests -> Replies]
         /\ pc' \in [Requests -> {"none", "publish", "lock", "find", "judge"}]
         /\ http' \in [Requests -> {"idle", "calling"}]
         /\ \A q \in Requests : reply'[q].code \in Codes
         /\ \A q \in Requests : pc'[q] = IF q = r THEN "none" ELSE pc[q]
<1>1. [code |-> code, listed |-> listed] \in Replies
  BY DEF Replies
<1>2. reply' \in [Requests -> Replies]
  BY <1>1 DEF IInv, Typed, Answer
<1>3. \A q \in Requests : reply'[q].code \in Codes
  BY <1>2 DEF Replies
<1> QED
  BY <1>2, <1>3 DEF IInv, TypeOK, Answer

\* What the bridge answers is well typed.
LEMMA AnswersTyped ==
  ASSUME IInv, NEW r \in Requests, NotFound(r) \/ Judge(r) \/ List(r) \/ Publish(r)
  PROVE  \E code \in Codes, listed \in SUBSET (Recorders \X {"none", "true", "false"}) :
           Answer(r, code, listed)
<1>1. {} \in SUBSET (Recorders \X {"none", "true", "false"})
  OBVIOUS
<1>2. CASE NotFound(r)
  BY <1>1, <1>2 DEF NotFound, Codes
<1>3. CASE Publish(r)
  BY <1>1, <1>3 DEF Publish, Codes
<1>4. CASE Judge(r)
  <2>1. order[r].arg \in Recorders
    BY <1>4 DEF Judge, IInv, Judged
  <2>2. {<<order[r].arg, cache[order[r].arg]>>} \in SUBSET (Recorders \X {"none", "true", "false"})
    <3>1. cache[order[r].arg] \in {"none", "true", "false"}
      BY <2>1 DEF IInv, TypeOK
    <3> QED
      BY <2>1, <3>1
  <2> QED
    BY <1>1, <1>4, <2>2 DEF Judge, Codes, Entry
<1>5. CASE List(r)
  <2>1. PICK chosen \in SUBSET Recorders : Answer(r, "ok", {<<k, cache[k]>> : k \in chosen})
    <3> DEFINE cached == {k \in Recorders : cache[k] # "none"}
               chosen == IF order[r].op = "list"
                         THEN {k \in cached : Matches(k, order[r].arg)}
                         ELSE cached \cap {order[r].arg}
    <3>1. Answer(r, "ok", {<<k, cache[k]>> : k \in chosen})
      BY <1>5 DEF List, Entry
    <3>2. chosen \in SUBSET Recorders
      OBVIOUS
    <3> QED
      BY <3>1, <3>2
  <2>2. {<<k, cache[k]>> : k \in chosen} \in SUBSET (Recorders \X {"none", "true", "false"})
    <3>1. \A k \in chosen : k \in Recorders /\ cache[k] \in {"none", "true", "false"}
      BY <2>1 DEF IInv, TypeOK
    <3> QED
      BY <3>1
  <2> QED
    BY <2>1, <2>2 DEF Codes
<1> QED
  BY <1>2, <1>3, <1>4, <1>5

\* Every step keeps the invariant: one step of the proof per action.
THEOREM StepInv == IInv /\ [Next]_vars => IInv'
<1> SUFFICES ASSUME IInv, [Next]_vars PROVE IInv'
  OBVIOUS
<1> USE DEF IInv
<1>a. /\ Free \notin Requests /\ Executor \notin Requests /\ Free # Executor
      /\ MaxHalves \in Nat /\ Depth \in Nat \ {0}
  BY BridgeAssumption DEF Free, Executor, MaxHalves
<1>b. age \in [Recorders -> 0 .. MaxHalves] /\ held \in [Recorders -> 0 .. MaxHalves]
  BY DEF TypeOK
<1>c. queue \in Seq(Statuses) /\ Len(queue) <= Depth
  BY DEF TypeOK, Typed
<1>d. \A k \in Recorders : age[k] \in Nat /\ held[k] \in Nat
  BY <1>a, <1>b
<1>e. 0 \in 0 .. MaxHalves
  BY <1>a
<1>1. ASSUME NEW r \in Requests, NEW what \in Orders, Call(r, what) PROVE IInv'
  <2>1. TypeOK'
    <3>1. /\ http' \in [Requests -> {"idle", "calling"}]
          /\ pc' \in [Requests -> {"none", "publish", "lock", "find", "judge"}]
      BY <1>1 DEF Call, TypeOK
    <3>2. \A q \in Requests : reply'[q].code \in {"none", "ok", "failed", "not_found", "unavailable"}
      BY <1>1 DEF Call, TypeOK, Typed, NoReply
    <3> QED
      BY <1>1, <3>1, <3>2 DEF Call, TypeOK, cacheVars, topicVars
  <2>2. Typed'
    <3>1. what.op = "publish" => what.arg \in Commands
      BY DEF Orders, GatewayOrders, CliOrders
    <3>2. \A q \in Requests : pc'[q] = "publish" => order'[q].arg \in Commands
      BY <1>1, <3>1 DEF Call, TypeOK, Typed
    <3>3. order' \in [Requests -> Orders \cup [op : {"list"}, arg : {NoFilter}]]
      BY <1>1 DEF Call, Typed
    <3>4. reply' \in [Requests -> Replies]
      BY <1>1 DEF Call, Typed, NoReply, Replies, Codes
    <3> QED
      BY <1>1, <3>2, <3>3, <3>4 DEF Call, Typed, cacheVars, topicVars
  <2>3. Exclusion'
    BY <1>1 DEF Call, Exclusion, callVars, cacheVars, topicVars, TypeOK
  <2>4. Judged'
    BY <1>1 DEF Call, Judged, callVars, cacheVars, topicVars, TypeOK, Typed
  <2>5. TimesAgree'
    BY <1>1 DEF Call, TimesAgree, callVars, cacheVars, topicVars
  <2> QED
    BY <2>1, <2>2, <2>3, <2>4, <2>5
<1>2. ASSUME NEW r \in Requests, GiveUp(r) PROVE IInv'
  <2>1. TypeOK'
    BY <1>2 DEF GiveUp, TypeOK, callVars, cacheVars, topicVars
  <2>2. Typed'
    BY <1>2 DEF GiveUp, Typed, callVars, cacheVars, topicVars
  <2>3. Exclusion'
    BY <1>2 DEF GiveUp, Exclusion, callVars, cacheVars, topicVars
  <2>4. Judged'
    BY <1>2 DEF GiveUp, Judged, callVars, cacheVars, topicVars
  <2>5. TimesAgree'
    BY <1>2 DEF GiveUp, TimesAgree, callVars, cacheVars, topicVars
  <2> QED
    BY <2>1, <2>2, <2>3, <2>4, <2>5
<1>3. ASSUME NEW r \in Requests, Publish(r) PROVE IInv'
  <2>0. /\ reply' \in [Requests -> Replies]
        /\ pc' \in [Requests -> {"none", "publish", "lock", "find", "judge"}]
        /\ http' \in [Requests -> {"idle", "calling"}]
        /\ \A q \in Requests : reply'[q].code \in Codes
        /\ \A q \in Requests : pc'[q] = IF q = r THEN "none" ELSE pc[q]
    BY <1>3, AnswersTyped, AnswerTypes
  <2>1. TypeOK'
    <3>1. order[r].arg \in [topic : Commanded, value : {"true", "false"}]
      BY <1>3, BridgeAssumption DEF Publish, Typed, Commanded
    <3>2. order[r].arg.topic \in Commanded /\ order[r].arg.value \in {"true", "false"}
      BY <3>1
    <3>3. /\ latched' \in [Commanded -> {"none", "true", "false"}]
          /\ inbox' \in [Recorders -> [Commanded -> {"none", "true", "false"}]]
      <4>1. UNCHANGED <<latched, inbox>> =>
              /\ latched' \in [Commanded -> {"none", "true", "false"}]
              /\ inbox' \in [Recorders -> [Commanded -> {"none", "true", "false"}]]
        BY DEF TypeOK
      <4>2. [latched EXCEPT ![order[r].arg.topic] = order[r].arg.value]
              \in [Commanded -> {"none", "true", "false"}]
        BY <3>2 DEF TypeOK
      <4>3. \A k \in Recorders :
              /\ inbox[k] \in [Commanded -> {"none", "true", "false"}]
              /\ [inbox[k] EXCEPT ![order[r].arg.topic] = order[r].arg.value]
                   \in [Commanded -> {"none", "true", "false"}]
        BY <3>2 DEF TypeOK
      <4>4. [k \in Recorders |->
              IF power[k] = "up" THEN [inbox[k] EXCEPT ![order[r].arg.topic] = order[r].arg.value]
              ELSE inbox[k]] \in [Recorders -> [Commanded -> {"none", "true", "false"}]]
        BY <4>3
      <4> QED
        BY <1>3, <4>1, <4>2, <4>4 DEF Publish
    <3> QED
      <4>1. UNCHANGED <<lock, executor, cacheVars, mode>>
        BY <1>3 DEF Publish
      <4> QED
        BY <2>0, <3>3, <4>1 DEF TypeOK, cacheVars, Codes
  <2>2. Typed'
    BY <1>3, <2>0 DEF Publish, Typed, callVars, cacheVars, topicVars
  <2>3. Exclusion'
    BY <1>3, <2>0 DEF Publish, Exclusion, callVars, cacheVars, topicVars
  <2>4. Judged'
    BY <1>3, <2>0 DEF Publish, Judged, callVars, cacheVars, topicVars
  <2>5. TimesAgree'
    BY <1>3, <2>0 DEF Publish, TimesAgree, callVars, cacheVars, topicVars
  <2> QED
    BY <2>1, <2>2, <2>3, <2>4, <2>5
<1>4. ASSUME NEW r \in Requests, LockForReading(r) PROVE IInv'
  <2>1. TypeOK'
    BY <1>4, <1>a DEF LockForReading, TypeOK, callVars, cacheVars, topicVars
  <2>2. Typed'
    BY <1>4, <1>a DEF LockForReading, Typed, callVars, cacheVars, topicVars
  <2>3. Exclusion'
    BY <1>4, <1>a DEF LockForReading, Exclusion, callVars, cacheVars, topicVars, TypeOK
  <2>4. Judged'
    BY <1>4, <1>a DEF LockForReading, Judged, callVars, cacheVars, topicVars, TypeOK
  <2>5. TimesAgree'
    BY <1>4, <1>a DEF LockForReading, TimesAgree, callVars, cacheVars, topicVars
  <2> QED
    BY <2>1, <2>2, <2>3, <2>4, <2>5
<1>5. ASSUME NEW r \in Requests, NotFound(r) PROVE IInv'
  <2>0. /\ reply' \in [Requests -> Replies]
        /\ pc' \in [Requests -> {"none", "publish", "lock", "find", "judge"}]
        /\ http' \in [Requests -> {"idle", "calling"}]
        /\ \A q \in Requests : reply'[q].code \in Codes
        /\ \A q \in Requests : pc'[q] = IF q = r THEN "none" ELSE pc[q]
    BY <1>5, AnswersTyped, AnswerTypes
  <2>1. TypeOK'
    BY <1>5, <2>0 DEF NotFound, TypeOK, callVars, cacheVars, topicVars, Codes
  <2>2. Typed'
    BY <1>5, <2>0 DEF NotFound, Typed, callVars, cacheVars, topicVars
  <2>3. Exclusion'
    BY <1>5, <2>0, <1>a DEF NotFound, Exclusion, callVars, cacheVars, topicVars
  <2>4. Judged'
    BY <1>5, <2>0 DEF NotFound, Judged, callVars, cacheVars, topicVars
  <2>5. TimesAgree'
    BY <1>5, <2>0 DEF NotFound, TimesAgree, callVars, cacheVars, topicVars
  <2> QED
    BY <2>1, <2>2, <2>3, <2>4, <2>5
<1>6. ASSUME NEW r \in Requests, Found(r) PROVE IInv'
  <2>1. TypeOK'
    BY <1>6 DEF Found, TypeOK, callVars, cacheVars, topicVars
  <2>2. Typed'
    BY <1>6 DEF Found, Typed, callVars, cacheVars, topicVars
  <2>3. Exclusion'
    BY <1>6 DEF Found, Exclusion, callVars, cacheVars, topicVars, TypeOK
  <2>4. Judged'
    BY <1>6 DEF Found, Judged, callVars, cacheVars, topicVars, TypeOK, Typed, Orders, GatewayOrders, CliOrders
  <2>5. TimesAgree'
    BY <1>6 DEF Found, TimesAgree, callVars, cacheVars, topicVars
  <2> QED
    BY <2>1, <2>2, <2>3, <2>4, <2>5
<1>7. ASSUME NEW r \in Requests, Judge(r) PROVE IInv'
  <2>0. /\ reply' \in [Requests -> Replies]
        /\ pc' \in [Requests -> {"none", "publish", "lock", "find", "judge"}]
        /\ http' \in [Requests -> {"idle", "calling"}]
        /\ \A q \in Requests : reply'[q].code \in Codes
        /\ \A q \in Requests : pc'[q] = IF q = r THEN "none" ELSE pc[q]
    BY <1>7, AnswersTyped, AnswerTypes
  <2>1. TypeOK'
    BY <1>7, <2>0 DEF Judge, TypeOK, callVars, cacheVars, topicVars, Codes
  <2>2. Typed'
    BY <1>7, <2>0 DEF Judge, Typed, callVars, cacheVars, topicVars
  <2>3. Exclusion'
    BY <1>7, <2>0, <1>a DEF Judge, Exclusion, callVars, cacheVars, topicVars
  <2>4. Judged'
    BY <1>7, <2>0 DEF Judge, Judged, callVars, cacheVars, topicVars
  <2>5. TimesAgree'
    BY <1>7, <2>0 DEF Judge, TimesAgree, callVars, cacheVars, topicVars
  <2> QED
    BY <2>1, <2>2, <2>3, <2>4, <2>5
<1>8. ASSUME NEW r \in Requests, List(r) PROVE IInv'
  <2>0. /\ reply' \in [Requests -> Replies]
        /\ pc' \in [Requests -> {"none", "publish", "lock", "find", "judge"}]
        /\ http' \in [Requests -> {"idle", "calling"}]
        /\ \A q \in Requests : reply'[q].code \in Codes
        /\ \A q \in Requests : pc'[q] = IF q = r THEN "none" ELSE pc[q]
    BY <1>8, AnswersTyped, AnswerTypes
  <2>1. TypeOK'
    BY <1>8, <2>0 DEF List, TypeOK, callVars, cacheVars, topicVars, Codes
  <2>2. Typed'
    BY <1>8, <2>0 DEF List, Typed, callVars, cacheVars, topicVars
  <2>3. Exclusion'
    BY <1>8, <2>0, <1>a DEF List, Exclusion, callVars, cacheVars, topicVars
  <2>4. Judged'
    BY <1>8, <2>0 DEF List, Judged, callVars, cacheVars, topicVars
  <2>5. TimesAgree'
    BY <1>8, <2>0 DEF List, TimesAgree, callVars, cacheVars, topicVars
  <2> QED
    BY <2>1, <2>2, <2>3, <2>4, <2>5
<1>9. ASSUME Take PROVE IInv'
  <2>1. TypeOK'
    <3>1. Len(queue') <= Depth
      BY <1>9, <1>a, <1>c DEF Take
    <3>2. executor'.stage = "lock"
      BY <1>9 DEF Take
    <3> QED
      BY <1>9, <3>1, <3>2 DEF Take, TypeOK, callVars, topicVars
  <2>2. Typed'
    <3>1. Head(queue) \in Statuses /\ Tail(queue) \in Seq(Statuses)
      BY <1>9 DEF Take, Typed
    <3>2. Head(queue).from \in Recorders /\ Head(queue).value \in Values
      BY <3>1 DEF Statuses
    <3> QED
      BY <1>9, <3>1, <3>2 DEF Take, Typed, callVars, topicVars
  <2>3. Exclusion'
    BY <1>9 DEF Take, Exclusion, callVars, cacheVars, topicVars
  <2>4. Judged'
    BY <1>9 DEF Take, Judged, callVars, cacheVars, topicVars
  <2>5. TimesAgree'
    BY <1>9 DEF Take, TimesAgree, callVars, cacheVars, topicVars
  <2> QED
    BY <2>1, <2>2, <2>3, <2>4, <2>5
<1>10. ASSUME LockForWriting PROVE IInv'
  <2>1. TypeOK'
    BY <1>10, <1>a DEF LockForWriting, TypeOK, callVars, cacheVars, topicVars, Typed
  <2>2. Typed'
    BY <1>10, <1>a DEF LockForWriting, Typed, callVars, cacheVars, topicVars
  <2>3. Exclusion'
    BY <1>10, <1>a DEF LockForWriting, Exclusion, callVars, cacheVars, topicVars, Typed
  <2>4. Judged'
    BY <1>10, <1>a DEF LockForWriting, Judged, callVars, cacheVars, topicVars
  <2>5. TimesAgree'
    BY <1>10, <1>a DEF LockForWriting, TimesAgree, callVars, cacheVars, topicVars
  <2> QED
    BY <2>1, <2>2, <2>3, <2>4, <2>5
<1>11. ASSUME Store PROVE IInv'
  <2>1. TypeOK'
    <3>1. executor.from \in Recorders /\ executor.value \in {"true", "false"}
      BY <1>11 DEF Store, Typed, Values
    <3>2. /\ cache' \in [Recorders -> {"none", "true", "false"}]
          /\ held' \in [Recorders -> 0 .. MaxHalves]
      <4>1. cache' \in [Recorders -> {"none", "true", "false"}]
        BY <1>11, <3>1 DEF Store, TypeOK
      <4>2. held' \in [Recorders -> 0 .. MaxHalves]
        BY <1>11, <1>b, <1>e DEF Store
      <4> QED
        BY <4>1, <4>2
    <3>3. executor'.stage = "stamp"
      BY <1>11 DEF Store, Typed
    <3> QED
      BY <1>11, <3>2, <3>3 DEF Store, TypeOK, callVars, topicVars
  <2>2. Typed'
    BY <1>11 DEF Store, Typed, callVars, cacheVars, topicVars, TypeOK
  <2>3. Exclusion'
    BY <1>11 DEF Store, Exclusion, callVars, cacheVars, topicVars, Typed
  <2>4. Judged'
    <3>1. executor.from \in Recorders /\ executor.value \in {"true", "false"}
      BY <1>11 DEF Store, Typed, Values
    <3>2. cache'[executor.from] = executor.value
      BY <1>11, <3>1 DEF Store, TypeOK
    <3>3. \A k \in Recorders : cache[k] # "none" => cache'[k] # "none"
      BY <1>11, <3>1 DEF Store, TypeOK
    <3> QED
      BY <1>11, <3>3 DEF Store, Judged, callVars
  <2>5. TimesAgree'
    BY <1>11 DEF Store, TimesAgree, callVars, cacheVars, topicVars, TypeOK, Typed
  <2> QED
    BY <2>1, <2>2, <2>3, <2>4, <2>5
<1>12. ASSUME Stamp PROVE IInv'
  <2>1. TypeOK'
    <3>1. executor.from \in Recorders
      BY <1>12 DEF Stamp, Typed
    <3>2. age' \in [Recorders -> 0 .. MaxHalves]
      BY <1>12, <1>b, <1>e DEF Stamp
    <3>3. executor'.stage = "waiting" /\ lock' \in Requests \cup {Free, Executor}
      BY <1>12 DEF Stamp, Waiting, TypeOK
    <3> QED
      BY <1>12, <3>2, <3>3 DEF Stamp, TypeOK, callVars, topicVars
  <2>2. Typed'
    BY <1>12, <1>a DEF Stamp, Typed, callVars, cacheVars, topicVars, Waiting
  <2>3. Exclusion'
    BY <1>12, <1>a DEF Stamp, Exclusion, callVars, cacheVars, topicVars, Waiting
  <2>4. Judged'
    BY <1>12, <1>a DEF Stamp, Judged, callVars, cacheVars, topicVars, Waiting
  <2>5. TimesAgree'
    <3>1. executor.from \in Recorders
      BY <1>12 DEF Stamp, Typed
    <3>2. \A k \in Recorders : age'[k] = IF k = executor.from THEN 0 ELSE age[k]
      BY <1>12, <3>1 DEF Stamp, TypeOK
    <3>3. \A k \in Recorders : held[k] >= 0
      BY <1>d
    <3> QED
      BY <1>12, <3>2, <3>3 DEF Stamp, TimesAgree
  <2> QED
    BY <2>1, <2>2, <2>3, <2>4, <2>5
<1>13. ASSUME NEW k \in Recorders, NEW t \in Commanded, Hear(k, t) PROVE IInv'
  <2>1. TypeOK'
    BY <1>13 DEF Hear, TypeOK, callVars, cacheVars, topicVars
  <2>2. Typed'
    BY <1>13 DEF Hear, Typed, callVars, cacheVars, topicVars
  <2>3. Exclusion'
    BY <1>13 DEF Hear, Exclusion, callVars, cacheVars, topicVars
  <2>4. Judged'
    BY <1>13 DEF Hear, Judged, callVars, cacheVars, topicVars
  <2>5. TimesAgree'
    BY <1>13 DEF Hear, TimesAgree, callVars, cacheVars, topicVars
  <2> QED
    BY <2>1, <2>2, <2>3, <2>4, <2>5
<1>14. ASSUME NEW k \in Recorders, PublishStatus(k) PROVE IInv'
  <2>0. PICK status \in Statuses : queue' = KeepLast(Append(queue, status))
    BY <1>14 DEF PublishStatus, Statuses, Values
  <2>1. TypeOK'
    <3>1. Len(queue') <= Depth
      BY <1>a, <1>c, <2>0 DEF KeepLast
    <3> QED
      BY <1>14, <3>1 DEF PublishStatus, TypeOK, callVars, topicVars
  <2>2. Typed'
    <3>1. queue' \in Seq(Statuses)
      <4>1. Append(queue, status) \in Seq(Statuses)
        BY <1>c
      <4>2. ASSUME NEW s \in Seq(Statuses), Len(s) > Depth PROVE Tail(s) \in Seq(Statuses)
        BY <1>a, <4>2
      <4> QED
        BY <2>0, <4>1, <4>2 DEF KeepLast
    <3>2. UNCHANGED <<order, pc, reply, executor, power>>
      BY <1>14 DEF PublishStatus, callVars, topicVars
    <3> QED
      BY <3>1, <3>2 DEF Typed
  <2>3. Exclusion'
    BY <1>14 DEF PublishStatus, Exclusion, callVars, cacheVars, topicVars
  <2>4. Judged'
    BY <1>14 DEF PublishStatus, Judged, callVars, cacheVars, topicVars
  <2>5. TimesAgree'
    BY <1>14 DEF PublishStatus, TimesAgree, callVars, cacheVars, topicVars
  <2> QED
    BY <2>1, <2>2, <2>3, <2>4, <2>5
<1>15. ASSUME NEW k \in Recorders, RecorderStops(k) PROVE IInv'
  <2>1. TypeOK'
    BY <1>15 DEF RecorderStops, TypeOK, callVars, cacheVars, topicVars, Silent
  <2>2. Typed'
    BY <1>15 DEF RecorderStops, Typed, callVars, cacheVars, topicVars
  <2>3. Exclusion'
    BY <1>15 DEF RecorderStops, Exclusion, callVars, cacheVars, topicVars
  <2>4. Judged'
    BY <1>15 DEF RecorderStops, Judged, callVars, cacheVars, topicVars
  <2>5. TimesAgree'
    BY <1>15 DEF RecorderStops, TimesAgree, callVars, cacheVars, topicVars
  <2> QED
    BY <2>1, <2>2, <2>3, <2>4, <2>5
<1>16. ASSUME NEW k \in Recorders, RecorderStarts(k) PROVE IInv'
  <2>1. TypeOK'
    BY <1>16 DEF RecorderStarts, TypeOK, callVars, cacheVars, topicVars, ForLateJoiners
  <2>2. Typed'
    BY <1>16 DEF RecorderStarts, Typed, callVars, cacheVars, topicVars
  <2>3. Exclusion'
    BY <1>16 DEF RecorderStarts, Exclusion, callVars, cacheVars, topicVars
  <2>4. Judged'
    BY <1>16 DEF RecorderStarts, Judged, callVars, cacheVars, topicVars
  <2>5. TimesAgree'
    BY <1>16 DEF RecorderStarts, TimesAgree, callVars, cacheVars, topicVars
  <2> QED
    BY <2>1, <2>2, <2>3, <2>4, <2>5
<1>17. ASSUME BridgeCrashes PROVE IInv'
  <2>1. TypeOK'
    <3>1. Silent \in [Commanded -> {"none", "true", "false"}]
      BY DEF Silent
    <3>2. Len(queue') <= Depth
      BY <1>17, <1>a DEF BridgeCrashes
    <3>3. \A r \in Requests : reply'[r].code = reply[r].code
      BY <1>17 DEF BridgeCrashes
    <3>4. executor'.stage = "waiting" /\ lock' = Free
      BY <1>17 DEF BridgeCrashes, Waiting
    <3> QED
      BY <1>17, <3>1, <3>2, <3>3, <3>4 DEF BridgeCrashes, TypeOK
  <2>2. Typed'
    BY <1>17 DEF BridgeCrashes, Typed, callVars, cacheVars, topicVars, Waiting
  <2>3. Exclusion'
    BY <1>17 DEF BridgeCrashes, Exclusion, callVars, cacheVars, topicVars, Waiting, Free
  <2>4. Judged'
    BY <1>17 DEF BridgeCrashes, Judged, callVars, cacheVars, topicVars, Waiting
  <2>5. TimesAgree'
    BY <1>17 DEF BridgeCrashes, TimesAgree, callVars, cacheVars, topicVars, Waiting
  <2> QED
    BY <2>1, <2>2, <2>3, <2>4, <2>5
<1>18. ASSUME BridgeStarts PROVE IInv'
  <2>1. TypeOK'
    BY <1>18 DEF BridgeStarts, TypeOK, callVars, cacheVars, topicVars
  <2>2. Typed'
    BY <1>18 DEF BridgeStarts, Typed, callVars, cacheVars, topicVars
  <2>3. Exclusion'
    BY <1>18 DEF BridgeStarts, Exclusion, callVars, cacheVars, topicVars
  <2>4. Judged'
    BY <1>18 DEF BridgeStarts, Judged, callVars, cacheVars, topicVars
  <2>5. TimesAgree'
    BY <1>18 DEF BridgeStarts, TimesAgree, callVars, cacheVars, topicVars
  <2> QED
    BY <2>1, <2>2, <2>3, <2>4, <2>5
<1>19. ASSUME HalfSecondPasses PROVE IInv'
  <2>1. TypeOK'
    <3>1. age' \in [Recorders -> 0 .. MaxHalves] /\ held' \in [Recorders -> 0 .. MaxHalves]
      BY <1>19, <1>a, <1>b DEF HalfSecondPasses
    <3> QED
      BY <1>19, <3>1 DEF HalfSecondPasses, TypeOK, callVars, topicVars
  <2>2. Typed'
    BY <1>19 DEF HalfSecondPasses, Typed, callVars, cacheVars, topicVars
  <2>3. Exclusion'
    BY <1>19 DEF HalfSecondPasses, Exclusion, callVars, cacheVars, topicVars
  <2>4. Judged'
    BY <1>19 DEF HalfSecondPasses, Judged, callVars, cacheVars, topicVars
  <2>5. TimesAgree'
    <3>1. \A k \in Recorders : age[k] \in 0 .. MaxHalves /\ held[k] \in 0 .. MaxHalves
      BY DEF TypeOK
    <3>2. \A k \in Recorders : age[k] <= held[k] => age'[k] <= held'[k]
      BY <1>19, <1>a, <3>1 DEF HalfSecondPasses
    <3> QED
      BY <1>19, <3>2 DEF HalfSecondPasses, TimesAgree
  <2> QED
    BY <2>1, <2>2, <2>3, <2>4, <2>5
<1>20. CASE UNCHANGED vars
  <2>1. TypeOK'
    BY <1>20 DEF vars, TypeOK, callVars, cacheVars, topicVars
  <2>2. Typed'
    BY <1>20 DEF vars, Typed, callVars, cacheVars, topicVars
  <2>3. Exclusion' /\ Judged' /\ TimesAgree'
    BY <1>20 DEF vars, Exclusion, Judged, TimesAgree, callVars, cacheVars, topicVars
  <2> QED
    BY <2>1, <2>2, <2>3
<1> QED
  BY <1>1, <1>2, <1>3, <1>4, <1>5, <1>6, <1>7, <1>8, <1>9, <1>10, <1>11, <1>12, <1>13,
     <1>14, <1>15, <1>16, <1>17, <1>18, <1>19, <1>20 DEF Next, Serve, Callback

\* The invariant, for any number of callers and recorders.
THEOREM Invariance == Spec => []IInv
<1>1. Init => IInv
  BY InitInv
<1>2. IInv /\ [Next]_vars => IInv'
  BY StepInv
<1> QED
  BY <1>1, <1>2, PTL DEF Spec

\* The types, and that the queue of statuses keeps to its depth.
THEOREM TypeCorrect == Spec => []TypeOK
<1>1. IInv => TypeOK
  BY DEF IInv
<1> QED
  BY <1>1, Invariance, PTL

\* A reader that finds a status stale has the mutex, so that the status has been
\* in the cache for at least as long as its time says.
THEOREM FreshIsNotStale == Spec => NoFalseAlarm
<1>1. ASSUME IInv, [Next]_vars, NEW r \in Requests,
             reply'[r].code = "unavailable", reply[r].code # "unavailable"
      PROVE  held[order[r].arg] > 2 * MaxAge
  <2>1. Judge(r) /\ Stale(order[r].arg)
    <3>1. reply' # reply
      BY <1>1
    <3>2. \A q \in Requests : q # r /\ Serve(q) => reply'[r] = reply[r]
      BY <1>1 DEF IInv, Typed, Serve, Publish, LockForReading, NotFound, Found, Judge, List,
                  Answer, callVars
    <3>3. ~ UNCHANGED reply
      BY <3>1
    <3>4. PICK q \in Requests : Serve(q) \/ \E what \in Orders : Call(q, what)
      BY <1>1, <3>1 DEF Next, Callback, vars, callVars, GiveUp, Take, LockForWriting, Store,
                       Stamp, PublishStatus, RecorderStops, RecorderStarts, Hear,
                       BridgeCrashes, BridgeStarts, HalfSecondPasses
    <3>5. ASSUME NEW what \in Orders, Call(q, what) PROVE FALSE
      BY <1>1, <3>5 DEF Call, NoReply, IInv, Typed
    <3>6. q = r /\ Serve(r)
      BY <1>1, <3>2, <3>4, <3>5
    <3>7. reply'[r] # reply[r]
      BY <1>1
    <3> QED
      <4>1. reply \in [Requests -> Replies]
        BY <1>1 DEF IInv, Typed
      <4>2. CASE Publish(r)
        BY <1>1, <4>1, <4>2 DEF Publish, Answer
      <4>3. CASE LockForReading(r) \/ Found(r)
        BY <1>1, <4>3 DEF LockForReading, Found
      <4>4. CASE NotFound(r)
        BY <1>1, <4>1, <4>4 DEF NotFound, Answer
      <4>6. CASE List(r)
        <5>1. PICK listed : Answer(r, "ok", listed)
          BY <4>6 DEF List
        <5> QED
          BY <1>1, <4>1, <5>1 DEF Answer
      <4>5. CASE Judge(r)
        BY <1>1, <4>1, <4>5 DEF Judge, Answer
      <4> QED
        BY <3>6, <4>2, <4>3, <4>4, <4>5, <4>6 DEF Serve
  <2>2. /\ order[r].arg \in Recorders /\ cache[order[r].arg] # "none"
        /\ lock = r
    BY <1>1, <2>1 DEF Judge, IInv, Judged, Exclusion
  <2>3. executor.stage # "stamp"
    BY <1>1, <2>2, BridgeAssumption DEF IInv, Exclusion, Executor
  <2>4. age[order[r].arg] <= held[order[r].arg]
    BY <1>1, <2>2, <2>3 DEF IInv, TimesAgree
  <2>5. age[order[r].arg] \in Nat /\ held[order[r].arg] \in Nat /\ MaxAge \in Nat
    <3>1. MaxHalves \in Nat /\ MaxAge \in Nat
      BY BridgeAssumption DEF MaxHalves
    <3>2. age \in [Recorders -> 0 .. MaxHalves] /\ held \in [Recorders -> 0 .. MaxHalves]
      BY <1>1 DEF IInv, TypeOK
    <3> QED
      BY <2>2, <3>1, <3>2
  <2>6. age[order[r].arg] > 2 * MaxAge
    BY <2>1, <2>5 DEF Stale
  <2> QED
    BY <2>4, <2>5, <2>6
<1>2. IInv /\ [Next]_vars =>
        [\A r \in Requests :
           reply'[r].code = "unavailable" /\ reply[r].code # "unavailable"
             => held[order[r].arg] > 2 * MaxAge]_vars
  BY <1>1
<1> QED
  BY <1>2, Invariance, PTL DEF Spec, NoFalseAlarm

-----------------------------------------------------------------------------
(* Commands on their way *)

\* Every action keeps the commands: nothing but a later one replaces what is latched,
\* and that is what a recorder that is up is sent, and one that starts is sent first.
LEMMA CommandStep == IInv /\ NoCommandLost /\ [Next]_vars => NoCommandLost'
<1> SUFFICES ASSUME IInv, NoCommandLost, [Next]_vars, NEW k \in Recorders, NEW t \in Commanded,
                    power'[k] = "up", latched'[t] # "none"
             PROVE  \/ inbox'[k][t] = latched'[t]
                    \/ inbox'[k][t] = "none" /\ mode'[k][t] = latched'[t]
  BY DEF NoCommandLost
<1>t. /\ inbox \in [Recorders -> [Commanded -> {"none", "true", "false"}]]
      /\ mode \in [Recorders -> [Commanded -> {"none", "true", "false"}]]
      /\ latched \in [Commanded -> {"none", "true", "false"}]
      /\ power \in [Recorders \cup {Bridge} -> {"up", "down"}]
  BY DEF IInv, TypeOK, Typed
<1>o. power[k] = "up" /\ latched[t] # "none" =>
        \/ inbox[k][t] = latched[t]
        \/ inbox[k][t] = "none" /\ mode[k][t] = latched[t]
  BY DEF NoCommandLost
<1>1. CASE \E r \in Requests : Publish(r)
  <2> PICK r \in Requests : Publish(r)
    BY <1>1
  <2>1. CASE UNCHANGED <<latched, inbox>>
    BY <2>1, <1>o DEF Publish
  <2>2. CASE /\ latched' = [latched EXCEPT ![order[r].arg.topic] = order[r].arg.value]
             /\ inbox' = [q \in Recorders |->
                  IF power[q] = "up" THEN [inbox[q] EXCEPT ![order[r].arg.topic] = order[r].arg.value]
                  ELSE inbox[q]]
    <3>1. power[k] = "up" /\ mode' = mode
      BY DEF Publish
    <3>2. inbox'[k] = [inbox[k] EXCEPT ![order[r].arg.topic] = order[r].arg.value]
      BY <2>2, <3>1
    <3>3. inbox[k] \in [Commanded -> {"none", "true", "false"}]
      BY <1>t
    <3>4. CASE t = order[r].arg.topic
      BY <2>2, <3>2, <3>3, <3>4, <1>t
    <3>5. CASE t # order[r].arg.topic
      BY <2>2, <3>1, <3>2, <3>3, <3>5, <1>t, <1>o
    <3> QED
      BY <3>4, <3>5
  <2> QED
    BY <2>1, <2>2 DEF Publish
<1>2. CASE \E q \in Recorders, s \in Commanded : Hear(q, s)
  <2> PICK q \in Recorders, s \in Commanded : Hear(q, s)
    BY <1>2
  <2>1. power' = power /\ latched' = latched
    BY DEF Hear
  <2>2. inbox[q] \in [Commanded -> {"none", "true", "false"}]
        /\ mode[q] \in [Commanded -> {"none", "true", "false"}]
    BY <1>t
  <2>3. CASE q = k /\ s = t
    <3>1. inbox'[k][t] = "none" /\ mode'[k][t] = inbox[k][t] /\ inbox[k][t] # "none"
      BY <2>2, <2>3, <1>t DEF Hear
    <3> QED
      BY <2>1, <3>1, <1>o
  <2>4. CASE ~ (q = k /\ s = t)
    <3>1. inbox'[k][t] = inbox[k][t] /\ mode'[k][t] = mode[k][t]
      BY <2>2, <2>4, <1>t DEF Hear
    <3> QED
      BY <2>1, <3>1, <1>o
  <2> QED
    BY <2>3, <2>4
<1>3. CASE \E q \in Recorders : RecorderStops(q)
  <2> PICK q \in Recorders : RecorderStops(q)
    BY <1>3
  <2>1. q # k
    BY <1>t DEF RecorderStops
  <2>2. inbox'[k] = inbox[k] /\ mode'[k] = mode[k] /\ power'[k] = power[k] /\ latched' = latched
    BY <2>1, <1>t DEF RecorderStops
  <2> QED
    BY <2>2, <1>o
<1>4. CASE \E q \in Recorders : RecorderStarts(q)
  <2> PICK q \in Recorders : RecorderStarts(q)
    BY <1>4
  <2>1. CASE q = k
    BY <2>1, <1>t DEF RecorderStarts, ForLateJoiners
  <2>2. CASE q # k
    <3>1. inbox'[k] = inbox[k] /\ mode' = mode /\ power'[k] = power[k] /\ latched' = latched
      BY <2>2, <1>t DEF RecorderStarts
    <3> QED
      BY <3>1, <1>o
  <2> QED
    BY <2>1, <2>2
<1>5. CASE BridgeCrashes
  BY <1>5 DEF BridgeCrashes, Silent
<1>6. CASE BridgeStarts
  <2>1. k # Bridge
    BY BridgeAssumption DEF Bridge
  <2>2. power'[k] = power[k]
    BY <1>6, <1>t, <2>1 DEF BridgeStarts
  <2> QED
    BY <1>6, <2>2, <1>o DEF BridgeStarts
<1>7. CASE UNCHANGED topicVars
  BY <1>7, <1>o DEF topicVars
<1> QED
  BY <1>1, <1>2, <1>3, <1>4, <1>5, <1>6, <1>7
  DEF Next, Serve, Callback, vars, Call, GiveUp, LockForReading, NotFound, Found, Judge, List,
      Take, LockForWriting, Store, Stamp, PublishStatus, HalfSecondPasses

\* What was last commanded reaches every recorder that is up, or is on its way alone:
\* what its status shows in the end rests on it.
THEOREM CommandsArrive == Spec => []NoCommandLost
<1>1. Init => NoCommandLost
  BY DEF Init, NoCommandLost, Silent
<1> QED
  BY <1>1, CommandStep, Invariance, PTL DEF Spec

-----------------------------------------------------------------------------
(* The mutex is given back *)

\* Every action keeps the mutex with somebody at work, or free.
LEMMA MutexStep == IInv /\ MutexIsHeld /\ [Next]_vars => MutexIsHeld'
<1> SUFFICES ASSUME IInv, MutexIsHeld, [Next]_vars PROVE MutexIsHeld'
  OBVIOUS
<1> USE DEF MutexIsHeld
<1>a. /\ Free \notin Requests /\ Executor \notin Requests /\ Free # Executor
  BY BridgeAssumption DEF Free, Executor
<1>t. /\ pc \in [Requests -> {"none", "publish", "lock", "find", "judge"}]
      /\ \A r \in Requests : pc[r] \in {"find", "judge"} => lock = r
      /\ executor.stage \in {"store", "stamp"} => lock = Executor
  BY DEF IInv, TypeOK, Exclusion
<1>1. ASSUME NEW r \in Requests, NotFound(r) \/ Judge(r) \/ List(r) PROVE MutexIsHeld'
  BY <1>1, <1>a DEF NotFound, Judge, List
<1>2. ASSUME NEW r \in Requests, LockForReading(r) \/ Found(r) PROVE MutexIsHeld'
  BY <1>2, <1>a, <1>t DEF LockForReading, Found
<1>3. ASSUME NEW r \in Requests, NEW what \in Orders, Call(r, what) PROVE MutexIsHeld'
  BY <1>3, <1>t DEF Call
<1>4. ASSUME NEW r \in Requests, Publish(r) PROVE MutexIsHeld'
  <2>1. pc' = [pc EXCEPT ![r] = "none"] /\ UNCHANGED <<lock, executor>> /\ pc[r] = "publish"
    BY <1>4 DEF Publish, Answer
  <2> QED
    BY <2>1, <1>t
<1>5. CASE LockForWriting \/ Store \/ Stamp
  BY <1>5, <1>a DEF LockForWriting, Store, Stamp, callVars, IInv, Typed
<1>6. CASE Take
  BY <1>6, <1>t DEF Take, callVars
<1>7. CASE BridgeCrashes
  BY <1>7, <1>a DEF BridgeCrashes
<1>8. CASE UNCHANGED <<pc, lock, executor>>
  BY <1>8
<1> QED
  BY <1>1, <1>2, <1>3, <1>4, <1>5, <1>6, <1>7, <1>8
  DEF Next, Serve, Callback, vars, callVars, GiveUp, PublishStatus, RecorderStops, RecorderStarts,
      Hear, BridgeStarts, HalfSecondPasses

\* Nobody leaves the mutex locked: the core of EveryCallEnds.
THEOREM MutexIsGivenBack == Spec => []MutexIsHeld
<1>1. Init => MutexIsHeld
  BY BridgeAssumption DEF Init, MutexIsHeld, Free, Executor
<1> QED
  BY <1>1, MutexStep, Invariance, PTL DEF Spec

-----------------------------------------------------------------------------
(* What is answered *)

\* A handler serves the method it was written for, and an answer without an error
\* holds statuses that were cached, one at least where a single one is asked for.
Answered(r) ==
  /\ pc[r] = "publish" => order[r].op = "publish"
  /\ pc[r] \in {"lock", "find", "judge"} => order[r].op \in {"get", "list", "topics"}
  /\ pc[r] = "judge" => order[r].op = "get"
  /\ reply[r].code = "ok" =>
       /\ reply[r].listed \subseteq Recorders \X Values
       /\ order[r].op \in {"get", "topics"} => reply[r].listed # {}

AnswerInv == \A r \in Requests : Answered(r)

\* An answer with such statuses, or with an error, keeps this for every caller.
LEMMA AnswerIsGood ==
  ASSUME IInv, AnswerInv, NEW r \in Requests, NEW code, NEW listed,
         Answer(r, code, listed), order' = order,
         code = "ok" => /\ listed \subseteq Recorders \X Values
                        /\ order[r].op \in {"get", "topics"} => listed # {}
  PROVE  AnswerInv'
<1> SUFFICES ASSUME NEW q \in Requests PROVE Answered(q)'
  BY DEF AnswerInv
<1>t. pc \in [Requests -> {"none", "publish", "lock", "find", "judge"}]
      /\ reply \in [Requests -> Replies]
  BY DEF IInv, TypeOK, Typed
<1>1. CASE q = r
  <2>1. pc'[q] = "none" /\ reply'[q] = [code |-> code, listed |-> listed]
    BY <1>1, <1>t DEF Answer
  <2>2. reply'[q].code = code /\ reply'[q].listed = listed /\ order'[q] = order[r]
    BY <1>1, <2>1
  <2> QED
    BY <2>1, <2>2 DEF Answered
<1>2. CASE q # r
  <2>1. pc'[q] = pc[q] /\ reply'[q] = reply[q] /\ order'[q] = order[q]
    BY <1>2, <1>t DEF Answer
  <2> QED
    BY <2>1 DEF AnswerInv, Answered
<1> QED
  BY <1>1, <1>2

\* Every action keeps it: one step of the proof per handler.
LEMMA AnswerStep == IInv /\ AnswerInv /\ [Next]_vars => AnswerInv'
<1> SUFFICES ASSUME IInv, AnswerInv, [Next]_vars PROVE AnswerInv'
  OBVIOUS
<1>t. /\ pc \in [Requests -> {"none", "publish", "lock", "find", "judge"}]
      /\ reply \in [Requests -> Replies]
      /\ order \in [Requests -> Orders \cup [op : {"list"}, arg : {NoFilter}]]
      /\ cache \in [Recorders -> {"none", "true", "false"}]
  BY DEF IInv, TypeOK, Typed
<1>o. \A what \in Orders : what.op \in {"publish", "get", "list", "topics"}
  BY DEF Orders, GatewayOrders, CliOrders
<1>1. ASSUME NEW r \in Requests, NEW what \in Orders, Call(r, what) PROVE AnswerInv'
  <2> SUFFICES ASSUME NEW q \in Requests PROVE Answered(q)'
    BY DEF AnswerInv
  <2>1. CASE q = r
    <3>1. order'[q] = what /\ reply'[q] = NoReply
          /\ pc'[q] = IF what.op = "publish" THEN "publish" ELSE "lock"
      BY <1>1, <1>t, <2>1 DEF Call
    <3>2. reply'[q].code # "ok"
      BY <3>1 DEF NoReply
    <3> QED
      BY <3>1, <3>2, <1>o DEF Answered
  <2>2. CASE q # r
    <3>1. order'[q] = order[q] /\ reply'[q] = reply[q] /\ pc'[q] = pc[q]
      BY <1>1, <1>t, <2>2 DEF Call
    <3> QED
      BY <3>1 DEF AnswerInv, Answered
  <2> QED
    BY <2>1, <2>2
<1>2. ASSUME NEW r \in Requests, Publish(r) PROVE AnswerInv'
  <2>1. order[r].op = "publish" /\ order' = order
    BY <1>2 DEF Publish, AnswerInv, Answered
  <2>2. PICK code \in {"ok", "failed"} : Answer(r, code, {})
    BY <1>2 DEF Publish
  <2> QED
    BY <2>1, <2>2, AnswerIsGood
<1>3. ASSUME NEW r \in Requests, NotFound(r) PROVE AnswerInv'
  BY <1>3, AnswerIsGood DEF NotFound
<1>4. ASSUME NEW r \in Requests, Judge(r) PROVE AnswerInv'
  <2>1. order' = order /\ order[r].arg \in Recorders
        /\ cache[order[r].arg] \in Values
    BY <1>4, <1>t DEF Judge, IInv, Judged, Values
  <2>2. PICK code, listed : /\ Answer(r, code, listed)
                            /\ code = "ok" => listed = {Entry(order[r].arg)}
    <3>1. \/ Answer(r, "unavailable", {}) \/ Answer(r, "ok", {Entry(order[r].arg)})
      BY <1>4 DEF Judge
    <3> QED
      BY <3>1
  <2>3. {Entry(order[r].arg)} \subseteq Recorders \X Values
    BY <2>1 DEF Entry
  <2> QED
    BY <2>1, <2>2, <2>3, AnswerIsGood
<1>5. ASSUME NEW r \in Requests, List(r) PROVE AnswerInv'
  <2> DEFINE cached == {k \in Recorders : cache[k] # "none"}
             chosen == IF order[r].op = "list" THEN {k \in cached : Matches(k, order[r].arg)}
                       ELSE cached \cap {order[r].arg}
  <2>1. /\ order' = order
        /\ order[r].op = "list" \/ (order[r].op = "topics" /\ chosen # {})
        /\ Answer(r, "ok", {Entry(k) : k \in chosen})
    BY <1>5 DEF List
  <2>2. \A k \in chosen : Entry(k) \in Recorders \X Values
    BY <1>t DEF Entry, Values
  <2> HIDE DEF chosen
  <2>3. /\ {Entry(k) : k \in chosen} \subseteq Recorders \X Values
        /\ chosen # {} => {Entry(k) : k \in chosen} # {}
    BY <2>2
  <2>4. order[r].op \in {"get", "topics"} => {Entry(k) : k \in chosen} # {}
    BY <2>1, <2>3
  <2> QED
    BY <2>1, <2>3, <2>4, AnswerIsGood
<1>6. ASSUME NEW r \in Requests, LockForReading(r) \/ Found(r) PROVE AnswerInv'
  <2> SUFFICES ASSUME NEW q \in Requests PROVE Answered(q)'
    BY DEF AnswerInv
  <2>1. order' = order /\ reply' = reply
    BY <1>6 DEF LockForReading, Found
  <2>2. CASE q = r
    <3>1. \/ pc[r] = "lock" /\ pc'[r] = "find"
          \/ pc[r] = "find" /\ pc'[r] = "judge" /\ order[r].op = "get"
      BY <1>6, <1>t DEF LockForReading, Found
    <3> QED
      BY <2>1, <2>2, <3>1 DEF AnswerInv, Answered
  <2>3. CASE q # r
    <3>1. pc'[q] = pc[q]
      BY <1>6, <1>t, <2>3 DEF LockForReading, Found
    <3> QED
      BY <2>1, <3>1 DEF AnswerInv, Answered
  <2> QED
    BY <2>2, <2>3
<1>7. CASE BridgeCrashes
  <2>1. order' = order /\ reply' = reply /\ \A q \in Requests : pc'[q] = "none"
    BY <1>7 DEF BridgeCrashes
  <2> QED
    BY <2>1 DEF AnswerInv, Answered
<1>8. CASE UNCHANGED <<order, pc, reply>>
  BY <1>8 DEF AnswerInv, Answered
<1> QED
  BY <1>1, <1>2, <1>3, <1>4, <1>5, <1>6, <1>7, <1>8
  DEF Next, Serve, Callback, vars, callVars, GiveUp, Take, LockForWriting, Store, Stamp,
      PublishStatus, RecorderStops, RecorderStarts, Hear, BridgeStarts, HalfSecondPasses

\* The invariant of the answers holds.
THEOREM AnswersHold == Spec => []AnswerInv
<1>1. Init => AnswerInv
  <2> SUFFICES ASSUME Init, NEW r \in Requests PROVE Answered(r)
    BY DEF AnswerInv
  <2>1. pc[r] = "none" /\ reply[r].code = "none"
    BY DEF Init, NoReply
  <2> QED
    BY <2>1 DEF Answered
<1> QED
  BY <1>1, AnswerStep, Invariance, PTL DEF Spec

-----------------------------------------------------------------------------
(* The messages *)

\* A finite set is listed by a sequence of its members.
LEMMA ListedSet ==
  ASSUME NEW S, IsFiniteSet(S)
  PROVE  Cardinality(S) \in Nat /\ SetToSeq(S) \in [1 .. Cardinality(S) -> S]
<1>1. Cardinality(S) \in Nat /\ ExistsBijection(1 .. Cardinality(S), S)
  BY FS_CardinalityType
<1>2. \E f \in [1 .. Cardinality(S) -> S] : IsInjective(f)
  BY <1>1 DEF ExistsBijection, Bijection, Injection
<1> QED
  BY <1>1, <1>2, Zenon DEF SetToSeq

\* A sequence is a function of its positions.
LEMMA MembersOfSequence ==
  ASSUME NEW T, NEW s \in Seq(T)
  PROVE  Len(s) \in Nat /\ DOMAIN s = 1 .. Len(s) /\ \A i \in DOMAIN s : s[i] \in T
OBVIOUS

\* A status is converted into a recording, whatever the recorder reports.
LEMMA RecordingIsWhole ==
  ASSUME NEW entry \in Recorders \X Values
  PROVE  AsRecording(entry) \in Api!Recording /\ TopicStatuses(entry) \in Seq(Api!TopicStatus)
<1>1. entry[1] \in Recorders /\ entry[2] \in Values
  OBVIOUS
<1>2. Reported[entry[2]] \in [level : RosLevels, topics : Seq([topic : Topics, rate : RosRates])]
  BY <1>1, ReportedAssumption DEF Values
<1> DEFINE topics == Reported[entry[2]].topics
<1>3. topics \in Seq([topic : Topics, rate : RosRates])
  BY <1>2
<1>4. \A status \in [topic : Topics, rate : RosRates] : ConvertTopicStatus(status) \in Api!TopicStatus
  BY DEF ConvertTopicStatus, Api!TopicStatus, Api!RateStatus, RosRates
<1>5. TopicStatuses(entry) \in Seq(Api!TopicStatus)
  <2>1. TopicStatuses(entry) = [i \in DOMAIN topics |-> ConvertTopicStatus(topics[i])]
    BY DEF TopicStatuses
  <2>2. DOMAIN topics = 1 .. Len(topics) /\ Len(topics) \in Nat
        /\ \A i \in DOMAIN topics : topics[i] \in [topic : Topics, rate : RosRates]
    BY <1>3, MembersOfSequence
  <2> HIDE DEF topics
  <2>3. TopicStatuses(entry) \in [1 .. Len(topics) -> Api!TopicStatus]
    BY <1>4, <2>1, <2>2
  <2> QED
    BY <2>2, <2>3
<1>6. ConvertErrorLevel(Reported[entry[2]].level) \in Api!ErrorLevel
  BY DEF ConvertErrorLevel, Api!ErrorLevel
<1>7. [stamp |-> "published"] \in Api!Header
  BY DEF Api!Header
<1> QED
  BY <1>1, <1>5, <1>6, <1>7 DEF AsRecording, Api!Recording
\* A call that is made is one of the api's.
LEMMA CallIsOfTheApi ==
  ASSUME NEW what \in Orders
  PROVE  CallMessage(what) \in Api!RecordingCall
<1> USE DEF CallMessage, Method, Api!RecordingCall
<1>1. CASE what \in [op : {"get"}, arg : Recorders]
  <2>1. CallMessage(what) = [method |-> "GetRecording", request |-> [hardwareId |-> what.arg]]
    BY <1>1
  <2> QED
    BY <1>1, <2>1 DEF Api!GetRecordingRequest
<1>2. CASE what \in [op : {"list"}, arg : Filters \cup {NoFilter}]
  <2>1. CallMessage(what) = [method |-> "ListRecordings", request |-> [filter |-> what.arg]]
    BY <1>2
  <2> QED
    BY <1>2, <2>1 DEF Api!ListRecordingsRequest
<1>3. CASE what \in [op : {"topics"}, arg : Recorders]
  <2>1. CallMessage(what) = [method |-> "ListTopicStatuses",
                             request |-> [hardwareId |-> what.arg, filter |-> NoFilter]]
    BY <1>3
  <2> QED
    BY <1>3, <2>1 DEF Api!ListTopicStatusesRequest
<1>4. CASE what \in [op : {"publish"}, arg : Commands]
  <2>1. what.op = "publish"
    BY <1>4
  <2>2. CallMessage(what).request = <<>> /\ CallMessage(what).method = Method(what)
        /\ CallMessage(what) = [method |-> Method(what), request |-> <<>>]
    BY <2>1
  <2>3. Method(what) \in {"StartRecording", "StopRecording", "PauseRecording", "ResumeRecording"}
    BY <2>1
  <2> QED
    BY <2>2, <2>3 DEF Api!StartRecordingRequest, Api!StopRecordingRequest,
                      Api!PauseRecordingRequest, Api!ResumeRecordingRequest
<1> QED
  BY <1>1, <1>2, <1>3, <1>4 DEF Orders, GatewayOrders, CliOrders

\* An answer without an error is one of the api's.
LEMMA AnswerIsOfTheApi ==
  ASSUME IInv, AnswerInv, NEW r \in Requests,
         reply[r].code = "ok" \/ (reply[r].code = "failed" /\ order[r].op = "publish")
  PROVE  AnswerMessage(r) \in Api!RecordingAnswer
<1>o. order[r].op \in {"publish", "get", "list", "topics"}
  BY DEF IInv, Typed, Orders, GatewayOrders, CliOrders
<1>l. order[r].op # "publish" =>
        /\ reply[r].listed \subseteq Recorders \X Values
        /\ order[r].op \in {"get", "topics"} => reply[r].listed # {}
  BY DEF AnswerInv, Answered
<1> DEFINE listed == reply[r].listed
<1>1. CASE order[r].op = "get"
  <2> DEFINE messages == {AsRecording(entry) : entry \in listed}
  <2>1. messages # {} /\ messages \subseteq Api!Recording
    BY <1>1, <1>l, RecordingIsWhole
  <2>2. OnlyEntry(messages) \in Api!Recording
    <3> HIDE DEF messages
    <3> QED
      BY <2>1, Zenon DEF OnlyEntry
  <2>3. AnswerMessage(r) = [method |-> "GetRecording", response |-> [recording |-> OnlyEntry(messages)]]
    BY <1>1 DEF AnswerMessage, Method
  <2> HIDE DEF messages
  <2> QED
    BY <2>2, <2>3 DEF Api!RecordingAnswer, Api!GetRecordingResponse
<1>2. CASE order[r].op = "topics"
  <2> DEFINE messages == {TopicStatuses(entry) : entry \in listed}
  <2>1. messages # {} /\ messages \subseteq Seq(Api!TopicStatus)
    BY <1>2, <1>l, RecordingIsWhole
  <2>2. OnlyEntry(messages) \in Seq(Api!TopicStatus)
    <3> HIDE DEF messages
    <3> QED
      BY <2>1, Zenon DEF OnlyEntry
  <2>3. AnswerMessage(r)
          = [method |-> "ListTopicStatuses", response |-> [topicStatuses |-> OnlyEntry(messages)]]
    BY <1>2 DEF AnswerMessage, Method
  <2> HIDE DEF messages
  <2> QED
    BY <2>2, <2>3 DEF Api!RecordingAnswer, Api!ListTopicStatusesResponse
<1>3. CASE order[r].op = "list"
  <2> DEFINE all == SetToSeq(listed)
             recordings == [i \in DOMAIN all |-> AsRecording(all[i])]
  <2>1. listed \subseteq Recorders \X Values /\ IsFiniteSet(listed)
    <3>1. IsFiniteSet(Recorders) /\ IsFiniteSet(Values)
      <4>1. IsFiniteSet({} \cup {"true"})
        BY FS_EmptySet, FS_AddElement
      <4>2. IsFiniteSet(({} \cup {"true"}) \cup {"false"})
        BY <4>1, FS_AddElement
      <4>3. ({} \cup {"true"}) \cup {"false"} = Values
        BY DEF Values
      <4> QED
        BY <4>2, <4>3, ReportedAssumption
    <3>2. IsFiniteSet(Recorders \X Values)
      BY <3>1, FS_Product
    <3> QED
      BY <1>3, <1>l, <3>2, FS_Subset
  <2>2. Cardinality(listed) \in Nat /\ all \in [1 .. Cardinality(listed) -> listed]
    BY <2>1, ListedSet
  <2>3. \A i \in 1 .. Cardinality(listed) : AsRecording(all[i]) \in Api!Recording
    <3> HIDE DEF all, listed
    <3> QED
      BY <2>1, <2>2, RecordingIsWhole
  <2>4. recordings \in Seq(Api!Recording)
    <3> HIDE DEF all, listed
    <3>1. recordings \in [1 .. Cardinality(listed) -> Api!Recording]
      BY <2>2, <2>3
    <3> QED
      BY <2>2, <3>1
  <2>5. AnswerMessage(r) = [method |-> "ListRecordings", response |-> [recordings |-> recordings]]
    BY <1>3 DEF AnswerMessage, Method
  <2> HIDE DEF recordings
  <2> QED
    BY <2>4, <2>5 DEF Api!RecordingAnswer, Api!ListRecordingsResponse
<1>4. CASE order[r].op = "publish"
  <2>1. AnswerMessage(r) = [method |-> Method(order[r]),
                            response |-> [success |-> reply[r].code = "ok"]]
    BY <1>4 DEF AnswerMessage
  <2>2. Method(order[r]) \in {"StartRecording", "StopRecording", "PauseRecording", "ResumeRecording"}
    BY <1>4 DEF Method
  <2>3. [success |-> reply[r].code = "ok"] \in [success : BOOLEAN]
    OBVIOUS
  <2> QED
    BY <2>1, <2>2, <2>3
    DEF Api!RecordingAnswer, Api!StartRecordingResponse, Api!StopRecordingResponse,
        Api!PauseRecordingResponse, Api!ResumeRecordingResponse
<1> QED
  BY <1>o, <1>1, <1>2, <1>3, <1>4

\* Only a call of the api is under way.
CallsInv == \A r \in Requests : http[r] = "calling" => order[r] \in Orders

\* Every action keeps it: an order is set by Call alone.
LEMMA CallsStep == IInv /\ CallsInv /\ [Next]_vars => CallsInv'
<1> SUFFICES ASSUME IInv, CallsInv, [Next]_vars, NEW q \in Requests, http'[q] = "calling"
             PROVE  order'[q] \in Orders
  BY DEF CallsInv
<1>t. /\ http \in [Requests -> {"idle", "calling"}]
      /\ order \in [Requests -> Orders \cup [op : {"list"}, arg : {NoFilter}]]
  BY DEF IInv, TypeOK, Typed
<1>1. ASSUME NEW r \in Requests, NEW what \in Orders, Call(r, what) PROVE order'[q] \in Orders
  BY <1>1, <1>t DEF Call, CallsInv
<1>2. ASSUME order' = order, http[q] = "calling" PROVE order'[q] \in Orders
  BY <1>2 DEF CallsInv
<1>3. ASSUME NEW r \in Requests, GiveUp(r) \/ Publish(r) \/ NotFound(r) \/ Judge(r) \/ List(r)
      PROVE  order' = order /\ http[q] = "calling"
  <2>1. order' = order /\ http' = [http EXCEPT ![r] = "idle"]
    BY <1>3 DEF GiveUp, Publish, NotFound, Judge, List, Answer
  <2> QED
    BY <2>1, <1>t
<1>4. CASE BridgeCrashes
  BY <1>4 DEF BridgeCrashes
<1>5. CASE UNCHANGED <<order, http>>
  BY <1>2, <1>5
<1> QED
  BY <1>1, <1>2, <1>3, <1>4, <1>5
  DEF Next, Serve, Callback, vars, callVars, LockForReading, Found, Take, LockForWriting, Store,
      Stamp, PublishStatus, RecorderStops, RecorderStarts, Hear, BridgeStarts, HalfSecondPasses

\* What goes over the wire is what drs.ros2bridge.v1 has, however the recorders, the
\* cache and the callers interleave: no reader of a recording meets a nil.
THEOREM MessagesHold == Spec => []MessagesFitTheApi
<1>1. Init => CallsInv
  BY DEF Init, CallsInv
<1>2. IInv /\ AnswerInv /\ CallsInv => MessagesFitTheApi
  BY CallIsOfTheApi, AnswerIsOfTheApi DEF MessagesFitTheApi, CallsInv
<1> QED
  BY <1>1, <1>2, CallsStep, Invariance, AnswersHold, PTL DEF Spec
===============================================================================
