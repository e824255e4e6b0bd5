--------------------------- MODULE RecordingBridge ---------------------------
(***************************************************************************)
(* The ROS2 bridge's RecordingHandler between the gateway and the          *)
(* recorders.  Commands are published on two latched topics, start and     *)
(* pause (QoS depth 1, transient_local), which a recorder that comes up    *)
(* later still hears.  The recorders publish their status; the executor's  *)
(* callback keeps the last one of each recorder in a cache, with the time, *)
(* under a mutex that the gRPC threads take to read it.  A client may give *)
(* a call up, recorders come and go, and the bridge may crash.             *)
(*                                                                         *)
(* Recording, as a status tells it, follows the start topic.               *)
(***************************************************************************)
EXTENDS Naturals, Sequences

CONSTANTS Requests,   \* callers, one call at a time
          Recorders,  \* hardware ids
          Commands,   \* [topic, value] that are asked for
          Filters,    \* filters of ListRecordings: a recorder, for "hardware_id:="
                      \* and its id, or another text
          NoFilter,   \* the empty text
          MaxAge,     \* seconds a status is good for: 10
          Depth       \* depth of the status subscription: 10

ASSUME BridgeAssumption ==
  /\ Commands \subseteq [topic : {"start", "pause"}, value : {"true", "false"}]
  /\ NoFilter \notin Recorders /\ "bridge" \notin Recorders
  /\ "free" \notin Requests /\ "executor" \notin Requests
  /\ MaxAge \in Nat /\ Depth \in Nat \ {0}

VARIABLES
  http,     \* the caller's side of each caller's call
  order,    \* what it asks for
  pc,       \* the bridge's side of it
  reply,    \* what the bridge answers
  lock,     \* who holds recordings_mutex_
  executor, \* the callback: its stage and its message
  queue,    \* the subscription's queue of statuses
  cache,    \* recordings_cache_
  age,      \* half seconds since last_updates_, up to MaxHalves
  held,     \* half seconds since the status was put in the cache, likewise
  latched,  \* the last value published on each topic
  inbox,    \* the value on its way to each recorder
  mode,     \* what each recorder does: the last values it heard
  power     \* "up" or "down", the bridge and each recorder

callVars == <<http, order, pc, reply>>
cacheVars == <<queue, cache, age, held>>
topicVars == <<latched, inbox, mode, power>>
vars == <<callVars, lock, executor, cacheVars, topicVars>>

Commanded == {"start", "pause"}
Executor == "executor"
Bridge == "bridge"
Free == "free"
MaxHalves == 2 * (MaxAge + 1)

NoReply == [code |-> "none", listed |-> {}]
Silent == [t \in Commanded |-> "none"]
Waiting == [stage |-> "waiting", from |-> NoFilter, value |-> "none"]

Init ==
  /\ http = [r \in Requests |-> "idle"]
  /\ order = [r \in Requests |-> [op |-> "list", arg |-> NoFilter]]
  /\ pc = [r \in Requests |-> "none"]
  /\ reply = [r \in Requests |-> NoReply]
  /\ lock = Free /\ executor = Waiting /\ queue = <<>>
  /\ cache = [k \in Recorders |-> "none"]
  /\ age = [k \in Recorders |-> 0] /\ held = [k \in Recorders |-> 0]
  /\ latched = Silent
  /\ inbox = [k \in Recorders |-> Silent]
  /\ mode = [k \in Recorders |-> Silent]
  /\ power = [x \in Recorders \cup {Bridge} |-> "up"]

-----------------------------------------------------------------------------
(* The caller: the gateway, or drs-cli *)

\* The bridge is up, and done with the caller's last call.
Call(r, what) ==
  /\ power[Bridge] = "up" /\ http[r] = "idle" /\ pc[r] = "none"
  /\ order' = [order EXCEPT ![r] = what]
  /\ http' = [http EXCEPT ![r] = "calling"]
  /\ pc' = [pc EXCEPT ![r] = IF what.op = "publish" THEN "publish" ELSE "lock"]
  /\ reply' = [reply EXCEPT ![r] = NoReply]
  /\ UNCHANGED <<lock, executor, cacheVars, topicVars>>

\* The deadline is over; the bridge goes on with the call.
GiveUp(r) ==
  /\ http[r] = "calling"
  /\ http' = [http EXCEPT ![r] = "idle"]
  /\ UNCHANGED <<order, pc, reply, lock, executor, cacheVars, topicVars>>

-----------------------------------------------------------------------------
(* The bridge's gRPC threads *)

Answer(r, code, listed) ==
  /\ reply' = [reply EXCEPT ![r] = [code |-> code, listed |-> listed]]
  /\ pc' = [pc EXCEPT ![r] = "none"]
  /\ http' = [http EXCEPT ![r] = "idle"]

\* publishCommand: the topic keeps the value, every recorder that is up is sent
\* it in place of the one it has not taken yet.  publish may throw.
Publish(r) ==
  /\ power[Bridge] = "up" /\ pc[r] = "publish"
  /\ \/ LET topic == order[r].arg.topic
            value == order[r].arg.value IN
        /\ latched' = [latched EXCEPT ![topic] = value]
        /\ inbox' = [k \in Recorders |->
             IF power[k] = "up" THEN [inbox[k] EXCEPT ![topic] = value] ELSE inbox[k]]
        /\ Answer(r, "ok", {})
     \/ Answer(r, "failed", {}) /\ UNCHANGED <<latched, inbox>>
  /\ UNCHANGED <<order, lock, executor, cacheVars, mode, power>>

LockForReading(r) ==
  /\ power[Bridge] = "up" /\ pc[r] = "lock" /\ lock = Free
  /\ lock' = r
  /\ pc' = [pc EXCEPT ![r] = "find"]
  /\ UNCHANGED <<http, order, reply, executor, cacheVars, topicVars>>

\* Slip: an early return that does not unlock.
NotFoundLocked(r) ==
  /\ power[Bridge] = "up" /\ pc[r] = "find" /\ order[r].op \in {"get", "topics"}
  /\ cache[order[r].arg] = "none"
  /\ Answer(r, "not_found", {})
  /\ UNCHANGED <<order, lock, executor, cacheVars, topicVars>>

\* GetRecording, ListTopicStatuses: nothing is known of this hardware id.
NotFound(r) ==
  /\ power[Bridge] = "up" /\ pc[r] = "find" /\ order[r].op \in {"get", "topics"}
  /\ cache[order[r].arg] = "none"
  /\ Answer(r, "not_found", {})
  /\ lock' = Free
  /\ UNCHANGED <<order, executor, cacheVars, topicVars>>

Found(r) ==
  /\ power[Bridge] = "up" /\ pc[r] = "find" /\ order[r].op = "get"
  /\ cache[order[r].arg] # "none"
  /\ pc' = [pc EXCEPT ![r] = "judge"]
  /\ UNCHANGED <<http, order, reply, lock, executor, cacheVars, topicVars>>

Entry(k) == <<k, cache[k]>>

\* duration_cast<seconds> drops the half second.
Stale(k) == age[k] \div 2 > MaxAge

\* Slip: an entry that is too old is answered OK, with nothing in it.
JudgeEmpty(r) ==
  /\ power[Bridge] = "up" /\ pc[r] = "judge"
  /\ Answer(r, "ok", IF Stale(order[r].arg) THEN {} ELSE {Entry(order[r].arg)})
  /\ lock' = Free
  /\ UNCHANGED <<order, executor, cacheVars, topicVars>>

Judge(r) ==
  /\ power[Bridge] = "up" /\ pc[r] = "judge"
  /\ IF Stale(order[r].arg) THEN Answer(r, "unavailable", {})
     ELSE Answer(r, "ok", {Entry(order[r].arg)})
  /\ lock' = Free
  /\ UNCHANGED <<order, executor, cacheVars, topicVars>>

\* Of "hardware_id:=" and an id, substr removes too few characters, and what is
\* left, "=" and the id, is no hardware id; a filter without the prefix is none.
Prefix == 13
Removed == 12
Matches(k, filter) == filter \notin Recorders \/ (Removed = Prefix /\ filter = k)

\* ListRecordings, and ListTopicStatuses for one of them: of any age.
List(r) ==
  /\ power[Bridge] = "up" /\ pc[r] = "find"
  /\ LET cached == {k \in Recorders : cache[k] # "none"}
         chosen == IF order[r].op = "list" THEN {k \in cached : Matches(k, order[r].arg)}
                   ELSE cached \cap {order[r].arg} IN
     /\ order[r].op = "list" \/ (order[r].op = "topics" /\ chosen # {})
     /\ Answer(r, "ok", {Entry(k) : k \in chosen})
  /\ lock' = Free
  /\ UNCHANGED <<order, executor, cacheVars, topicVars>>

-----------------------------------------------------------------------------
(* The executor *)

\* rclcpp::spin takes the oldest status and calls recorderStatusCallback.
Take ==
  /\ power[Bridge] = "up" /\ executor.stage = "waiting" /\ queue # <<>>
  /\ executor' = [stage |-> "lock", from |-> Head(queue).from, value |-> Head(queue).value]
  /\ queue' = Tail(queue)
  /\ UNCHANGED <<callVars, lock, cache, age, held, topicVars>>

\* Slip: the callback does not take the mutex.
LockForWritingNever ==
  /\ power[Bridge] = "up" /\ executor.stage = "lock"
  /\ executor' = [executor EXCEPT !.stage = "store"]
  /\ UNCHANGED <<callVars, lock, cacheVars, topicVars>>

LockForWriting ==
  /\ power[Bridge] = "up" /\ executor.stage = "lock" /\ lock = Free
  /\ lock' = Executor
  /\ executor' = [executor EXCEPT !.stage = "store"]
  /\ UNCHANGED <<callVars, cacheVars, topicVars>>

\* Slip: emplace, which does not overwrite.
StoreOnce ==
  /\ power[Bridge] = "up" /\ executor.stage = "store"
  /\ cache' = [cache EXCEPT ![executor.from] = IF @ = "none" THEN executor.value ELSE @]
  /\ held' = [held EXCEPT ![executor.from] = 0]
  /\ executor' = [executor EXCEPT !.stage = "stamp"]
  /\ UNCHANGED <<callVars, lock, queue, age, topicVars>>

Store ==
  /\ power[Bridge] = "up" /\ executor.stage = "store"
  /\ cache' = [cache EXCEPT ![executor.from] = executor.value]
  /\ held' = [held EXCEPT ![executor.from] = 0]
  /\ executor' = [executor EXCEPT !.stage = "stamp"]
  /\ UNCHANGED <<callVars, lock, queue, age, topicVars>>

Stamp ==
  /\ power[Bridge] = "up" /\ executor.stage = "stamp"
  /\ age' = [age EXCEPT ![executor.from] = 0]
  /\ executor' = Waiting
  /\ lock' = IF lock = Executor THEN Free ELSE lock
  /\ UNCHANGED <<callVars, queue, cache, held, topicVars>>

-----------------------------------------------------------------------------
(* Recorders, time, crashes *)

Hear(k, t) ==
  /\ power[k] = "up" /\ inbox[k][t] # "none"
  /\ mode' = [mode EXCEPT ![k][t] = inbox[k][t]]
  /\ inbox' = [inbox EXCEPT ![k][t] = "none"]
  /\ UNCHANGED <<callVars, lock, executor, cacheVars, latched, power>>

KeepLast(q) == IF Len(q) > Depth THEN Tail(q) ELSE q

PublishStatus(k) ==
  /\ power[k] = "up" /\ power[Bridge] = "up"
  /\ queue' = KeepLast(Append(queue,
       [from |-> k, value |-> IF mode[k]["start"] = "true" THEN "true" ELSE "false"]))
  /\ UNCHANGED <<callVars, lock, executor, cache, age, held, topicVars>>

RecorderStops(k) ==
  /\ power[k] = "up"
  /\ power' = [power EXCEPT ![k] = "down"]
  /\ inbox' = [inbox EXCEPT ![k] = Silent]
  /\ mode' = [mode EXCEPT ![k] = Silent]
  /\ UNCHANGED <<callVars, lock, executor, cacheVars, latched>>

\* Slip: QoS(1) alone, which is volatile.
ForNoLateJoiners == Silent

\* What a recorder that joins is sent: the latched values.
ForLateJoiners == latched

RecorderStarts(k) ==
  /\ power[k] = "down"
  /\ power' = [power EXCEPT ![k] = "up"]
  /\ inbox' = [inbox EXCEPT ![k] = ForLateJoiners]
  /\ UNCHANGED <<callVars, lock, executor, cacheVars, latched, mode>>

BridgeCrashes ==
  /\ power[Bridge] = "up"
  /\ power' = [power EXCEPT ![Bridge] = "down"]
  /\ http' = [r \in Requests |-> "idle"]
  /\ pc' = [r \in Requests |-> "none"]
  /\ lock' = Free /\ executor' = Waiting /\ queue' = <<>>
  /\ cache' = [k \in Recorders |-> "none"]
  /\ latched' = Silent
  /\ UNCHANGED <<order, reply, age, held, inbox, mode>>

BridgeStarts ==
  /\ power[Bridge] = "down"
  /\ power' = [power EXCEPT ![Bridge] = "up"]
  /\ UNCHANGED <<callVars, lock, executor, cacheVars, latched, inbox, mode>>

HalfSecondPasses ==
  /\ age' = [k \in Recorders |-> IF age[k] < MaxHalves THEN age[k] + 1 ELSE age[k]]
  /\ held' = [k \in Recorders |-> IF held[k] < MaxHalves THEN held[k] + 1 ELSE held[k]]
  /\ <<age', held'>> # <<age, held>>
  /\ UNCHANGED <<callVars, lock, executor, queue, cache, topicVars>>

-----------------------------------------------------------------------------
\* What the gateway asks for: its list has no filter.
GatewayOrders ==
  [op : {"publish"}, arg : Commands] \cup [op : {"list"}, arg : {NoFilter} \cap Filters]
    \cup [op : {"topics"}, arg : Recorders]

\* And what drs-cli asks for besides.
CliOrders == [op : {"get"}, arg : Recorders] \cup [op : {"list"}, arg : Filters]

Orders == GatewayOrders \cup CliOrders

Serve(r) == Publish(r) \/ LockForReading(r) \/ NotFound(r) \/ Found(r) \/ Judge(r) \/ List(r)
Callback == LockForWriting \/ Store \/ Stamp

Next ==
  \/ \E r \in Requests : GiveUp(r) \/ Serve(r) \/ \E what \in Orders : Call(r, what)
  \/ Take \/ Callback
  \/ \E k \in Recorders :
       PublishStatus(k) \/ RecorderStops(k) \/ RecorderStarts(k) \/ \E t \in Commanded : Hear(k, t)
  \/ BridgeCrashes \/ BridgeStarts \/ HalfSecondPasses

Spec == Init /\ [][Next]_vars

\* Threads run on, the mutex is given to whoever asks again and again, a
\* recorder that is up takes its commands and goes on publishing.
FairSpec ==
  /\ Spec
  /\ \A r \in Requests : SF_vars(Serve(r))
  /\ WF_vars(Take) /\ SF_vars(Callback)
  /\ \A k \in Recorders :
       WF_vars(PublishStatus(k)) /\ \A t \in Commanded : WF_vars(Hear(k, t))

-----------------------------------------------------------------------------
(* Properties *)

TypeOK ==
  /\ http \in [Requests -> {"idle", "calling"}]
  /\ pc \in [Requests -> {"none", "publish", "lock", "find", "judge"}]
  /\ \A r \in Requests :
       reply[r].code \in {"none", "ok", "failed", "not_found", "unavailable"}
  /\ lock \in Requests \cup {Free, Executor}
  /\ executor.stage \in {"waiting", "lock", "store", "stamp"}
  /\ Len(queue) <= Depth
  /\ cache \in [Recorders -> {"none", "true", "false"}]
  /\ age \in [Recorders -> 0 .. MaxHalves] /\ held \in [Recorders -> 0 .. MaxHalves]
  /\ latched \in [Commanded -> {"none", "true", "false"}]
  /\ inbox \in [Recorders -> [Commanded -> {"none", "true", "false"}]]
  /\ mode \in [Recorders -> [Commanded -> {"none", "true", "false"}]]

\* A status is called stale only if it has been in the cache for more than
\* MaxAge seconds: never because its time has not been written yet.
NoFalseAlarm ==
  [][\A r \in Requests :
       reply'[r].code = "unavailable" /\ reply[r].code # "unavailable"
         => held[order[r].arg] > 2 * MaxAge]_vars

\* A recorder that is up does what was last commanded, or has nothing else on its
\* way than that: no command is lost on a recorder that starts late, nor undone by
\* an older one that arrives after it.
NoCommandLost ==
  \A k \in Recorders, t \in Commanded :
    power[k] = "up" /\ latched[t] # "none" =>
      \/ inbox[k][t] = latched[t]
      \/ inbox[k][t] = "none" /\ mode[k][t] = latched[t]

\* Whoever has the mutex is at work in the cache and will give it back: no way out of
\* a handler, and no crash, leaves it locked.
MutexIsHeld ==
  /\ \A r \in Requests : lock = r => pc[r] \in {"find", "judge"}
  /\ lock = Executor => executor.stage \in {"store", "stamp"}

\* Every call ends, on the bridge's side too: the mutex is always given back.
EveryCallEnds == \A r \in Requests : pc[r] # "none" ~> pc[r] = "none"
=============================================================================
