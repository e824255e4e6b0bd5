---------------------------- MODULE ClientManager ----------------------------
(***************************************************************************)
(* The gateway's cache of gRPC connections (grpc.ClientManager): handlers  *)
(* look a target up under the read lock of a sync.RWMutex, and the one     *)
(* that misses takes the write lock, looks again and connects.  Close,     *)
(* called when the gateway stops, may meet handlers and the health check.  *)
(*                                                                         *)
(* GetModuleClients and GetROS2BridgeClients follow the same protocol; the *)
(* bridge is one more target, checked for being enabled before the lock    *)
(* where a module is checked for being configured behind it.               *)
(***************************************************************************)
EXTENDS Naturals

CONSTANTS Threads,     \* handler goroutines, the health check, main
          Targets,     \* hosts that are asked for, and the ROS2 bridge
          Bridge,      \* the ROS2 bridge
          Configurations, \* the configurations the gateway may start with
          MaxDials     \* bound: connections the model lets the gateway open

ASSUME TargetsAssumption == Bridge \in Targets /\ Configurations \subseteq SUBSET Targets
ASSUME DialsAssumption == MaxDials \in Nat

NoConn == 0

VARIABLES
  pc,           \* where each thread is
  want,         \* the target it asks for
  got,          \* the connection its last call returned, NoConn for an error
  readers,      \* the threads that hold the read lock
  writer,       \* the threads that hold the write lock: none or one
  connections,  \* the manager's map of connections
  clients,      \* the manager's map of clients, each over a connection
  open,         \* <<target, n>>: connection n is open
  dials,        \* connections opened so far, their names
  configured    \* the targets of config.yaml (the bridge: if enabled)

lockVars == <<readers, writer>>
mapVars == <<connections, clients>>
connVars == <<open, dials>>
vars == <<pc, want, got, readers, writer, connections, clients, open, dials, configured>>

Empty == [k \in Targets |-> NoConn]

Init ==
  /\ pc = [t \in Threads |-> "idle"]
  /\ want = [t \in Threads |-> Bridge]
  /\ got = [t \in Threads |-> NoConn]
  /\ readers = {} /\ writer = {}
  /\ connections = Empty /\ clients = Empty
  /\ open = {} /\ dials = 0
  /\ configured \in Configurations

-----------------------------------------------------------------------------
(* sync.RWMutex *)

WriterWaits == \E t \in Threads : pc[t] \in {"create", "close"}
ReadersWaiting == {t \in Threads : pc[t] = "rwait"}

\* RLock goes ahead unless a writer holds the lock or waits for it.
Call(t, k) ==
  /\ pc[t] = "idle"
  /\ want' = [want EXCEPT ![t] = k]
  /\ \/ /\ writer = {} /\ ~ WriterWaits
        /\ pc' = [pc EXCEPT ![t] = "read"]
        /\ readers' = readers \cup {t}
     \/ /\ writer # {} \/ WriterWaits
        /\ pc' = [pc EXCEPT ![t] = "rwait"]
        /\ UNCHANGED readers
  /\ UNCHANGED <<got, writer, mapVars, connVars>>

\* Lock returns once nobody holds the lock.
Acquire(t) ==
  /\ pc[t] \in {"create", "close"}
  /\ writer = {} /\ readers = {}
  /\ writer' = {t}
  /\ pc' = [pc EXCEPT ![t] = IF @ = "create" THEN "check" ELSE "shut"]
  /\ UNCHANGED <<want, got, readers, mapVars, connVars>>

\* Unlock lets all the readers in that were waiting; t's call is over.
Unlock(t) ==
  /\ writer' = writer \ {t}
  /\ readers' = readers \cup ReadersWaiting
  /\ pc' = [q \in Threads |-> IF q = t THEN "idle"
                              ELSE IF q \in ReadersWaiting THEN "read" ELSE pc[q]]

-----------------------------------------------------------------------------
(* GetModuleClients, GetROS2BridgeClients *)

Return(t, n) == got' = [got EXCEPT ![t] = n]

\* The lookup under the read lock, then RUnlock.
Lookup(t) ==
  /\ pc[t] = "read"
  /\ readers' = readers \ {t}
  /\ \/ /\ clients[want[t]] # NoConn
        /\ Return(t, clients[want[t]])
        /\ pc' = [pc EXCEPT ![t] = "idle"]
     \/ /\ clients[want[t]] = NoConn
        /\ pc' = [pc EXCEPT ![t] = "missed"]
        /\ UNCHANGED got
  /\ UNCHANGED <<want, writer, mapVars, connVars>>

\* The bridge is disabled: an error, before any lock.
BridgeDisabled(t) ==
  /\ pc[t] = "missed" /\ want[t] = Bridge /\ Bridge \notin configured
  /\ Return(t, NoConn)
  /\ pc' = [pc EXCEPT ![t] = "idle"]
  /\ UNCHANGED <<want, lockVars, mapVars, connVars>>

\* cm.mu.Lock() is called.
WantLock(t) ==
  /\ pc[t] = "missed"
  /\ want[t] = Bridge => Bridge \in configured
  /\ pc' = [pc EXCEPT ![t] = "create"]
  /\ UNCHANGED <<want, got, lockVars, mapVars, connVars>>

\* The second look: another thread connected in the meantime.
SomebodyElseDid(t) ==
  /\ pc[t] = "check" /\ clients[want[t]] # NoConn
  /\ Return(t, clients[want[t]])
  /\ Unlock(t)
  /\ UNCHANGED <<want, mapVars, connVars>>

\* Slip: an early return without the deferred Unlock.
FailHoldingLock(t) ==
  /\ pc[t] = "check" /\ clients[want[t]] = NoConn
  /\ Return(t, NoConn)
  /\ pc' = [pc EXCEPT ![t] = "idle"]
  /\ UNCHANGED <<want, lockVars, mapVars, connVars>>

\* The module is not in the configuration, or grpc.NewClient fails.
Fail(t) ==
  /\ pc[t] = "check" /\ clients[want[t]] = NoConn
  /\ Return(t, NoConn)
  /\ Unlock(t)
  /\ UNCHANGED <<want, mapVars, connVars>>

\* Slip: createModuleClients without the second look.
DialUnseen(t) ==
  /\ pc[t] = "check"
  /\ want[t] \in configured /\ dials < MaxDials
  /\ dials' = dials + 1
  /\ open' = open \cup {<<want[t], dials'>>}
  /\ pc' = [pc EXCEPT ![t] = "store"]
  /\ UNCHANGED <<want, got, lockVars, mapVars>>

\* grpc.NewClient.
Dial(t) ==
  /\ pc[t] = "check" /\ clients[want[t]] = NoConn
  /\ want[t] \in configured /\ dials < MaxDials
  /\ dials' = dials + 1
  /\ open' = open \cup {<<want[t], dials'>>}
  /\ pc' = [pc EXCEPT ![t] = "store"]
  /\ UNCHANGED <<want, got, lockVars, mapVars>>

\* Both maps get the new entry.
Store(t) ==
  /\ pc[t] = "store"
  /\ connections' = [connections EXCEPT ![want[t]] = dials]
  /\ clients' = [clients EXCEPT ![want[t]] = dials]
  /\ Return(t, dials)
  /\ Unlock(t)
  /\ UNCHANGED <<want, connVars>>

-----------------------------------------------------------------------------
(* Close *)

CallClose(t) ==
  /\ pc[t] = "idle"
  /\ pc' = [pc EXCEPT ![t] = "close"]
  /\ UNCHANGED <<want, got, lockVars, mapVars, connVars>>

Registered == {<<k, connections[k]>> : k \in Targets}

\* Every connection of the manager is closed ...
CloseConnections(t) ==
  /\ pc[t] = "shut"
  /\ open' = open \ Registered
  /\ pc' = [pc EXCEPT ![t] = "reset"]
  /\ UNCHANGED <<want, got, lockVars, mapVars, dials>>

\* Slip: Close makes only the map of connections anew.
ResetKeepingClients(t) ==
  /\ pc[t] = "reset"
  /\ connections' = Empty
  /\ Unlock(t)
  /\ UNCHANGED <<want, got, clients, connVars>>

\* ... and the maps are made anew.
Reset(t) ==
  /\ pc[t] = "reset"
  /\ connections' = Empty /\ clients' = Empty
  /\ Unlock(t)
  /\ UNCHANGED <<want, got, connVars>>

-----------------------------------------------------------------------------
Run(t) ==
  /\ \/ Lookup(t) \/ BridgeDisabled(t) \/ WantLock(t)
     \/ SomebodyElseDid(t) \/ Fail(t) \/ Dial(t) \/ Store(t)
     \/ CloseConnections(t) \/ Reset(t)
  /\ UNCHANGED configured

Lock(t) == Acquire(t) /\ UNCHANGED configured

Next ==
  \E t \in Threads :
    \/ Run(t) \/ Lock(t)
    \/ CallClose(t) /\ UNCHANGED configured
    \/ \E k \in Targets : Call(t, k) /\ UNCHANGED configured

Spec == Init /\ [][Next]_vars

-----------------------------------------------------------------------------
(* Properties *)

Conns == Targets \X (1 .. dials)
Names == 0 .. dials

\* The types; the lock is held by readers or by one writer.
TypeOK ==
  /\ pc \in [Threads -> {"idle", "rwait", "read", "missed", "create", "check",
                         "store", "close", "shut", "reset"}]
  /\ want \in [Threads -> Targets]
  /\ got \in [Threads -> Names]
  /\ readers \in SUBSET Threads /\ writer \in SUBSET Threads
  /\ writer # {} => readers = {} /\ \E t \in Threads : writer = {t}
  /\ connections \in [Targets -> Names] /\ clients \in [Targets -> Names]
  /\ dials \in Nat /\ open \in SUBSET Conns /\ configured \in SUBSET Targets

\* However many handlers miss at the same time, a target has one connection.
OneConnectionPerTarget ==
  \A c, d \in open : c[1] = d[1] => c = d

\* No connection is leaked: the open ones are in the map that Close goes
\* through, but for one that its creator is about to put there.
NoneLeaked ==
  \A c \in open :
    \/ connections[c[1]] = c[2]
    \/ \E t \in Threads : pc[t] = "store" /\ want[t] = c[1] /\ dials = c[2]

\* The clients a reader finds work: their connection is open.  (In Close, with
\* the write lock held, it is closed before the map forgets it.)
ClientsAreConnected ==
  \A t \in Threads :
    pc[t] = "read" /\ clients[want[t]] # NoConn
      => <<want[t], clients[want[t]]>> \in open

\* The maps and the connections agree at every moment, whoever is between a
\* look at one and a change of the other.
MapsAndConnectionsAgree == OneConnectionPerTarget /\ NoneLeaked /\ ClientsAreConnected

\* Nobody waits for nobody: while a thread waits for the lock, another one has it
\* and will give it back, or it is free and a writer can take it.  No reader is
\* left asleep by the last writer, and no writer by a reader that has gone.
NobodyWaitsForNobody ==
  (\E t \in Threads : pc[t] \in {"rwait", "create", "close"}) =>
    \/ \E t \in Threads : pc[t] \in {"read", "check", "store", "shut", "reset"}
    \/ readers = {} /\ writer = {} /\ WriterWaits

\* Nothing is open when Close gives the lock back.
CloseClosesAll ==
  [][\A t \in Threads : pc[t] = "reset" /\ pc'[t] # "reset" => open' = {}]_vars

\* The lock, the two looks and the two maps implement a cache whose calls take
\* effect at once: a connection is in it from when it is stored until Close
\* closes it.
Storing == {t \in Threads : pc[t] = "store"}

Place(stage) ==
  CASE stage = "idle" -> "out"
    [] stage \in {"close", "shut", "reset"} -> "closing"
    [] OTHER -> "asking"

Cache == INSTANCE ConnectionCache WITH
  place <- [t \in Threads |-> Place(pc[t])],
  cache <- open \ {<<want[t], dials>> : t \in Storing},
  last <- IF Storing = {} THEN dials ELSE dials - 1

CallsTakeEffectAtOnce == Cache!CSpec
=============================================================================
