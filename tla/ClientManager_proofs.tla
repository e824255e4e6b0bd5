------------------------ MODULE ClientManager_proofs ------------------------
(***************************************************************************)
(* Proofs about ClientManager: the lock keeps writers alone, so that a     *)
(* target never has two connections and none is leaked.  Then about        *)
(* GatewayProcess: its steps are steps of the manager, and main closes no  *)
(* connection that a handler calls over.                                   *)
(***************************************************************************)
EXTENDS GatewayProcess, TLAPS

Stages == {"idle", "rwait", "read", "missed", "create", "check",
           "store", "close", "shut", "reset"}
Exclusive == {"check", "store", "shut", "reset"}

\* Who holds the lock can be told from where the threads are.
LockInv ==
  /\ \A t \in Threads : t \in readers <=> pc[t] = "read"
  /\ \A t \in Threads : t \in writer <=> pc[t] \in Exclusive

\* The two maps agree; what a creator is about to store is open and has no
\* entry yet; what
\* is in the map is open, except while Close is between closing and forgetting.
MapInv ==
  /\ connections = clients
  /\ \A t \in Threads : pc[t] = "store" =>
       clients[want[t]] = NoConn /\ <<want[t], dials>> \in open
  /\ \A k \in Targets :
       clients[k] # NoConn =>
         \/ <<k, clients[k]>> \in open
         \/ \E t \in Threads : pc[t] = "reset"
  /\ \A t \in Threads : pc[t] = "reset" => open = {}

IInv == TypeOK /\ LockInv /\ MapInv /\ NoneLeaked

\* An empty cache satisfies the invariant.
THEOREM InitInv == Init => IInv
  BY TargetsAssumption DEF Init, IInv, TypeOK, LockInv, MapInv, NoneLeaked, Empty, Names, Conns,
     NoConn, Exclusive

\* Every step of a thread keeps the invariant: the lock, the maps, the connections.
THEOREM StepInv == IInv /\ [Next]_vars => IInv'
<1> SUFFICES ASSUME IInv, [Next]_vars PROVE IInv'
  OBVIOUS
<1>0. configured' = configured
  BY DEF Next, Run, Lock, vars
<1> USE <1>0 DEF IInv
<1>1. ASSUME NEW t \in Threads, NEW k \in Targets, Call(t, k)
      PROVE  IInv'
  <2>1. TypeOK'
    BY <1>1 DEF Call, lockVars, mapVars, connVars, WriterWaits, TypeOK, LockInv, Exclusive, Names, Conns, NoConn
  <2>2. LockInv'
    BY <1>1 DEF Call, lockVars, mapVars, connVars, WriterWaits, TypeOK, LockInv, Exclusive
  <2>3. MapInv'
    BY <1>1 DEF Call, lockVars, mapVars, connVars, WriterWaits, TypeOK, LockInv, MapInv, Exclusive, Names, Conns, NoConn
  <2>4. NoneLeaked'
    BY <1>1 DEF Call, lockVars, mapVars, connVars, WriterWaits, TypeOK, LockInv, MapInv, NoneLeaked, Exclusive, Names, Conns, NoConn
  <2> QED
    BY <2>1, <2>2, <2>3, <2>4
<1>2. ASSUME NEW t \in Threads, Acquire(t)
      PROVE  IInv'
  <2>1. TypeOK'
    BY <1>2 DEF Acquire, lockVars, mapVars, connVars, TypeOK, LockInv, Exclusive, Names, Conns, NoConn
  <2>2. LockInv'
    BY <1>2 DEF Acquire, lockVars, mapVars, connVars, TypeOK, LockInv, Exclusive
  <2>3. MapInv'
    BY <1>2 DEF Acquire, lockVars, mapVars, connVars, TypeOK, LockInv, MapInv, Exclusive, Names, Conns, NoConn
  <2>4. NoneLeaked'
    BY <1>2 DEF Acquire, lockVars, mapVars, connVars, TypeOK, LockInv, MapInv, NoneLeaked, Exclusive, Names, Conns, NoConn
  <2> QED
    BY <2>1, <2>2, <2>3, <2>4
<1>3. ASSUME NEW t \in Threads, Lookup(t)
      PROVE  IInv'
  <2>1. TypeOK'
    BY <1>3 DEF Lookup, lockVars, mapVars, connVars, Return, TypeOK, LockInv, Exclusive, Names, Conns, NoConn
  <2>2. LockInv'
    BY <1>3 DEF Lookup, lockVars, mapVars, connVars, Return, TypeOK, LockInv, Exclusive
  <2>3. MapInv'
    BY <1>3 DEF Lookup, lockVars, mapVars, connVars, Return, TypeOK, LockInv, MapInv, Exclusive, Names, Conns, NoConn
  <2>4. NoneLeaked'
    BY <1>3 DEF Lookup, lockVars, mapVars, connVars, Return, TypeOK, LockInv, MapInv, NoneLeaked, Exclusive, Names, Conns, NoConn
  <2> QED
    BY <2>1, <2>2, <2>3, <2>4
<1>4. ASSUME NEW t \in Threads, BridgeDisabled(t)
      PROVE  IInv'
  <2>1. TypeOK'
    BY <1>4 DEF BridgeDisabled, lockVars, mapVars, connVars, Return, TypeOK, LockInv, Exclusive, Names, Conns, NoConn
  <2>2. LockInv'
    BY <1>4 DEF BridgeDisabled, lockVars, mapVars, connVars, Return, TypeOK, LockInv, Exclusive
  <2>3. MapInv'
    BY <1>4 DEF BridgeDisabled, lockVars, mapVars, connVars, Return, TypeOK, LockInv, MapInv, Exclusive, Names, Conns, NoConn
  <2>4. NoneLeaked'
    BY <1>4 DEF BridgeDisabled, lockVars, mapVars, connVars, Return, TypeOK, LockInv, MapInv, NoneLeaked, Exclusive, Names, Conns, NoConn
  <2> QED
    BY <2>1, <2>2, <2>3, <2>4
<1>5. ASSUME NEW t \in Threads, WantLock(t)
      PROVE  IInv'
  <2>1. TypeOK'
    BY <1>5 DEF WantLock, lockVars, mapVars, connVars, TypeOK, LockInv, Exclusive, Names, Conns, NoConn
  <2>2. LockInv'
    BY <1>5 DEF WantLock, lockVars, mapVars, connVars, TypeOK, LockInv, Exclusive
  <2>3. MapInv'
    BY <1>5 DEF WantLock, lockVars, mapVars, connVars, TypeOK, LockInv, MapInv, Exclusive, Names, Conns, NoConn
  <2>4. NoneLeaked'
    BY <1>5 DEF WantLock, lockVars, mapVars, connVars, TypeOK, LockInv, MapInv, NoneLeaked, Exclusive, Names, Conns, NoConn
  <2> QED
    BY <2>1, <2>2, <2>3, <2>4
<1>6. ASSUME NEW t \in Threads, SomebodyElseDid(t)
      PROVE  IInv'
  <2>1. TypeOK'
    BY <1>6 DEF SomebodyElseDid, lockVars, mapVars, connVars, Return, Unlock, ReadersWaiting, TypeOK, LockInv, Exclusive, Names, Conns, NoConn
  <2>2. LockInv'
    BY <1>6 DEF SomebodyElseDid, lockVars, mapVars, connVars, Return, Unlock, ReadersWaiting, TypeOK, LockInv, Exclusive
  <2>3. MapInv'
    BY <1>6 DEF SomebodyElseDid, lockVars, mapVars, connVars, Return, Unlock, ReadersWaiting, TypeOK, LockInv, MapInv, Exclusive, Names, Conns, NoConn
  <2>4. NoneLeaked'
    BY <1>6 DEF SomebodyElseDid, lockVars, mapVars, connVars, Return, Unlock, ReadersWaiting, TypeOK, LockInv, MapInv, NoneLeaked, Exclusive, Names, Conns, NoConn
  <2> QED
    BY <2>1, <2>2, <2>3, <2>4
<1>7. ASSUME NEW t \in Threads, Fail(t)
      PROVE  IInv'
  <2>1. TypeOK'
    BY <1>7 DEF Fail, lockVars, mapVars, connVars, Return, Unlock, ReadersWaiting, TypeOK, LockInv, Exclusive, Names, Conns, NoConn
  <2>2. LockInv'
    BY <1>7 DEF Fail, lockVars, mapVars, connVars, Return, Unlock, ReadersWaiting, TypeOK, LockInv, Exclusive
  <2>3. MapInv'
    BY <1>7 DEF Fail, lockVars, mapVars, connVars, Return, Unlock, ReadersWaiting, TypeOK, LockInv, MapInv, Exclusive, Names, Conns, NoConn
  <2>4. NoneLeaked'
    BY <1>7 DEF Fail, lockVars, mapVars, connVars, Return, Unlock, ReadersWaiting, TypeOK, LockInv, MapInv, NoneLeaked, Exclusive, Names, Conns, NoConn
  <2> QED
    BY <2>1, <2>2, <2>3, <2>4
<1>8. ASSUME NEW t \in Threads, Dial(t)
      PROVE  IInv'
  <2>1. TypeOK'
    BY <1>8 DEF Dial, lockVars, mapVars, connVars, TypeOK, LockInv, Exclusive, Names, Conns, NoConn
  <2>2. LockInv'
    BY <1>8 DEF Dial, lockVars, mapVars, connVars, TypeOK, LockInv, Exclusive
  <2>3. MapInv'
    BY <1>8 DEF Dial, lockVars, mapVars, connVars, TypeOK, LockInv, MapInv, Exclusive, Names, Conns, NoConn
  <2>4. NoneLeaked'
    BY <1>8 DEF Dial, lockVars, mapVars, connVars, TypeOK, LockInv, MapInv, NoneLeaked, Exclusive, Names, Conns, NoConn
  <2> QED
    BY <2>1, <2>2, <2>3, <2>4
<1>9. ASSUME NEW t \in Threads, Store(t)
      PROVE  IInv'
  <2>1. TypeOK'
    BY <1>9 DEF Store, lockVars, mapVars, connVars, Return, Unlock, ReadersWaiting, TypeOK, LockInv, Exclusive, Names, Conns, NoConn
  <2>2. LockInv'
    BY <1>9 DEF Store, lockVars, mapVars, connVars, Return, Unlock, ReadersWaiting, TypeOK, LockInv, Exclusive
  <2>3. MapInv'
    BY <1>9 DEF Store, lockVars, mapVars, connVars, Return, Unlock, ReadersWaiting, TypeOK, LockInv, MapInv, Exclusive, Names, Conns, NoConn
  <2>4. NoneLeaked'
    <3>1. \A q \in Threads : pc[q] = "store" => q = t
      BY <1>9 DEF Store, TypeOK, LockInv, Exclusive
    <3>2. /\ connections' = [connections EXCEPT ![want[t]] = dials]
          /\ open' = open /\ connections[want[t]] = NoConn
      BY <1>9 DEF Store, connVars, MapInv
    <3> SUFFICES ASSUME NEW c \in open PROVE connections'[c[1]] = c[2]
      BY <3>2 DEF NoneLeaked
    <3>3. c[1] \in Targets /\ c[2] \in 1 .. dials /\ dials \in Nat
      BY DEF TypeOK, Conns
    <3>4. CASE c[1] = want[t]
      BY <3>1, <3>2, <3>3, <3>4 DEF NoneLeaked, NoConn, TypeOK
    <3>5. CASE c[1] # want[t]
      BY <3>1, <3>2, <3>3, <3>5 DEF NoneLeaked, TypeOK
    <3> QED
      BY <3>4, <3>5
  <2> QED
    BY <2>1, <2>2, <2>3, <2>4
<1>10. ASSUME NEW t \in Threads, CallClose(t)
      PROVE  IInv'
  <2>1. TypeOK'
    BY <1>10 DEF CallClose, lockVars, mapVars, connVars, TypeOK, LockInv, Exclusive, Names, Conns, NoConn
  <2>2. LockInv'
    BY <1>10 DEF CallClose, lockVars, mapVars, connVars, TypeOK, LockInv, Exclusive
  <2>3. MapInv'
    BY <1>10 DEF CallClose, lockVars, mapVars, connVars, TypeOK, LockInv, MapInv, Exclusive, Names, Conns, NoConn
  <2>4. NoneLeaked'
    BY <1>10 DEF CallClose, lockVars, mapVars, connVars, TypeOK, LockInv, MapInv, NoneLeaked, Exclusive, Names, Conns, NoConn
  <2> QED
    BY <2>1, <2>2, <2>3, <2>4
<1>11. ASSUME NEW t \in Threads, CloseConnections(t)
      PROVE  IInv'
  <2>1. TypeOK'
    BY <1>11 DEF CloseConnections, lockVars, mapVars, connVars, Registered, TypeOK, LockInv, Exclusive, Names, Conns, NoConn
  <2>2. LockInv'
    BY <1>11 DEF CloseConnections, lockVars, mapVars, connVars, Registered, TypeOK, LockInv, Exclusive
  <2>3. MapInv'
    <3>1. \A q \in Threads : pc[q] \in Exclusive => q = t
      BY <1>11 DEF CloseConnections, TypeOK, LockInv, Exclusive
    <3>2. \A c \in open : c \in Registered
      BY <1>11, <3>1 DEF CloseConnections, NoneLeaked, Registered, TypeOK, Conns, Exclusive
    <3>3. open' = {}
      BY <1>11, <3>2 DEF CloseConnections
    <3>4. /\ pc' = [pc EXCEPT ![t] = "reset"] /\ connections' = connections
          /\ clients' = clients /\ want' = want /\ dials' = dials
      BY <1>11 DEF CloseConnections, lockVars, mapVars
    <3>5. \A q \in Threads : pc'[q] # "store"
      BY <1>11, <3>1, <3>4 DEF CloseConnections, TypeOK, Exclusive
    <3> QED
      BY <3>3, <3>4, <3>5 DEF MapInv, TypeOK
  <2>4. NoneLeaked'
    BY <1>11 DEF CloseConnections, lockVars, mapVars, connVars, Registered, TypeOK, LockInv, MapInv, NoneLeaked, Exclusive, Names, Conns, NoConn
  <2> QED
    BY <2>1, <2>2, <2>3, <2>4
<1>12. ASSUME NEW t \in Threads, Reset(t)
      PROVE  IInv'
  <2>1. TypeOK'
    BY <1>12 DEF Reset, lockVars, mapVars, connVars, Unlock, ReadersWaiting, Empty, TypeOK, LockInv, Exclusive, Names, Conns, NoConn
  <2>2. LockInv'
    BY <1>12 DEF Reset, lockVars, mapVars, connVars, Unlock, ReadersWaiting, Empty, TypeOK, LockInv, Exclusive
  <2>3. MapInv'
    BY <1>12 DEF Reset, lockVars, mapVars, connVars, Unlock, ReadersWaiting, Empty, TypeOK, LockInv, MapInv, Exclusive, Names, Conns, NoConn
  <2>4. NoneLeaked'
    BY <1>12 DEF Reset, lockVars, mapVars, connVars, Unlock, ReadersWaiting, Empty, TypeOK, LockInv, MapInv, NoneLeaked, Exclusive, Names, Conns, NoConn
  <2> QED
    BY <2>1, <2>2, <2>3, <2>4
<1>13. CASE UNCHANGED vars
  BY <1>13 DEF vars, TypeOK, LockInv, MapInv, NoneLeaked, Names, Conns
<1> QED
  BY <1>1, <1>2, <1>3, <1>4, <1>5, <1>6, <1>7, <1>8, <1>9, <1>10, <1>11, <1>12, <1>13 DEF Next, Run, Lock

\* The inductive invariant holds in every reachable state.
THEOREM Invariance == Spec => []IInv
<1> QED
  BY InitInv, StepInv, PTL DEF Spec

\* The lock is held by readers or by a single writer, and all names are bound.
THEOREM TypeCorrect == Spec => []TypeOK
<1>1. IInv => TypeOK
  BY DEF IInv
<1> QED
  BY <1>1, Invariance, PTL

\* Close can reach every open connection.
THEOREM NoLeak == Spec => []NoneLeaked
<1>1. IInv => NoneLeaked
  BY DEF IInv
<1> QED
  BY <1>1, Invariance, PTL

\* A target never has two open connections.
THEOREM SingleConnection == Spec => []OneConnectionPerTarget
<1>1. IInv => OneConnectionPerTarget
  <2> SUFFICES ASSUME IInv, NEW c \in open, NEW d \in open, c[1] = d[1]
               PROVE  c = d
    BY DEF OneConnectionPerTarget
  <2>1. /\ c = <<c[1], c[2]>> /\ d = <<d[1], d[2]>>
        /\ c[1] \in Targets /\ c[2] \in 1 .. dials /\ d[2] \in 1 .. dials /\ dials \in Nat
    BY DEF IInv, TypeOK, Conns
  <2>2. c[2] = d[2]
    BY <2>1 DEF IInv, NoneLeaked, MapInv, NoConn
  <2> QED
    BY <2>1, <2>2
<1> QED
  BY <1>1, Invariance, PTL

\* A connection that a reader finds in the map is open.
THEOREM FoundIsOpen == Spec => []ClientsAreConnected
<1>1. IInv => ClientsAreConnected
  <2> SUFFICES ASSUME IInv, NEW t \in Threads, pc[t] = "read",
                      clients[want[t]] # NoConn
               PROVE  <<want[t], clients[want[t]]>> \in open
    BY DEF ClientsAreConnected
  <2>1. \A q \in Threads : pc[q] # "reset"
    BY DEF IInv, TypeOK, LockInv, Exclusive
  <2> QED
    BY <2>1 DEF IInv, MapInv, TypeOK
<1> QED
  BY <1>1, Invariance, PTL

\* The maps and the connections agree.
THEOREM MapsAgree == Spec => []MapsAndConnectionsAgree
<1> QED
  BY NoLeak, SingleConnection, FoundIsOpen, PTL DEF MapsAndConnectionsAgree

\* When Close gives the lock back, no connection is open.
THEOREM CloseIsComplete == Spec => CloseClosesAll
<1>1. IInv /\ [Next]_vars =>
        [\A t \in Threads : pc[t] = "reset" /\ pc'[t] # "reset" => open' = {}]_vars
  <2> SUFFICES ASSUME IInv, Next, NEW t \in Threads, pc[t] = "reset", pc'[t] # "reset"
               PROVE  open' = {}
    OBVIOUS
  <2>1. open = {} /\ t \in writer /\ readers = {} /\ \A q \in Threads : pc[q] \in Exclusive => q = t
    BY DEF IInv, MapInv, LockInv, TypeOK, Exclusive
  <2>2. \A q \in Threads : ~ Dial(q)
    BY <2>1 DEF Dial, Exclusive
  <2> QED
    BY <2>1, <2>2 DEF Next, Run, Lock, Call, Acquire, Lookup, BridgeDisabled, WantLock,
       SomebodyElseDid, Fail, Store, CallClose, CloseConnections, Reset, connVars
<1> QED
  BY <1>1, Invariance, PTL DEF Spec, CloseClosesAll

-----------------------------------------------------------------------------
(* Who waits for the lock *)

\* A reader waits only behind a writer.
ReadersWaitInv ==
  \A t \in Threads : pc[t] = "rwait" => writer # {} \/ WriterWaits

\* The writer that a reader waits behind takes the lock, and wakes the reader when it
\* gives the lock back.
LEMMA ReadersWaitStep == IInv /\ ReadersWaitInv /\ [Next]_vars => ReadersWaitInv'
<1> SUFFICES ASSUME IInv, ReadersWaitInv, [Next]_vars PROVE ReadersWaitInv'
  OBVIOUS
<1>t. TypeOK /\ LockInv
  BY DEF IInv
<1>1. ASSUME NEW t \in Threads, NEW k \in Targets, Call(t, k) PROVE ReadersWaitInv'
  BY <1>t, <1>1 DEF Call, ReadersWaitInv, WriterWaits, TypeOK
<1>2. ASSUME NEW t \in Threads, Acquire(t) PROVE ReadersWaitInv'
  BY <1>t, <1>2 DEF Acquire, ReadersWaitInv, TypeOK
<1>3. ASSUME NEW t \in Threads, NEW s \in Stages \ {"rwait"}, pc[t] \notin {"create", "close"},
             pc' = [pc EXCEPT ![t] = s], writer' = writer
      PROVE  ReadersWaitInv'
  BY <1>t, <1>3 DEF ReadersWaitInv, WriterWaits, TypeOK
<1>4. ASSUME NEW t \in Threads, Unlock(t) PROVE ReadersWaitInv'
  BY <1>t, <1>4 DEF Unlock, ReadersWaiting, ReadersWaitInv
<1>5. ASSUME NEW t \in Threads, Run(t) PROVE ReadersWaitInv'
  <2>1. CASE Lookup(t)
    BY <1>t, <1>3, <2>1 DEF Lookup, Stages
  <2>2. CASE BridgeDisabled(t)
    BY <1>t, <1>3, <2>2 DEF BridgeDisabled, lockVars, Stages
  <2>3. CASE WantLock(t)
    BY <1>t, <1>3, <2>3 DEF WantLock, lockVars, Stages
  <2>4. CASE Dial(t)
    BY <1>t, <1>3, <2>4 DEF Dial, lockVars, Stages
  <2>5. CASE CloseConnections(t)
    BY <1>t, <1>3, <2>5 DEF CloseConnections, lockVars, Stages
  <2>6. CASE SomebodyElseDid(t) \/ Fail(t) \/ Store(t) \/ Reset(t)
    BY <1>4, <2>6 DEF SomebodyElseDid, Fail, Store, Reset
  <2> QED
    BY <1>5, <2>1, <2>2, <2>3, <2>4, <2>5, <2>6 DEF Run
<1>6. ASSUME NEW t \in Threads, CallClose(t) PROVE ReadersWaitInv'
  BY <1>t, <1>3, <1>6 DEF CallClose, lockVars, Stages
<1>7. CASE UNCHANGED vars
  BY <1>7 DEF vars, ReadersWaitInv, WriterWaits
<1> QED
  BY <1>1, <1>2, <1>5, <1>6, <1>7 DEF Next, Lock

\* However many threads there are, none waits for a lock that nobody has and nobody
\* takes.
THEOREM NoDeadlock == Spec => []NobodyWaitsForNobody
<1>1. Init => ReadersWaitInv
  BY DEF Init, ReadersWaitInv
<1>2. IInv /\ ReadersWaitInv => NobodyWaitsForNobody
  <2> SUFFICES ASSUME IInv, ReadersWaitInv, NEW t \in Threads,
                      pc[t] \in {"rwait", "create", "close"},
                      \A q \in Threads : pc[q] \notin {"read", "check", "store", "shut", "reset"}
               PROVE  readers = {} /\ writer = {} /\ WriterWaits
    BY DEF NobodyWaitsForNobody
  <2>1. readers = {} /\ writer = {}
    BY DEF IInv, TypeOK, LockInv, Exclusive
  <2> QED
    BY <2>1 DEF ReadersWaitInv, WriterWaits
<1> QED
  BY <1>1, <1>2, ReadersWaitStep, Invariance, PTL DEF Spec

-----------------------------------------------------------------------------
(* The cache whose calls take effect at once *)

\* What can be seen of the manager, as CallsTakeEffectAtOnce maps it.
SeenPlaces == [t \in Threads |-> Place(pc[t])]
SeenCache == open \ {<<want[t], dials>> : t \in Storing}
SeenLast == IF Storing = {} THEN dials ELSE dials - 1

\* There are connections to configured targets only.
ConfiguredInv == \A c \in open : c[1] \in configured

\* Only Dial opens a connection, and only to a configured target.
LEMMA ConfiguredStep == IInv /\ ConfiguredInv /\ [Next]_vars => ConfiguredInv'
<1> SUFFICES ASSUME IInv, ConfiguredInv, [Next]_vars PROVE ConfiguredInv'
  OBVIOUS
<1>1. configured' = configured
  BY DEF Next, Run, Lock, vars
<1>2. ASSUME NEW t \in Threads, Dial(t) PROVE ConfiguredInv'
  <2>1. open' = open \cup {<<want[t], dials'>>} /\ want[t] \in configured
    BY <1>2 DEF Dial
  <2> QED
    BY <1>1, <2>1 DEF ConfiguredInv
<1>3. ASSUME NEW t \in Threads, CloseConnections(t) PROVE ConfiguredInv'
  BY <1>1, <1>3 DEF CloseConnections, ConfiguredInv
<1>4. CASE UNCHANGED open
  BY <1>1, <1>4 DEF ConfiguredInv
<1> QED
  BY <1>2, <1>3, <1>4
  DEF Next, Run, Lock, vars, Call, Acquire, Lookup, BridgeDisabled, WantLock, SomebodyElseDid,
      Fail, Store, CallClose, Reset, connVars

\* Who is in a place of the write lock is there alone.
LEMMA AloneWithLock ==
  ASSUME IInv, NEW t \in Threads, pc[t] \in Exclusive \/ pc[t] = "read"
  PROVE  \A q \in Threads : pc[q] \in Exclusive => q = t
BY DEF IInv, TypeOK, LockInv, Exclusive

\* When nobody is about to store, the open connections are the map's entries.
LEMMA CacheIsTheMap ==
  ASSUME IInv, Storing = {}
  PROVE  /\ SeenCache = open /\ SeenLast = dials
         /\ \A c \in open : clients[c[1]] = c[2]
         /\ \A c \in open : c[2] # NoConn /\ c[2] \in 1 .. SeenLast
<1>1. SeenCache = open /\ SeenLast = dials
  BY DEF SeenCache, SeenLast
<1>2. \A c \in open : connections[c[1]] = c[2]
  BY DEF IInv, NoneLeaked, Storing
<1> QED
  BY <1>1, <1>2 DEF IInv, MapInv, TypeOK, Conns, NoConn

\* A step that opens and closes nothing, and lets nobody begin or end a store, does
\* not change the cache.
LEMMA CacheStands ==
  ASSUME open' = open, dials' = dials, Storing' = Storing,
         \A t \in Storing : want'[t] = want[t]
  PROVE  SeenCache' = SeenCache /\ SeenLast' = SeenLast
<1>1. {<<want'[t], dials'>> : t \in Storing'} = {<<want[t], dials>> : t \in Storing}
  OBVIOUS
<1> QED
  BY <1>1 DEF SeenCache, SeenLast

\* One thread changes its place ...
LEMMA OneMoves ==
  ASSUME TypeOK, NEW t \in Threads, NEW s, pc' = [pc EXCEPT ![t] = s]
  PROVE  SeenPlaces' = [SeenPlaces EXCEPT ![t] = Place(s)]
<1>1. \A q \in Threads : pc'[q] = IF q = t THEN s ELSE pc[q]
  BY DEF TypeOK
<1>2. \A q \in Threads : SeenPlaces'[q] = IF q = t THEN Place(s) ELSE SeenPlaces[q]
  BY <1>1 DEF SeenPlaces
<1> QED
  BY <1>2 DEF SeenPlaces

\* ... or gives the lock back, and lets waiting readers go on with their call.
LEMMA UnlockIsSeen ==
  ASSUME TypeOK, NEW t \in Threads, Unlock(t)
  PROVE  /\ SeenPlaces' = [SeenPlaces EXCEPT ![t] = "out"]
         /\ Storing' = Storing \ {t}
<1>1. \A q \in Threads : pc'[q] = IF q = t THEN "idle"
                                  ELSE IF pc[q] = "rwait" THEN "read" ELSE pc[q]
  BY DEF Unlock, ReadersWaiting
<1>2. Place("idle") = "out" /\ Place("rwait") = Place("read")
  BY DEF Place
<1>3. \A q \in Threads : Place(pc'[q]) = IF q = t THEN "out" ELSE Place(pc[q])
  BY <1>1, <1>2
<1>4. SeenPlaces' = [SeenPlaces EXCEPT ![t] = "out"]
  BY <1>3 DEF SeenPlaces
<1>5. \A q \in Threads : pc'[q] = "store" <=> pc[q] = "store" /\ q # t
  BY <1>1
<1> QED
  BY <1>4, <1>5 DEF Storing

\* At the start nothing is open and nobody has called.
LEMMA CacheInit == Init => Cache!CInit
<1> SUFFICES ASSUME Init PROVE Cache!CInit
  OBVIOUS
<1>1. SeenPlaces = [t \in Threads |-> "out"]
  BY DEF Init, SeenPlaces, Place
<1>2. Storing = {} /\ SeenCache = {} /\ SeenLast = 0
  BY DEF Init, Storing, SeenCache, SeenLast
<1>3. want \in [Threads -> Targets] /\ configured \in SUBSET Targets
  BY TargetsAssumption DEF Init
<1> QED
  BY <1>1, <1>2, <1>3 DEF Init, Cache!CInit, SeenPlaces, SeenCache, SeenLast

\* A call that returns what it has found, or an error, gives an answer that the cache
\* would have given at that moment.
LEMMA AnswerIsRight ==
  ASSUME NEW t \in Threads, SeenPlaces[t] = "asking",
         SeenPlaces' = [SeenPlaces EXCEPT ![t] = "out"],
         SeenCache' = SeenCache, SeenLast' = SeenLast,
         want' = want, configured' = configured,
         NEW n, got' = [got EXCEPT ![t] = n],
         \/ <<want[t], n>> \in SeenCache /\ n \in 1 .. SeenLast
         \/ n = NoConn /\ \A c \in SeenCache : c[1] # want[t]
  PROVE  [Cache!CNext]_(Cache!cvars)
<1>1. Cache!Answer(t, n)
  BY DEF Cache!Answer, SeenPlaces
<1>2. CASE <<want[t], n>> \in SeenCache /\ n \in 1 .. SeenLast
  <2>1. Cache!Find(t, n)
    BY <1>1, <1>2 DEF Cache!Find, SeenCache, SeenLast
  <2>2. \E m \in 1 .. SeenLast : Cache!Find(t, m)
    BY <1>2, <2>1
  <2> QED
    BY <2>2 DEF Cache!CNext, SeenLast
<1>3. CASE n = NoConn /\ \A c \in SeenCache : c[1] # want[t]
  <2>1. Cache!Deny(t)
    BY <1>1, <1>3 DEF Cache!Deny, Cache!Connected, SeenCache, SeenLast
  <2> QED
    BY <2>1 DEF Cache!CNext
<1> QED
  BY <1>2, <1>3

\* Nothing that can be seen of the manager changes.
LEMMA CacheUnseen ==
  ASSUME SeenPlaces' = SeenPlaces, SeenCache' = SeenCache, SeenLast' = SeenLast,
         want' = want, got' = got, configured' = configured
  PROVE  [Cache!CNext]_(Cache!cvars)
BY DEF Cache!cvars, SeenPlaces, SeenCache, SeenLast

\* Every step of a thread is a step of such a cache, or cannot be told: a call takes
\* effect at its first look, its second look, its failure or its store, and Close when
\* it closes the connections.
LEMMA CacheStep ==
  IInv /\ ConfiguredInv /\ ClientsAreConnected /\ [Next]_vars => [Cache!CNext]_(Cache!cvars)
<1> SUFFICES ASSUME IInv, ConfiguredInv, ClientsAreConnected, [Next]_vars
             PROVE  [Cache!CNext]_(Cache!cvars)
  OBVIOUS
<1>c. configured' = configured
  BY DEF Next, Run, Lock, vars
<1>t. TypeOK
  BY DEF IInv
<1>a. \A q \in Threads : SeenPlaces[q] = Place(pc[q])
  BY DEF SeenPlaces
<1>1. ASSUME NEW t \in Threads, NEW k \in Targets, Call(t, k)
      PROVE  [Cache!CNext]_(Cache!cvars)
  <2>1. SeenPlaces[t] = "out" /\ SeenPlaces' = [SeenPlaces EXCEPT ![t] = "asking"]
    BY <1>a, <1>t, <1>1, OneMoves DEF Call, Place
  <2>2. Storing' = Storing /\ t \notin Storing
    BY <1>t, <1>1 DEF Call, Storing, TypeOK
  <2>3. SeenCache' = SeenCache /\ SeenLast' = SeenLast
    BY <1>t, <1>1, <2>2, CacheStands DEF Call, connVars, Storing, TypeOK
  <2>4. Cache!Ask(t, k)
    BY <1>c, <1>1, <2>1, <2>3 DEF Call, Cache!Ask, SeenPlaces, SeenCache, SeenLast
  <2> QED
    BY <2>4 DEF Cache!CNext
<1>2. ASSUME NEW t \in Threads, Acquire(t)
      PROVE  [Cache!CNext]_(Cache!cvars)
  <2>1. SeenPlaces' = SeenPlaces
    <3>1. \A q \in Threads : Place(pc'[q]) = Place(pc[q])
      BY <1>t, <1>2 DEF Acquire, Place, TypeOK
    <3> QED
      BY <3>1 DEF SeenPlaces
  <2>2. Storing' = Storing
    BY <1>t, <1>2 DEF Acquire, Storing, TypeOK
  <2>3. SeenCache' = SeenCache /\ SeenLast' = SeenLast
    BY <1>2, <2>2, CacheStands DEF Acquire, connVars
  <2> QED
    BY <1>c, <1>2, <2>1, <2>3, CacheUnseen DEF Acquire
<1>3. ASSUME NEW t \in Threads, Lookup(t)
      PROVE  [Cache!CNext]_(Cache!cvars)
  <2>1. Storing = {}
    BY <1>3, AloneWithLock DEF Lookup, Storing, Exclusive
  <2>2. Storing' = Storing
    BY <1>t, <1>3, <2>1 DEF Lookup, Storing, TypeOK
  <2>3. SeenCache' = SeenCache /\ SeenLast' = SeenLast
    BY <1>3, <2>2, CacheStands DEF Lookup, connVars
  <2>4. CASE clients[want[t]] # NoConn
    <3>1. SeenPlaces[t] = "asking" /\ SeenPlaces' = [SeenPlaces EXCEPT ![t] = "out"]
      BY <1>a, <1>t, <1>3, <2>4, OneMoves DEF Lookup, Place
    <3>2. <<want[t], clients[want[t]]>> \in SeenCache
      BY <1>3, <2>1, <2>4, CacheIsTheMap DEF Lookup, ClientsAreConnected
    <3>3. clients[want[t]] \in 1 .. SeenLast
      BY <2>1, <3>2, CacheIsTheMap
    <3>4. got' = [got EXCEPT ![t] = clients[want[t]]] /\ want' = want
      BY <1>3, <2>4 DEF Lookup, Return
    <3> QED
      BY <1>c, <2>3, <3>1, <3>2, <3>3, <3>4, AnswerIsRight
  <2>5. CASE clients[want[t]] = NoConn
    <3>1. SeenPlaces' = SeenPlaces
      <4>1. \A q \in Threads : Place(pc'[q]) = Place(pc[q])
        BY <1>t, <1>3, <2>5 DEF Lookup, Place, TypeOK
      <4> QED
        BY <4>1 DEF SeenPlaces
    <3> QED
      BY <1>c, <1>3, <2>3, <2>5, <3>1, CacheUnseen DEF Lookup
  <2> QED
    BY <2>4, <2>5
<1>4. ASSUME NEW t \in Threads, BridgeDisabled(t)
      PROVE  [Cache!CNext]_(Cache!cvars)
  <2>1. SeenPlaces[t] = "asking" /\ SeenPlaces' = [SeenPlaces EXCEPT ![t] = "out"]
    BY <1>a, <1>t, <1>4, OneMoves DEF BridgeDisabled, Place
  <2>2. Storing' = Storing
    BY <1>t, <1>4 DEF BridgeDisabled, Storing, TypeOK
  <2>3. SeenCache' = SeenCache /\ SeenLast' = SeenLast
    BY <1>4, <2>2, CacheStands DEF BridgeDisabled, connVars
  <2>4. \A c \in SeenCache : c[1] # want[t]
    BY <1>4 DEF BridgeDisabled, ConfiguredInv, SeenCache
  <2>5. got' = [got EXCEPT ![t] = NoConn] /\ want' = want
    BY <1>4 DEF BridgeDisabled, Return
  <2> QED
    BY <1>c, <2>1, <2>3, <2>4, <2>5, AnswerIsRight
<1>5. ASSUME NEW t \in Threads, WantLock(t)
      PROVE  [Cache!CNext]_(Cache!cvars)
  <2>1. SeenPlaces' = SeenPlaces
    <3>1. \A q \in Threads : Place(pc'[q]) = Place(pc[q])
      BY <1>t, <1>5 DEF WantLock, Place, TypeOK
    <3> QED
      BY <3>1 DEF SeenPlaces
  <2>2. Storing' = Storing
    BY <1>t, <1>5 DEF WantLock, Storing, TypeOK
  <2>3. SeenCache' = SeenCache /\ SeenLast' = SeenLast
    BY <1>5, <2>2, CacheStands DEF WantLock, connVars
  <2> QED
    BY <1>c, <1>5, <2>1, <2>3, CacheUnseen DEF WantLock
<1>6. ASSUME NEW t \in Threads, SomebodyElseDid(t)
      PROVE  [Cache!CNext]_(Cache!cvars)
  <2>1. SeenPlaces[t] = "asking" /\ SeenPlaces' = [SeenPlaces EXCEPT ![t] = "out"]
    BY <1>a, <1>t, <1>6, UnlockIsSeen DEF SomebodyElseDid, Place
  <2>2. Storing = {} /\ \A q \in Threads : pc[q] # "reset"
    BY <1>6, AloneWithLock DEF SomebodyElseDid, Storing, Exclusive
  <2>3. Storing' = Storing
    BY <1>t, <1>6, <2>2, UnlockIsSeen DEF SomebodyElseDid
  <2>4. SeenCache' = SeenCache /\ SeenLast' = SeenLast
    BY <1>6, <2>3, CacheStands DEF SomebodyElseDid, connVars
  <2>5. <<want[t], clients[want[t]]>> \in SeenCache
    BY <1>6, <2>2, CacheIsTheMap DEF SomebodyElseDid, IInv, MapInv, TypeOK
  <2>6. clients[want[t]] \in 1 .. SeenLast
    BY <2>2, <2>5, CacheIsTheMap
  <2>7. got' = [got EXCEPT ![t] = clients[want[t]]] /\ want' = want
    BY <1>6 DEF SomebodyElseDid, Return
  <2> QED
    BY <1>c, <2>1, <2>4, <2>5, <2>6, <2>7, AnswerIsRight
<1>7. ASSUME NEW t \in Threads, Fail(t)
      PROVE  [Cache!CNext]_(Cache!cvars)
  <2>1. SeenPlaces[t] = "asking" /\ SeenPlaces' = [SeenPlaces EXCEPT ![t] = "out"]
    BY <1>a, <1>t, <1>7, UnlockIsSeen DEF Fail, Place
  <2>2. Storing = {}
    BY <1>7, AloneWithLock DEF Fail, Storing, Exclusive
  <2>3. Storing' = Storing
    BY <1>t, <1>7, <2>2, UnlockIsSeen DEF Fail
  <2>4. SeenCache' = SeenCache /\ SeenLast' = SeenLast
    BY <1>7, <2>3, CacheStands DEF Fail, connVars
  <2>5. \A c \in SeenCache : c[1] # want[t]
    BY <1>7, <2>2, CacheIsTheMap DEF Fail
  <2>6. got' = [got EXCEPT ![t] = NoConn] /\ want' = want
    BY <1>7 DEF Fail, Return
  <2> QED
    BY <1>c, <2>1, <2>4, <2>5, <2>6, AnswerIsRight
<1>8. ASSUME NEW t \in Threads, Dial(t)
      PROVE  [Cache!CNext]_(Cache!cvars)
  <2>1. SeenPlaces' = SeenPlaces
    <3>1. \A q \in Threads : Place(pc'[q]) = Place(pc[q])
      BY <1>t, <1>8 DEF Dial, Place, TypeOK
    <3> QED
      BY <3>1 DEF SeenPlaces
  <2>2. Storing = {}
    BY <1>8, AloneWithLock DEF Dial, Storing, Exclusive
  <2>3. Storing' = {t}
    BY <1>t, <1>8, <2>2 DEF Dial, Storing, TypeOK
  <2>4. SeenCache = open /\ SeenLast = dials /\ <<want[t], dials + 1>> \notin open
    <3>1. \A c \in open : c[2] \in 1 .. dials
      BY <2>2, CacheIsTheMap
    <3>2. <<want[t], dials + 1>> \notin open
      BY <1>t, <3>1 DEF TypeOK
    <3> QED
      BY <2>2, <3>2, CacheIsTheMap
  <2>5. SeenCache' = SeenCache /\ SeenLast' = SeenLast
    <3>1. dials' = dials + 1 /\ want' = want /\ dials \in Nat
          /\ open' = open \cup {<<want[t], dials + 1>>}
      BY <1>t, <1>8 DEF Dial, TypeOK
    <3>2. {<<want'[q], dials'>> : q \in Storing'} = {<<want[t], dials + 1>>}
      BY <2>3, <3>1
    <3>3. SeenCache' = open
      BY <2>4, <3>1, <3>2 DEF SeenCache
    <3>4. SeenLast' = dials
      BY <2>3, <3>1 DEF SeenLast
    <3> QED
      BY <2>4, <3>3, <3>4
  <2> QED
    BY <1>c, <1>8, <2>1, <2>5, CacheUnseen DEF Dial
<1>9. ASSUME NEW t \in Threads, Store(t)
      PROVE  [Cache!CNext]_(Cache!cvars)
  <2>1. SeenPlaces[t] = "asking" /\ SeenPlaces' = [SeenPlaces EXCEPT ![t] = "out"]
    BY <1>a, <1>t, <1>9, UnlockIsSeen DEF Store, Place
  <2>2. Storing = {t}
    BY <1>9, AloneWithLock DEF Store, Storing, Exclusive
  <2>3. Storing' = {}
    BY <1>t, <1>9, <2>2, UnlockIsSeen DEF Store
  <2>4. /\ open' = open /\ dials' = dials /\ dials \in Nat /\ want' = want
        /\ got' = [got EXCEPT ![t] = dials] /\ <<want[t], dials>> \in open
    BY <1>t, <1>9 DEF Store, connVars, Return, IInv, MapInv, TypeOK
  <2>5. SeenCache = open \ {<<want[t], dials>>} /\ SeenLast = dials - 1
    BY <2>2 DEF SeenCache, SeenLast
  <2>6. SeenCache' = open /\ SeenLast' = dials
    BY <2>3, <2>4 DEF SeenCache, SeenLast
  <2>7. SeenCache' = SeenCache \cup {<<want[t], SeenLast'>>} /\ SeenLast' = SeenLast + 1
    BY <2>4, <2>5, <2>6
  <2>8. \A c \in SeenCache : c[1] # want[t]
    <3> SUFFICES ASSUME NEW c \in SeenCache, c[1] = want[t] PROVE FALSE
      OBVIOUS
    <3>1. c \in open /\ c = <<c[1], c[2]>> /\ c[2] \in 1 .. dials /\ c[2] # dials
      BY <1>t, <2>5 DEF TypeOK, Conns
    <3>2. connections[c[1]] = c[2]
      BY <3>1 DEF IInv, NoneLeaked
    <3>3. connections[want[t]] = NoConn
      BY <1>9 DEF Store, IInv, MapInv
    <3> QED
      BY <2>4, <3>1, <3>2, <3>3 DEF NoConn
  <2>9. want[t] \in configured
    BY <2>4 DEF ConfiguredInv
  <2>10. Cache!Answer(t, SeenLast')
    BY <1>c, <2>1, <2>4, <2>6 DEF Cache!Answer, SeenPlaces
  <2>11. Cache!Connect(t)
    BY <2>7, <2>8, <2>9, <2>10 DEF Cache!Connect, Cache!Connected, SeenCache, SeenLast
  <2> QED
    BY <2>11 DEF Cache!CNext
<1>10. ASSUME NEW t \in Threads, CallClose(t)
      PROVE  [Cache!CNext]_(Cache!cvars)
  <2>1. SeenPlaces[t] = "out" /\ SeenPlaces' = [SeenPlaces EXCEPT ![t] = "closing"]
    BY <1>a, <1>t, <1>10, OneMoves DEF CallClose, Place
  <2>2. Storing' = Storing
    BY <1>t, <1>10 DEF CallClose, Storing, TypeOK
  <2>3. SeenCache' = SeenCache /\ SeenLast' = SeenLast
    BY <1>10, <2>2, CacheStands DEF CallClose, connVars
  <2>4. Cache!BeginClose(t)
    BY <1>c, <1>10, <2>1, <2>3
    DEF CallClose, Cache!BeginClose, SeenPlaces, SeenCache, SeenLast
  <2> QED
    BY <2>4 DEF Cache!CNext
<1>11. ASSUME NEW t \in Threads, CloseConnections(t)
      PROVE  [Cache!CNext]_(Cache!cvars)
  <2>1. SeenPlaces[t] = "closing" /\ SeenPlaces' = SeenPlaces
    <3>1. \A q \in Threads : Place(pc'[q]) = Place(pc[q])
      BY <1>t, <1>11 DEF CloseConnections, Place, TypeOK
    <3> QED
      BY <1>11, <3>1 DEF SeenPlaces, CloseConnections, Place
  <2>2. Storing = {}
    BY <1>11, AloneWithLock DEF CloseConnections, Storing, Exclusive
  <2>3. Storing' = {}
    BY <1>t, <1>11, <2>2 DEF CloseConnections, Storing, TypeOK
  <2>4. open' = {}
    <3>1. \A c \in open : c \in Registered
      BY <1>t, <2>2 DEF IInv, NoneLeaked, Registered, TypeOK, Conns, Storing
    <3> QED
      BY <1>11, <3>1 DEF CloseConnections
  <2>5. SeenCache' = {} /\ SeenLast' = SeenLast
    BY <1>11, <2>2, <2>3, <2>4 DEF CloseConnections, SeenCache, SeenLast
  <2>6. Cache!Clear(t)
    BY <1>c, <1>11, <2>1, <2>5
    DEF CloseConnections, Cache!Clear, SeenPlaces, SeenCache, SeenLast
  <2> QED
    BY <2>6 DEF Cache!CNext
<1>12. ASSUME NEW t \in Threads, Reset(t)
      PROVE  [Cache!CNext]_(Cache!cvars)
  <2>1. SeenPlaces[t] = "closing" /\ SeenPlaces' = [SeenPlaces EXCEPT ![t] = "out"]
    BY <1>a, <1>t, <1>12, UnlockIsSeen DEF Reset, Place
  <2>2. Storing = {}
    BY <1>12, AloneWithLock DEF Reset, Storing, Exclusive
  <2>3. Storing' = Storing
    BY <1>t, <1>12, <2>2, UnlockIsSeen DEF Reset
  <2>4. SeenCache' = SeenCache /\ SeenLast' = SeenLast
    BY <1>12, <2>3, CacheStands DEF Reset, connVars
  <2>5. SeenCache = {}
    BY <1>12 DEF Reset, IInv, MapInv, SeenCache
  <2>6. Cache!EndClose(t)
    BY <1>c, <1>12, <2>1, <2>4, <2>5
    DEF Reset, Cache!EndClose, SeenPlaces, SeenCache, SeenLast
  <2> QED
    BY <2>6 DEF Cache!CNext
<1>13. CASE UNCHANGED vars
  <2>1. SeenPlaces' = SeenPlaces /\ Storing' = Storing
    BY <1>13 DEF vars, SeenPlaces, Storing
  <2>2. SeenCache' = SeenCache /\ SeenLast' = SeenLast
    BY <1>13, <2>1, CacheStands DEF vars
  <2> QED
    BY <1>13, <2>1, <2>2, CacheUnseen DEF vars
<1> QED
  BY <1>1, <1>2, <1>3, <1>4, <1>5, <1>6, <1>7, <1>8, <1>9, <1>10, <1>11, <1>12, <1>13
  DEF Next, Run, Lock

\* Two locks, two looks and two maps are one cache: whichever threads call, miss, fail
\* and close at once, each of them meets a cache that is used by one at a time.
THEOREM Linearizes == Spec => CallsTakeEffectAtOnce
<1>1. Init => ConfiguredInv
  BY DEF Init, ConfiguredInv
<1>2. Spec => []ConfiguredInv
  BY <1>1, ConfiguredStep, Invariance, PTL DEF Spec
<1> QED
  BY <1>2, CacheInit, CacheStep, Invariance, FoundIsOpen, PTL
  DEF Spec, CallsTakeEffectAtOnce, Cache!CSpec

-----------------------------------------------------------------------------
(* The gateway's process *)

\* Every step of the gateway is a step of its client manager, or none of it.
LEMMA ManagerStep == [GatewayNext]_gatewayVars => [Next]_vars
<1> SUFFICES ASSUME [GatewayNext]_gatewayVars PROVE [Next]_vars
  OBVIOUS
<1> USE ThreadsAssumption
<1>1. ASSUME MainStep PROVE [Next]_vars
  <2>1. CASE ShutdownReturns
    BY <2>1 DEF ShutdownReturns, Next
  <2> QED
    BY <1>1, <2>1 DEF MainStep, Load, Shutdown, ShutdownTimesOut, Exit
<1>2. CASE Raise \/ ServerFails
  BY <1>2 DEF Raise, ServerFails
<1>3. ASSUME NEW t \in Threads, Manage(t) \/ GetLock(t) \/ Caller(t) PROVE [Next]_vars
  BY <1>3 DEF Manage, GetLock, Caller, Invoke, CallEnds, Next
<1>4. ASSUME NEW t \in Handlers, Accept(t) \/ Respond(t) PROVE [Next]_vars
  BY <1>4 DEF Accept, Respond
<1>5. ASSUME NEW t \in Handlers, NEW k \in Targets, AskFor(t, k) PROVE [Next]_vars
  BY <1>5 DEF AskFor, Next, Handlers
<1>6. ASSUME NEW k \in Targets, Check(k) PROVE [Next]_vars
  BY <1>6 DEF Check, Next
<1>7. CASE UNCHANGED gatewayVars
  BY <1>7 DEF gatewayVars
<1> QED
  BY <1>1, <1>2, <1>3, <1>4, <1>5, <1>6, <1>7 DEF GatewayNext

\* The gateway uses its client manager as the manager's specification says, so
\* that all that is proved of the manager holds of the gateway.
THEOREM UsesManager == GatewaySpec => Spec
<1>1. GatewayInit => Init
  BY DEF GatewayInit
<1> QED
  BY <1>1, ManagerStep, PTL DEF GatewaySpec, Spec

\* The places of a thread that uses the manager for a caller, and main's in Close.
Using == {"rwait", "read", "missed", "create", "check", "store"}
Closing == {"close", "shut", "reset"}

\* Nobody but main closes, and main does nothing else; a caller is in the
\* manager only while it has asked.
PlaceInv ==
  /\ \A t \in Threads : pc[t] \in Closing => t = Main /\ main = "closing"
  /\ pc[Main] \notin Using
  /\ \A t \in Threads : pc[t] \in Using => stage[t] = "asked"

\* main closes when no handler is left.
AloneInv == main = "closing" => Serving = {}

\* What a handler got is open until its call over it is over.
HeldInv ==
  \A t \in Handlers :
    \/ stage[t] = "asked" /\ pc[t] = "idle" /\ got[t] # NoConn
    \/ stage[t] = "calling"
    => <<want[t], got[t]>> \in open

GatewayInv == GatewayTypeOK /\ PlaceInv /\ AloneInv /\ HeldInv

\* The process starts with nobody anywhere.
LEMMA GatewayStarts == GatewayInit => GatewayInv
<1> SUFFICES ASSUME GatewayInit PROVE GatewayInv
  OBVIOUS
<1>1. GatewayTypeOK
  BY DEF GatewayInit, GatewayTypeOK
<1>2. PlaceInv /\ AloneInv /\ HeldInv
  BY ThreadsAssumption DEF GatewayInit, Init, PlaceInv, AloneInv, HeldInv, Using, Closing, Handlers
<1> QED
  BY <1>1, <1>2 DEF GatewayInv

\* Every step keeps the types of what main and its goroutines keep.
LEMMA GatewayTypes == TypeOK /\ GatewayTypeOK /\ [GatewayNext]_gatewayVars => GatewayTypeOK'
<1> SUFFICES ASSUME TypeOK, GatewayTypeOK, [GatewayNext]_gatewayVars PROVE GatewayTypeOK'
  OBVIOUS
<1> USE ThreadsAssumption DEF GatewayTypeOK
<1>1. CASE MainStep
  <2>1. quit' \in BOOLEAN
    BY <1>1, Zenon DEF MainStep, Load, Shutdown, ShutdownReturns, ShutdownTimesOut, Exit
  <2>2. configured \in SUBSET Targets
    BY DEF TypeOK
  <2> QED
    BY <1>1, <2>1, <2>2 DEF MainStep, Load, Shutdown, ShutdownReturns, ShutdownTimesOut, Exit
<1>2. CASE Raise \/ ServerFails
  BY <1>2 DEF Raise, ServerFails
<1>3. ASSUME NEW t \in Threads, Manage(t) \/ GetLock(t) \/ Caller(t) PROVE GatewayTypeOK'
  BY <1>3 DEF Manage, GetLock, Caller, Invoke, CallEnds, Between, processVars
<1>4. ASSUME NEW t \in Handlers, Accept(t) \/ Respond(t) PROVE GatewayTypeOK'
  BY <1>4 DEF Accept, Respond
<1>5. ASSUME NEW t \in Handlers, NEW k \in Targets, AskFor(t, k) PROVE GatewayTypeOK'
  BY <1>5 DEF AskFor
<1>6. ASSUME NEW k \in Targets, Check(k) PROVE GatewayTypeOK'
  BY <1>6 DEF Check
<1>7. CASE UNCHANGED gatewayVars
  BY <1>7 DEF gatewayVars, processVars
<1> QED
  BY <1>1, <1>2, <1>3, <1>4, <1>5, <1>6, <1>7 DEF GatewayNext

\* What a step inside the manager does to the places: its thread moves on, and
\* readers that waited get in.
LEMMA Moves ==
  ASSUME IInv, NEW t \in Threads, Run(t) \/ Lock(t)
  PROVE  /\ pc[t] \notin {"idle", "rwait"}
         /\ pc[t] \in Using => pc'[t] \in Using \cup {"idle"}
         /\ pc[t] \in Closing => pc'[t] \in Closing \cup {"idle"}
         /\ \A q \in Threads \ {t} :
              pc'[q] = pc[q] \/ (pc[q] = "rwait" /\ pc'[q] = "read")
<1> USE DEF IInv, TypeOK, Using, Closing
<1>1. CASE Lookup(t) \/ BridgeDisabled(t) \/ WantLock(t) \/ Dial(t) \/ CloseConnections(t)
  BY <1>1 DEF Lookup, BridgeDisabled, WantLock, Dial, CloseConnections
<1>2. CASE SomebodyElseDid(t) \/ Fail(t) \/ Store(t) \/ Reset(t)
  BY <1>2 DEF SomebodyElseDid, Fail, Store, Reset, Unlock, ReadersWaiting
<1>3. CASE Lock(t)
  BY <1>3 DEF Lock, Acquire
<1> QED
  BY <1>1, <1>2, <1>3 DEF Run

\* Every step keeps everybody in place.
LEMMA Places ==
  IInv /\ GatewayTypeOK /\ PlaceInv /\ [GatewayNext]_gatewayVars => PlaceInv'
<1> SUFFICES ASSUME IInv, GatewayTypeOK, PlaceInv, [GatewayNext]_gatewayVars PROVE PlaceInv'
  OBVIOUS
<1>t. pc \in [Threads -> Using \cup Closing \cup {"idle"}]
  BY DEF IInv, TypeOK, Using, Closing
<1>u. stage \in [Threads -> {"free", "serving", "asked", "calling"}]
  BY DEF GatewayTypeOK
<1> USE ThreadsAssumption, <1>t, <1>u DEF PlaceInv
<1>1. ASSUME MainStep PROVE PlaceInv'
  <2>1. CASE ShutdownReturns
    BY <2>1 DEF ShutdownReturns, CallClose, Using, Closing
  <2>2. CASE Load \/ Shutdown \/ ShutdownTimesOut \/ Exit
    BY <2>2 DEF Load, Shutdown, ShutdownTimesOut, Exit, vars
  <2> QED
    BY <1>1, <2>1, <2>2 DEF MainStep
<1>2. CASE Raise \/ ServerFails
  BY <1>2 DEF Raise, ServerFails, vars
<1>3. ASSUME NEW t \in Threads, Manage(t) \/ GetLock(t) PROVE PlaceInv'
  <2>1. /\ UNCHANGED <<main, stage>>
        /\ Run(t) \/ Lock(t)
    BY <1>3 DEF Manage, GetLock, processVars
  <2>2. /\ pc[t] \notin {"idle", "rwait"}
        /\ pc[t] \in Using => pc'[t] \in Using \cup {"idle"}
        /\ pc[t] \in Closing => pc'[t] \in Closing \cup {"idle"}
        /\ \A q \in Threads \ {t} :
             pc'[q] = pc[q] \/ (pc[q] = "rwait" /\ pc'[q] = "read")
    BY <2>1, Moves
  <2> QED
    BY <2>1, <2>2 DEF Using, Closing
<1>4. ASSUME NEW t \in Threads, Caller(t) PROVE PlaceInv'
  BY <1>4 DEF Caller, Invoke, CallEnds, vars, Using
<1>5. ASSUME NEW t \in Handlers, Accept(t) \/ Respond(t) PROVE PlaceInv'
  BY <1>5 DEF Accept, Respond, vars, Handlers, Serving, Using
<1>6. ASSUME NEW t \in Handlers, NEW k \in Targets, AskFor(t, k) PROVE PlaceInv'
  BY <1>6 DEF AskFor, Call, Using, Closing, Handlers
<1>7. ASSUME NEW k \in Targets, Check(k) PROVE PlaceInv'
  BY <1>7 DEF Check, Call, Using, Closing
<1>8. CASE UNCHANGED gatewayVars
  BY <1>8 DEF gatewayVars, vars, processVars
<1> QED
  BY <1>1, <1>2, <1>3, <1>4, <1>5, <1>6, <1>7, <1>8 DEF GatewayNext

\* Once main closes, no handler comes and none is left.
LEMMA Alone == GatewayTypeOK /\ AloneInv /\ [GatewayNext]_gatewayVars => AloneInv'
<1> SUFFICES ASSUME GatewayTypeOK, AloneInv, [GatewayNext]_gatewayVars PROVE AloneInv'
  OBVIOUS
<1>u. stage \in [Threads -> {"free", "serving", "asked", "calling"}]
  BY DEF GatewayTypeOK
<1> USE ThreadsAssumption, <1>u DEF AloneInv, Serving, Handlers
<1>1. CASE MainStep
  BY <1>1 DEF MainStep, Load, Shutdown, ShutdownReturns, ShutdownTimesOut, Exit
<1>2. CASE Raise \/ ServerFails
  BY <1>2 DEF Raise, ServerFails
<1>3. ASSUME NEW t \in Threads, Manage(t) \/ GetLock(t) \/ Caller(t) PROVE AloneInv'
  BY <1>3 DEF Manage, GetLock, Caller, Invoke, CallEnds, Between, processVars
<1>4. ASSUME NEW t \in Handlers, Accept(t) \/ Respond(t) PROVE AloneInv'
  BY <1>4 DEF Accept, Respond
<1>5. ASSUME NEW t \in Handlers, NEW k \in Targets, AskFor(t, k) PROVE AloneInv'
  BY <1>5 DEF AskFor
<1>6. ASSUME NEW k \in Targets, Check(k) PROVE AloneInv'
  BY <1>6 DEF Check
<1>7. CASE UNCHANGED gatewayVars
  BY <1>7 DEF gatewayVars, processVars
<1> QED
  BY <1>1, <1>2, <1>3, <1>4, <1>5, <1>6, <1>7 DEF GatewayNext

\* While a handler is there nobody is in Close's last step, so that all that is
\* in the map is open.
LEMMA MapIsOpen ==
  ASSUME IInv, PlaceInv, AloneInv, NEW t \in Handlers, stage[t] # "free"
  PROVE  /\ \A q \in Threads : pc[q] \notin Closing
         /\ \A k \in Targets : clients[k] # NoConn => <<k, clients[k]>> \in open
<1>1. \A q \in Threads : pc[q] \notin Closing
  BY DEF PlaceInv, AloneInv, Serving
<1> QED
  BY <1>1 DEF IInv, MapInv, Closing

\* Every step leaves handlers with open connections.
LEMMA Held ==
  /\ IInv /\ GatewayTypeOK /\ PlaceInv /\ AloneInv /\ HeldInv
  /\ [GatewayNext]_gatewayVars
  => HeldInv'
<1> SUFFICES ASSUME IInv, GatewayTypeOK, PlaceInv, AloneInv, HeldInv,
                    [GatewayNext]_gatewayVars,
                    NEW q \in Handlers,
                    \/ stage'[q] = "asked" /\ pc'[q] = "idle" /\ got'[q] # NoConn
                    \/ stage'[q] = "calling"
             PROVE  <<want'[q], got'[q]>> \in open'
  BY DEF HeldInv
<1>q. q \in Threads /\ q # Main /\ q # Health
  BY DEF Handlers
<1>t. /\ pc \in [Threads -> Using \cup Closing \cup {"idle"}]
      /\ want \in [Threads -> Targets] /\ DOMAIN got = Threads
  BY DEF IInv, TypeOK, Using, Closing
<1>u. stage \in [Threads -> {"free", "serving", "asked", "calling"}]
  BY DEF GatewayTypeOK
<1> USE <1>q, <1>t, <1>u, ThreadsAssumption
<1>1. ASSUME NEW t \in Threads, Run(t) \/ Lock(t), UNCHANGED stage
      PROVE  <<want'[q], got'[q]>> \in open'
  <2>1. /\ \A p \in Threads : pc[p] \notin Closing
        /\ \A k \in Targets : clients[k] # NoConn => <<k, clients[k]>> \in open
    BY <1>1, MapIsOpen
  <2>2. want' = want /\ open \subseteq open'
    BY <1>1, <2>1 DEF Run, Lock, Acquire, Lookup, BridgeDisabled, WantLock, SomebodyElseDid, Fail,
       Dial, Store, CloseConnections, Reset, Closing, connVars, mapVars
  <2>3. CASE q # t
    <3>1. pc'[q] = "idle" => pc[q] = "idle"
      BY <1>1, <2>3, Moves
    <3>2. got'[q] = got[q]
      BY <1>1, <2>3 DEF Run, Lock, Acquire, Lookup, BridgeDisabled, WantLock, SomebodyElseDid,
         Fail, Dial, Store, CloseConnections, Reset, Return
    <3> QED
      BY <1>1, <2>2, <3>1, <3>2 DEF HeldInv
  <2>4. CASE q = t
    <3>1. pc[t] \in Using /\ pc'[t] = "idle" /\ got'[t] # NoConn
      BY <1>1, <2>1, <2>4, Moves DEF PlaceInv
    <3>2. CASE Lookup(t)
      BY <2>1, <2>2, <2>4, <3>1, <3>2 DEF Lookup, Return
    <3>3. CASE SomebodyElseDid(t)
      BY <2>1, <2>2, <2>4, <3>1, <3>3 DEF SomebodyElseDid, Return
    <3>4. CASE Store(t)
      BY <2>2, <2>4, <3>4 DEF Store, Return, IInv, MapInv
    <3>5. ~ WantLock(t) /\ ~ Dial(t) /\ ~ CloseConnections(t) /\ ~ Reset(t) /\ ~ Lock(t)
      BY <2>1, <3>1 DEF WantLock, Dial, CloseConnections, Reset, Lock, Acquire, Closing
    <3>6. ~ BridgeDisabled(t) /\ ~ Fail(t)
      BY <3>1 DEF BridgeDisabled, Fail, Return
    <3> QED
      BY <1>1, <3>2, <3>3, <3>4, <3>5, <3>6 DEF Run
  <2> QED
    BY <2>3, <2>4
<1>2. ASSUME UNCHANGED <<want, got, open>>, pc'[q] = "idle" => pc[q] = "idle",
             stage'[q] = stage[q] \/ stage'[q] \in {"free", "serving"}
      PROVE  <<want'[q], got'[q]>> \in open'
  BY <1>2 DEF HeldInv
<1>3. CASE MainStep
  BY <1>2, <1>3 DEF MainStep, Load, Shutdown, ShutdownReturns, ShutdownTimesOut, Exit, CallClose,
     vars, connVars
<1>4. CASE Raise \/ ServerFails
  BY <1>2, <1>4 DEF Raise, ServerFails, vars, connVars
<1>5. ASSUME NEW t \in Threads, Manage(t) \/ GetLock(t)
      PROVE  <<want'[q], got'[q]>> \in open'
  BY <1>1, <1>5 DEF Manage, GetLock, processVars
<1>6. ASSUME NEW t \in Threads, Caller(t)
      PROVE  <<want'[q], got'[q]>> \in open'
  BY <1>6 DEF Caller, Invoke, CallEnds, Between, vars, connVars, HeldInv
<1>7. ASSUME NEW t \in Handlers, Accept(t) \/ Respond(t)
      PROVE  <<want'[q], got'[q]>> \in open'
  BY <1>2, <1>7 DEF Accept, Respond, vars, connVars
<1>8. ASSUME NEW t \in Handlers, NEW k \in Targets, AskFor(t, k)
      PROVE  <<want'[q], got'[q]>> \in open'
  BY <1>8 DEF AskFor, Call, connVars, HeldInv, Handlers
<1>9. ASSUME NEW k \in Targets, Check(k)
      PROVE  <<want'[q], got'[q]>> \in open'
  BY <1>9 DEF Check, Call, connVars, HeldInv
<1>10. CASE UNCHANGED gatewayVars
  BY <1>2, <1>10 DEF gatewayVars, vars, processVars, connVars
<1> QED
  BY <1>3, <1>4, <1>5, <1>6, <1>7, <1>8, <1>9, <1>10 DEF GatewayNext

\* The gateway's invariant, beside the manager's.
THEOREM GatewayInvariance == GatewaySpec => []GatewayInv
<1>1. GatewayInv /\ IInv /\ [GatewayNext]_gatewayVars => GatewayInv'
  <2>1. IInv => TypeOK
    BY DEF IInv
  <2> QED
    BY <2>1, GatewayTypes, Places, Alone, Held DEF GatewayInv
<1> QED
  BY <1>1, GatewayStarts, UsesManager, Invariance, PTL DEF GatewaySpec

\* main never closes a connection that a handler calls over: Close begins when
\* Shutdown has seen the last handler go, and not when it has run out of time.
THEOREM CallsKeepTheirConnections == GatewaySpec => []ConnectionsOutliveCalls
<1>1. GatewayInv => ConnectionsOutliveCalls
  BY DEF GatewayInv, HeldInv, ConnectionsOutliveCalls
<1> QED
  BY <1>1, GatewayInvariance, PTL
=============================================================================
