--------------------------- MODULE ConnectionCache ---------------------------
(***************************************************************************)
(* What the client manager promises its callers, whatever it locks and how *)
(* often it looks: each call takes effect at once, between its begin and   *)
(* its end.  It finds the target's connection, makes one if there is none  *)
(* and the target is configured, or is refused, which never happens while  *)
(* there is a connection.  Close leaves nothing open behind.               *)
(***************************************************************************)
EXTENDS Naturals

CONSTANTS Threads, Targets, NoConn

VARIABLES
  place,       \* "out", "asking" or "closing", for each thread
  want,        \* the target it asks for
  got,         \* what its last call returned: a connection or NoConn
  cache,       \* <<target, n>>: connection n to the target
  last,        \* connections made so far, their names
  configured   \* the targets there may be connections to

cvars == <<place, want, got, cache, last, configured>>

CInit ==
  /\ place = [t \in Threads |-> "out"]
  /\ want \in [Threads -> Targets]
  /\ got = [t \in Threads |-> NoConn]
  /\ cache = {} /\ last = 0
  /\ configured \in SUBSET Targets

Ask(t, k) ==
  /\ place[t] = "out"
  /\ place' = [place EXCEPT ![t] = "asking"]
  /\ want' = [want EXCEPT ![t] = k]
  /\ UNCHANGED <<got, cache, last, configured>>

Answer(t, n) ==
  /\ place[t] = "asking"
  /\ place' = [place EXCEPT ![t] = "out"]
  /\ got' = [got EXCEPT ![t] = n]
  /\ UNCHANGED <<want, configured>>

Connected(k) == \E c \in cache : c[1] = k

Find(t, n) ==
  /\ <<want[t], n>> \in cache
  /\ Answer(t, n)
  /\ UNCHANGED <<cache, last>>

Connect(t) ==
  /\ ~ Connected(want[t]) /\ want[t] \in configured
  /\ last' = last + 1
  /\ cache' = cache \cup {<<want[t], last'>>}
  /\ Answer(t, last')

\* The target is not configured, or there can be no connection.
Deny(t) ==
  /\ ~ Connected(want[t])
  /\ Answer(t, NoConn)
  /\ UNCHANGED <<cache, last>>

BeginClose(t) ==
  /\ place[t] = "out"
  /\ place' = [place EXCEPT ![t] = "closing"]
  /\ UNCHANGED <<want, got, cache, last, configured>>

Clear(t) ==
  /\ place[t] = "closing"
  /\ cache' = {}
  /\ UNCHANGED <<place, want, got, last, configured>>

EndClose(t) ==
  /\ place[t] = "closing" /\ cache = {}
  /\ place' = [place EXCEPT ![t] = "out"]
  /\ UNCHANGED <<want, got, cache, last, configured>>

CNext ==
  \E t \in Threads :
    \/ Connect(t) \/ Deny(t) \/ BeginClose(t) \/ Clear(t) \/ EndClose(t)
    \/ \E k \in Targets : Ask(t, k)
    \/ \E n \in 1 .. last : Find(t, n)

CSpec == CInit /\ [][CNext]_cvars
=============================================================================
