-------------------------- MODULE OperationPromise --------------------------
(***************************************************************************)
(* What the gateway promises of a restart or shutdown operation, whatever  *)
(* goroutines and channels it uses: every module it is for has exactly one *)
(* outcome, the last host (the gateway's own) is not dealt with before the *)
(* others are, and the answer is given once all outcomes are known and is  *)
(* "ok" exactly when all of them are good.                                 *)
(***************************************************************************)
CONSTANTS Requests, Modules, Last

VARIABLES phase,    \* "new", "open", "answered" or "lost"
          wanted,   \* the modules a request is for
          outcome,  \* what became of each of them
          answer    \* "none", "ok" or "failed"

avars == <<phase, wanted, outcome, answer>>

Settled(r, m) == outcome[r][m] # "none"

AInit ==
  /\ phase = [r \in Requests |-> "new"]
  /\ wanted = [r \in Requests |-> {}]
  /\ outcome = [r \in Requests |-> [m \in Modules |-> "none"]]
  /\ answer = [r \in Requests |-> "none"]

Open(r) ==
  /\ phase[r] = "new"
  /\ phase' = [phase EXCEPT ![r] = "open"]
  /\ \E S \in SUBSET Modules : wanted' = [wanted EXCEPT ![r] = S]
  /\ UNCHANGED <<outcome, answer>>

Settle(r, m) ==
  /\ phase[r] = "open" /\ m \in wanted[r] /\ ~ Settled(r, m)
  /\ m = Last => \A other \in wanted[r] \ {Last} : Settled(r, other)
  /\ \E o \in {"accepted", "failed"} :
       outcome' = [outcome EXCEPT ![r][m] = o]
  /\ UNCHANGED <<phase, wanted, answer>>

Conclude(r) ==
  /\ phase[r] = "open" /\ \A m \in wanted[r] : Settled(r, m)
  /\ phase' = [phase EXCEPT ![r] = "answered"]
  /\ answer' = [answer EXCEPT ![r] =
       IF \A m \in wanted[r] : outcome[r][m] = "accepted" THEN "ok" ELSE "failed"]
  /\ UNCHANGED <<wanted, outcome>>

\* The gateway's host goes down: all open requests are lost with it.
LoseAll ==
  /\ phase' = [r \in Requests |-> IF phase[r] = "open" THEN "lost" ELSE phase[r]]
  /\ UNCHANGED <<wanted, outcome, answer>>

ANext ==
  \/ \E r \in Requests : Open(r) \/ Conclude(r) \/ \E m \in Modules : Settle(r, m)
  \/ LoseAll

ASpec == AInit /\ [][ANext]_avars
=============================================================================
