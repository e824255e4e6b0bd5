-------------------------- MODULE MCServiceControl --------------------------
EXTENDS ServiceRequests, TLC

CONSTANTS drs_transfer, drs_transfer_service, drs_wrong, typo,
          timer, worker, foreign, none, r1, r2

\* The transfer services of the default configuration, and one whose stop_also
\* names a unit that is no configured service.
OneMisconfigured ==
  drs_transfer :> [unit |-> timer, also |-> worker] @@
  drs_transfer_service :> [unit |-> worker, also |-> none] @@
  drs_wrong :> [unit |-> timer, also |-> foreign]

\* The transfer services alone.
TransferOnly ==
  drs_transfer :> [unit |-> timer, also |-> worker] @@
  drs_transfer_service :> [unit |-> worker, also |-> none]

Workers == {worker, foreign}
TimerStartsWorker == {<<timer, worker>>}
Either == Permutations(Requests)
=============================================================================
