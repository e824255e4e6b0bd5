SPECIFICATION RequestsSpec
CONSTANTS
  drs_transfer = drs_transfer
  drs_transfer_service = drs_transfer_service
  drs_wrong = drs_wrong
  typo = typo
  timer = timer
  worker = worker
  foreign = foreign
  none = none
  r1 = r1
  r2 = r2
  NoUnit = none
  Oneshot <- Workers
  Triggers <- TimerStartsWorker
  Names = {drs_transfer, drs_transfer_service}
  Mapping <- TransferOnly
  Units = {timer, worker, foreign}
  Requests = {r1}
  Installed = {timer}
  Managed = TRUE
  SensorName = drs_transfer_service
INVARIANTS
  CleanAbort
CHECK_DEADLOCK FALSE
