SPECIFICATION RequestsSpec
CONSTANTS
  drs_transfer = drs_transfer
  drs_transfer_service = drs_transfer_service
  drs_wrong = drs_wrong
  typo = typo
  timer = timer
  worker = worker
  foreign = foreign
  none = none
  r1 = r1
  r2 = r2
  NoUnit = none
  Oneshot <- Workers
  Triggers <- TimerStartsWorker
  Names = {drs_transfer, drs_transfer_service, drs_wrong, typo}
  Mapping <- OneMisconfigured
  Units = {timer, worker, foreign}
  Requests = {r1, r2}
  Installed = {timer}
  Managed = TRUE
  SensorName = drs_transfer_service
SYMMETRY Either
INVARIANTS
  OnlyLostCallsLeaveCommands
  MessagesFitTheApi
  NothingHalfDone
  OkMeansDone
  StopReportsStopped
CHECK_DEADLOCK FALSE
