SPECIFICATION Spec
CONSTANTS
  ecu0 = ecu0
  nas = nas
  typo = typo
  r1 = r1
  Requests = {r1}
  Modules = {ecu0, nas}
  Hostnames = {ecu0, nas, typo}
  Nas = nas
  Services <- SensorAndTransfer
  Watched <- NoServicesOnNas
  BridgeEnabled = TRUE
INVARIANTS
  NotFoundMeansUnreachable
CHECK_DEADLOCK FALSE
