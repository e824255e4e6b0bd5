SPECIFICATION FairSpec
CONSTANTS
  ecu0 = ecu0
  ecu1 = ecu1
  nas = nas
  none = none
  r1 = r1
  r2 = r2
  Modules = {ecu0, nas}
  Requests = {r1, r2}
  APIGatewayHost = ecu0
  Disabled <- NasKeepsRunning
  Delays <- RefusedAndMinute
INVARIANTS
  GatewayHostGoesDownLast
  OkMeansExecuted
  SendsSucceed
PROPERTIES
  KeepsPromise
  EveryRequestEnds
CHECK_DEADLOCK FALSE
