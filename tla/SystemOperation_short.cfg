SPECIFICATION Spec
CONSTANTS
  ecu0 = ecu0
  ecu1 = ecu1
  nas = nas
  none = none
  r1 = r1
  r2 = r2
  Modules = {ecu0, ecu1}
  Requests = {r1}
  APIGatewayHost = ecu0
  Disabled <- NothingDisabled
  Delays <- HalfMinute
PROPERTIES
  DelaysHonoured
CHECK_DEADLOCK FALSE
