SPECIFICATION TimedSpec
CONSTANTS
  ecu0 = ecu0
  nas = nas
  r1 = r1
  r2 = r2
  Modules = {ecu0, nas}
  Requests = {r1, r2}
  APIGatewayHost = ecu0
  Disabled <- NothingDisabled
  Delays <- OneMinute
  Timeout = 1
  Minute = 2
SYMMETRY Symmetry
PROPERTIES
  AnswersBeforeItsHostGoesDown
CHECK_DEADLOCK FALSE
