SPECIFICATION FairSensing
CONSTANTS
  p1 = p1
  p2 = p2
  SIGINT = SIGINT
  SIGTERM = SIGTERM
  Signals = {SIGINT, SIGTERM}
  Pollers = {p1, p2}
  MaxAge = 0
INVARIANTS
  HandlersOutliveCalls
  PositionToldTruly
PROPERTIES
  SignalEndsProcess
CHECK_DEADLOCK FALSE
