SPECIFICATION FairGateway
CONSTANTS
  h1 = h1
  h2 = h2
  main_thread = main_thread
  health = health
  ecu0 = ecu0
  bridge = bridge
  Threads = {h1, h2, main_thread, health}
  Main = main_thread
  Health = health
  Targets = {ecu0, bridge}
  Bridge = bridge
  Configurations <- Configured
  MaxDials = 2
INVARIANTS
  ConnectionsOutliveCalls
  MapsAndConnectionsAgree
PROPERTIES
  CallsTakeEffectAtOnce
  EveryCallReturns
  SignalEndsGateway
CHECK_DEADLOCK FALSE
