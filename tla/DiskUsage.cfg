SPECIFICATION FairManager
CONSTANTS
  root = root
  internal = internal
  r1 = r1
  c1 = c1
  here = here
  lidar = lidar
  none = none
  nil = nil
  Checks = {c1}
  Clocks = {here, lidar}
  LocalClock = here
  Grandmaster = here
  Devices <- OneLidar
  NoClock = none
  Nil = nil
  PTPEnabled = TRUE
  Requests = {r1}
  Disks = {root, internal}
  Root = root
  Files <- Found
INVARIANTS
  RemoteIsTheDevices
  MessagesFitTheApi
  NobodyWritesAfterReply
  ValidatedNeverPanics
PROPERTIES
  HungDiskIsSkipped
  NoGoroutineLeak
  
CHECK_DEADLOCK FALSE
