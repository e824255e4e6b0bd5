SPECIFICATION FairSpec
CONSTANTS
  main_ecu = main_ecu
  unfiltered = unfiltered
  r1 = r1
  Requests = {r1}
  Recorders = {main_ecu}
  Commands <- StartAndStop
  Filters = {unfiltered, main_ecu}
  NoFilter = unfiltered
  MaxAge = 0
  Depth = 1
  lidar = lidar
  imu = imu
  nil = nil
  Nil = nil
  Topics = {lidar, imu}
  Reported <- InTrouble
INVARIANTS
  NoCommandLost
  MessagesFitTheApi
PROPERTIES
  NoFalseAlarm
  StatusCatchesUp
  EveryCallEnds
