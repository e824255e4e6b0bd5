SPECIFICATION FairSpec
CONSTANTS
  p1 = p1
  p2 = p2
  Polls = {p1, p2}
  Interval = 2
  GetTimeout = 2
  PostTimeout = 4
  Window = 4
  Lag = 1
  MaxClicks = 2
  MaxFlips = 1
INVARIANTS
  ChoiceHolds
PROPERTIES
  NoStaleOverride
  SnapshotsInOrder
  SwitchTellsTheTruth
  EveryWaitEnds
