------------------------- MODULE MCRecordingBridge -------------------------
EXTENDS RecordingMessages

CONSTANTS main_ecu, unfiltered, r1, lidar, imu, nil

StartAndStop == [topic : {"start"}, value : {"true", "false"}]

\* A recorder that records is short of disk, and one of its topics is silent.
InTrouble ==
  [v \in {"true", "false"} |->
     IF v = "true"
     THEN [level |-> "ERROR", topics |-> <<[topic |-> lidar, rate |-> "NO_MESSAGES"],
                                           [topic |-> imu, rate |-> "TOO_HIGH"]>>]
     ELSE [level |-> "other", topics |-> <<>>]]
=============================================================================
