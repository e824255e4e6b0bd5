----------------------------- MODULE MCDiskUsage -----------------------------
EXTENDS ModuleManager

CONSTANTS root, internal, r1, c1, here, lidar, none, nil

File(disks, path, complete) ==
  [present |-> TRUE, disks |-> disks, path |-> path, complete |-> complete]

\* No configuration file: LoadConfig returns its defaults.
Absent == {[present |-> FALSE, disks |-> <<>>, path |-> TRUE, complete |-> TRUE]}

\* No file, and files with a list of disks, with a monitor_path only, with both,
\* with nothing, and with an entry that lacks its name.
Found ==
  Absent \cup
  {File(<<internal, root>>, FALSE, TRUE), File(<<>>, TRUE, TRUE),
   File(<<internal>>, TRUE, TRUE), File(<<>>, FALSE, TRUE),
   File(<<internal>>, TRUE, FALSE)}

\* A device; the local clock, its grandmaster, answers as well.
OneLidar == <<lidar>>
=============================================================================
