---------------------------- MODULE MonitoringApi ----------------------------
(***************************************************************************)
(* MonitoringService of drs.module.v1, as generated for Go: a call is a    *)
(* method with its request, an answer a method with its response.  The     *)
(* numbers of a measurement stand for what was measured; texts are left    *)
(* out.                                                                    *)
(*                                                                         *)
(* A sub-message is a pointer.  Its readers, the gateway and drs-cli, ask  *)
(* whether it is nil for the status of a remote device only; a response in *)
(* which any other one is nil is none of the types below.                  *)
(***************************************************************************)
EXTENDS Sequences

CONSTANTS DiskName,  \* disks/<name>
          Clock,     \* PTP clock identities, and the empty one
          Device,    \* remote PTP devices
          ModuleId,  \* the hardware id a module has in its environment
          Nil

DiskUsage == [of : DiskName]
Disk == [name : DiskName, usage : DiskUsage]

PTPStatus == [clock : Clock, offset : Clock, gm : Clock]
RemotePTPStatus == [device : Device, reachable : BOOLEAN, status : PTPStatus \cup {Nil}]

GetDiskUsageRequest == {<<>>}
GetDiskUsageResponse == [diskUsage : DiskUsage]

GetDiskRequest == [name : DiskName]
GetDiskResponse == [disk : Disk]

ListDisksRequest == {<<>>}
ListDisksResponse == [disks : Seq(Disk)]

GetPTPStatusRequest == [remote : BOOLEAN]
GetPTPStatusResponse == [local : PTPStatus, remotes : Seq(RemotePTPStatus)]

GetEnvironmentRequest == {<<>>}
GetEnvironmentResponse == [moduleId : ModuleId]

Call ==
  [method : {"GetDiskUsage"}, request : GetDiskUsageRequest]
    \cup [method : {"GetDisk"}, request : GetDiskRequest]
    \cup [method : {"ListDisks"}, request : ListDisksRequest]
    \cup [method : {"GetPTPStatus"}, request : GetPTPStatusRequest]
    \cup [method : {"GetEnvironment"}, request : GetEnvironmentRequest]

Answer ==
  [method : {"GetDiskUsage"}, response : GetDiskUsageResponse]
    \cup [method : {"GetDisk"}, response : GetDiskResponse]
    \cup [method : {"ListDisks"}, response : ListDisksResponse]
    \cup [method : {"GetPTPStatus"}, response : GetPTPStatusResponse]
    \cup [method : {"GetEnvironment"}, response : GetEnvironmentResponse]
=============================================================================
