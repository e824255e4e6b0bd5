--------------------------- MODULE SystemControlApi ---------------------------
(***************************************************************************)
(* SystemControlService of drs.module.v1, as generated for Go: a call is a *)
(* method with its request, an answer a method with its response.  Texts   *)
(* for people are left out.                                                *)
(***************************************************************************)
CONSTANT Delay  \* seconds

RebootRequest == [delay : Delay]
RebootResponse == [accepted : BOOLEAN, scheduled : Delay]

ShutdownRequest == [delay : Delay]
ShutdownResponse == [accepted : BOOLEAN, scheduled : Delay]

Call ==
  [method : {"Reboot"}, request : RebootRequest]
    \cup [method : {"Shutdown"}, request : ShutdownRequest]

Answer ==
  [method : {"Reboot"}, response : RebootResponse]
    \cup [method : {"Shutdown"}, response : ShutdownResponse]
=============================================================================
