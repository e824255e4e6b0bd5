-------------------------- MODULE ServiceManagerApi --------------------------
(***************************************************************************)
(* ServiceManagerService of drs.module.v1, as generated for Go: a call is  *)
(* a method with its request, an answer a method with its response.  Left  *)
(* out: descriptions, uptimes, and the pages that the server ignores.      *)
(*                                                                         *)
(* A response's service is a pointer.  drs-cli reads through it without a  *)
(* look, and so a response in which it is nil is none of the types below.  *)
(***************************************************************************)
EXTENDS Sequences

CONSTANT ServiceName  \* services/<id>

ServiceState == {"active", "inactive", "failed", "activating", "deactivating", "unspecified"}

Service == [name : ServiceName, state : ServiceState, enabled : BOOLEAN]

GetServiceRequest == [name : ServiceName]
GetServiceResponse == [service : Service]

ListServicesRequest == {<<>>}
ListServicesResponse == [services : Seq(Service)]

StartServiceRequest == [name : ServiceName]
StartServiceResponse == [service : Service]

StopServiceRequest == [name : ServiceName]
StopServiceResponse == [service : Service]

RestartServiceRequest == [name : ServiceName]
RestartServiceResponse == [service : Service]

EnableServiceRequest == [name : ServiceName]
EnableServiceResponse == [service : Service]

DisableServiceRequest == [name : ServiceName]
DisableServiceResponse == [service : Service]

Call ==
  [method : {"GetService"}, request : GetServiceRequest]
    \cup [method : {"ListServices"}, request : ListServicesRequest]
    \cup [method : {"StartService"}, request : StartServiceRequest]
    \cup [method : {"StopService"}, request : StopServiceRequest]
    \cup [method : {"RestartService"}, request : RestartServiceRequest]
    \cup [method : {"EnableService"}, request : EnableServiceRequest]
    \cup [method : {"DisableService"}, request : DisableServiceRequest]

Answer ==
  [method : {"GetService"}, response : GetServiceResponse]
    \cup [method : {"ListServices"}, response : ListServicesResponse]
    \cup [method : {"StartService"}, response : StartServiceResponse]
    \cup [method : {"StopService"}, response : StopServiceResponse]
    \cup [method : {"RestartService"}, response : RestartServiceResponse]
    \cup [method : {"EnableService"}, response : EnableServiceResponse]
    \cup [method : {"DisableService"}, response : DisableServiceResponse]
=============================================================================
