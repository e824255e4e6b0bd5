---------------------------- MODULE Ros2BridgeApi ----------------------------
(***************************************************************************)
(* RecordingService and SensingService of drs.ros2bridge.v1, as generated  *)
(* for Go: a call is a method with its request, an answer a method with    *)
(* its response.  The measurements of a position stand for its stamp;      *)
(* texts for people, frame ids and message types are left out.             *)
(*                                                                         *)
(* A sub-message is a pointer.  Its readers, the gateway and drs-cli, ask  *)
(* whether it is nil for the header of a recording only; a response in     *)
(* which any other one is nil is none of the types below.                  *)
(***************************************************************************)
EXTENDS Sequences

CONSTANTS HardwareId,  \* recorders
          Topic,       \* ROS topics that a recorder subscribes to
          NodeName,    \* ROS nodes
          Filter,      \* filters, and the empty one
          Stamp,       \* times of ROS messages
          Nil

ErrorLevel == {"unspecified", "ok", "warn", "error"}
RateStatus == {"unspecified", "normal", "unknown", "too_low", "too_high", "no_messages"}

Header == [stamp : Stamp \cup {Nil}]
NavSatStatus == [fix : BOOLEAN]
Position == [header : Header, navSatStatus : NavSatStatus]

TopicStatus == [topic : Topic, rateStatus : RateStatus]
Recording == [header : Header \cup {Nil}, hardwareId : HardwareId, isRecording : BOOLEAN,
              errorLevel : ErrorLevel, topicStatuses : Seq(TopicStatus)]
Node == [name : NodeName]

-----------------------------------------------------------------------------
(* RecordingService *)

GetRecordingRequest == [hardwareId : HardwareId]
GetRecordingResponse == [recording : Recording]

ListRecordingsRequest == [filter : Filter]
ListRecordingsResponse == [recordings : Seq(Recording)]

ListTopicStatusesRequest == [hardwareId : HardwareId, filter : Filter]
ListTopicStatusesResponse == [topicStatuses : Seq(TopicStatus)]

StartRecordingRequest == {<<>>}
StartRecordingResponse == [success : BOOLEAN]

StopRecordingRequest == {<<>>}
StopRecordingResponse == [success : BOOLEAN]

PauseRecordingRequest == {<<>>}
PauseRecordingResponse == [success : BOOLEAN]

ResumeRecordingRequest == {<<>>}
ResumeRecordingResponse == [success : BOOLEAN]

RecordingCall ==
  [method : {"GetRecording"}, request : GetRecordingRequest]
    \cup [method : {"ListRecordings"}, request : ListRecordingsRequest]
    \cup [method : {"ListTopicStatuses"}, request : ListTopicStatusesRequest]
    \cup [method : {"StartRecording"}, request : StartRecordingRequest]
    \cup [method : {"StopRecording"}, request : StopRecordingRequest]
    \cup [method : {"PauseRecording"}, request : PauseRecordingRequest]
    \cup [method : {"ResumeRecording"}, request : ResumeRecordingRequest]

RecordingAnswer ==
  [method : {"GetRecording"}, response : GetRecordingResponse]
    \cup [method : {"ListRecordings"}, response : ListRecordingsResponse]
    \cup [method : {"ListTopicStatuses"}, response : ListTopicStatusesResponse]
    \cup [method : {"StartRecording"}, response : StartRecordingResponse]
    \cup [method : {"StopRecording"}, response : StopRecordingResponse]
    \cup [method : {"PauseRecording"}, response : PauseRecordingResponse]
    \cup [method : {"ResumeRecording"}, response : ResumeRecordingResponse]

-----------------------------------------------------------------------------
(* SensingService *)

GetPositionRequest == {<<>>}
GetPositionResponse == [position : Position]

ListNodesRequest == [filter : Filter]
ListNodesResponse == [nodes : Seq(Node)]

SensingCall ==
  [method : {"GetPosition"}, request : GetPositionRequest]
    \cup [method : {"ListNodes"}, request : ListNodesRequest]

SensingAnswer ==
  [method : {"GetPosition"}, response : GetPositionResponse]
    \cup [method : {"ListNodes"}, response : ListNodesResponse]
=============================================================================
