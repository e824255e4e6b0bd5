-------------------------- MODULE RecordingMessages --------------------------
(***************************************************************************)
(* What the bridge's recording calls say: RecordingBridge with the         *)
(* messages of drs.ros2bridge.v1 that its callers send, that its handlers  *)
(* convert the recorders' statuses into, and what the gateway and drs-cli  *)
(* make of them.  The rest of a status follows its is_recording.           *)
(***************************************************************************)
EXTENDS RecordingBridge, SequencesExt

CONSTANTS Topics,     \* ROS topics that are recorded
          Reported,   \* level and topics in a status, by its is_recording
          Nil

\* Those of proto_recorder_msgs, and any other.
RosLevels == {"OK", "WARN", "ERROR", "other"}
RosRates == {"NORMAL", "UNKNOWN", "TOO_LOW", "TOO_HIGH", "NO_MESSAGES", "other"}

\* The recorders are finitely many, and a report is of the types of
\* proto_recorder_msgs.
ASSUME ReportedAssumption ==
  /\ IsFiniteSet(Recorders)
  /\ Reported \in [{"true", "false"} ->
       [level : RosLevels, topics : Seq([topic : Topics, rate : RosRates])]]

-----------------------------------------------------------------------------
(* The messages of drs.ros2bridge.v1 *)

Api == INSTANCE Ros2BridgeApi WITH
  HardwareId <- Recorders, Topic <- Topics, NodeName <- {}, Filter <- Filters \cup {NoFilter},
  Stamp <- {"published"}

Method(what) ==
  CASE what.op = "get" -> "GetRecording"
    [] what.op = "list" -> "ListRecordings"
    [] what.op = "topics" -> "ListTopicStatuses"
    [] OTHER -> IF what.arg.topic = "start"
                THEN IF what.arg.value = "true" THEN "StartRecording" ELSE "StopRecording"
                ELSE IF what.arg.value = "true" THEN "PauseRecording" ELSE "ResumeRecording"

CallMessage(what) ==
  [method |-> Method(what),
   request |-> CASE what.op = "get" -> [hardwareId |-> what.arg]
                 [] what.op = "list" -> [filter |-> what.arg]
                 [] what.op = "topics" -> [hardwareId |-> what.arg, filter |-> NoFilter]
                 [] OTHER -> <<>>]

ConvertErrorLevel(level) ==
  CASE level = "WARN" -> "warn" [] level = "ERROR" -> "error" [] OTHER -> "ok"

ConvertTopicStatus(status) ==
  [topic |-> status.topic,
   rateStatus |-> CASE status.rate = "NORMAL" -> "normal"
                    [] status.rate = "UNKNOWN" -> "unknown"
                    [] status.rate = "TOO_LOW" -> "too_low"
                    [] status.rate = "TOO_HIGH" -> "too_high"
                    [] status.rate = "NO_MESSAGES" -> "no_messages"
                    [] OTHER -> "unspecified"]

TopicStatuses(entry) ==
  [i \in DOMAIN Reported[entry[2]].topics |-> ConvertTopicStatus(Reported[entry[2]].topics[i])]

\* convertRecorderStatusToRecording.
AsRecording(entry) ==
  [header |-> [stamp |-> "published"], hardwareId |-> entry[1],
   isRecording |-> entry[2] = "true",
   errorLevel |-> ConvertErrorLevel(Reported[entry[2]].level),
   topicStatuses |-> TopicStatuses(entry)]

\* A sub-message that no handler has filled is nil.
OnlyEntry(messages) ==
  IF messages = {} THEN Nil ELSE CHOOSE message \in messages : TRUE

\* What the bridge answers without an error; std::map keeps its keys in order.
AnswerMessage(r) ==
  LET listed == SetToSeq(reply[r].listed) IN
  [method |-> Method(order[r]),
   response |->
     CASE order[r].op = "get" ->
            [recording |-> OnlyEntry({AsRecording(entry) : entry \in reply[r].listed})]
       [] order[r].op = "list" ->
            [recordings |-> [i \in DOMAIN listed |-> AsRecording(listed[i])]]
       [] order[r].op = "topics" ->
            [topicStatuses |-> OnlyEntry({TopicStatuses(entry) : entry \in reply[r].listed})]
       [] OTHER -> [success |-> reply[r].code = "ok"]]

-----------------------------------------------------------------------------
(* What the clients make of them *)

\* GetRecordingStatus and getRecordingStatus of the gateway.
DataStatus(recording) ==
  CASE recording.errorLevel = "warn" -> "WARN"
    [] recording.errorLevel = "error" -> "ERROR"
    [] OTHER -> "OK"

\* GetTopicStatus: a rate that is too high is OK, and so is one that is not known.
TopicStatus(status) ==
  CASE status.rateStatus = "too_low" -> "WARN"
    [] status.rateStatus = "no_messages" -> "ERROR"
    [] OTHER -> "OK"

\* drs-cli.
ErrorLevelString(recording) ==
  CASE recording.errorLevel = "ok" -> "OK"
    [] recording.errorLevel = "warn" -> "WARNING"
    [] recording.errorLevel = "error" -> "ERROR"
    [] OTHER -> "UNKNOWN"

\* A client that asks now is shown that recorder k records or not, as v says,
\* with the errors and the silent topics that come with it.
Shown(k, v) ==
  /\ cache[k] # "none"
  /\ LET recording == AsRecording(Entry(k))
         level == Reported[v].level
         topics == Reported[v].topics IN
     /\ recording.isRecording <=> v = "true"
     /\ DataStatus(recording) = IF level = "other" THEN "OK" ELSE level
     /\ level = "ERROR" <=> ErrorLevelString(recording) = "ERROR"
     /\ DOMAIN recording.topicStatuses = DOMAIN topics
     /\ \A i \in DOMAIN topics :
          topics[i].rate = "NO_MESSAGES" <=> TopicStatus(recording.topicStatuses[i]) = "ERROR"

-----------------------------------------------------------------------------
(* Properties *)

\* What clients are shown catches up with what the recorders do and report.
StatusCatchesUp ==
  \A k \in Recorders : \A v \in {"true", "false"} :
    <>[](power[k] = "up" /\ power[Bridge] = "up" /\ latched["start"] = v)
      => []<>Shown(k, v)

\* Messages are what drs.ros2bridge.v1 has: above all, GetRecording is answered
\* with a recording, or an error, for drs-cli reads through it without asking.
MessagesFitTheApi ==
  \A r \in Requests :
    /\ http[r] = "calling" => CallMessage(order[r]) \in Api!RecordingCall
    /\ reply[r].code = "ok" \/ (reply[r].code = "failed" /\ order[r].op = "publish")
         => AnswerMessage(r) \in Api!RecordingAnswer
=============================================================================
