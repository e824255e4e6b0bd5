------------------------------ MODULE PTPChecker ------------------------------
(***************************************************************************)
(* GetPTPStatus of a module-manager: pmc is asked for the local clock and  *)
(* then, if the caller wants them, for every remote device of the          *)
(* configuration, one after the other.  A question to the network is       *)
(* answered by any clocks in any order, and the block of the device is     *)
(* looked for by the clock identity that its MAC address stands for.       *)
(*                                                                         *)
(* A line of pmc's output is a head, which names the clock that answers,   *)
(* an offset, or the identity of its grandmaster; the other fields are     *)
(* read as the offset is.  An offset is named after its clock.             *)
(***************************************************************************)
EXTENDS Naturals, Sequences

CONSTANTS Checks,      \* calls of GetPTPStatus, each once
          Clocks,      \* clocks of the network
          LocalClock,  \* that of ptp4l on this host
          Grandmaster,
          Devices,     \* ptp.remote_devices, in their order, as clocks
          NoClock,     \* the zero value of what is not found
          Nil,         \* no message
          PTPEnabled   \* ptp.enabled

ASSUME ClocksAssumption ==
  /\ LocalClock \in Clocks /\ Grandmaster \in Clocks /\ NoClock \notin Clocks
  /\ Nil \notin [clock : Clocks \cup {NoClock}, offset : Clocks \cup {NoClock},
                 gm : Clocks \cup {NoClock}]
  /\ Devices \in Seq(Clocks) /\ PTPEnabled \in BOOLEAN

VARIABLES
  stage,    \* where each check is
  include,  \* include_remote_devices
  local,    \* the local status
  remotes   \* the statuses of the devices so far

ptpVars == <<stage, include, local, remotes>>

Status == [clock : Clocks \cup {NoClock}, offset : Clocks \cup {NoClock},
           gm : Clocks \cup {NoClock}]
Unread == [clock |-> NoClock, offset |-> NoClock, gm |-> NoClock]

\* RemotePTPStatus: reached with a status, or not reached and without one.
Remote == [device : Clocks, reachable : BOOLEAN, status : Status \cup {Nil}]

PTPInit ==
  /\ stage = [c \in Checks |-> "idle"]
  /\ include = [c \in Checks |-> FALSE]
  /\ local = [c \in Checks |-> Unread]
  /\ remotes = [c \in Checks |-> <<>>]

-----------------------------------------------------------------------------
(* pmc and its output *)

Line(kind, clock) == [kind |-> kind, clock |-> clock]

\* The answer of a clock, which may be an error: a head alone.
Answers(c) ==
  {<<Line("head", c)>>, <<Line("head", c), Line("offset", c), Line("gm", Grandmaster)>>}

\* What pmc prints when none of a set of clocks answers, or one or two of them.
Blocks(clocks) == UNION {Answers(c) : c \in clocks}
Outputs(clocks) ==
  {<<>>} \cup Blocks(clocks)
    \cup {p[1] \o p[2] : p \in {q \in Blocks(clocks) \X Blocks(clocks) : q[1][1] # q[2][1]}}

\* A line with ".fffe." in it: every head, and every grandmaster's identity.
Mark(line) == line.kind \in {"head", "gm"}
HeadOf(line, clock) == line.kind = "head" /\ line.clock = clock

\* Slip: capturing is never switched off.
CapturedToTheEnd(lines, clock) ==
  {i \in DOMAIN lines : \E j \in 1 .. i : HeadOf(lines[j], clock)}

\* The lines captured for a clock: those from its head to the next mark.
Captured(lines, clock) ==
  {i \in DOMAIN lines : \E j \in 1 .. i :
     /\ HeadOf(lines[j], clock)
     /\ \A k \in j + 1 .. i : ~ Mark(lines[k])}

\* The first match of a field in the captured lines, or the zero value.
Field(lines, kept, kind) ==
  LET at == {i \in kept : lines[i].kind = kind} IN
  IF at = {} THEN NoClock ELSE lines[CHOOSE i \in at : \A j \in at : i <= j].clock

ParseTimeStatus(lines, kept) ==
  [clock |-> Field(lines, kept, "head"), offset |-> Field(lines, kept, "offset"),
   gm |-> Field(lines, kept, "gm")]

-----------------------------------------------------------------------------
(* The handler *)

\* Unimplemented when PTP is disabled.
GetPTPStatus(c, remote) ==
  /\ stage[c] = "idle"
  /\ stage' = [stage EXCEPT ![c] = IF PTPEnabled THEN "local" ELSE "replied"]
  /\ include' = [include EXCEPT ![c] = remote]
  /\ UNCHANGED <<local, remotes>>

\* What is left to do with n devices done.
After(c, n) == IF include[c] /\ n < Len(Devices) THEN "remote" ELSE "replied"

\* pmc for the local clock: an error ends the call, and no answer of ptp4l is a
\* status of zero values.
GetLocalTimeStatus(c) ==
  /\ stage[c] = "local"
  /\ \/ stage' = [stage EXCEPT ![c] = "replied"] /\ UNCHANGED local
     \/ /\ \E lines \in Outputs({LocalClock}) :
             local' = [local EXCEPT ![c] = ParseTimeStatus(lines, DOMAIN lines)]
        /\ stage' = [stage EXCEPT ![c] = After(c, 0)]
  /\ UNCHANGED <<include, remotes>>

Reported(c, entry) ==
  /\ remotes' = [remotes EXCEPT ![c] = Append(@, entry)]
  /\ stage' = [stage EXCEPT ![c] = After(c, Len(remotes[c]) + 1)]
  /\ UNCHANGED <<include, local>>

\* The device whose turn it is: ping, whose failure is ignored, the ARP table
\* and pmc, any of which may fail; nothing captured is an error as well.
GetRemoteTimeStatus(c) ==
  /\ stage[c] = "remote"
  /\ LET device == Devices[Len(remotes[c]) + 1]
         reached(yes, status) == [device |-> device, reachable |-> yes, status |-> status]
     IN
     \/ Reported(c, reached(FALSE, Nil))
     \/ \E lines \in Outputs(Clocks) :
          LET kept == Captured(lines, device) IN
          Reported(c, IF kept = {} THEN reached(FALSE, Nil)
                      ELSE reached(TRUE, ParseTimeStatus(lines, kept)))

Check(c) == GetLocalTimeStatus(c) \/ GetRemoteTimeStatus(c)

-----------------------------------------------------------------------------
(* Properties *)

PTPTypeOK ==
  /\ stage \in [Checks -> {"idle", "local", "remote", "replied"}]
  /\ include \in [Checks -> BOOLEAN] /\ local \in [Checks -> Status]
  /\ remotes \in [Checks -> Seq(Remote)]
  /\ \A c \in Checks : Len(remotes[c]) <= Len(Devices)

\* Whichever clocks answer in whichever order, and whatever fails, the entries
\* of a report are those of the configured devices, in their order; those that
\* were reached have a status, which is what their own clock has answered.  (Its grandmaster is
\* never said: the line that names it ends the capture.)
RemoteIsTheDevices ==
  \A c \in Checks : \A i \in DOMAIN remotes[c] :
    LET entry == remotes[c][i] IN
    /\ entry.device = Devices[i]
    /\ entry.reachable <=> entry.status # Nil
    /\ entry.reachable => /\ entry.status.clock = entry.device
                          /\ entry.status.offset \in {entry.device, NoClock}
                          /\ entry.status.gm = NoClock
=============================================================================
