-------------------------- MODULE DiskUsage_proofs --------------------------
(***************************************************************************)
(* Proofs about the module-manager's monitoring: the WaitGroup makes the   *)
(* unlocked read of the results map safe, only measured disks are          *)
(* answered, and those that were asked for, a validated configuration file *)
(* always has a primary disk, every answer fits the API, and PTP's are     *)
(* about the device that they name.                                        *)
(***************************************************************************)
EXTENDS ModuleManager, FiniteSetTheorems, TLAPS

\* A request that has not begun has no goroutines and no results.
NotBegun ==
  \A r \in Requests :
    pc[r] = "idle" =>
      usages[r] = {} /\ answer[r] = {} /\ \A d \in Disks : getter[r][d] = "none"

\* The only send of a probe is its last step.
SentIsGone ==
  \A r \in Requests, d \in Disks :
    /\ chan[r][d] # "empty" => probe[r][d] = "gone"
    /\ pc[r] = "idle" => chan[r][d] = "empty" /\ probe[r][d] = "none"

IInv == TypeOK /\ NotBegun /\ SentIsGone /\ NobodyWritesAfterReply

\* What LoadConfig returns is a list of disks.
LEMMA LoadConfigType ==
  ASSUME NEW f \in Files
  PROVE  LoadConfig(f) \in Seq(Disks)
<1>1. f.disks \in Seq(Disks)
  BY FilesAssumption
<1>2. <<Root>> \in Seq(Disks) /\ <<>> \in Seq(Disks)
  BY FilesAssumption
<1> QED
  BY <1>1, <1>2 DEF LoadConfig, Migrated, Defaults

\* The invariant holds at the start, whatever file was found.
THEOREM InitInv == Init => IInv
<1> SUFFICES ASSUME Init PROVE IInv
  OBVIOUS
<1>2. TypeOK
  BY DEF Init, TypeOK
<1>3. NotBegun /\ SentIsGone /\ NobodyWritesAfterReply
  BY DEF Init, NotBegun, SentIsGone, NobodyWritesAfterReply
<1> QED
  BY <1>2, <1>3 DEF IInv

\* A request that begins goroutines for configured disks keeps the invariant.
LEMMA BeginKeepsInv ==
  ASSUME IInv, NEW r \in Requests, NEW begun, begun \subseteq Names,
         NEW next \in {"list", "single"},
         pc[r] = "idle", pc' = [pc EXCEPT ![r] = next], Start(r, begun),
         UNCHANGED <<file, server, chan, usages, answer, health>>
  PROVE  IInv'
<1> USE DEF IInv
<1>1. Names' = Names
  BY DEF Names, config
<1>2. /\ getter' \in [Requests -> [Disks -> {"none", "select", "done"}]]
      /\ probe' \in [Requests -> [Disks -> {"none", "probing", "measured", "error", "gone"}]]
  BY DEF Start, TypeOK
<1>3. \A q \in Requests, d \in Disks : getter'[q][d] # "none" => d \in Names
  BY DEF Start, TypeOK
<1>4. TypeOK'
  BY <1>1, <1>2, <1>3 DEF TypeOK
<1>5. NotBegun' /\ SentIsGone'
  BY DEF Start, TypeOK, NotBegun, SentIsGone
<1>6. NobodyWritesAfterReply'
  BY DEF Start, TypeOK, NobodyWritesAfterReply
<1> QED
  BY <1>4, <1>5, <1>6

\* The configured disks, and the first of them, are disks.
LEMMA ConfiguredDisks ==
  ASSUME TypeOK
  PROVE  Names \subseteq Disks /\ (config # <<>> => config[1] \in Names)
<1>1. config \in Seq(Disks)
  BY LoadConfigType DEF TypeOK, config
<1>2. config # <<>> => 1 \in DOMAIN config
  BY <1>1
<1> QED
  BY <1>1, <1>2 DEF Names

\* Every step of a handler, a goroutine or a disk keeps the invariant.
THEOREM StepInv == IInv /\ [Next]_vars => IInv'
<1> SUFFICES ASSUME IInv, [Next]_vars PROVE IInv'
  OBVIOUS
<1>c. Names \subseteq Disks /\ (config # <<>> => config[1] \in Names)
  BY ConfiguredDisks DEF IInv
<1>1. ASSUME NEW r \in Requests, ListDisks(r) PROVE IInv'
  BY <1>1, BeginKeepsInv DEF ListDisks
<1>2. ASSUME NEW r \in Requests, GetDiskUsage(r) PROVE IInv'
  <2>1. {config[1]} \subseteq Names
    BY <1>2, <1>c DEF GetDiskUsage
  <2> QED
    BY <1>2, <2>1, BeginKeepsInv DEF GetDiskUsage
<1>3. ASSUME NEW r \in Requests, NEW d \in Disks, GetDisk(r, d) PROVE IInv'
  <2>1. CASE d \in Names
    BY <1>3, <2>1, BeginKeepsInv DEF GetDisk
  <2>2. CASE d \notin Names
    <3> USE <1>3, <2>2 DEF GetDisk
    <3>1. TypeOK'
      BY DEF IInv, TypeOK, Names, config
    <3>2. NotBegun' /\ SentIsGone'
      BY DEF IInv, TypeOK, NotBegun, SentIsGone
    <3>3. usages[r] = answer[r] /\ \A e \in Disks : getter[r][e] # "select"
      BY DEF IInv, NotBegun
    <3>4. NobodyWritesAfterReply'
      BY <3>3 DEF IInv, TypeOK, NobodyWritesAfterReply
    <3> QED
      BY <3>1, <3>2, <3>4 DEF IInv
  <2> QED
    BY <2>1, <2>2
<1>4. ASSUME NEW r \in Requests, Panic(r) PROVE IInv'
  BY <1>4 DEF Panic, IInv, TypeOK, Names, config, NotBegun, SentIsGone, NobodyWritesAfterReply
<1>5. ASSUME NEW r \in Requests, Reply(r) PROVE IInv'
  <2> USE <1>5 DEF Reply, Answer
  <2>1. TypeOK'
    BY DEF IInv, TypeOK, Names, config
  <2>2. NotBegun' /\ SentIsGone'
    BY DEF IInv, TypeOK, NotBegun, SentIsGone
  <2>3. NobodyWritesAfterReply'
    BY DEF IInv, TypeOK, NobodyWritesAfterReply
  <2> QED
    BY <2>1, <2>2, <2>3 DEF IInv
<1>6. ASSUME NEW r \in Requests, NEW d \in Disks, Measure(r, d) PROVE IInv'
  <2> USE <1>6 DEF Measure
  <2>1. TypeOK'
    BY DEF IInv, TypeOK, Names, config
  <2>2. NotBegun' /\ SentIsGone' /\ NobodyWritesAfterReply'
    BY DEF IInv, TypeOK, NotBegun, SentIsGone, NobodyWritesAfterReply
  <2> QED
    BY <2>1, <2>2 DEF IInv
<1>7. ASSUME NEW r \in Requests, NEW d \in Disks, Send(r, d) PROVE IInv'
  <2> USE <1>7 DEF Send
  <2>1. TypeOK'
    BY DEF IInv, TypeOK, Names, config
  <2>2. NotBegun' /\ SentIsGone' /\ NobodyWritesAfterReply'
    BY DEF IInv, TypeOK, NotBegun, SentIsGone, NobodyWritesAfterReply
  <2> QED
    BY <2>1, <2>2 DEF IInv
<1>8. ASSUME NEW r \in Requests, NEW d \in Disks, Receive(r, d) PROVE IInv'
  <2> USE <1>8 DEF Receive
  <2>1. TypeOK'
    BY DEF IInv, TypeOK, Names, config
  <2>2. pc[r] \in {"list", "single"}
    BY DEF IInv, TypeOK, NotBegun, NobodyWritesAfterReply
  <2>3. NotBegun' /\ SentIsGone'
    BY <2>2 DEF IInv, TypeOK, NotBegun, SentIsGone
  <2>4. NobodyWritesAfterReply'
    BY <2>2 DEF IInv, TypeOK, NobodyWritesAfterReply
  <2> QED
    BY <2>1, <2>3, <2>4 DEF IInv
<1>9. ASSUME NEW r \in Requests, NEW d \in Disks, Expire(r, d) PROVE IInv'
  <2> USE <1>9 DEF Expire
  <2>1. TypeOK'
    BY DEF IInv, TypeOK, Names, config
  <2>2. NotBegun' /\ SentIsGone' /\ NobodyWritesAfterReply'
    BY DEF IInv, TypeOK, NotBegun, SentIsGone, NobodyWritesAfterReply
  <2> QED
    BY <2>1, <2>2 DEF IInv
<1>10. ASSUME NEW d \in Disks, DiskChanges(d) PROVE IInv'
  BY <1>10 DEF DiskChanges, IInv, TypeOK, Names, config, NotBegun, SentIsGone, NobodyWritesAfterReply
<1>11. CASE UNCHANGED vars
  BY <1>11 DEF vars, IInv, TypeOK, Names, config, NotBegun, SentIsGone, NobodyWritesAfterReply
<1>12. ASSUME ProcessEnds PROVE IInv'
  BY <1>12 DEF ProcessEnds, IInv, TypeOK, Names, config, NotBegun, SentIsGone, NobodyWritesAfterReply
<1> QED
  BY <1>1, <1>2, <1>3, <1>4, <1>5, <1>6, <1>7, <1>8, <1>9, <1>10, <1>11, <1>12
     DEF Next, Call, Work, Getter

\* The invariant always holds.
THEOREM Invariance == Spec => []IInv
  BY InitInv, StepInv, PTL DEF Spec

\* TypeOK, with goroutines for configured disks only.
THEOREM TypeCorrect == Spec => []TypeOK
  BY Invariance, PTL DEF IInv

\* The results map is read, unlocked, when nobody writes to it any more.
THEOREM MapIsReadAlone == Spec => []NobodyWritesAfterReply
  BY Invariance, PTL DEF IInv

\* A goroutine that has its result finds the channel empty, whether or not somebody
\* still waits for it.
RoomForTheResult ==
  \A r \in Requests, d \in Disks : probe[r][d] \in {"measured", "error"} => chan[r][d] = "empty"

\* The goroutine behind a disk is never kept by its send: the buffer of one is
\* enough, also for a result that comes after its request has been answered.
THEOREM NoSendBlocks == Spec => []RoomForTheResult
<1>1. IInv => RoomForTheResult
  BY DEF IInv, SentIsGone, RoomForTheResult
<1> QED
  BY <1>1, Invariance, PTL

\* A step that adds a disk to the map has received its usage.
LEMMA MeasuredStep ==
  ASSUME IInv, [Next]_vars, NEW r \in Requests, NEW d \in Disks,
         d \in usages'[r] \ usages[r]
  PROVE  chan[r][d] = "measured" /\ probe[r][d] = "gone"
<1>1. PICK q \in Requests, e \in Disks : Receive(q, e)
  BY DEF Next, Call, Work, ProcessEnds, vars, ListDisks, GetDiskUsage, Panic, Reply, Answer,
     GetDisk, Measure, Send, Getter, Expire, DiskChanges
<1>2. q = r /\ e = d /\ chan[r][d] = "measured"
  BY <1>1 DEF Receive, IInv, TypeOK
<1> QED
  BY <1>1, <1>2 DEF Receive, IInv, SentIsGone

\* Every disk in an answer has been measured.
THEOREM MeasuredHolds == Spec => OnlyMeasured
<1>1. IInv /\ [Next]_vars =>
        [\A r \in Requests, d \in Disks :
           d \in usages'[r] \ usages[r] => chan[r][d] = "measured" /\ probe[r][d] = "gone"]_vars
  BY MeasuredStep
<1> QED
  BY Invariance, <1>1, PTL DEF Spec, OnlyMeasured

\* A module-manager that starts from a configuration file, which is validated,
\* never panics on its primary disk.
THEOREM PrimaryDisk == Spec => []ValidatedNeverPanics
<1> DEFINE Inv == (file.present => config # <<>>) /\ ValidatedNeverPanics
<1>1. Init => Inv
  <2>1. <<Root>> # <<>>
    OBVIOUS
  <2> QED
    BY <2>1 DEF Init, ValidatedNeverPanics, config, LoadConfig, Migrated
<1>2. Inv /\ [Next]_vars => Inv'
  BY DEF Next, Call, Work, ProcessEnds, vars, ValidatedNeverPanics, config, ListDisks,
     GetDiskUsage, Panic, Reply, Answer, GetDisk, Measure, Send, Getter, Receive, Expire,
     DiskChanges
<1> QED
  BY <1>1, <1>2, PTL DEF Spec

-----------------------------------------------------------------------------
(* PTP *)

Lines == [kind : {"head", "offset", "gm"}, clock : Clocks]

\* Every offset follows the head of its own clock.
WellFormed(lines) ==
  /\ lines \in Seq(Lines)
  /\ \A i \in DOMAIN lines : lines[i].kind = "offset" =>
       i - 1 \in DOMAIN lines /\ HeadOf(lines[i - 1], lines[i].clock)

\* A clock's answer is well formed.
LEMMA AnswersAreWellFormed ==
  ASSUME NEW c \in Clocks, NEW lines \in Answers(c) PROVE WellFormed(lines)
<1>1. <<Line("head", c)>> \in Seq(Lines)
  BY DEF Line, Lines
<1>2. <<Line("head", c), Line("offset", c), Line("gm", Grandmaster)>> \in Seq(Lines)
  BY ClocksAssumption DEF Line, Lines
<1>3. CASE lines = <<Line("head", c)>>
  BY <1>1, <1>3 DEF WellFormed, Line
<1>4. CASE lines = <<Line("head", c), Line("offset", c), Line("gm", Grandmaster)>>
  BY <1>2, <1>4 DEF WellFormed, Line, HeadOf
<1> QED
  BY <1>3, <1>4 DEF Answers

\* So is one answer after another.
LEMMA ConcatenationIsWellFormed ==
  ASSUME NEW x, NEW y, WellFormed(x), WellFormed(y) PROVE WellFormed(x \o y)
<1> DEFINE z == x \o y
<1>1. x \in Seq(Lines) /\ y \in Seq(Lines) /\ z \in Seq(Lines)
  BY DEF WellFormed
<1>2. /\ Len(z) = Len(x) + Len(y)
      /\ \A i \in 1 .. Len(x) : z[i] = x[i]
      /\ \A i \in 1 .. Len(y) : z[Len(x) + i] = y[i]
  BY <1>1
<1>3. ASSUME NEW i \in DOMAIN z, z[i].kind = "offset"
      PROVE  i - 1 \in DOMAIN z /\ HeadOf(z[i - 1], z[i].clock)
  <2>1. CASE i \in 1 .. Len(x)
    <3>1. i - 1 \in DOMAIN x /\ HeadOf(x[i - 1], x[i].clock)
      BY <1>1, <1>2, <1>3, <2>1 DEF WellFormed
    <3> QED
      BY <1>1, <1>2, <2>1, <3>1
  <2>2. CASE i \notin 1 .. Len(x)
    <3> DEFINE k == i - Len(x)
    <3>1. k \in 1 .. Len(y) /\ z[i] = y[k]
      BY <1>1, <1>2, <2>2
    <3>2. k - 1 \in DOMAIN y /\ HeadOf(y[k - 1], y[k].clock)
      BY <1>1, <1>3, <3>1 DEF WellFormed
    <3>3. i - 1 \in DOMAIN z /\ z[i - 1] = y[k - 1]
      BY <1>1, <1>2, <3>1, <3>2
    <3> QED
      BY <3>1, <3>2, <3>3
  <2> QED
    BY <2>1, <2>2
<1> QED
  BY <1>1, <1>3 DEF WellFormed

\* And all that pmc prints.
LEMMA OutputsAreWellFormed ==
  ASSUME NEW lines \in Outputs(Clocks) PROVE WellFormed(lines)
<1>1. CASE lines = <<>>
  BY <1>1 DEF WellFormed
<1>2. ASSUME NEW c \in Clocks, lines \in Answers(c) PROVE WellFormed(lines)
  BY <1>2, AnswersAreWellFormed
<1>3. ASSUME NEW c \in Clocks, NEW d \in Clocks, NEW x \in Answers(c), NEW y \in Answers(d),
             lines = x \o y
      PROVE  WellFormed(lines)
  BY <1>3, AnswersAreWellFormed, ConcatenationIsWellFormed
<1>4. CASE lines \in Blocks(Clocks)
  BY <1>2, <1>4 DEF Blocks
<1>5. ASSUME NEW p \in Blocks(Clocks) \X Blocks(Clocks), lines = p[1] \o p[2]
      PROVE  WellFormed(lines)
  BY <1>3, <1>5 DEF Blocks
<1> QED
  BY <1>1, <1>4, <1>5 DEF Outputs

\* The least number principle, without an operator parameter.
LEMMA SmallestNumber ==
  ASSUME NEW S, S \subseteq Nat, S # {} PROVE \E i \in S : \A j \in S : i <= j
<1>1. \E x \in S : \A y \in S : <<y, x>> \notin OpToRel(<, Nat)
  BY NatLessThanWellFounded, WFMin
<1>2. \A x, y \in Nat : y < x => <<y, x>> \in OpToRel(<, Nat)
  BY DEF OpToRel
<1>3. \A x, y \in Nat : ~ y < x => x <= y
  OBVIOUS
<1> QED
  BY <1>1, <1>2, <1>3

\* What is captured for a clock is that clock's.
LEMMA CapturedIsItsOwn ==
  ASSUME NEW lines, WellFormed(lines), NEW device \in Clocks,
         NEW kept, kept = Captured(lines, device), kept # {}
  PROVE  LET status == ParseTimeStatus(lines, kept) IN
         /\ status \in Status
         /\ status.clock = device /\ status.offset \in {device, NoClock}
         /\ status.gm = NoClock
<1> DEFINE n == Len(lines)
<1>0. lines \in Seq(Lines) /\ n \in Nat /\ DOMAIN lines = 1 .. n
  BY DEF WellFormed
<1>1. ASSUME NEW i \in kept
      PROVE  /\ i \in 1 .. n
             /\ \E j \in 1 .. i : HeadOf(lines[j], device) /\ \A k \in j + 1 .. i : ~ Mark(lines[k])
  BY <1>0 DEF Captured
<1>2. ASSUME NEW i \in kept, Mark(lines[i]) PROVE HeadOf(lines[i], device)
  BY <1>0, <1>1, <1>2
<1>3. ASSUME NEW i \in kept, lines[i].kind = "offset" PROVE lines[i].clock = device
  <2>1. PICK j \in 1 .. i : HeadOf(lines[j], device) /\ \A k \in j + 1 .. i : ~ Mark(lines[k])
    BY <1>1
  <2>2. i - 1 \in 1 .. n /\ HeadOf(lines[i - 1], lines[i].clock)
    BY <1>0, <1>1, <1>3 DEF WellFormed
  <2>3. j # i
    BY <1>3, <2>1 DEF HeadOf
  <2>4. i - 1 = j
    BY <1>0, <1>1, <2>1, <2>2, <2>3 DEF Mark, HeadOf
  <2> QED
    BY <2>1, <2>2, <2>4 DEF HeadOf
<1>4. \E i \in kept : lines[i].kind = "head"
  <2>1. PICK i \in kept : TRUE
    OBVIOUS
  <2>2. PICK j \in 1 .. i : HeadOf(lines[j], device) /\ \A k \in j + 1 .. i : ~ Mark(lines[k])
    BY <1>1
  <2>3. j \in kept
    BY <1>0, <1>1, <2>2 DEF Captured
  <2> QED
    BY <2>2, <2>3 DEF HeadOf
<1>5. ASSUME NEW kind \in {"head", "offset", "gm"}, NEW at, at = {i \in kept : lines[i].kind = kind},
             at # {}
      PROVE  (CHOOSE i \in at : \A j \in at : i <= j) \in at
  <2>1. at \subseteq Nat
    BY <1>0, <1>1, <1>5
  <2>2. \E i \in at : \A j \in at : i <= j
    BY <1>5, <2>1, SmallestNumber
  <2> QED
    BY <2>2
<1>6. Field(lines, kept, "head") = device
  BY <1>2, <1>4, <1>5 DEF Field, Mark, HeadOf
<1>7. Field(lines, kept, "offset") \in {device, NoClock}
  BY <1>3, <1>5 DEF Field
<1>8. Field(lines, kept, "gm") = NoClock
  <2>1. {i \in kept : lines[i].kind = "gm"} = {}
    BY <1>2 DEF Mark, HeadOf
  <2> QED
    BY <2>1 DEF Field
<1> QED
  BY <1>6, <1>7, <1>8 DEF ParseTimeStatus, Status

\* What an entry of a report says is its own device's.
Own(entry) ==
  /\ entry.reachable <=> entry.status # Nil
  /\ entry.reachable => /\ entry.status.clock = entry.device
                        /\ entry.status.offset \in {entry.device, NoClock}
                        /\ entry.status.gm = NoClock

\* The entries of a report so far, and what is still to come.
PTPInv ==
  /\ PTPTypeOK /\ RemoteIsTheDevices
  /\ \A c \in Checks :
       /\ stage[c] = "remote" => Len(remotes[c]) < Len(Devices)
       /\ stage[c] \in {"idle", "local"} => remotes[c] = <<>>

\* A step of PTPChecker, whoever takes it.
PTPNext ==
  \E c \in Checks : Check(c) \/ \E remote \in BOOLEAN : GetPTPStatus(c, remote)

\* One more entry, which is the next device's.
LEMMA ReportedStep ==
  ASSUME PTPInv, NEW c \in Checks, stage[c] = "remote",
         NEW entry \in Remote, Reported(c, entry),
         entry.device = Devices[Len(remotes[c]) + 1], Own(entry)
  PROVE  PTPInv'
<1> DEFINE n == Len(remotes[c])
<1>0. n \in Nat /\ Len(Devices) \in Nat /\ n < Len(Devices) /\ remotes[c] \in Seq(Remote)
  BY ClocksAssumption DEF PTPInv, PTPTypeOK
<1>1. Append(remotes[c], entry) \in Seq(Remote) /\ Len(Append(remotes[c], entry)) = n + 1
  BY <1>0
<1>2. /\ remotes' \in [Checks -> Seq(Remote)]
      /\ remotes'[c] = Append(remotes[c], entry)
      /\ \A d \in Checks \ {c} : remotes'[d] = remotes[d]
  <2> DEFINE new == Append(remotes[c], entry)
  <2>1. remotes' = [remotes EXCEPT ![c] = new]
    BY DEF Reported
  <2>2. new \in Seq(Remote)
    BY <1>1
  <2>3. remotes \in [Checks -> Seq(Remote)]
    BY DEF PTPInv, PTPTypeOK
  <2> HIDE DEF new
  <2>4. /\ remotes' \in [Checks -> Seq(Remote)] /\ remotes'[c] = new
        /\ \A d \in Checks \ {c} : remotes'[d] = remotes[d]
    BY <2>1, <2>2, <2>3
  <2> QED
    BY <2>4 DEF new
<1>3. stage' = [stage EXCEPT ![c] = After(c, n + 1)]
  BY DEF Reported
<1>4. stage' \in [Checks -> {"idle", "local", "remote", "replied"}]
  BY <1>3 DEF After, PTPInv, PTPTypeOK
<1>5. \A d \in Checks : Len(remotes'[d]) <= Len(Devices)
  BY <1>0, <1>1, <1>2 DEF PTPInv, PTPTypeOK
<1>6. PTPTypeOK'
  BY <1>2, <1>4, <1>5 DEF Reported, PTPInv, PTPTypeOK
<1>7. \A d \in Checks :
        /\ stage'[d] = "remote" => Len(remotes'[d]) < Len(Devices)
        /\ stage'[d] \in {"idle", "local"} => remotes'[d] = <<>>
  BY <1>0, <1>1, <1>2, <1>3 DEF After, PTPInv, PTPTypeOK
<1>8. ASSUME NEW d \in Checks, NEW i \in DOMAIN remotes'[d]
      PROVE  remotes'[d][i].device = Devices[i] /\ Own(remotes'[d][i])
  <2>1. CASE d # c
    BY <1>2, <1>8, <2>1 DEF PTPInv, RemoteIsTheDevices, Own
  <2>2. CASE d = c /\ i = n + 1
    BY <1>0, <1>2, <2>2
  <2>3. CASE d = c /\ i # n + 1
    <3>1. i \in DOMAIN remotes[c] /\ remotes'[c][i] = remotes[c][i]
      BY <1>0, <1>1, <1>2, <1>8, <2>3
    <3> QED
      BY <2>3, <3>1 DEF PTPInv, RemoteIsTheDevices, Own
  <2> QED
    BY <2>1, <2>2, <2>3
<1>9. RemoteIsTheDevices'
  BY <1>8 DEF RemoteIsTheDevices, Own
<1> QED
  BY <1>6, <1>7, <1>9 DEF PTPInv

\* A status that is read has its type.
LEMMA StatusType ==
  ASSUME NEW lines \in Seq(Lines), NEW kept, kept \subseteq DOMAIN lines
  PROVE  ParseTimeStatus(lines, kept) \in Status
<1>1. ASSUME NEW kind PROVE Field(lines, kept, kind) \in Clocks \cup {NoClock}
  <2> DEFINE at == {i \in kept : lines[i].kind = kind}
  <2>1. CASE at = {}
    BY <2>1 DEF Field
  <2>2. CASE at # {}
    <3>1. at \subseteq Nat /\ at \subseteq DOMAIN lines
      OBVIOUS
    <3>2. (CHOOSE i \in at : \A j \in at : i <= j) \in at
      BY <2>2, <3>1, SmallestNumber
    <3>3. lines[CHOOSE i \in at : \A j \in at : i <= j].clock \in Clocks
      <4>1. ASSUME NEW k \in DOMAIN lines PROVE lines[k].clock \in Clocks
        <5>1. lines[k] \in Lines
          OBVIOUS
        <5> QED
          BY <5>1 DEF Lines
      <4> QED
        BY <3>1, <3>2, <4>1
    <3>4. Field(lines, kept, kind) = lines[CHOOSE i \in at : \A j \in at : i <= j].clock
      BY <2>2 DEF Field
    <3> QED
      BY <3>3, <3>4
  <2> QED
    BY <2>1, <2>2
<1> QED
  BY <1>1 DEF ParseTimeStatus, Status

\* Every step of a check keeps its invariant.
LEMMA PTPStepInv == PTPInv /\ [PTPNext]_ptpVars => PTPInv'
<1> SUFFICES ASSUME PTPInv, [PTPNext]_ptpVars PROVE PTPInv'
  OBVIOUS
<1>0. Len(Devices) \in Nat /\ \A c \in Checks : remotes[c] \in Seq(Remote)
  BY ClocksAssumption DEF PTPInv, PTPTypeOK
<1>1. CASE UNCHANGED ptpVars
  BY <1>1 DEF ptpVars, PTPInv, PTPTypeOK, RemoteIsTheDevices
<1>2. ASSUME NEW c \in Checks, NEW remote \in BOOLEAN, GetPTPStatus(c, remote) PROVE PTPInv'
  BY <1>2 DEF GetPTPStatus, PTPInv, PTPTypeOK, RemoteIsTheDevices
<1>3. ASSUME NEW c \in Checks, GetLocalTimeStatus(c) PROVE PTPInv'
  <2>1. local' \in [Checks -> Status]
    <3>1. ASSUME NEW lines \in Outputs({LocalClock}) PROVE ParseTimeStatus(lines, DOMAIN lines) \in Status
      <4>1. lines \in Outputs(Clocks)
        BY ClocksAssumption DEF Outputs, Blocks
      <4> QED
        BY <4>1, OutputsAreWellFormed, StatusType DEF WellFormed
    <3> QED
      BY <1>3, <3>1 DEF GetLocalTimeStatus, PTPInv, PTPTypeOK
  <2>2. Len(remotes[c]) = 0
    BY <1>3 DEF GetLocalTimeStatus, PTPInv
  <2> QED
    BY <1>3, <2>1, <2>2 DEF GetLocalTimeStatus, After, PTPInv, PTPTypeOK, RemoteIsTheDevices
<1>4. ASSUME NEW c \in Checks, GetRemoteTimeStatus(c) PROVE PTPInv'
  <2> DEFINE device == Devices[Len(remotes[c]) + 1]
             reached(yes, status) == [device |-> device, reachable |-> yes, status |-> status]
  <2>1. stage[c] = "remote" /\ device \in Clocks
    BY <1>0, <1>4, ClocksAssumption DEF GetRemoteTimeStatus, PTPInv
  <2>2. reached(FALSE, Nil) \in Remote /\ Own(reached(FALSE, Nil))
    BY <2>1 DEF Remote, Own
  <2>3. ASSUME NEW lines \in Outputs(Clocks), NEW kept, kept = Captured(lines, device),
               kept # {}
        PROVE  LET status == ParseTimeStatus(lines, kept) IN
               reached(TRUE, status) \in Remote /\ Own(reached(TRUE, status))
    <3>1. ParseTimeStatus(lines, kept) \in Status /\ Nil \notin Status
      BY <2>1, <2>3, OutputsAreWellFormed, CapturedIsItsOwn, ClocksAssumption DEF Status
    <3> QED
      BY <2>1, <2>3, <3>1, OutputsAreWellFormed, CapturedIsItsOwn DEF Remote, Own
  <2>4. CASE Reported(c, reached(FALSE, Nil))
    BY <2>1, <2>2, <2>4, ReportedStep
  <2>5. ASSUME NEW lines \in Outputs(Clocks), NEW kept, kept = Captured(lines, device),
               kept # {}, Reported(c, reached(TRUE, ParseTimeStatus(lines, kept)))
        PROVE  PTPInv'
    BY <2>1, <2>3, <2>5, ReportedStep
  <2> QED
    BY <1>4, <2>4, <2>5 DEF GetRemoteTimeStatus
<1> QED
  BY <1>1, <1>2, <1>3, <1>4 DEF PTPNext, Check

\* No check has begun.
LEMMA PTPInitInv == PTPInit => PTPInv
<1> SUFFICES ASSUME PTPInit PROVE PTPInv
  OBVIOUS
<1>1. <<>> \in Seq(Remote) /\ Len(<<>>) = 0 /\ DOMAIN <<>> = {}
  OBVIOUS
<1>2. Unread \in Status
  BY DEF Unread, Status
<1>3. Len(Devices) \in Nat
  BY ClocksAssumption
<1>4. remotes \in [Checks -> Seq(Remote)] /\ \A c \in Checks : remotes[c] = <<>>
  BY <1>1 DEF PTPInit
<1>5. PTPTypeOK
  BY <1>1, <1>2, <1>3, <1>4 DEF PTPInit, PTPTypeOK
<1>6. RemoteIsTheDevices
  BY <1>1, <1>4 DEF RemoteIsTheDevices
<1> QED
  BY <1>4, <1>5, <1>6 DEF PTPInit, PTPInv

-----------------------------------------------------------------------------
(* The process *)

\* Every step of the process is one of the disk calls, or none of theirs.
LEMMA StepIsDisks == [ManagerNext]_managerVars => [Next]_vars
<1>1. ASSUME Accept PROVE [Next]_vars
  <2>1. ASSUME NEW r \in Requests, NEW call \in DiskCalls, Handle(r, call) PROVE Call(r)
    <3>1. call.method = "GetDisk" => call.request.name \in Disks
      BY DEF DiskCalls, Api!Call, Api!GetDiskRequest
    <3> QED
      BY <2>1, <3>1 DEF Handle, Call
  <2> QED
    BY <1>1, <2>1 DEF Accept, Next
<1> QED
  BY <1>1 DEF ManagerNext, managerVars, Signal, GracefulStop, DiskStep, PTPStep, Next

\* And one of the checks, or none of theirs.
LEMMA StepIsPTP == [ManagerNext]_managerVars => [PTPNext]_ptpVars
BY DEF ManagerNext, managerVars, Signal, GracefulStop, Accept, Handle, DiskStep, PTPStep,
       PTPNext

\* The process serves its calls for disks as DiskUsage has them: what is proved
\* of them holds in it.
THEOREM UsesDisks == ManagerSpec => Spec
<1>1. ManagerInit => Init
  BY DEF ManagerInit
<1> QED
  BY <1>1, StepIsDisks, PTL DEF ManagerSpec, Spec

\* What a report of the PTP status says of a remote device is what that
\* device's own clock has answered, in every process.
THEOREM RemotesAreTheirOwn == ManagerSpec => []RemoteIsTheDevices
<1>1. ManagerInit => PTPInv
  BY PTPInitInv DEF ManagerInit
<1>2. PTPInv => RemoteIsTheDevices
  BY DEF PTPInv
<1> QED
  BY <1>1, <1>2, PTPStepInv, StepIsPTP, PTL DEF ManagerSpec

\* The process ends when its calls are served, and not before, unless it
\* crashes.
THEOREM ManagerTypeCorrect == ManagerSpec => []ManagerTypeOK
<1>1. ManagerInit => ManagerTypeOK
  BY DEF ManagerInit, Init, PTPInit, ManagerTypeOK, Served
<1>2. ManagerTypeOK /\ [ManagerNext]_managerVars => ManagerTypeOK'
  <2> SUFFICES ASSUME ManagerTypeOK, [ManagerNext]_managerVars PROVE ManagerTypeOK'
    OBVIOUS
  <2>1. CASE Signal
    BY <2>1 DEF Signal, ManagerTypeOK, Served, vars, ptpVars
  <2>2. CASE GracefulStop
    BY <2>2 DEF GracefulStop, ProcessEnds, ManagerTypeOK, Served, ptpVars
  <2>3. ASSUME NEW r \in Requests, NEW call, Handle(r, call), UNCHANGED main, main = "serving"
        PROVE  ManagerTypeOK'
    BY <2>3 DEF Handle, ListDisks, GetDiskUsage, GetDisk, Panic, ManagerTypeOK, Served, ptpVars
  <2>4. ASSUME NEW c \in Checks, NEW remote \in BOOLEAN, server = "up",
               GetPTPStatus(c, remote), UNCHANGED <<vars, asked, main>>
        PROVE  ManagerTypeOK'
    BY <2>4 DEF ManagerTypeOK, vars
  <2>5. ASSUME NEW r \in Requests, DiskStep(r) PROVE ManagerTypeOK'
    <3>1. server = "up" /\ server' = "up" /\ main' = main
      BY <2>5 DEF DiskStep, Work, Reply, Answer, Measure, Send, Getter, Receive, Expire
    <3> QED
      BY <3>1 DEF ManagerTypeOK
  <2>6. ASSUME NEW c \in Checks, PTPStep(c) PROVE ManagerTypeOK'
    BY <2>6 DEF PTPStep, ManagerTypeOK, vars
  <2>7. ASSUME NEW d \in Disks, DiskChanges(d), UNCHANGED <<ptpVars, asked, main>>
        PROVE  ManagerTypeOK'
    BY <2>7 DEF DiskChanges, ManagerTypeOK, Served, ptpVars
  <2>8. CASE UNCHANGED managerVars
    BY <2>8 DEF managerVars, vars, ptpVars, ManagerTypeOK, Served
  <2> QED
    BY <2>1, <2>2, <2>3, <2>4, <2>5, <2>6, <2>7, <2>8 DEF ManagerNext, Accept
<1> QED
  BY <1>1, <1>2, PTL DEF ManagerSpec

\* A report has a local status, which ptp4l may have left empty, and a status
\* for exactly the devices that it says were reached.
THEOREM ReportsHold == ManagerSpec => []ReportsFitTheApi
<1>1. ManagerInit => PTPInv
  BY PTPInitInv DEF ManagerInit
<1>2. PTPInv => ReportsFitTheApi
  <2> SUFFICES ASSUME PTPInv, NEW c \in Checks
               PROVE  PTPAnswer(c) \in Api!Answer
    BY DEF ReportsFitTheApi
  <2>1. Status = Api!PTPStatus /\ Remote = Api!RemotePTPStatus
    BY DEF Status, Remote, Api!PTPStatus, Api!RemotePTPStatus
  <2>2. local[c] \in Api!PTPStatus /\ remotes[c] \in Seq(Api!RemotePTPStatus)
    BY <2>1 DEF PTPInv, PTPTypeOK
  <2>3. [local |-> local[c], remotes |-> remotes[c]] \in Api!GetPTPStatusResponse
    BY <2>2 DEF Api!GetPTPStatusResponse
  <2> QED
    BY <2>3 DEF PTPAnswer, Api!Answer
<1> QED
  BY <1>1, <1>2, PTPStepInv, StepIsPTP, PTL DEF ManagerSpec
-----------------------------------------------------------------------------
(* What is answered *)

\* The disks that a call is about.
Wanted(call) ==
  CASE call.method = "ListDisks" -> Names
    [] call.method = "GetDisk" -> {call.request.name}
    [] OTHER -> {config[1]}

\* A request that has begun knows its call, and asks for, finds and answers with the
\* disks of this call alone.
AskedOf(r) ==
  pc[r] # "idle" =>
    /\ asked[r] \in DiskCalls
    /\ \A d \in Disks : getter[r][d] # "none" => d \in Wanted(asked[r])
    /\ usages[r] \subseteq Wanted(asked[r]) /\ answer[r] \subseteq Wanted(asked[r])

AskedInv == asked \in [Requests -> DiskCalls \cup {Nil}] /\ \A r \in Requests : AskedOf(r)

\* A call that begins is about its own disks.
LEMMA HandleAsks ==
  ASSUME IInv, AskedInv, NEW r \in Requests, NEW call \in DiskCalls, Handle(r, call)
  PROVE  AskedInv'
<1>t. /\ pc \in [Requests -> {"idle", "list", "single", "replied"}]
      /\ getter \in [Requests -> [Disks -> {"none", "select", "done"}]]
      /\ asked' = [asked EXCEPT ![r] = call] /\ asked \in [Requests -> DiskCalls \cup {Nil}]
  BY DEF IInv, TypeOK, AskedInv, Handle
<1>i. pc[r] = "idle" /\ file' = file /\ usages' = usages /\ answer' = answer
  BY DEF Handle, ListDisks, GetDisk, GetDiskUsage, Panic
<1>n. /\ usages[r] = {} /\ answer[r] = {}
      /\ \A d \in Disks : getter[r][d] = "none"
  BY <1>i DEF IInv, NotBegun
<1>w. \A c : Wanted(c)' = Wanted(c)
  BY <1>i DEF Wanted, Names, config
<1>1. ASSUME NEW q \in Requests, q # r PROVE AskedOf(q)'
  <2>1. pc'[q] = pc[q] /\ asked'[q] = asked[q] /\ getter'[q] = getter[q]
    BY <1>t, <1>1 DEF Handle, ListDisks, GetDisk, GetDiskUsage, Panic, Start
  <2>2. Wanted(asked[q])' = Wanted(asked[q])
    BY <1>t, <1>w, <1>1, <2>1 DEF Wanted, Names, config
  <2> QED
    BY <1>i, <2>1, <2>2 DEF AskedInv, AskedOf
<1>2. \A d \in Disks : getter'[r][d] # "none" => d \in Wanted(call)
  <2>1. ASSUME NEW begun, Start(r, begun), begun \subseteq Wanted(call)
        PROVE  \A d \in Disks : getter'[r][d] # "none" => d \in Wanted(call)
    BY <1>t, <2>1 DEF Start
  <2>2. CASE call.method = "ListDisks" /\ ListDisks(r)
    BY <2>1, <2>2 DEF ListDisks, Wanted
  <2>3. CASE call.method = "GetDisk" /\ GetDisk(r, call.request.name)
    <3>1. Wanted(call) = {call.request.name}
      BY <2>3 DEF Wanted
    <3> QED
      BY <1>n, <2>1, <2>3, <3>1 DEF GetDisk
  <2>4. CASE call.method = "GetDiskUsage" /\ GetDiskUsage(r)
    <3>1. Wanted(call) = {config[1]}
      BY <2>4 DEF Wanted
    <3> QED
      BY <2>1, <2>4, <3>1 DEF GetDiskUsage
  <2>5. CASE Panic(r)
    BY <1>n, <2>5 DEF Panic
  <2> QED
    BY <2>2, <2>3, <2>4, <2>5 DEF Handle
<1>3. AskedOf(r)'
  <2>1. asked'[r] = call
    BY <1>t
  <2>2. Wanted(asked[r])' = Wanted(call)
    BY <1>i, <2>1 DEF Wanted, Names, config
  <2> QED
    BY <1>i, <1>n, <1>2, <2>1, <2>2 DEF AskedOf
<1>4. asked' \in [Requests -> DiskCalls \cup {Nil}]
  BY <1>t
<1> QED
  BY <1>1, <1>3, <1>4 DEF AskedInv

\* Its goroutines find no other disk, and its answer has what they found.
LEMMA WorkAsks ==
  ASSUME IInv, AskedInv, NEW r \in Requests, Work(r), asked' = asked
  PROVE  AskedInv'
<1>t. /\ pc \in [Requests -> {"idle", "list", "single", "replied"}]
      /\ getter \in [Requests -> [Disks -> {"none", "select", "done"}]]
      /\ usages \in [Requests -> SUBSET Disks] /\ answer \in [Requests -> SUBSET Disks]
  BY DEF IInv, TypeOK
<1>f. file' = file
  BY DEF Work, Reply, Answer, Measure, Send, Getter, Receive, Expire
<1>w. \A q \in Requests : Wanted(asked[q])' = Wanted(asked[q])
  BY <1>f DEF Wanted, Names, config
<1> SUFFICES ASSUME NEW q \in Requests, pc'[q] # "idle"
             PROVE  /\ asked[q] \in DiskCalls
                    /\ \A d \in Disks : getter'[q][d] # "none" => d \in Wanted(asked[q])
                    /\ usages'[q] \subseteq Wanted(asked[q]) /\ answer'[q] \subseteq Wanted(asked[q])
  BY <1>w DEF AskedInv, AskedOf
<1>o. pc[q] # "idle" =>
        /\ asked[q] \in DiskCalls
        /\ \A d \in Disks : getter[q][d] # "none" => d \in Wanted(asked[q])
        /\ usages[q] \subseteq Wanted(asked[q]) /\ answer[q] \subseteq Wanted(asked[q])
  BY DEF AskedInv, AskedOf
<1>1. CASE Reply(r)
  <2>1. pc[r] # "idle" /\ pc' = [pc EXCEPT ![r] = "replied"] /\ getter' = getter
        /\ usages' = usages /\ answer' = [answer EXCEPT ![r] = usages[r]]
    BY <1>1 DEF Reply, Answer
  <2>2. pc[q] # "idle"
    BY <1>t, <2>1
  <2>3. answer'[q] \in {answer[q], usages[q]}
    BY <1>t, <2>1
  <2> QED
    BY <1>o, <2>1, <2>2, <2>3
<1>2. CASE \E d \in Disks : Measure(r, d) \/ Send(r, d)
  <2>1. pc' = pc /\ getter' = getter /\ usages' = usages /\ answer' = answer
    BY <1>2 DEF Measure, Send
  <2> QED
    BY <1>o, <2>1
<1>3. CASE \E d \in Disks : Getter(r, d)
  <2> PICK d \in Disks : Getter(r, d)
    BY <1>3
  <2>1. pc' = pc /\ answer' = answer /\ getter[r][d] = "select"
        /\ getter' = [getter EXCEPT ![r][d] = "done"]
    BY DEF Getter, Receive, Expire
  <2>2. usages' = [usages EXCEPT ![r] = @ \cup {d}] \/ usages' = usages
    BY <1>t DEF Getter, Receive, Expire
  <2>3. \A e \in Disks : getter'[q][e] # "none" => getter[q][e] # "none"
    BY <1>t, <2>1
  <2>4. usages'[q] = usages[q] \/ (q = r /\ usages'[q] = usages[q] \cup {d})
    BY <1>t, <2>2
  <2> QED
    BY <1>o, <2>1, <2>3, <2>4
<1> QED
  BY <1>1, <1>2, <1>3 DEF Work

\* Every step of the process keeps this.
LEMMA AskedStep == IInv /\ AskedInv /\ [ManagerNext]_managerVars => AskedInv'
<1> SUFFICES ASSUME IInv, AskedInv, [ManagerNext]_managerVars PROVE AskedInv'
  OBVIOUS
<1>1. CASE \E r \in Requests, call \in DiskCalls : Handle(r, call)
  BY <1>1, HandleAsks
<1>2. CASE \E r \in Requests : DiskStep(r)
  BY <1>2, WorkAsks DEF DiskStep
<1>3. CASE UNCHANGED <<file, pc, getter, usages, answer, asked>>
  <2>1. \A r \in Requests : Wanted(asked[r])' = Wanted(asked[r])
    BY <1>3 DEF Wanted, Names, config
  <2> QED
    BY <1>3, <2>1 DEF AskedInv, AskedOf
<1> QED
  BY <1>1, <1>2, <1>3
  DEF ManagerNext, managerVars, vars, Signal, GracefulStop, ProcessEnds, Accept, PTPStep,
      DiskChanges

\* A request is answered with disks that its own call is about, one at most unless it
\* asks for all, whichever requests and goroutines run at once.
THEOREM AnswersAreAsked == ManagerSpec => []AskedInv
<1>1. ManagerInit => AskedInv
  BY DEF ManagerInit, Init, AskedInv, AskedOf
<1> QED
  BY <1>1, AskedStep, UsesDisks, Invariance, PTL DEF ManagerSpec

-----------------------------------------------------------------------------
(* The messages about disks *)

\* Positions of a sequence are finitely many.
LEMMA FinitelyMany ==
  ASSUME NEW n \in Nat, NEW L \in SUBSET (1 .. n)
  PROVE  IsFiniteSet(L) /\ Cardinality(L) \in Nat
<1>1. IsFiniteSet(1 .. n)
  BY FS_Interval, 1 \in Int, n \in Int
<1>2. IsFiniteSet(L)
  BY <1>1, FS_Subset
<1> QED
  BY <1>2, FS_CardinalityType

\* The members of a set of positions can be counted off.
LEMMA KthExists ==
  ASSUME NEW n \in Nat, NEW L \in SUBSET (1 .. n), NEW k \in 1 .. Cardinality(L)
  PROVE  \E i \in L : Cardinality({j \in L : j <= i}) = k
<1> DEFINE Upto(i) == {j \in L : j <= i}
           count(i) == Cardinality(Upto(i))
           S == {i \in Nat : count(i) >= k}
<1>1. Cardinality(L) \in Nat /\ k \in Nat /\ 1 <= k /\ k <= Cardinality(L)
  <2>1. Cardinality(L) \in Nat
    BY FinitelyMany
  <2> QED
    BY <2>1
<1>2. \A i : Upto(i) \in SUBSET (1 .. n)
  OBVIOUS
<1>3. \A i : IsFiniteSet(Upto(i)) /\ count(i) \in Nat
  <2> TAKE i
  <2> HIDE DEF Upto
  <2> QED
    BY <1>2, FinitelyMany
<1>4. n \in S
  <2>1. \A j \in L : j <= n
    OBVIOUS
  <2>2. Upto(n) = L
    BY <2>1
  <2> HIDE DEF Upto
  <2> QED
    BY <1>1, <2>2
<1>5. PICK i \in S : \A j \in S : i <= j
  <2>1. S \in SUBSET Nat /\ S # {}
    BY <1>4
  <2> HIDE DEF S
  <2> QED
    BY <2>1, SmallestNumber
<1>6. i \in Nat /\ count(i) >= k
  BY <1>5
<1>7. i # 0
  <2>1. Upto(0) = {}
    <3>1. \A j \in L : ~ (j <= 0)
      OBVIOUS
    <3> QED
      BY <3>1, Zenon
  <2> HIDE DEF Upto
  <2>2. count(0) = 0
    BY <2>1, FS_EmptySet
  <2> HIDE DEF count
  <2> QED
    BY <1>1, <1>6, <2>2
<1>8. i - 1 \in Nat /\ count(i - 1) < k
  <2>1. i - 1 \in Nat
    BY <1>6, <1>7
  <2>2. i - 1 \notin S
    <3> HIDE DEF S
    <3> QED
      BY <1>5, <1>6, <2>1
  <2>3. ~ (count(i - 1) >= k)
    <3> HIDE DEF count
    <3> QED
      BY <2>1, <2>2
  <2> HIDE DEF count, Upto
  <2>4. count(i - 1) \in Nat
    BY <1>3
  <2> QED
    BY <1>1, <2>1, <2>3, <2>4
<1>9. i \in L
  <2>1. ASSUME i \notin L PROVE FALSE
    <3>1. \A j \in L : j <= i <=> j <= i - 1
      <4>1. \A j \in L : j \in Int /\ j # i
        BY <2>1
      <4> QED
        BY <1>6, <4>1
    <3>2. Upto(i) = Upto(i - 1)
      BY <3>1
    <3> HIDE DEF Upto
    <3>3. count(i) = count(i - 1)
      BY <3>2
    <3> QED
      BY <1>1, <1>3, <1>6, <1>8, <3>3
  <2> QED
    BY <2>1
<1>10. count(i) = count(i - 1) + 1
  <2>1. \A j \in L : j <= i <=> (j <= i - 1 \/ j = i)
    <3>1. \A j \in L : j \in Int
      OBVIOUS
    <3> QED
      BY <1>6, <3>1
  <2>2. Upto(i) = Upto(i - 1) \cup {i}
    BY <1>9, <2>1
  <2>3. i \notin Upto(i - 1)
    BY <1>6
  <2> HIDE DEF Upto
  <2> QED
    BY <1>3, <2>2, <2>3, FS_AddElement
<1>11. count(i) = k
  <2>1. count(i - 1) \in Nat
    <3> HIDE DEF Upto
    <3> QED
      BY <1>3
  <2> HIDE DEF count
  <2> QED
    BY <1>1, <1>6, <1>8, <1>10, <2>1
<1> QED
  BY <1>9, <1>11

\* What a sequence is made of.
LEMMA MembersOfSequence ==
  ASSUME NEW T, NEW s \in Seq(T)
  PROVE  Len(s) \in Nat /\ DOMAIN s = 1 .. Len(s) /\ \A i \in DOMAIN s : s[i] \in T
OBVIOUS

\* Every disk that ListDisks answers has its usage.
LEMMA ListedDisks ==
  ASSUME TypeOK, NEW r \in Requests
  PROVE  ListDisksResponse(r) \in Api!ListDisksResponse
<1> DEFINE listed == {i \in DOMAIN config : Lists(r, config[i])}
           place(k) == CHOOSE i \in listed : Cardinality({j \in listed : j <= i}) = k
           disks == [k \in 1 .. Cardinality(listed) |-> DiskMessage(r, config[place(k)])]
<1>1. config \in Seq(Disks)
  BY LoadConfigType DEF TypeOK, config
<1>2. Len(config) \in Nat /\ listed \in SUBSET (1 .. Len(config))
      /\ \A i \in listed : config[i] \in Disks
  BY <1>1, MembersOfSequence
<1>3. Cardinality(listed) \in Nat
  <2> HIDE DEF listed
  <2> QED
    BY <1>2, FinitelyMany
<1>4. ASSUME NEW k \in 1 .. Cardinality(listed)
      PROVE  DiskMessage(r, config[place(k)]) \in Api!Disk
  <2>1. \E i \in listed : Cardinality({j \in listed : j <= i}) = k
    <3> HIDE DEF listed
    <3> QED
      BY <1>2, KthExists
  <2>2. place(k) \in listed
    <3> HIDE DEF listed
    <3> QED
      BY <2>1, Zenon
  <2>3. config[place(k)] \in answer[r] /\ config[place(k)] \in Disks
    BY <1>2, <2>2 DEF Lists
  <2> HIDE DEF place
  <2> QED
    BY <2>3 DEF DiskMessage, Api!Disk, Api!DiskUsage
<1>5. disks \in Seq(Api!Disk)
  <2>1. disks \in [1 .. Cardinality(listed) -> Api!Disk]
    <3> HIDE DEF listed, place
    <3> QED
      BY <1>4
  <2> HIDE DEF disks, listed
  <2> QED
    BY <1>3, <2>1
<1>6. ListDisksResponse(r) = [disks |-> disks]
  BY DEF ListDisksResponse
<1> HIDE DEF disks
<1> QED
  BY <1>5, <1>6 DEF Api!ListDisksResponse

\* What goes over the wire is what drs.module.v1 has: no disk of an answer lacks its
\* usage, whichever disks hang and however the goroutines interleave.
THEOREM MessagesHold == ManagerSpec => []MessagesFitTheApi
<1>1. IInv /\ AskedInv /\ ReportsFitTheApi => MessagesFitTheApi
  <2> SUFFICES ASSUME IInv, AskedInv, NEW r \in Requests, pc[r] = "replied",
                      NEW a \in DiskAnswers(r)
               PROVE  a \in Api!Answer
    BY DEF MessagesFitTheApi
  <2>1. asked[r].method \in {"ListDisks", "GetDisk", "GetDiskUsage"}
    BY DEF AskedInv, AskedOf, DiskCalls
  <2>2. TypeOK /\ answer[r] \subseteq Disks
    BY DEF IInv, TypeOK
  <2>3. CASE asked[r].method = "ListDisks"
    <3>1. a = [method |-> "ListDisks", response |-> ListDisksResponse(r)]
      BY <2>3 DEF DiskAnswers
    <3> QED
      BY <2>2, <3>1, ListedDisks DEF Api!Answer
  <2>4. CASE asked[r].method = "GetDisk"
    <3>1. PICK d \in answer[r] :
            a = [method |-> "GetDisk", response |-> [disk |-> DiskMessage(r, d)]]
      BY <2>4 DEF DiskAnswers
    <3>2. DiskMessage(r, d) \in Api!Disk
      BY <2>2 DEF DiskMessage, Api!Disk, Api!DiskUsage
    <3> QED
      BY <3>1, <3>2 DEF Api!Answer, Api!GetDiskResponse
  <2>5. CASE asked[r].method = "GetDiskUsage"
    <3>1. PICK d \in answer[r] :
            a = [method |-> "GetDiskUsage", response |-> [diskUsage |-> DiskMessage(r, d).usage]]
      BY <2>5 DEF DiskAnswers
    <3>2. DiskMessage(r, d).usage \in Api!DiskUsage
      BY <2>2 DEF DiskMessage, Api!DiskUsage
    <3> QED
      BY <3>1, <3>2 DEF Api!Answer, Api!GetDiskUsageResponse
  <2> QED
    BY <2>1, <2>3, <2>4, <2>5
<1> QED
  BY <1>1, AnswersAreAsked, ReportsHold, UsesDisks, Invariance, PTL
=============================================================================
