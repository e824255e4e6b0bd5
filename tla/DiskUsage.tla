------------------------------ MODULE DiskUsage ------------------------------
(***************************************************************************)
(* Disk usage in a module-manager: ListDisks starts a goroutine per disk   *)
(* (storage.Manager.GetAllDiskUsages), each of which starts another one    *)
(* that asks the file system and waits ten milliseconds for it; the legacy *)
(* GetDiskUsage asks for the first disk only.  A file system may hang.     *)
(* Which disks there are is decided by LoadConfig at the start.            *)
(***************************************************************************)
EXTENDS Sequences, FiniteSets, Naturals

CONSTANTS Requests,  \* gRPC requests, each once
          Disks,     \* names of disks
          Root,      \* the disk that a monitor_path stands for
          Files      \* configuration files that may be found at the start

\* present: the file exists; disks: its list; path: monitor_path is not empty;
\* complete: every entry has a name and a mount path.
ASSUME FilesAssumption ==
  /\ Root \in Disks
  /\ Files \subseteq [present : BOOLEAN, disks : Seq(Disks), path : BOOLEAN, complete : BOOLEAN]

VARIABLES
  file,    \* the configuration file found at the start
  server,  \* the process: "up", "crashed" by a panic, or "exited"
  pc,      \* where the handler of each request is
  getter,  \* its goroutine for each disk
  probe,   \* and that one's goroutine, which may hang in statfs
  chan,    \* what is in the buffered channel between the two
  usages,  \* the disks in the request's results map
  answer,  \* the disks whose usage is in its answer
  health   \* "ok", "missing" or "hung", per disk

vars == <<file, server, pc, getter, probe, chan, usages, answer, health>>

\* A missing file leaves the defaults as they are: no disks, monitor_path "/".
Defaults == <<>>

\* LoadConfig and validateConfig: a list of no disks becomes monitor_path's.
Valid(f) == (f.disks # <<>> \/ f.path) /\ f.complete

\* Slip: monitor_path, deprecated, is no longer migrated.
MigratedNever(f) == f.disks
Migrated(f) == IF f.disks = <<>> THEN <<Root>> ELSE f.disks
LoadConfig(f) == IF f.present THEN Migrated(f) ELSE Defaults

config == LoadConfig(file)
Names == {config[i] : i \in DOMAIN config}

Init ==
  /\ file \in {f \in Files : f.present => Valid(f)}
  /\ server = "up"
  /\ pc = [r \in Requests |-> "idle"]
  /\ getter = [r \in Requests |-> [d \in Disks |-> "none"]]
  /\ probe = [r \in Requests |-> [d \in Disks |-> "none"]]
  /\ chan = [r \in Requests |-> [d \in Disks |-> "empty"]]
  /\ usages = [r \in Requests |-> {}]
  /\ answer = [r \in Requests |-> {}]
  /\ health = [d \in Disks |-> "ok"]

-----------------------------------------------------------------------------
(* The handlers *)

Start(r, asked) ==
  /\ getter' = [getter EXCEPT ![r] =
       [d \in Disks |-> IF d \in asked THEN "select" ELSE "none"]]
  /\ probe' = [probe EXCEPT ![r] =
       [d \in Disks |-> IF d \in asked THEN "probing" ELSE "none"]]

ListDisks(r) ==
  /\ server = "up" /\ pc[r] = "idle"
  /\ pc' = [pc EXCEPT ![r] = "list"]
  /\ Start(r, Names)
  /\ UNCHANGED <<file, server, chan, usages, answer, health>>

\* GetDisk looks for the disk by its name: not found, or one goroutine.
GetDisk(r, d) ==
  /\ server = "up" /\ pc[r] = "idle"
  /\ \/ /\ d \notin Names
        /\ pc' = [pc EXCEPT ![r] = "replied"]
        /\ UNCHANGED <<getter, probe>>
     \/ /\ d \in Names
        /\ pc' = [pc EXCEPT ![r] = "single"]
        /\ Start(r, {d})
  /\ UNCHANGED <<file, server, chan, usages, answer, health>>

\* The legacy API: Disks[0] is the primary disk ...
GetDiskUsage(r) ==
  /\ server = "up" /\ pc[r] = "idle" /\ config # <<>>
  /\ pc' = [pc EXCEPT ![r] = "single"]
  /\ Start(r, {config[1]})
  /\ UNCHANGED <<file, server, chan, usages, answer, health>>

\* ... and indexing an empty slice panics, which ends the process.
Panic(r) ==
  /\ server = "up" /\ pc[r] = "idle" /\ config = <<>>
  /\ server' = "crashed"
  /\ UNCHANGED <<file, pc, getter, probe, chan, usages, answer, health>>

\* main returns.
ProcessEnds ==
  /\ server = "up"
  /\ server' = "exited"
  /\ UNCHANGED <<file, pc, getter, probe, chan, usages, answer, health>>

\* os.Stat and statfs return.
Measure(r, d) ==
  /\ server = "up" /\ probe[r][d] = "probing" /\ health[d] # "hung"
  /\ probe' = [probe EXCEPT ![r][d] = IF health[d] = "ok" THEN "measured" ELSE "error"]
  /\ UNCHANGED <<file, server, pc, getter, chan, usages, answer, health>>

\* Slip: the channel has no buffer.
SendUnbuffered(r, d) ==
  /\ server = "up" /\ probe[r][d] \in {"measured", "error"}
  /\ getter[r][d] = "select"
  /\ chan' = [chan EXCEPT ![r][d] = probe[r][d]]
  /\ probe' = [probe EXCEPT ![r][d] = "gone"]
  /\ UNCHANGED <<file, server, pc, getter, usages, answer, health>>

\* The channel has room for the one result it gets.
Send(r, d) ==
  /\ server = "up" /\ probe[r][d] \in {"measured", "error"}
  /\ chan[r][d] = "empty"
  /\ chan' = [chan EXCEPT ![r][d] = probe[r][d]]
  /\ probe' = [probe EXCEPT ![r][d] = "gone"]
  /\ UNCHANGED <<file, server, pc, getter, usages, answer, health>>

\* The select takes the result; a usage goes into the map, under its mutex.
Receive(r, d) ==
  /\ server = "up" /\ getter[r][d] = "select" /\ chan[r][d] # "empty"
  /\ chan' = [chan EXCEPT ![r][d] = "empty"]
  /\ usages' = [usages EXCEPT ![r] = IF chan[r][d] = "measured" THEN @ \cup {d} ELSE @]
  /\ getter' = [getter EXCEPT ![r][d] = "done"]
  /\ UNCHANGED <<file, server, pc, probe, answer, health>>

\* Slip: no timeout for a disk.
NeverExpire(r, d) ==
  /\ server = "up" /\ getter[r][d] = "select" /\ chan[r][d] = "error"
  /\ getter' = [getter EXCEPT ![r][d] = "done"]
  /\ UNCHANGED <<file, server, pc, probe, chan, usages, answer, health>>

\* ctx.Done: ten milliseconds, or the caller's deadline, are over.
Expire(r, d) ==
  /\ server = "up" /\ getter[r][d] = "select"
  /\ getter' = [getter EXCEPT ![r][d] = "done"]
  /\ UNCHANGED <<file, server, pc, probe, chan, usages, answer, health>>

Answer(r) ==
  /\ answer' = [answer EXCEPT ![r] = usages[r]]
  /\ pc' = [pc EXCEPT ![r] = "replied"]
  /\ UNCHANGED <<file, server, getter, probe, chan, usages, health>>

\* Slip: the map is read without waiting for the goroutines.
ReplyUnwaited(r) == server = "up" /\ pc[r] \in {"list", "single"} /\ Answer(r)

\* wg.Wait returns; the answer has the disks of the map, in their order.
Reply(r) ==
  /\ server = "up" /\ pc[r] \in {"list", "single"}
  /\ \A d \in Disks : getter[r][d] # "select"
  /\ Answer(r)

\* A disk hangs, disappears or comes back; hung calls may go on then.
DiskChanges(d) ==
  /\ \E h \in {"ok", "missing", "hung"} : h # health[d] /\ health' = [health EXCEPT ![d] = h]
  /\ UNCHANGED <<file, server, pc, getter, probe, chan, usages, answer>>

-----------------------------------------------------------------------------
Getter(r, d) == Receive(r, d) \/ Expire(r, d)

Call(r) ==
  ListDisks(r) \/ GetDiskUsage(r) \/ Panic(r) \/ \E d \in Disks : GetDisk(r, d)

Work(r) ==
  Reply(r) \/ \E d \in Disks : Measure(r, d) \/ Send(r, d) \/ Getter(r, d)

Next ==
  \/ \E r \in Requests : Call(r) \/ Work(r)
  \/ ProcessEnds
  \/ \E d \in Disks : DiskChanges(d)

Spec == Init /\ [][Next]_vars

-----------------------------------------------------------------------------
(* Properties *)

\* The types; goroutines run for configured disks only.
TypeOK ==
  /\ \A r \in Requests, d \in Disks : getter[r][d] # "none" => d \in Names
  /\ file \in Files /\ server \in {"up", "crashed", "exited"}
  /\ pc \in [Requests -> {"idle", "list", "single", "replied"}]
  /\ getter \in [Requests -> [Disks -> {"none", "select", "done"}]]
  /\ probe \in [Requests -> [Disks -> {"none", "probing", "measured", "error", "gone"}]]
  /\ chan \in [Requests -> [Disks -> {"empty", "measured", "error"}]]
  /\ usages \in [Requests -> SUBSET Disks] /\ answer \in [Requests -> SUBSET Disks]
  /\ health \in [Disks -> {"ok", "missing", "hung"}]

\* Nothing of a request writes to its results map when the answer has been made
\* from it: the map is read without the mutex, after the WaitGroup.
NobodyWritesAfterReply ==
  \A r \in Requests :
    pc[r] = "replied" =>
      answer[r] = usages[r] /\ \A d \in Disks : getter[r][d] # "select"

\* An answer has no disk whose file system gave no usage, be it hung, missing
\* or too late.
OnlyMeasured ==
  [][\A r \in Requests, d \in Disks :
       d \in usages'[r] \ usages[r] => chan[r][d] = "measured" /\ probe[r][d] = "gone"]_vars

\* The legacy API has a primary disk whenever there is a configuration file:
\* validateConfig has seen to it, also for a file that only has the deprecated
\* monitor_path.  Without a file the defaults are used as they are, and it has not.
ValidatedNeverPanics == file.present => server # "crashed"

\* A disk that hangs for ever does not keep a request from its answer.
HungDiskIsSkipped ==
  \A r \in Requests :
    pc[r] \in {"list", "single"} ~> pc[r] = "replied" \/ server # "up"

\* A goroutine whose file system has answered ends, also if nobody waits for
\* its result any more.
NoGoroutineLeak ==
  \A r \in Requests, d \in Disks :
    probe[r][d] \in {"measured", "error"} ~> probe[r][d] = "gone" \/ server # "up"
=============================================================================
