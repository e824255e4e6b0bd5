---------------------------- MODULE ModuleManager ----------------------------
(***************************************************************************)
(* The module-manager's process with its monitoring service: it serves the *)
(* calls for disks (DiskUsage) and for PTP (PTPChecker) until a signal,    *)
(* upon which GracefulStop refuses new calls and waits for those that are  *)
(* served, with no deadline.  The goroutines that hang in statfs are no    *)
(* calls; they end with the process.                                       *)
(***************************************************************************)
EXTENDS DiskUsage, PTPChecker

VARIABLES
  asked,  \* the call of each disk request
  main    \* "serving", "stopping" or "exited"

managerVars == <<vars, ptpVars, asked, main>>

\* The messages of drs.module.v1.
Api == INSTANCE MonitoringApi WITH
  DiskName <- Disks, Clock <- Clocks \cup {NoClock}, Device <- Clocks, ModuleId <- {Nil}

DiskCalls == {call \in Api!Call : call.method \in {"ListDisks", "GetDisk", "GetDiskUsage"}}

ManagerInit ==
  Init /\ PTPInit /\ asked = [r \in Requests |-> Nil] /\ main = "serving"

-----------------------------------------------------------------------------
(* main *)

\* SIGINT or SIGTERM.
Signal ==
  /\ main = "serving" /\ server = "up"
  /\ main' = "stopping"
  /\ UNCHANGED <<vars, ptpVars, asked>>

Served ==
  /\ \A r \in Requests : pc[r] \in {"idle", "replied"}
  /\ \A c \in Checks : stage[c] \in {"idle", "replied"}

\* GracefulStop returns, and so does main.
GracefulStop ==
  /\ main = "stopping" /\ Served
  /\ main' = "exited"
  /\ ProcessEnds
  /\ UNCHANGED <<ptpVars, asked>>

-----------------------------------------------------------------------------
(* The service *)

\* The method's handler decodes the request and calls the service.
Handle(r, call) ==
  /\ \/ call.method = "ListDisks" /\ ListDisks(r)
     \/ call.method = "GetDisk" /\ GetDisk(r, call.request.name)
     \/ call.method = "GetDiskUsage" /\ (GetDiskUsage(r) \/ Panic(r))
  /\ asked' = [asked EXCEPT ![r] = call]
  /\ UNCHANGED ptpVars

\* A new call, which is refused from the signal on.
Accept ==
  /\ main = "serving" /\ server = "up"
  /\ \/ \E r \in Requests, call \in DiskCalls : Handle(r, call)
     \/ \E c \in Checks, remote \in BOOLEAN :
          GetPTPStatus(c, remote) /\ UNCHANGED <<vars, asked>>
  /\ UNCHANGED main

\* The calls that are served.
DiskStep(r) == Work(r) /\ UNCHANGED <<ptpVars, asked, main>>
PTPStep(c) == server = "up" /\ Check(c) /\ UNCHANGED <<vars, asked, main>>

ManagerNext ==
  \/ Signal \/ GracefulStop \/ Accept
  \/ \E r \in Requests : DiskStep(r)
  \/ \E c \in Checks : PTPStep(c)
  \/ \E d \in Disks : DiskChanges(d) /\ UNCHANGED <<ptpVars, asked, main>>

ManagerSpec == ManagerInit /\ [][ManagerNext]_managerVars

\* Goroutines run on, timers fire, and pmc, ping (-W 1) and arp end by
\* themselves; nothing is assumed of the disks.
FairManager ==
  /\ ManagerSpec
  /\ WF_managerVars(GracefulStop)
  /\ \A c \in Checks : WF_managerVars(PTPStep(c))
  /\ \A r \in Requests :
       /\ WF_managerVars(Reply(r) /\ UNCHANGED <<ptpVars, asked, main>>)
       /\ \A d \in Disks :
            /\ WF_managerVars(Send(r, d) /\ UNCHANGED <<ptpVars, asked, main>>)
            /\ WF_managerVars(Getter(r, d) /\ UNCHANGED <<ptpVars, asked, main>>)

-----------------------------------------------------------------------------
(* The answers *)

\* Slip: a disk without a usage is listed nevertheless.
ListsAll(r, d) == TRUE

\* A disk that has no entry in the results map is skipped.
Lists(r, d) == d \in answer[r]

DiskMessage(r, d) ==
  [name |-> d, usage |-> IF d \in answer[r] THEN [of |-> d] ELSE Nil]

\* The disks of the configuration, in its order: the k-th is listed at the place that
\* has k of them up to it.
ListDisksResponse(r) ==
  LET listed == {i \in DOMAIN config : Lists(r, config[i])}
      place(k) == CHOOSE i \in listed : Cardinality({j \in listed : j <= i}) = k IN
  [disks |-> [k \in 1 .. Cardinality(listed) |-> DiskMessage(r, config[place(k)])]]

\* What a request is answered, unless it is with an error.
DiskAnswers(r) ==
  IF asked[r].method = "ListDisks"
  THEN {[method |-> "ListDisks", response |-> ListDisksResponse(r)]}
  ELSE {[method |-> asked[r].method,
         response |-> IF asked[r].method = "GetDisk" THEN [disk |-> DiskMessage(r, d)]
                      ELSE [diskUsage |-> DiskMessage(r, d).usage]] : d \in answer[r]}

PTPAnswer(c) ==
  [method |-> "GetPTPStatus", response |-> [local |-> local[c], remotes |-> remotes[c]]]

-----------------------------------------------------------------------------
(* Properties *)

\* main goes with the process, which ends only when it has served its calls or
\* crashed.
ManagerTypeOK ==
  /\ main \in {"serving", "stopping", "exited"}
  /\ (main = "exited") <=> (server = "exited")
  /\ server = "exited" => Served

\* A report has a local status and entries of their type.
ReportsFitTheApi ==
  \A c \in Checks : stage[c] = "replied" => PTPAnswer(c) \in Api!Answer

\* Messages are what drs.module.v1 has: above all, every disk of an answer has its
\* usage, through which the gateway's goroutines and drs-cli read without asking
\* (there, a nil would end the gateway).
MessagesFitTheApi ==
  /\ \A r \in Requests : pc[r] = "replied" => DiskAnswers(r) \subseteq Api!Answer
  /\ ReportsFitTheApi

=============================================================================
