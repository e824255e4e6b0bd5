-------------------------- MODULE ModuleStatus_proofs --------------------------
(***************************************************************************)
(* The gateway's status queries for any number of requests and of modules: *)
(* the fan-in loses nothing and sends nothing on a closed channel, and     *)
(* what one module's status says follows from the calls behind it.         *)
(***************************************************************************)
EXTENDS ModuleStatus, FiniteSetTheorems, TLAPS

Stages == {"none", "start", "env", "disks", "usage", "ptp", "services", "recording", "judge",
           "send", "sent", "done"}
Infos == [services : [Services -> States \cup {"", "unknown", "transferring", "stopped"}],
          disk : Usages, ptp : {"none", "synced", "off"}, status : {"", "OK", "WARN", "ERROR"}]

\* The types, but for the deadlines, which no guard of a safety property reads.
PlainTypeOK ==
  /\ truth \in [Modules -> [Services -> States \cup {"unread"}]]
  /\ pc \in [Requests -> {"idle", "collect", "single", "replied"}]
  /\ query \in [Requests -> [kind : {"all", "ptp", "one"}, host : Hostnames]]
  /\ worker \in [Requests -> [Hostnames -> Stages]]
  /\ info \in [Requests -> [Hostnames -> Infos]]
  /\ closer \in [Requests -> {"none", "waiting", "closed"}]
  /\ reply \in [Requests -> {"none", "ok", "not found"}]
  /\ wg \in [Requests -> Nat]

SeqTypeOK ==
  /\ channel \in [Requests -> Seq(Modules)]
  /\ listed \in [Requests -> Seq(Modules)]

\* The goroutines that have still to count down.
Active(r) == {h \in Hostnames : worker[r][h] \notin {"none", "done"}}

\* What runs, and how far, at each stage of a request's handler.
FlowInv(r) ==
  /\ pc[r] = "idle" =>
       /\ closer[r] = "none" /\ reply[r] = "none" /\ listed[r] = <<>> /\ channel[r] = <<>>
       /\ \A h \in Hostnames : worker[r][h] = "none"
  /\ pc[r] # "idle" /\ query[r].kind = "one" =>
       /\ pc[r] # "collect" /\ closer[r] = "none"
       /\ \A h \in Hostnames : worker[r][h] = "none" <=> h # query[r].host
       /\ \A h \in Hostnames : worker[r][h] # "done"
       /\ reply[r] # "none" => worker[r][query[r].host] = "sent"
  /\ pc[r] # "idle" /\ query[r].kind # "one" =>
       /\ pc[r] # "single" /\ closer[r] # "none"
       /\ \A h \in Hostnames : worker[r][h] = "none" <=> h \notin Asked(query[r].kind)
       /\ wg[r] = Cardinality(Active(r))
       /\ reply[r] # "none" => reply[r] = "ok" /\ closer[r] = "closed" /\ channel[r] = <<>>
  /\ closer[r] = "closed" => Active(r) = {}

\* What a status of a module says of its services when they have been asked for.
Told(r, m) == IF Watches(m, "services") THEN ServicesFound(r, m) ELSE Blank.services

\* What a goroutine has learned at each stage.
InfoAt(r, h) ==
  /\ worker[r][h] \in {"none", "start"} => info[r][h] = Blank
  /\ worker[r][h] \in {"env", "disks", "usage", "ptp", "services", "recording", "judge"} =>
       h \in Modules
  /\ query[r].kind = "ptp" =>
       /\ worker[r][h] \in {"none", "start", "ptp", "send", "sent", "done"}
       /\ worker[r][h] = "ptp" => info[r][h] = Blank
       /\ worker[r][h] = "send" => info[r][h].ptp # "none"
  /\ query[r].kind # "ptp" =>
       /\ worker[r][h] \in {"env", "disks", "usage", "ptp", "services"} =>
            info[r][h].services = Blank.services
       /\ worker[r][h] = "services" => Watches(h, "services")
       /\ worker[r][h] \in {"recording", "judge"} => info[r][h].services = Told(r, h)
       /\ worker[r][h] \in {"send", "sent", "done"} =>
            \/ info[r][h] = [Blank EXCEPT !.status = "ERROR"]
            \/ /\ h \in Modules /\ info[r][h].services = Told(r, h)
               /\ info[r][h].status = Overall(info[r][h])

InfoInv(r) == \A h \in Hostnames : InfoAt(r, h)

\* Nobody is on the channel or in the list twice ...
NoRepeats(l, c) ==
  /\ \A i, j \in DOMAIN l : l[i] = l[j] => i = j
  /\ \A i, j \in DOMAIN c : c[i] = c[j] => i = j
  /\ \A i \in DOMAIN l, j \in DOMAIN c : l[i] # c[j]

Occurs(m, l, c) == (\E i \in DOMAIN l : l[i] = m) \/ (\E j \in DOMAIN c : c[j] = m)

\* ... and those who have sent are, unless they had nothing to say of PTP.
Delivered(r, m) ==
  /\ query[r].kind # "one" /\ worker[r][m] \in {"sent", "done"}
  /\ query[r].kind = "all" \/ info[r][m].ptp # "none"

DeliveryInv(r) ==
  /\ NoRepeats(listed[r], channel[r])
  /\ \A m \in Modules : Occurs(m, listed[r], channel[r]) <=> Delivered(r, m)

\* Why GetModule has said that a module is not found.
ReplyInv(r) ==
  reply[r] = "not found" =>
    LET known == info[r][query[r].host] IN
    known.status = "ERROR" /\ known.services["drs_sensor"] = ""

RequestInv(r) == FlowInv(r) /\ InfoInv(r) /\ DeliveryInv(r) /\ ReplyInv(r)

IInv == PlainTypeOK /\ SeqTypeOK /\ \A r \in Requests : RequestInv(r)

-----------------------------------------------------------------------------
\* The head of the channel goes to the end of the list.
LEMMA MoveOne ==
  ASSUME NEW S, NEW l \in Seq(S), NEW c \in Seq(S), c # <<>>, NoRepeats(l, c)
  PROVE  /\ NoRepeats(Append(l, Head(c)), Tail(c))
         /\ \A m : Occurs(m, Append(l, Head(c)), Tail(c)) <=> Occurs(m, l, c)
<1> DEFINE l2 == Append(l, Head(c))
           c2 == Tail(c)
<1>1. /\ Len(c) \in Nat /\ Len(c) > 0 /\ DOMAIN c = 1 .. Len(c) /\ Head(c) = c[1]
      /\ Len(l) \in Nat /\ DOMAIN l = 1 .. Len(l)
  OBVIOUS
<1>2. /\ DOMAIN c2 = 1 .. Len(c) - 1
      /\ \A j \in 1 .. Len(c) - 1 : c2[j] = c[j + 1]
  OBVIOUS
<1>3. /\ DOMAIN l2 = 1 .. Len(l) + 1
      /\ \A i \in 1 .. Len(l) : l2[i] = l[i]
      /\ l2[Len(l) + 1] = c[1]
  OBVIOUS
<1> HIDE DEF l2, c2
<1>4. NoRepeats(l2, c2)
  <2>1. ASSUME NEW i \in DOMAIN l2, NEW j \in DOMAIN l2, l2[i] = l2[j] PROVE i = j
    <3>1. 1 \in DOMAIN c
      BY <1>1
    <3>2. \A k \in DOMAIN l2 : k = Len(l) + 1 \/ (k \in DOMAIN l /\ l2[k] = l[k])
      BY <1>1, <1>3
    <3> QED BY <1>3, <2>1, <3>1, <3>2 DEF NoRepeats
  <2>2. \A k \in DOMAIN c2 : k + 1 \in DOMAIN c /\ c2[k] = c[k + 1] /\ k \in Nat /\ k + 1 # 1
    BY <1>1, <1>2
  <2>3. ASSUME NEW i \in DOMAIN c2, NEW j \in DOMAIN c2, c2[i] = c2[j] PROVE i = j
    <3>1. i + 1 = j + 1
      BY <2>2, <2>3 DEF NoRepeats
    <3> QED BY <2>2, <3>1
  <2>4. ASSUME NEW i \in DOMAIN l2, NEW j \in DOMAIN c2 PROVE l2[i] # c2[j]
    <3>1. CASE i = Len(l) + 1
      <4>1. 1 \in DOMAIN c
        BY <1>1
      <4> QED BY <1>3, <2>2, <3>1, <4>1 DEF NoRepeats
    <3>2. CASE i # Len(l) + 1
      <4>1. i \in DOMAIN l /\ l2[i] = l[i]
        BY <1>1, <1>3, <3>2
      <4> QED BY <2>2, <4>1 DEF NoRepeats
    <3> QED BY <3>1, <3>2
  <2> QED BY <2>1, <2>3, <2>4 DEF NoRepeats
<1>5. ASSUME NEW m PROVE Occurs(m, l2, c2) <=> Occurs(m, l, c)
  <2>1. ASSUME Occurs(m, l2, c2) PROVE Occurs(m, l, c)
    <3>1. ASSUME NEW i \in DOMAIN l2, l2[i] = m PROVE Occurs(m, l, c)
      <4>1. CASE i = Len(l) + 1
        <5>1. 1 \in DOMAIN c
          BY <1>1
        <5> QED BY <1>3, <3>1, <4>1, <5>1 DEF Occurs
      <4>2. CASE i # Len(l) + 1
        <5>1. i \in DOMAIN l /\ l2[i] = l[i]
          BY <1>1, <1>3, <4>2
        <5> QED BY <3>1, <5>1 DEF Occurs
      <4> QED BY <4>1, <4>2
    <3>2. ASSUME NEW j \in DOMAIN c2, c2[j] = m PROVE Occurs(m, l, c)
      <4>1. j + 1 \in DOMAIN c /\ c2[j] = c[j + 1]
        BY <1>1, <1>2
      <4> QED BY <3>2, <4>1 DEF Occurs
    <3> QED BY <2>1, <3>1, <3>2 DEF Occurs
  <2>2. ASSUME NEW i \in DOMAIN l, l[i] = m PROVE Occurs(m, l2, c2)
    BY <1>1, <1>3, <2>2 DEF Occurs
  <2>3. ASSUME NEW j \in DOMAIN c, c[j] = m PROVE Occurs(m, l2, c2)
    <3>1. CASE j = 1
      <4>1. Len(l) + 1 \in DOMAIN l2
        BY <1>1, <1>3
      <4> QED BY <1>3, <2>3, <3>1, <4>1 DEF Occurs
    <3>2. CASE j # 1
      <4>1. j - 1 \in 1 .. Len(c) - 1 /\ c2[j - 1] = c[j]
        BY <1>1, <1>2, <3>2
      <4> QED BY <1>2, <2>3, <4>1 DEF Occurs
    <3> QED BY <3>1, <3>2
  <2> QED BY <2>1, <2>2, <2>3 DEF Occurs
<1> QED BY <1>4, <1>5 DEF l2, c2

\* One who is on neither is put at the end of the channel.
LEMMA SendOne ==
  ASSUME NEW S, NEW l \in Seq(S), NEW c \in Seq(S), NEW x \in S, NoRepeats(l, c), ~ Occurs(x, l, c)
  PROVE  /\ NoRepeats(l, Append(c, x))
         /\ \A m : Occurs(m, l, Append(c, x)) <=> Occurs(m, l, c) \/ m = x
<1> DEFINE c2 == Append(c, x)
<1>1. Len(c) \in Nat /\ DOMAIN c = 1 .. Len(c)
  OBVIOUS
<1>2. /\ DOMAIN c2 = 1 .. Len(c) + 1
      /\ \A j \in 1 .. Len(c) : c2[j] = c[j]
      /\ c2[Len(c) + 1] = x
  OBVIOUS
<1> HIDE DEF c2
<1>3. NoRepeats(l, c2)
  BY <1>1, <1>2 DEF NoRepeats, Occurs
<1>4. ASSUME NEW m PROVE Occurs(m, l, c2) <=> Occurs(m, l, c) \/ m = x
  <2>1. Occurs(m, l, c2) => Occurs(m, l, c) \/ m = x
    BY <1>1, <1>2 DEF Occurs
  <2>2. Occurs(m, l, c) => Occurs(m, l, c2)
    BY <1>1, <1>2 DEF Occurs
  <2>3. Occurs(x, l, c2)
    <3>1. Len(c) + 1 \in DOMAIN c2
      BY <1>1, <1>2
    <3> QED BY <1>2, <3>1 DEF Occurs
  <2> QED BY <2>1, <2>2, <2>3
<1> QED BY <1>3, <1>4 DEF c2

-----------------------------------------------------------------------------
\* A request that a step leaves alone keeps its invariant.
LEMMA Frame ==
  ASSUME NEW r, RequestInv(r), truth' = truth,
         pc'[r] = pc[r], query'[r] = query[r], worker'[r] = worker[r], info'[r] = info[r],
         wg'[r] = wg[r], closer'[r] = closer[r], channel'[r] = channel[r],
         listed'[r] = listed[r], reply'[r] = reply[r]
  PROVE  RequestInv(r)'
<1>1. Active(r)' = Active(r)
  BY DEF Active
<1>2. FlowInv(r)'
  BY <1>1 DEF RequestInv, FlowInv
<1>3. ASSUME NEW h \in Hostnames PROVE InfoAt(r, h)'
  <2>1. Told(r, h)' = Told(r, h)
    BY DEF Told, ServicesFound, Shown, Listed, Watches
  <2> QED BY <2>1 DEF RequestInv, InfoInv, InfoAt
<1>4. DeliveryInv(r)'
  BY DEF RequestInv, DeliveryInv, Delivered
<1>5. ReplyInv(r)'
  BY DEF RequestInv, ReplyInv
<1> QED BY <1>2, <1>3, <1>4, <1>5 DEF RequestInv, InfoInv

\* A goroutine that has not delivered has its handler wait.
LEMMA Waiting ==
  ASSUME IInv, NEW q \in Requests, NEW h \in Hostnames,
         worker[q][h] \notin {"none", "sent", "done"} \/
           (worker[q][h] = "sent" /\ query[q].kind # "one")
  PROVE  reply[q] = "none" /\ pc[q] # "idle" /\ h \in Active(q) /\ closer[q] # "closed"
<1>1. FlowInv(q)
  BY DEF IInv, RequestInv
<1>2. h \in Active(q)
  BY DEF Active
<1>3. closer[q] # "closed" /\ pc[q] # "idle"
  BY <1>1, <1>2 DEF FlowInv
<1>4. CASE query[q].kind = "one"
  <2>1. h = query[q].host
    BY <1>1, <1>3, <1>4 DEF FlowInv
  <2> QED BY <1>1, <1>2, <1>3, <1>4, <2>1 DEF FlowInv
<1>5. CASE query[q].kind # "one"
  BY <1>1, <1>2, <1>3, <1>5 DEF FlowInv
<1> QED BY <1>4, <1>5

\* A goroutine that has neither ended nor delivered goes on to its next call:
\* the invariant is kept where what it has learned is right for that stage.
LEMMA OneHostMoves ==
  ASSUME IInv, NEW q \in Requests, NEW h \in Hostnames,
         NEW next \in Stages \ {"none", "done"}, NEW known \in Infos,
         worker[q][h] \notin {"none", "sent", "done"},
         worker' = [worker EXCEPT ![q][h] = next], info' = [info EXCEPT ![q][h] = known],
         UNCHANGED <<handlerVars, syncVars>>,
         next = "sent" => query[q].kind = "ptp" /\ known.ptp = "none",
         InfoAt(q, h)'
  PROVE  IInv'
<1> USE DEF handlerVars, syncVars
<1>t. /\ worker \in [Requests -> [Hostnames -> Stages]]
      /\ info \in [Requests -> [Hostnames -> Infos]]
  BY DEF IInv, PlainTypeOK
<1>1. PlainTypeOK'
  <2>1. worker' \in [Requests -> [Hostnames -> Stages]]
    BY <1>t
  <2>2. info' \in [Requests -> [Hostnames -> Infos]]
    BY <1>t
  <2> QED BY <2>1, <2>2 DEF IInv, PlainTypeOK
<1>2. SeqTypeOK'
  BY DEF IInv, SeqTypeOK
<1>3. ASSUME NEW r \in Requests, r # q PROVE RequestInv(r)'
  BY <1>t, <1>3, Frame DEF IInv
<1>4. /\ worker'[q] = [worker[q] EXCEPT ![h] = next] /\ info'[q] = [info[q] EXCEPT ![h] = known]
      /\ worker[q] \in [Hostnames -> Stages] /\ info[q] \in [Hostnames -> Infos]
  BY <1>t
<1>5. /\ worker'[q][h] = next /\ info'[q][h] = known
      /\ \A g \in Hostnames : g # h => worker'[q][g] = worker[q][g] /\ info'[q][g] = info[q][g]
  BY <1>4
<1>6. /\ Active(q)' = Active(q) /\ h \in Active(q)
  BY <1>4, <1>5 DEF Active
<1>7. FlowInv(q)'
  <2>1. FlowInv(q)
    BY DEF IInv, RequestInv
  <2>2. \A g \in Hostnames : /\ worker'[q][g] = "none" <=> worker[q][g] = "none"
                             /\ worker'[q][g] = "done" <=> worker[q][g] = "done"
    BY <1>5
  <2>3. pc[q] # "idle" /\ query[q].kind = "one" => reply[q] = "none"
    BY <2>1 DEF FlowInv
  <2> QED BY <1>6, <2>1, <2>2, <2>3 DEF FlowInv
<1>8. InfoInv(q)'
  <2>1. ASSUME NEW g \in Hostnames, g # h PROVE InfoAt(q, g)'
    <3>1. InfoAt(q, g)
      BY DEF IInv, RequestInv, InfoInv
    <3>2. Told(q, g)' = Told(q, g)
      BY DEF Told, ServicesFound, Shown, Listed, Watches
    <3> QED BY <1>5, <2>1, <3>1, <3>2 DEF InfoAt
  <2> QED BY <2>1 DEF InfoInv
<1>9. DeliveryInv(q)'
  <2>1. ASSUME NEW m \in Modules PROVE Delivered(q, m)' <=> Delivered(q, m)
    BY <1>5, <2>1, StatusAssumption DEF Delivered
  <2> QED BY <2>1 DEF IInv, RequestInv, DeliveryInv
<1>10. ReplyInv(q)'
  BY Waiting DEF ReplyInv
<1> QED BY <1>1, <1>2, <1>3, <1>7, <1>8, <1>9, <1>10 DEF IInv, RequestInv

-----------------------------------------------------------------------------
(* The calls of a goroutine *)

\* The stages that can follow.
LEMMA NextStages ==
  ASSUME NEW m \in Modules
  PROVE  /\ FromRecording(m) \in {"recording", "judge"}
         /\ ~ Watches(m, "services") => FromServices(m) = FromRecording(m)
         /\ Watches(m, "services") => FromServices(m) = "services"
         /\ FromPTP(m) = "ptp" \/ FromPTP(m) = FromServices(m)
         /\ FromDisks(m) = "disks" \/ FromDisks(m) = FromPTP(m)
BY DEF FromRecording, FromServices, FromPTP, FromDisks

\* A stage before the services are asked for, or where they have not to be.
LEMMA BeforeServices ==
  ASSUME NEW m \in Modules, NEW next,
         next \in {"usage", FromServices(m), FromPTP(m), FromDisks(m)}
  PROVE  /\ next \in {"disks", "usage", "ptp", "services", "recording", "judge"}
         /\ next \in {"recording", "judge"} => ~ Watches(m, "services")
         /\ next = "services" => Watches(m, "services")
BY NextStages

\* What the goroutine of a module that is being asked may assume.
LEMMA Asking ==
  ASSUME IInv, NEW q \in Requests, NEW h \in Hostnames,
         worker[q][h] \in {"env", "disks", "usage", "ptp", "services", "recording", "judge"}
  PROVE  /\ h \in Modules /\ info[q][h] \in Infos /\ InfoAt(q, h)
         /\ query[q].kind = "ptp" => worker[q][h] = "ptp" /\ info[q][h] = Blank
<1>1. InfoAt(q, h)
  BY DEF IInv, RequestInv, InfoInv
<1>2. info[q][h] \in Infos
  BY DEF IInv, PlainTypeOK
<1>3. h \in Modules /\ (query[q].kind = "ptp" => worker[q][h] = "ptp")
  BY <1>1 DEF InfoAt
<1>4. query[q].kind = "ptp" => info[q][h] = Blank
  BY <1>1, <1>3 DEF InfoAt
<1> QED BY <1>1, <1>2, <1>3, <1>4

\* A call before the services ends, whatever it has answered.
LEMMA EarlyCall ==
  ASSUME IInv, NEW q \in Requests, NEW m \in Hostnames, NEW next, NEW known \in Infos,
         query[q].kind # "ptp",
         worker[q][m] \in {"env", "disks", "usage", "ptp"},
         known.services = info[q][m].services,
         next \in {"usage", FromServices(m), FromPTP(m), FromDisks(m)},
         worker' = [worker EXCEPT ![q][m] = next], info' = [info EXCEPT ![q][m] = known],
         UNCHANGED <<handlerVars, syncVars>>
  PROVE  IInv'
<1>1. m \in Modules /\ InfoAt(q, m)
  BY Asking
<1>2. /\ next \in {"disks", "usage", "ptp", "services", "recording", "judge"}
      /\ next \in {"recording", "judge"} => ~ Watches(m, "services")
      /\ next = "services" => Watches(m, "services")
  BY <1>1, BeforeServices
<1>3. /\ worker \in [Requests -> [Hostnames -> Stages]]
      /\ info \in [Requests -> [Hostnames -> Infos]]
  BY DEF IInv, PlainTypeOK
<1>4. worker'[q][m] = next /\ info'[q][m] = known /\ query' = query
  BY <1>3 DEF handlerVars
<1>5. known.services = Blank.services
  BY <1>1 DEF InfoAt
<1>6. next \in {"recording", "judge"} => Told(q, m)' = Blank.services
  BY <1>2 DEF Told, Watches
<1>7. InfoAt(q, m)'
  BY <1>1, <1>2, <1>4, <1>5, <1>6 DEF InfoAt
<1>8. next \in Stages \ {"none", "done"} /\ next # "sent"
  BY <1>2 DEF Stages
<1> QED BY <1>7, <1>8, OneHostMoves

\* To learn nothing is to learn what is known.
LEMMA NothingLearned ==
  ASSUME PlainTypeOK, NEW q \in Requests, NEW h \in Hostnames, UNCHANGED info
  PROVE  info' = [info EXCEPT ![q][h] = info[q][h]] /\ info[q][h] \in Infos
BY DEF PlainTypeOK

\* The environment is asked for and not kept.
LEMMA EnvironmentStep ==
  ASSUME IInv, NEW q \in Requests, NEW m \in Hostnames, GetEnvironment(q, m)
  PROVE  IInv'
<1>1. query[q].kind # "ptp"
  BY Asking DEF GetEnvironment
<1>2. info' = [info EXCEPT ![q][m] = info[q][m]] /\ info[q][m] \in Infos
  BY NothingLearned DEF IInv, GetEnvironment
<1> QED BY <1>1, <1>2, EarlyCall DEF GetEnvironment, Goto

\* The disks, or the fallback.
LEMMA DiskSteps ==
  ASSUME IInv, NEW q \in Requests, NEW m \in Hostnames, ListDisks(q, m) \/ GetDiskUsage(q, m)
  PROVE  IInv'
<1>1. worker[q][m] \in {"disks", "usage"} /\ UNCHANGED <<handlerVars, syncVars>>
  BY DEF ListDisks, GetDiskUsage
<1>2. query[q].kind # "ptp" /\ info[q][m] \in Infos
  BY <1>1, Asking
<1>3. PICK next \in {"usage", FromPTP(m)} : worker' = [worker EXCEPT ![q][m] = next]
  BY DEF ListDisks, GetDiskUsage, Goto
<1>4. CASE UNCHANGED info
  <2>1. info' = [info EXCEPT ![q][m] = info[q][m]]
    BY <1>4, NothingLearned DEF IInv
  <2> QED BY <1>1, <1>2, <1>3, <2>1, EarlyCall
<1>5. ASSUME NEW usage \in Usages, Learn(q, m, "disk", usage) PROVE IInv'
  <2> DEFINE known == [info[q][m] EXCEPT !["disk"] = usage]
  <2>1. info' = [info EXCEPT ![q][m] = known]
    BY <1>5 DEF Learn
  <2>2. known \in Infos /\ known.services = info[q][m].services
    BY <1>2 DEF Infos
  <2> HIDE DEF known
  <2> QED BY <1>1, <1>2, <1>3, <2>1, <2>2, EarlyCall
<1> QED BY <1>4, <1>5 DEF ListDisks, GetDiskUsage

\* PTP has answered.
LEMMA PTPAnsweredStep ==
  ASSUME IInv, NEW q \in Requests, NEW m \in Hostnames, PTPAnswered(q, m)
  PROVE  IInv'
<1>1. worker[q][m] = "ptp" /\ UNCHANGED <<handlerVars, syncVars>>
  BY DEF PTPAnswered
<1>2. m \in Modules /\ info[q][m] \in Infos /\ InfoAt(q, m)
  BY <1>1, Asking
<1>3. PICK ptp \in {"synced", "off"} : Learn(q, m, "ptp", ptp)
  BY DEF PTPAnswered
<1> DEFINE known == [info[q][m] EXCEPT !["ptp"] = ptp]
<1>4. info' = [info EXCEPT ![q][m] = known] /\ info'[q][m] = known
  BY <1>3 DEF Learn, IInv, PlainTypeOK
<1>5. known \in Infos /\ known.services = info[q][m].services /\ known.ptp # "none"
  BY <1>2 DEF Infos
<1> HIDE DEF known
<1>6. CASE query[q].kind = "ptp"
  <2>1. worker' = [worker EXCEPT ![q][m] = "send"] /\ query' = query
    BY <1>6 DEF PTPAnswered, Goto, handlerVars
  <2>2. worker'[q][m] = "send"
    BY <2>1 DEF IInv, PlainTypeOK
  <2>3. InfoAt(q, m)'
    BY <1>4, <1>5, <1>6, <2>1, <2>2 DEF InfoAt
  <2>4. "send" \in Stages \ {"none", "done"}
    BY DEF Stages
  <2> QED BY <1>1, <1>4, <1>5, <2>1, <2>3, <2>4, OneHostMoves
<1>7. CASE query[q].kind # "ptp"
  <2>1. worker' = [worker EXCEPT ![q][m] = FromServices(m)]
    BY <1>7 DEF PTPAnswered, Goto
  <2> QED BY <1>1, <1>4, <1>5, <1>7, <2>1, EarlyCall
<1> QED BY <1>6, <1>7

\* PTP has not.
LEMMA PTPMissedStep ==
  ASSUME IInv, NEW q \in Requests, NEW m \in Hostnames, PTPMissed(q, m)
  PROVE  IInv'
<1>1. worker[q][m] = "ptp" /\ UNCHANGED <<handlerVars, syncVars, info>>
  BY DEF PTPMissed
<1>2. /\ m \in Modules /\ info[q][m] \in Infos
      /\ query[q].kind = "ptp" => info[q][m] = Blank
  BY <1>1, Asking
<1>3. info' = [info EXCEPT ![q][m] = info[q][m]]
  BY <1>1, NothingLearned DEF IInv
<1>4. CASE query[q].kind = "ptp"
  <2>1. worker' = [worker EXCEPT ![q][m] = "sent"] /\ query' = query
    BY <1>4 DEF PTPMissed, Goto, handlerVars
  <2>2. worker'[q][m] = "sent"
    BY <2>1 DEF IInv, PlainTypeOK
  <2>3. InfoAt(q, m)'
    BY <1>1, <1>2, <1>4, <2>1, <2>2 DEF InfoAt
  <2>4. "sent" \in Stages \ {"none", "done"}
    BY DEF Stages
  <2>5. Blank.ptp = "none"
    BY DEF Blank
  <2> QED BY <1>1, <1>2, <1>3, <1>4, <2>1, <2>3, <2>4, <2>5, OneHostMoves
<1>5. CASE query[q].kind # "ptp"
  <2>1. worker' = [worker EXCEPT ![q][m] = FromServices(m)]
    BY <1>5 DEF PTPMissed, Goto
  <2> QED BY <1>1, <1>2, <1>3, <1>5, <2>1, EarlyCall
<1> QED BY <1>4, <1>5

\* No clients for the host: an error, or nothing to say.
LEMMA NoClientsStep ==
  ASSUME IInv, NEW q \in Requests, NEW h \in Hostnames, NoClients(q, h)
  PROVE  IInv'
<1>1. worker[q][h] = "start" /\ UNCHANGED <<handlerVars, syncVars>>
  BY DEF NoClients
<1>2. info[q][h] \in Infos /\ InfoAt(q, h)
  BY DEF IInv, PlainTypeOK, RequestInv, InfoInv
<1>3. info[q][h] = Blank
  BY <1>1, <1>2 DEF InfoAt
<1>4. worker \in [Requests -> [Hostnames -> Stages]] /\ query' = query
  BY <1>1 DEF IInv, PlainTypeOK, handlerVars
<1>5. CASE query[q].kind = "ptp"
  <2>1. worker' = [worker EXCEPT ![q][h] = "sent"] /\ UNCHANGED info
    BY <1>5 DEF NoClients, Goto
  <2>2. info' = [info EXCEPT ![q][h] = info[q][h]]
    BY <2>1, NothingLearned DEF IInv
  <2>3. worker'[q][h] = "sent"
    BY <1>4, <2>1
  <2>4. InfoAt(q, h)'
    BY <1>3, <1>4, <1>5, <2>1, <2>3 DEF InfoAt
  <2>5. "sent" \in Stages \ {"none", "done"}
    BY DEF Stages
  <2>6. Blank.ptp = "none"
    BY DEF Blank
  <2> QED BY <1>1, <1>2, <1>3, <1>5, <2>1, <2>2, <2>4, <2>5, <2>6, OneHostMoves
<1>6. CASE query[q].kind # "ptp"
  <2> DEFINE known == [Blank EXCEPT !.status = "ERROR"]
  <2>1. /\ worker' = [worker EXCEPT ![q][h] = "send"]
        /\ info' = [info EXCEPT ![q][h] = known]
    BY <1>3, <1>6 DEF NoClients, Goto, Learn
  <2>2. known \in Infos
    BY DEF Blank, Infos, Usages
  <2>3. worker'[q][h] = "send" /\ info'[q][h] = known
    BY <1>4, <2>1 DEF IInv, PlainTypeOK
  <2>4. InfoAt(q, h)'
    BY <1>4, <1>6, <2>3 DEF InfoAt
  <2>5. "send" \in Stages \ {"none", "done"}
    BY DEF Stages
  <2> QED BY <1>1, <2>1, <2>2, <2>4, <2>5, OneHostMoves
<1> QED BY <1>5, <1>6

\* The clients are there: the first call.
LEMMA ClientsStep ==
  ASSUME IInv, NEW q \in Requests, NEW m \in Hostnames, Clients(q, m)
  PROVE  IInv'
<1> DEFINE next == IF query[q].kind = "ptp" THEN "ptp" ELSE "env"
<1>1. /\ worker[q][m] = "start" /\ m \in Modules
      /\ worker' = [worker EXCEPT ![q][m] = next]
      /\ UNCHANGED <<handlerVars, syncVars, info>>
  BY DEF Clients, Goto
<1>2. info[q][m] \in Infos /\ InfoAt(q, m)
  BY DEF IInv, PlainTypeOK, RequestInv, InfoInv
<1>3. info[q][m] = Blank
  BY <1>1, <1>2 DEF InfoAt
<1>4. worker'[q][m] = next /\ query' = query
  BY <1>1 DEF IInv, PlainTypeOK, handlerVars
<1>5. info' = [info EXCEPT ![q][m] = info[q][m]]
  BY <1>1, NothingLearned DEF IInv
<1>6. InfoAt(q, m)'
  BY <1>1, <1>3, <1>4 DEF InfoAt
<1>7. next \in Stages \ {"none", "done"} /\ next # "sent"
  BY DEF Stages
<1> QED BY <1>1, <1>2, <1>5, <1>6, <1>7, OneHostMoves

\* The services: from here on they are known, or unknown.
LEMMA ServicesStep ==
  ASSUME IInv, NEW q \in Requests, NEW m \in Hostnames, ListServices(q, m)
  PROVE  IInv'
<1>1. worker[q][m] = "services" /\ UNCHANGED <<handlerVars, syncVars>>
  BY DEF ListServices
<1>2. /\ m \in Modules /\ info[q][m] \in Infos /\ query[q].kind # "ptp"
      /\ Watches(m, "services")
  <2>1. m \in Modules /\ info[q][m] \in Infos /\ query[q].kind # "ptp" /\ InfoAt(q, m)
    BY <1>1, Asking
  <2> QED BY <1>1, <2>1 DEF InfoAt
<1>3. ServicesFound(q, m) \in [Services -> States \cup {"", "unknown", "transferring", "stopped"}]
  <2>1. truth[m] \in [Services -> States \cup {"unread"}]
    BY <1>2 DEF IInv, PlainTypeOK
  <2>2. ASSUME NEW s \in Services, truth[m][s] # "unread"
        PROVE  /\ truth[m][s] \in States
               /\ Transferring(truth[m][s]) \in {"transferring", "failed", "stopped"}
    BY <2>1, <2>2 DEF Transferring
  <2> QED BY <2>2 DEF ServicesFound, Shown, Listed, States
<1> DEFINE known == [info[q][m] EXCEPT !["services"] = ServicesFound(q, m)]
           next == FromRecording(m)
<1>4. /\ info' = [info EXCEPT ![q][m] = known] /\ info'[q][m] = known
      /\ worker' = [worker EXCEPT ![q][m] = next] /\ worker'[q][m] = next
  BY DEF ListServices, Learn, Goto, IInv, PlainTypeOK
<1>5. known \in Infos /\ known.services = ServicesFound(q, m)
  BY <1>2, <1>3 DEF Infos
<1>6. next \in {"recording", "judge"}
  BY <1>2, NextStages
<1>7. Told(q, m)' = ServicesFound(q, m)
  BY <1>1, <1>2 DEF Told, ServicesFound, Shown, Listed, Watches, handlerVars
<1> HIDE DEF known, next
<1>8. InfoAt(q, m)'
  BY <1>1, <1>2, <1>4, <1>5, <1>6, <1>7 DEF InfoAt, handlerVars
<1>9. next \in Stages \ {"none", "done"} /\ next # "sent"
  BY <1>6 DEF Stages
<1> QED BY <1>1, <1>4, <1>5, <1>8, <1>9, OneHostMoves

\* The recording is asked for and not kept.
LEMMA RecordingStep ==
  ASSUME IInv, NEW q \in Requests, NEW m \in Hostnames, GetRecording(q, m)
  PROVE  IInv'
<1>1. /\ worker[q][m] = "recording" /\ worker' = [worker EXCEPT ![q][m] = "judge"]
      /\ UNCHANGED <<handlerVars, syncVars, info>>
  BY DEF GetRecording, Goto
<1>2. m \in Modules /\ info[q][m] \in Infos /\ query[q].kind # "ptp" /\ InfoAt(q, m)
  BY <1>1, Asking
<1>3. info' = [info EXCEPT ![q][m] = info[q][m]]
  BY <1>1, NothingLearned DEF IInv
<1>4. worker'[q][m] = "judge" /\ query' = query /\ Told(q, m)' = Told(q, m)
  BY <1>1 DEF IInv, PlainTypeOK, handlerVars, Told, ServicesFound, Shown, Listed, Watches
<1>5. InfoAt(q, m)'
  BY <1>1, <1>2, <1>4 DEF InfoAt
<1>6. "judge" \in Stages \ {"none", "done"}
  BY DEF Stages
<1> QED BY <1>1, <1>2, <1>3, <1>5, <1>6, OneHostMoves

\* The verdict on what has been learned; it looks at everything but itself.
LEMMA JudgeStep ==
  ASSUME IInv, NEW q \in Requests, NEW m \in Hostnames, Judge(q, m)
  PROVE  IInv'
<1> DEFINE known == [info[q][m] EXCEPT !["status"] = Overall(info[q][m])]
<1>1. /\ worker[q][m] = "judge" /\ worker' = [worker EXCEPT ![q][m] = "send"]
      /\ info' = [info EXCEPT ![q][m] = known]
      /\ UNCHANGED <<handlerVars, syncVars>>
  BY DEF Judge, Goto, Learn
<1>2. m \in Modules /\ info[q][m] \in Infos /\ query[q].kind # "ptp" /\ InfoAt(q, m)
  BY <1>1, Asking
<1>3. Overall(info[q][m]) \in {"", "OK", "WARN", "ERROR"}
  BY DEF Overall
<1>4. /\ known \in Infos /\ known.services = info[q][m].services
      /\ known.status = Overall(info[q][m])
  BY <1>2, <1>3 DEF Infos
<1>5. Overall(known) = Overall(info[q][m])
  BY <1>2 DEF Overall, Infos
<1>6. worker'[q][m] = "send" /\ info'[q][m] = known
  BY <1>1 DEF IInv, PlainTypeOK
<1> HIDE DEF known
<1>7. query' = query /\ Told(q, m)' = Told(q, m)
  BY <1>1 DEF handlerVars, Told, ServicesFound, Shown, Listed, Watches
<1>8. info[q][m].services = Told(q, m)
  BY <1>1, <1>2 DEF InfoAt
<1>9. InfoAt(q, m)'
  BY <1>2, <1>4, <1>5, <1>6, <1>7, <1>8 DEF InfoAt
<1>10. "send" \in Stages \ {"none", "done"}
  BY DEF Stages
<1> QED BY <1>1, <1>4, <1>9, <1>10, OneHostMoves

\* Another stage at the end of a goroutine, where nothing is learned any more.
LEMMA LateInfo ==
  ASSUME IInv, NEW q \in Requests, NEW h \in Hostnames, NEW next \in {"sent", "done"},
         worker[q][h] \in {"send", "sent"}, worker' = [worker EXCEPT ![q][h] = next],
         UNCHANGED <<handlerVars, info>>
  PROVE  /\ InfoInv(q)'
         /\ worker' \in [Requests -> [Hostnames -> Stages]]
         /\ worker'[q][h] = next
         /\ \A g \in Hostnames : g # h => worker'[q][g] = worker[q][g]
         /\ \A r \in Requests : r # q => worker'[r] = worker[r]
<1>1. worker \in [Requests -> [Hostnames -> Stages]]
  BY DEF IInv, PlainTypeOK
<1>2. /\ worker' \in [Requests -> [Hostnames -> Stages]]
      /\ worker'[q] = [worker[q] EXCEPT ![h] = next]
      /\ \A r \in Requests : r # q => worker'[r] = worker[r]
  BY <1>1 DEF Stages
<1>3. /\ worker'[q][h] = next
      /\ \A g \in Hostnames : g # h => worker'[q][g] = worker[q][g]
  BY <1>1, <1>2
<1>4. ASSUME NEW g \in Hostnames PROVE InfoAt(q, g)'
  <2>1. InfoAt(q, g)
    BY DEF IInv, RequestInv, InfoInv
  <2>2. Told(q, g)' = Told(q, g) /\ info'[q][g] = info[q][g] /\ query' = query
    BY DEF handlerVars, Told, ServicesFound, Shown, Listed, Watches
  <2>3. CASE g # h
    BY <1>3, <2>1, <2>2, <2>3 DEF InfoAt
  <2>4. CASE g = h
    BY <1>3, <2>1, <2>2, <2>4 DEF InfoAt
  <2> QED BY <2>3, <2>4
<1> QED BY <1>2, <1>3, <1>4 DEF InfoInv

\* One status goes to the channel, or GetModule has it.
LEMMA SendStep ==
  ASSUME IInv, NEW q \in Requests, NEW h \in Hostnames, Send(q, h)
  PROVE  IInv'
<1>1. /\ worker[q][h] = "send" /\ worker' = [worker EXCEPT ![q][h] = "sent"]
      /\ UNCHANGED <<handlerVars, info, wg, closer, listed>>
  BY DEF Send, Goto
<1>2. /\ InfoInv(q)'
      /\ worker' \in [Requests -> [Hostnames -> Stages]]
      /\ worker'[q][h] = "sent"
      /\ \A g \in Hostnames : g # h => worker'[q][g] = worker[q][g]
      /\ \A r \in Requests : r # q => worker'[r] = worker[r]
  BY <1>1, LateInfo
<1>3. FlowInv(q) /\ InfoAt(q, h) /\ DeliveryInv(q)
  BY DEF IInv, RequestInv, InfoInv
<1>4. /\ query[q].kind # "one" => h \in Modules
      /\ pc[q] # "idle" /\ h \in Active(q)
  BY <1>1, <1>3 DEF FlowInv, Asked, Active
<1>5. channel \in [Requests -> Seq(Modules)] /\ listed \in [Requests -> Seq(Modules)]
  BY DEF IInv, SeqTypeOK
<1>6. channel'[q] = IF query[q].kind = "one" THEN channel[q] ELSE Append(channel[q], h)
  BY <1>5 DEF Send, OwnHost
<1>7. /\ channel' \in [Requests -> Seq(Modules)]
      /\ \A r \in Requests : r # q => channel'[r] = channel[r]
  <2>1. CASE query[q].kind = "one"
    BY <1>5, <2>1 DEF Send
  <2>2. CASE query[q].kind # "one"
    <3> DEFINE longer == Append(channel[q], h)
    <3>1. channel' = [channel EXCEPT ![q] = longer]
      BY <2>2 DEF Send, OwnHost
    <3>2. longer \in Seq(Modules)
      BY <1>4, <1>5, <2>2
    <3> HIDE DEF longer
    <3> QED BY <1>5, <3>1, <3>2
  <2> QED BY <2>1, <2>2
<1>8. PlainTypeOK' /\ SeqTypeOK'
  <2>1. PlainTypeOK'
    BY <1>1, <1>2 DEF IInv, PlainTypeOK, handlerVars
  <2> QED BY <1>1, <1>5, <1>7, <2>1 DEF SeqTypeOK
<1>9. Active(q)' = Active(q)
  BY <1>1, <1>2 DEF Active
<1>10. FlowInv(q)'
  <2>1. /\ pc[q] # "idle" /\ pc'[q] # "idle" /\ query' = query /\ pc' = pc /\ reply' = reply
        /\ closer' = closer /\ wg' = wg
    BY <1>1, <1>4 DEF handlerVars
  <2>2. \A g \in Hostnames : /\ worker'[q][g] = "none" <=> worker[q][g] = "none"
                             /\ worker'[q][g] = "done" <=> worker[q][g] = "done"
    BY <1>1, <1>2
  <2>3. closer[q] # "closed" /\ closer'[q] # "closed"
    BY <1>1, <1>3, <1>4 DEF FlowInv
  <2>4. CASE query[q].kind = "one"
    <3>1. reply[q] = "none"
      BY <1>1, Waiting
    <3>2. pc[q] # "collect" /\ closer[q] = "none"
      BY <1>3, <2>1, <2>4 DEF FlowInv
    <3>3. \A g \in Hostnames : (worker[q][g] = "none" <=> g # query[q].host) /\ worker[q][g] # "done"
      BY <1>3, <2>1, <2>4 DEF FlowInv
    <3>4. \A g \in Hostnames : (worker'[q][g] = "none" <=> g # query[q].host) /\ worker'[q][g] # "done"
      BY <2>2, <3>3
    <3> QED BY <2>1, <2>3, <2>4, <3>1, <3>2, <3>4 DEF FlowInv
  <2>5. CASE query[q].kind # "one"
    <3>1. reply[q] = "none"
      BY <1>3, <2>1, <2>3, <2>5 DEF FlowInv
    <3>2. pc[q] # "single" /\ closer[q] # "none" /\ wg[q] = Cardinality(Active(q)')
      BY <1>3, <1>9, <2>1, <2>5 DEF FlowInv
    <3>3. \A g \in Hostnames : worker[q][g] = "none" <=> g \notin Asked(query[q].kind)
      BY <1>3, <2>1, <2>5 DEF FlowInv
    <3>4. \A g \in Hostnames : worker'[q][g] = "none" <=> g \notin Asked(query[q].kind)
      BY <2>2, <3>3
    <3> QED BY <2>1, <2>3, <2>5, <3>1, <3>2, <3>4 DEF FlowInv
  <2> QED BY <2>4, <2>5
<1>11. DeliveryInv(q)'
  <2>1. listed' = listed /\ query' = query /\ info' = info
    BY <1>1 DEF handlerVars
  <2>2. CASE query[q].kind = "one"
    <3>1. channel'[q] = channel[q]
      BY <1>6, <2>2
    <3> QED BY <1>3, <2>1, <2>2, <3>1 DEF DeliveryInv, Delivered
  <2>3. CASE query[q].kind # "one"
    <3>1. h \in Modules /\ channel'[q] = Append(channel[q], h)
      BY <1>4, <1>6, <2>3
    <3>2. ~ Delivered(q, h)
      BY <1>1 DEF Delivered
    <3>3. ~ Occurs(h, listed[q], channel[q]) /\ NoRepeats(listed[q], channel[q])
      BY <1>3, <3>1, <3>2 DEF DeliveryInv
    <3>4. /\ NoRepeats(listed[q], channel'[q])
          /\ \A m : Occurs(m, listed[q], channel'[q]) <=> Occurs(m, listed[q], channel[q]) \/ m = h
      BY <1>5, <3>1, <3>3, SendOne
    <3>5. query[q].kind = "all" \/ info[q][h].ptp # "none"
      <4>1. query[q].kind \in {"all", "ptp", "one"}
        BY DEF IInv, PlainTypeOK
      <4> QED BY <1>1, <1>3, <2>3, <4>1 DEF InfoAt
    <3>6. Delivered(q, h)'
      BY <1>2, <2>1, <2>3, <3>5 DEF Delivered
    <3>7. ASSUME NEW m \in Modules, m # h PROVE Delivered(q, m)' <=> Delivered(q, m)
      BY <1>2, <2>1, <3>7, StatusAssumption DEF Delivered
    <3> QED BY <1>3, <2>1, <3>4, <3>6, <3>7 DEF DeliveryInv
  <2> QED BY <2>2, <2>3
<1>12. ASSUME NEW r \in Requests, r # q PROVE RequestInv(r)'
  BY <1>1, <1>2, <1>7, <1>12, Frame DEF IInv, handlerVars
<1>13. ReplyInv(q)'
  BY <1>1, Waiting DEF ReplyInv, handlerVars
<1> QED BY <1>2, <1>8, <1>10, <1>11, <1>12, <1>13 DEF IInv, RequestInv

\* A goroutine of a fan-out ends.
LEMMA DoneStep ==
  ASSUME IInv, NEW q \in Requests, NEW h \in Hostnames, Done(q, h)
  PROVE  IInv'
<1>1. /\ worker[q][h] = "sent" /\ worker' = [worker EXCEPT ![q][h] = "done"]
      /\ UNCHANGED <<handlerVars, info, closer, channel, listed>>
      /\ query[q].kind # "one" /\ wg' = [wg EXCEPT ![q] = @ - 1]
  BY DEF Done, Goto
<1>2. /\ InfoInv(q)'
      /\ worker' \in [Requests -> [Hostnames -> Stages]]
      /\ worker'[q][h] = "done"
      /\ \A g \in Hostnames : g # h => worker'[q][g] = worker[q][g]
      /\ \A r \in Requests : r # q => worker'[r] = worker[r]
  BY <1>1, LateInfo
<1>3. FlowInv(q) /\ DeliveryInv(q)
  BY DEF IInv, RequestInv
<1>4. pc[q] # "idle" /\ h \in Active(q) /\ wg[q] = Cardinality(Active(q))
  BY <1>1, <1>3 DEF FlowInv, Active
<1>5. Active(q)' = Active(q) \ {h}
  BY <1>1, <1>2 DEF Active
<1>6. IsFiniteSet(Active(q))
  <2>1. Active(q) \subseteq Modules
    BY <1>1, <1>3, <1>4 DEF FlowInv, Active, Asked
  <2> QED BY <2>1, FS_Subset, StatusAssumption
<1>7. /\ Cardinality(Active(q)) - 1 = Cardinality(Active(q)')
      /\ Cardinality(Active(q)') \in Nat
  <2>1. Cardinality(Active(q) \ {h}) = Cardinality(Active(q)) - 1
    BY <1>4, <1>6, FS_RemoveElement
  <2>2. IsFiniteSet(Active(q) \ {h})
    BY <1>6, FS_RemoveElement
  <2> QED BY <1>5, <2>1, <2>2, FS_CardinalityType
<1>8. /\ wg' \in [Requests -> Nat] /\ wg'[q] = Cardinality(Active(q)')
      /\ \A r \in Requests : r # q => wg'[r] = wg[r]
  BY <1>1, <1>4, <1>7 DEF IInv, PlainTypeOK
<1>9. PlainTypeOK' /\ SeqTypeOK'
  <2>1. PlainTypeOK'
    BY <1>1, <1>2, <1>8 DEF IInv, PlainTypeOK, handlerVars
  <2> QED BY <1>1, <2>1 DEF IInv, SeqTypeOK
<1>10. FlowInv(q)'
  <2>1. /\ pc[q] # "idle" /\ query' = query /\ pc' = pc /\ reply' = reply
        /\ closer' = closer /\ channel' = channel
    BY <1>1, <1>4 DEF handlerVars
  <2>2. \A g \in Hostnames : worker'[q][g] = "none" <=> worker[q][g] = "none"
    BY <1>1, <1>2
  <2>3. closer[q] # "closed"
    BY <1>3, <1>4 DEF FlowInv
  <2>4. reply[q] = "none"
    BY <1>1, <1>3, <1>4, <2>3 DEF FlowInv
  <2> QED BY <1>1, <1>3, <1>8, <2>1, <2>2, <2>3, <2>4 DEF FlowInv
<1>11. DeliveryInv(q)'
  <2>1. ASSUME NEW m \in Modules PROVE Delivered(q, m)' <=> Delivered(q, m)
    BY <1>1, <1>2, StatusAssumption DEF Delivered, handlerVars
  <2> QED BY <1>1, <1>3, <2>1 DEF DeliveryInv
<1>12. ASSUME NEW r \in Requests, r # q PROVE RequestInv(r)'
  BY <1>1, <1>2, <1>8, <1>12, Frame DEF IInv, handlerVars
<1>13. ReplyInv(q)'
  BY <1>1, Waiting DEF ReplyInv, handlerVars
<1> QED BY <1>2, <1>9, <1>10, <1>11, <1>12, <1>13 DEF IInv, RequestInv

-----------------------------------------------------------------------------
(* The handlers *)

\* Before anything is asked nobody has delivered.
LEMMA FreshRequest ==
  ASSUME IInv, NEW q \in Requests, pc[q] = "idle"
  PROVE  /\ closer[q] = "none" /\ reply[q] = "none" /\ listed[q] = <<>> /\ channel[q] = <<>>
         /\ \A h \in Hostnames : worker[q][h] = "none" /\ info[q][h] = Blank
         /\ NoRepeats(listed[q], channel[q])
         /\ \A m : ~ Occurs(m, listed[q], channel[q])
<1>1. FlowInv(q) /\ InfoInv(q)
  BY DEF IInv, RequestInv
<1>2. /\ closer[q] = "none" /\ reply[q] = "none" /\ listed[q] = <<>> /\ channel[q] = <<>>
      /\ \A h \in Hostnames : worker[q][h] = "none"
  BY <1>1 DEF FlowInv
<1>3. \A h \in Hostnames : info[q][h] = Blank
  BY <1>1, <1>2 DEF InfoInv, InfoAt
<1>4. DOMAIN listed[q] = {} /\ DOMAIN channel[q] = {}
  BY <1>2
<1> QED BY <1>2, <1>3, <1>4 DEF NoRepeats, Occurs

\* A fan-out starts one goroutine for each host that it asks.
LEMMA FanOutStep ==
  ASSUME IInv, NEW q \in Requests, NEW kind \in {"all", "ptp"}, FanOut(q, kind)
  PROVE  IInv'
<1> DEFINE started == [h \in Hostnames |-> IF h \in Asked(kind) THEN "start" ELSE "none"]
           what == [kind |-> kind, host |-> Nas]
<1>1. /\ pc[q] = "idle" /\ pc' = [pc EXCEPT ![q] = "collect"]
      /\ query' = [query EXCEPT ![q] = what]
      /\ worker' = [worker EXCEPT ![q] = started]
      /\ wg' = [wg EXCEPT ![q] = Cardinality(Asked(kind))]
      /\ closer' = [closer EXCEPT ![q] = "waiting"]
      /\ UNCHANGED <<truth, info, channel, listed, reply>>
  BY DEF FanOut
<1>2. started \in [Hostnames -> Stages] /\ what \in [kind : {"all", "ptp", "one"}, host : Hostnames]
  BY StatusAssumption DEF Stages
<1>3. Asked(kind) \subseteq Modules /\ Modules \subseteq Hostnames /\ Cardinality(Asked(kind)) \in Nat
  <2>1. Asked(kind) \subseteq Modules
    BY DEF Asked
  <2> QED BY <2>1, FS_Subset, FS_CardinalityType, StatusAssumption
<1>4. /\ \A h \in Hostnames : /\ started[h] \in {"none", "start"}
                              /\ started[h] = "none" <=> h \notin Asked(kind)
      /\ what.kind = kind
  OBVIOUS
<1> HIDE DEF started, what
<1>5. /\ pc'[q] = "collect" /\ query'[q] = what /\ worker'[q] = started
      /\ wg'[q] = Cardinality(Asked(kind)) /\ closer'[q] = "waiting"
  BY <1>1 DEF IInv, PlainTypeOK
<1>6. PlainTypeOK' /\ SeqTypeOK'
  <2>1. PlainTypeOK'
    BY <1>1, <1>2, <1>3 DEF IInv, PlainTypeOK
  <2> QED BY <1>1, <2>1 DEF IInv, SeqTypeOK
<1>7. ASSUME NEW r \in Requests, r # q PROVE RequestInv(r)'
  BY <1>1, <1>7, Frame DEF IInv, PlainTypeOK
<1>8. /\ reply[q] = "none" /\ \A h \in Hostnames : info[q][h] = Blank
      /\ NoRepeats(listed[q], channel[q]) /\ \A m : ~ Occurs(m, listed[q], channel[q])
  BY <1>1, FreshRequest
<1>9. Active(q)' = Asked(kind)
  BY <1>3, <1>4, <1>5 DEF Active
<1>10. FlowInv(q)'
  BY <1>1, <1>4, <1>5, <1>8, <1>9 DEF FlowInv
<1>11. ASSUME NEW h \in Hostnames PROVE InfoAt(q, h)'
  BY <1>1, <1>4, <1>5, <1>8 DEF InfoAt
<1>12. DeliveryInv(q)'
  <2>1. \A m \in Modules : ~ Delivered(q, m)'
    BY <1>3, <1>4, <1>5 DEF Delivered
  <2> QED BY <1>1, <1>8, <2>1 DEF DeliveryInv
<1>13. ReplyInv(q)'
  BY <1>1, <1>8 DEF ReplyInv
<1> QED BY <1>6, <1>7, <1>10, <1>11, <1>12, <1>13 DEF IInv, RequestInv, InfoInv

\* GetModule asks one host, without a goroutine.
LEMMA GetModuleStep ==
  ASSUME IInv, NEW q \in Requests, NEW h \in Hostnames, GetModule(q, h)
  PROVE  IInv'
<1> DEFINE what == [kind |-> "one", host |-> h]
<1>1. /\ pc[q] = "idle" /\ pc' = [pc EXCEPT ![q] = "single"]
      /\ query' = [query EXCEPT ![q] = what]
      /\ worker' = [worker EXCEPT ![q][h] = "start"]
      /\ UNCHANGED <<truth, info, syncVars, reply>>
  BY DEF GetModule
<1>2. what \in [kind : {"all", "ptp", "one"}, host : Hostnames] /\ what.kind = "one" /\ what.host = h
  OBVIOUS
<1> HIDE DEF what
<1>3. worker \in [Requests -> [Hostnames -> Stages]]
  BY DEF IInv, PlainTypeOK
<1>4. /\ worker' \in [Requests -> [Hostnames -> Stages]]
      /\ worker'[q] = [worker[q] EXCEPT ![h] = "start"]
      /\ \A r \in Requests : r # q => worker'[r] = worker[r]
  BY <1>1, <1>3 DEF Stages
<1>5. /\ worker'[q][h] = "start"
      /\ \A g \in Hostnames : g # h => worker'[q][g] = worker[q][g]
  BY <1>3, <1>4
<1>6. pc'[q] = "single" /\ query'[q] = what
  BY <1>1 DEF IInv, PlainTypeOK
<1>7. PlainTypeOK' /\ SeqTypeOK'
  <2>1. PlainTypeOK'
    BY <1>1, <1>2, <1>4 DEF IInv, PlainTypeOK, syncVars
  <2> QED BY <1>1, <2>1 DEF IInv, SeqTypeOK, syncVars
<1>8. ASSUME NEW r \in Requests, r # q PROVE RequestInv(r)'
  <2>1. /\ pc'[r] = pc[r] /\ query'[r] = query[r] /\ worker'[r] = worker[r]
    BY <1>1, <1>4, <1>8 DEF IInv, PlainTypeOK
  <2> QED BY <1>1, <2>1, Frame DEF IInv, syncVars
<1>9. /\ closer[q] = "none" /\ reply[q] = "none"
      /\ \A g \in Hostnames : worker[q][g] = "none" /\ info[q][g] = Blank
      /\ NoRepeats(listed[q], channel[q]) /\ \A m : ~ Occurs(m, listed[q], channel[q])
  BY <1>1, FreshRequest
<1>10. FlowInv(q)'
  <2>1. \A g \in Hostnames : (worker'[q][g] = "none" <=> g # h) /\ worker'[q][g] # "done"
    BY <1>5, <1>9
  <2> QED BY <1>1, <1>2, <1>6, <1>9, <2>1 DEF FlowInv, syncVars
<1>11. ASSUME NEW g \in Hostnames PROVE InfoAt(q, g)'
  <2>1. worker'[q][g] \in {"none", "start"}
    BY <1>5, <1>9
  <2> QED BY <1>1, <1>2, <1>6, <1>9, <2>1 DEF InfoAt
<1>12. DeliveryInv(q)'
  <2>1. \A m \in Modules : ~ Delivered(q, m)'
    BY <1>2, <1>6 DEF Delivered
  <2> QED BY <1>1, <1>9, <2>1 DEF DeliveryInv, syncVars
<1>13. ReplyInv(q)'
  BY <1>1, <1>9 DEF ReplyInv
<1> QED BY <1>7, <1>8, <1>10, <1>11, <1>12, <1>13 DEF IInv, RequestInv, InfoInv

\* The channel is closed when every goroutine has counted down.
LEMMA CloseStep ==
  ASSUME IInv, NEW q \in Requests, Close(q)
  PROVE  IInv'
<1>1. /\ closer[q] = "waiting" /\ wg[q] = 0 /\ closer' = [closer EXCEPT ![q] = "closed"]
      /\ UNCHANGED <<handlerVars, worker, info, wg, channel, listed>>
  BY DEF Close
<1>2. PlainTypeOK' /\ SeqTypeOK'
  <2>1. PlainTypeOK'
    BY <1>1 DEF IInv, PlainTypeOK, handlerVars
  <2> QED BY <1>1, <2>1 DEF IInv, SeqTypeOK
<1>3. ASSUME NEW r \in Requests, r # q PROVE RequestInv(r)'
  BY <1>1, <1>3, Frame DEF IInv, PlainTypeOK, handlerVars
<1>4. FlowInv(q) /\ closer'[q] = "closed"
  BY <1>1 DEF IInv, RequestInv, PlainTypeOK
<1>5. pc[q] # "idle" /\ query[q].kind # "one" /\ wg[q] = Cardinality(Active(q)) /\ pc[q] # "single"
  BY <1>1, <1>4 DEF FlowInv
<1>6. Active(q) = {}
  <2>1. Active(q) \subseteq Modules
    BY <1>4, <1>5 DEF FlowInv, Active, Asked
  <2>2. IsFiniteSet(Active(q))
    BY <2>1, FS_Subset, StatusAssumption
  <2> QED BY <1>1, <1>5, <2>2, FS_EmptySet
<1>7. Active(q)' = Active(q)
  BY <1>1 DEF Active
<1>8. FlowInv(q)'
  BY <1>1, <1>4, <1>5, <1>6, <1>7 DEF FlowInv, handlerVars
<1>9. InfoInv(q)' /\ DeliveryInv(q)' /\ ReplyInv(q)'
  <2>1. InfoInv(q) /\ DeliveryInv(q) /\ ReplyInv(q)
    BY DEF IInv, RequestInv
  <2>2. \A h \in Hostnames : Told(q, h)' = Told(q, h)
    BY <1>1 DEF handlerVars, Told, ServicesFound, Shown, Listed, Watches
  <2>3. InfoInv(q)'
    BY <1>1, <2>1, <2>2 DEF handlerVars, InfoInv, InfoAt
  <2>4. DeliveryInv(q)' /\ ReplyInv(q)'
    BY <1>1, <2>1 DEF handlerVars, DeliveryInv, Delivered, ReplyInv
  <2> QED BY <2>3, <2>4
<1> QED BY <1>2, <1>3, <1>8, <1>9 DEF IInv, RequestInv

\* The handler takes the next status from the channel.
LEMMA CollectStep ==
  ASSUME IInv, NEW q \in Requests, Collect(q)
  PROVE  IInv'
<1> DEFINE more == Append(listed[q], Head(channel[q]))
           rest == Tail(channel[q])
<1>1. /\ pc[q] = "collect" /\ channel[q] # <<>>
      /\ listed' = [listed EXCEPT ![q] = more] /\ channel' = [channel EXCEPT ![q] = rest]
      /\ UNCHANGED <<handlerVars, worker, info, wg, closer>>
  BY DEF Collect
<1>2. channel \in [Requests -> Seq(Modules)] /\ listed \in [Requests -> Seq(Modules)]
  BY DEF IInv, SeqTypeOK
<1>3. more \in Seq(Modules) /\ rest \in Seq(Modules)
  BY <1>1, <1>2
<1>4. /\ FlowInv(q) /\ InfoInv(q) /\ DeliveryInv(q) /\ ReplyInv(q)
  BY DEF IInv, RequestInv
<1>5. NoRepeats(more, rest) /\ \A m : Occurs(m, more, rest) <=> Occurs(m, listed[q], channel[q])
  BY <1>1, <1>2, <1>4, MoveOne DEF DeliveryInv
<1> HIDE DEF more, rest
<1>6. PlainTypeOK' /\ SeqTypeOK'
  <2>1. PlainTypeOK'
    BY <1>1 DEF IInv, PlainTypeOK, handlerVars
  <2> QED BY <1>1, <1>2, <1>3, <2>1 DEF SeqTypeOK
<1>7. ASSUME NEW r \in Requests, r # q PROVE RequestInv(r)'
  BY <1>1, <1>2, <1>7, Frame DEF IInv, handlerVars
<1>8. listed'[q] = more /\ channel'[q] = rest
  BY <1>1, <1>2
<1>9. Active(q)' = Active(q)
  BY <1>1 DEF Active
<1>10. FlowInv(q)'
  <2>1. query[q].kind # "one"
    BY <1>1, <1>4 DEF FlowInv
  <2>2. reply[q] = "none"
    BY <1>1, <1>4, <2>1 DEF FlowInv
  <2> QED BY <1>1, <1>4, <1>9, <2>1, <2>2 DEF FlowInv, handlerVars
<1>11. InfoInv(q)' /\ DeliveryInv(q)' /\ ReplyInv(q)'
  <2>1. \A h \in Hostnames : Told(q, h)' = Told(q, h)
    BY <1>1 DEF handlerVars, Told, ServicesFound, Shown, Listed, Watches
  <2>2. InfoInv(q)'
    BY <1>1, <1>4, <2>1 DEF handlerVars, InfoInv, InfoAt
  <2>3. DeliveryInv(q)'
    BY <1>1, <1>4, <1>5, <1>8 DEF handlerVars, DeliveryInv, Delivered
  <2>4. ReplyInv(q)'
    BY <1>1, <1>4 DEF handlerVars, ReplyInv
  <2> QED BY <2>2, <2>3, <2>4
<1> QED BY <1>6, <1>7, <1>10, <1>11 DEF IInv, RequestInv

\* The handler answers with what it has; a query of one module when it is done.
LEMMA AnswerStep ==
  ASSUME IInv, NEW q \in Requests, AnswerList(q) \/ AnswerModule(q)
  PROVE  IInv'
<1>1. /\ pc[q] \in {"collect", "single"} /\ pc' = [pc EXCEPT ![q] = "replied"]
      /\ UNCHANGED <<truth, query, worker, info, syncVars>>
  BY DEF AnswerList, AnswerModule
<1>2. PICK answer \in {"ok", "not found"} : reply' = [reply EXCEPT ![q] = answer]
  BY DEF AnswerList, AnswerModule
<1>3. PlainTypeOK' /\ SeqTypeOK'
  <2>1. PlainTypeOK'
    BY <1>1, <1>2 DEF IInv, PlainTypeOK, syncVars
  <2> QED BY <1>1, <2>1 DEF IInv, SeqTypeOK, syncVars
<1>4. ASSUME NEW r \in Requests, r # q PROVE RequestInv(r)'
  BY <1>1, <1>2, <1>4, Frame DEF IInv, PlainTypeOK, syncVars
<1>5. FlowInv(q) /\ InfoInv(q) /\ DeliveryInv(q)
  BY DEF IInv, RequestInv
<1>6. pc'[q] = "replied" /\ reply'[q] = answer
  BY <1>1, <1>2 DEF IInv, PlainTypeOK
<1>7. Active(q)' = Active(q)
  BY <1>1 DEF Active
<1>8. /\ query[q].kind = "one" => AnswerModule(q)
      /\ query[q].kind # "one" => AnswerList(q)
  BY <1>5 DEF FlowInv, AnswerList, AnswerModule
<1>9. FlowInv(q)'
  <2>1. CASE query[q].kind = "one"
    <3>1. worker[q][query[q].host] = "sent"
      BY <1>8, <2>1 DEF AnswerModule
    <3> QED BY <1>1, <1>5, <1>6, <1>7, <2>1, <3>1 DEF FlowInv, syncVars
  <2>2. CASE query[q].kind # "one"
    <3>1. channel[q] = <<>> /\ closer[q] = "closed" /\ reply'[q] = "ok"
      BY <1>8, <2>2 DEF AnswerList, IInv, PlainTypeOK
    <3> QED BY <1>1, <1>5, <1>6, <1>7, <2>2, <3>1 DEF FlowInv, syncVars
  <2> QED BY <2>1, <2>2
<1>10. InfoInv(q)' /\ DeliveryInv(q)'
  <2>1. \A h \in Hostnames : Told(q, h)' = Told(q, h)
    BY <1>1 DEF Told, ServicesFound, Shown, Listed, Watches
  <2>2. InfoInv(q)'
    BY <1>1, <1>5, <2>1 DEF InfoInv, InfoAt
  <2>3. DeliveryInv(q)'
    BY <1>1, <1>5 DEF syncVars, DeliveryInv, Delivered
  <2> QED BY <2>2, <2>3
<1>11. ReplyInv(q)'
  <2>1. CASE query[q].kind = "one"
    <3> DEFINE known == info[q][query[q].host]
               missing == known.status = "ERROR" /\ known.services["drs_sensor"] = ""
    <3>1. reply' = [reply EXCEPT ![q] = IF missing THEN "not found" ELSE "ok"]
      BY <1>8, <2>1 DEF AnswerModule
    <3>2. reply'[q] = "not found" => missing
      BY <3>1 DEF IInv, PlainTypeOK
    <3> QED BY <1>1, <3>2 DEF ReplyInv
  <2>2. CASE query[q].kind # "one"
    BY <1>8, <2>2 DEF AnswerList, ReplyInv, IInv, PlainTypeOK
  <2> QED BY <2>1, <2>2
<1> QED BY <1>3, <1>4, <1>9, <1>10, <1>11 DEF IInv, RequestInv

-----------------------------------------------------------------------------
(* The invariant *)

\* Nothing has been asked.
LEMMA InitInv == Init => IInv
<1> SUFFICES ASSUME Init PROVE IInv
  OBVIOUS
<1>1. Blank \in Infos
  BY DEF Blank, Infos, Usages
<1>2. PlainTypeOK
  <2>1. query \in [Requests -> [kind : {"all", "ptp", "one"}, host : Hostnames]]
    BY StatusAssumption DEF Init
  <2>2. /\ worker \in [Requests -> [Hostnames -> Stages]]
        /\ info \in [Requests -> [Hostnames -> Infos]]
    BY <1>1 DEF Init, Stages
  <2> QED BY <2>1, <2>2 DEF Init, PlainTypeOK
<1>3. SeqTypeOK
  <2>1. <<>> \in Seq(Modules)
    OBVIOUS
  <2> QED BY <2>1 DEF Init, SeqTypeOK
<1>4. ASSUME NEW r \in Requests PROVE RequestInv(r)
  <2>1. /\ pc[r] = "idle" /\ closer[r] = "none" /\ reply[r] = "none" /\ query[r].kind = "all"
        /\ listed[r] = <<>> /\ channel[r] = <<>>
        /\ \A h \in Hostnames : worker[r][h] = "none" /\ info[r][h] = Blank
    BY DEF Init
  <2>2. FlowInv(r) /\ InfoInv(r) /\ ReplyInv(r)
    BY <2>1 DEF FlowInv, InfoInv, InfoAt, ReplyInv
  <2>3. DOMAIN listed[r] = {} /\ DOMAIN channel[r] = {}
    BY <2>1
  <2>4. \A m \in Modules : ~ Delivered(r, m)
    BY <2>1, StatusAssumption DEF Delivered
  <2>5. DeliveryInv(r)
    BY <2>3, <2>4 DEF DeliveryInv, NoRepeats, Occurs
  <2> QED BY <2>2, <2>5 DEF RequestInv
<1> QED BY <1>2, <1>3, <1>4 DEF IInv

\* A step that changes nothing.
LEMMA Stutter == ASSUME IInv, UNCHANGED vars PROVE IInv'
<1>1. PlainTypeOK' /\ SeqTypeOK'
  BY DEF IInv, PlainTypeOK, SeqTypeOK, vars
<1>2. ASSUME NEW r \in Requests PROVE RequestInv(r)'
  BY Frame DEF IInv, vars
<1> QED BY <1>1, <1>2 DEF IInv

\* Every step of the handlers and of their goroutines keeps the invariant.
LEMMA StepInv == IInv /\ [Next]_vars => IInv'
<1> SUFFICES ASSUME IInv, [Next]_vars PROVE IInv'
  OBVIOUS
<1>1. CASE UNCHANGED vars
  BY <1>1, Stutter
<1>2. ASSUME NEW r \in Requests, NEW kind \in {"all", "ptp"}, FanOut(r, kind) PROVE IInv'
  BY <1>2, FanOutStep
<1>3. ASSUME NEW r \in Requests, Handler(r) PROVE IInv'
  BY <1>3, CloseStep, CollectStep, AnswerStep DEF Handler
<1>4. ASSUME NEW r \in Requests, NEW h \in Hostnames, GetModule(r, h) PROVE IInv'
  BY <1>4, GetModuleStep
<1>5. ASSUME NEW r \in Requests, NEW h \in Hostnames, Ask(r, h) PROVE IInv'
  BY <1>5, ClientsStep, EnvironmentStep, DiskSteps, PTPAnsweredStep, PTPMissedStep,
     ServicesStep, RecordingStep, JudgeStep DEF Ask
<1>6. ASSUME NEW r \in Requests, NEW h \in Hostnames, Worker(r, h) PROVE IInv'
  BY <1>5, <1>6, NoClientsStep, SendStep, DoneStep DEF Worker
<1> QED BY <1>1, <1>2, <1>3, <1>4, <1>6 DEF Next

\* The invariant holds in every state the gateway reaches.
THEOREM Invariance == Spec => []IInv
<1>1. Init => IInv
  BY InitInv
<1>2. IInv /\ [Next]_vars => IInv'
  BY StepInv
<1> QED BY <1>1, <1>2, PTL DEF Spec

-----------------------------------------------------------------------------
(* What follows from it *)

\* No goroutine of a fan-out has a status left to send when its channel is
\* closed: the send that would panic cannot happen.
THEOREM ClosedAfterSends == Spec => []NoSendAfterClose
<1>1. IInv => NoSendAfterClose
  BY DEF IInv, RequestInv, FlowInv, Active, NoSendAfterClose
<1> QED BY <1>1, Invariance, PTL

\* A value that occurs where nothing repeats occurs once.
LEMMA OccursOnce ==
  ASSUME NEW l, NEW m, \A i, j \in DOMAIN l : l[i] = l[j] => i = j
  PROVE  Cardinality({i \in DOMAIN l : l[i] = m}) = IF \E i \in DOMAIN l : l[i] = m THEN 1 ELSE 0
<1>1. CASE \E i \in DOMAIN l : l[i] = m
  <2>1. PICK i \in DOMAIN l : l[i] = m
    BY <1>1
  <2>2. {k \in DOMAIN l : l[k] = m} = {i}
    BY <2>1
  <2>3. Cardinality({i}) = 1
    BY FS_Singleton
  <2> QED BY <1>1, <2>2, <2>3
<1>2. CASE ~ \E i \in DOMAIN l : l[i] = m
  <2>1. {k \in DOMAIN l : l[k] = m} = {}
    BY <1>2
  <2>2. Cardinality({}) = 0
    BY FS_EmptySet
  <2> QED BY <1>2, <2>1, <2>2
<1> QED BY <1>1, <1>2

\* The answer of GetAllModules has every module of the configuration once, and
\* that of GetPTPStatus those whose PTP is known, once; for any number of them
\* and in whatever order their goroutines end.
THEOREM Complete == Spec => []NothingLost
<1>1. ASSUME IInv, NEW r \in Requests, reply[r] = "ok", query[r].kind # "one", NEW m \in Modules
      PROVE  Cardinality({i \in DOMAIN listed[r] : listed[r][i] = m}) =
               IF query[r].kind = "all" \/ info[r][m].ptp # "none" THEN 1 ELSE 0
  <2>1. FlowInv(r) /\ InfoInv(r) /\ DeliveryInv(r) /\ m \in Hostnames
    BY <1>1, StatusAssumption DEF IInv, RequestInv
  <2>2. /\ channel[r] = <<>> /\ Active(r) = {}
        /\ \A h \in Hostnames : worker[r][h] = "none" <=> h \notin Asked(query[r].kind)
    BY <1>1, <2>1 DEF FlowInv
  <2>3. worker[r][m] \in {"none", "done"}
    BY <2>1, <2>2 DEF Active
  <2>4. query[r].kind = "all" => worker[r][m] = "done"
    BY <2>1, <2>2, <2>3 DEF Asked
  <2>5. info[r][m].ptp # "none" => worker[r][m] = "done"
    <3>1. worker[r][m] = "none" => info[r][m] = Blank
      BY <2>1 DEF InfoInv, InfoAt
    <3>2. Blank.ptp = "none"
      BY DEF Blank
    <3> QED BY <2>3, <3>1, <3>2
  <2>6. Delivered(r, m) <=> query[r].kind = "all" \/ info[r][m].ptp # "none"
    BY <1>1, <2>4, <2>5 DEF Delivered
  <2>7. DOMAIN channel[r] = {}
    BY <2>2
  <2>8. (\E i \in DOMAIN listed[r] : listed[r][i] = m) <=> Delivered(r, m)
    BY <2>1, <2>7 DEF DeliveryInv, Occurs
  <2>9. \A i, j \in DOMAIN listed[r] : listed[r][i] = listed[r][j] => i = j
    BY <2>1 DEF DeliveryInv, NoRepeats
  <2> DEFINE l == listed[r]
  <2> HIDE DEF l
  <2>10. \A i, j \in DOMAIN l : l[i] = l[j] => i = j
    BY <2>9 DEF l
  <2>11. Cardinality({i \in DOMAIN l : l[i] = m}) = IF \E i \in DOMAIN l : l[i] = m THEN 1 ELSE 0
    BY <2>10, OccursOnce
  <2> QED BY <2>6, <2>8, <2>11 DEF l
<1>2. IInv => NothingLost
  BY <1>1 DEF NothingLost
<1> QED BY <1>2, Invariance, PTL

\* What a delivered status says of services that are watched.
LEMMA ServicesTold ==
  ASSUME IInv, NEW r \in Requests, NEW m \in Modules, Watches(m, "services"),
         Told(r, m) = info[r][m].services
  PROVE  /\ \A s \in Services : truth[m][s] = "failed" => info[r][m].services[s] = "failed"
         /\ info[r][m].services["drs_sensor"] # ""
<1>1. info[r][m].services = ServicesFound(r, m)
  BY DEF Told
<1>2. truth[m] \in [Services -> States \cup {"unread"}]
  BY DEF IInv, PlainTypeOK
<1>3. ASSUME NEW s \in Services, truth[m][s] = "failed"
      PROVE  info[r][m].services[s] = "failed"
  BY <1>1, <1>3 DEF ServicesFound, Shown, Listed, Transferring
<1>4. info[r][m].services["drs_sensor"] # ""
  <2>1. "drs_sensor" \in Services /\ truth[m]["drs_sensor"] # ""
    BY <1>2, StatusAssumption DEF States
  <2>2. ServicesFound(r, m)["drs_sensor"] \in {"unknown", truth[m]["drs_sensor"]}
    BY <2>1 DEF ServicesFound, Shown
  <2> QED BY <1>1, <2>1, <2>2
<1> QED BY <1>3, <1>4

\* A failed service that the module-manager tells of makes the status an ERROR,
\* whatever the calls before it have done to their deadline.
THEOREM FailuresShown == Spec => []FailureIsShown
<1>1. ASSUME IInv, NEW r \in Requests, NEW m \in Modules, NEW s \in Services,
             truth[m][s] = "failed", Watches(m, "services"),
             query[r].kind # "ptp", worker[r][m] \in {"sent", "done"}
      PROVE  info[r][m].status = "ERROR"
  <2>1. InfoAt(r, m)
    BY <1>1, StatusAssumption DEF IInv, RequestInv, InfoInv
  <2>2. \/ info[r][m] = [Blank EXCEPT !.status = "ERROR"]
        \/ info[r][m].services = Told(r, m) /\ info[r][m].status = Overall(info[r][m])
    BY <1>1, <2>1 DEF InfoAt
  <2>3. CASE info[r][m] = [Blank EXCEPT !.status = "ERROR"]
    BY <2>3 DEF Blank
  <2>4. CASE info[r][m].services = Told(r, m) /\ info[r][m].status = Overall(info[r][m])
    <3>1. info[r][m].services[s] = "failed"
      BY <1>1, <2>4, ServicesTold
    <3> QED BY <2>4, <3>1 DEF Overall
  <2> QED BY <2>2, <2>3, <2>4
<1>2. IInv => FailureIsShown
  BY <1>1 DEF FailureIsShown
<1> QED BY <1>2, Invariance, PTL

\* How far the code is from NotFoundMeansUnreachable: 404 means that the host cannot be
\* called or, against what the message says, that its services are not watched and its
\* disk is nearly full.
NotFoundExplained ==
  \A r \in Requests :
    LET h == query[r].host IN
    reply[r] = "not found" =>
      \/ info[r][h] = [Blank EXCEPT !.status = "ERROR"]
      \/ ~ Watches(h, "services") /\ info[r][h].disk = "above 90"

\* A host is called not found when no call to it was possible, or when its
\* services are not watched and its disk is nearly full; never for not answering.
THEOREM NotFoundMeans == Spec => []NotFoundExplained
<1>1. ASSUME IInv, NEW r \in Requests, NEW h, h = query[r].host, reply[r] = "not found"
      PROVE  \/ info[r][h] = [Blank EXCEPT !.status = "ERROR"]
             \/ ~ Watches(h, "services") /\ info[r][h].disk = "above 90"
  <2>1. FlowInv(r) /\ InfoInv(r) /\ ReplyInv(r)
    BY <1>1 DEF IInv, RequestInv
  <2>2. query[r].kind = "one" /\ pc[r] # "idle"
    BY <1>1, <2>1 DEF FlowInv
  <2>3. worker[r][h] = "sent"
    BY <1>1, <2>1, <2>2 DEF FlowInv
  <2>4. h \in Hostnames
    BY <1>1 DEF IInv, PlainTypeOK
  <2>5. InfoAt(r, h)
    BY <2>1, <2>4 DEF InfoInv
  <2>6. \/ info[r][h] = [Blank EXCEPT !.status = "ERROR"]
        \/ /\ h \in Modules /\ info[r][h].services = Told(r, h)
           /\ info[r][h].status = Overall(info[r][h])
    BY <2>2, <2>3, <2>5 DEF InfoAt
  <2>7. info[r][h].status = "ERROR" /\ info[r][h].services["drs_sensor"] = ""
    BY <1>1, <2>1 DEF ReplyInv
  <2>8. ASSUME h \in Modules, info[r][h].services = Told(r, h),
               info[r][h].status = Overall(info[r][h])
        PROVE  ~ Watches(h, "services") /\ info[r][h].disk = "above 90"
    <3>1. ~ Watches(h, "services")
      BY <1>1, <2>7, <2>8, ServicesTold
    <3>2. \A s \in Services : info[r][h].services[s] = ""
      BY <2>8, <3>1 DEF Told, Blank
    <3>3. Overall(info[r][h]) = "ERROR"
      BY <2>7, <2>8
    <3>4. info[r][h].disk = "above 90"
      BY <3>2, <3>3, StatusAssumption DEF Overall, Wanted
    <3> QED BY <3>1, <3>4
  <2> QED BY <2>6, <2>8
<1>2. IInv => NotFoundExplained
  BY <1>1 DEF NotFoundExplained
<1> QED BY <1>2, Invariance, PTL

\* Every variable has its type; in particular no WaitGroup becomes negative,
\* which would panic.
THEOREM TypeCorrect == Spec => []TypeOK
<1> DEFINE SpentOK == spent \in [Requests -> [Hostnames -> BOOLEAN]]
<1>1. Init => SpentOK
  BY DEF Init
<1>2. SpentOK /\ [Next]_vars => SpentOK'
  <2> SUFFICES ASSUME SpentOK, [Next]_vars PROVE SpentOK'
    OBVIOUS
  <2>1. ASSUME NEW r \in Requests, NEW m \in Hostnames, Miss(r, m) PROVE SpentOK'
    <3>1. PICK late \in BOOLEAN : spent' = [spent EXCEPT ![r][m] = @ \/ late]
      BY <2>1 DEF Miss
    <3> DEFINE over == spent[r][m] \/ late
    <3>2. over \in BOOLEAN
      OBVIOUS
    <3>3. spent' = [spent EXCEPT ![r] = [spent[r] EXCEPT ![m] = over]]
      BY <3>1
    <3> HIDE DEF over
    <3>4. [spent[r] EXCEPT ![m] = over] \in [Hostnames -> BOOLEAN]
      BY <3>2
    <3> QED BY <3>3, <3>4
  <2>2. UNCHANGED spent \/ \E r \in Requests, m \in Hostnames : Miss(r, m)
    <3>1. CASE UNCHANGED vars
      BY <3>1 DEF vars
    <3>2. ASSUME NEW r \in Requests, NEW m \in Hostnames, Ask(r, m)
          PROVE  UNCHANGED spent \/ Miss(r, m)
      BY <3>2 DEF Ask, Clients, GetEnvironment, ListDisks, GetDiskUsage, PTPAnswered,
         PTPMissed, ListServices, GetRecording, Judge
    <3>3. ASSUME NEW r \in Requests, NEW h \in Hostnames, GetModule(r, h) \/ Worker(r, h)
          PROVE  UNCHANGED spent \/ Miss(r, h)
      BY <3>2, <3>3 DEF GetModule, Worker, NoClients, Send, Done
    <3>4. ASSUME NEW r \in Requests, Handler(r) \/ \E kind \in {"all", "ptp"} : FanOut(r, kind)
          PROVE  UNCHANGED spent
      BY <3>4 DEF Handler, Close, Collect, AnswerList, AnswerModule, FanOut
    <3> QED BY <3>1, <3>3, <3>4 DEF Next
  <2> QED BY <2>1, <2>2
<1>3. IInv /\ SpentOK => TypeOK
  BY DEF IInv, PlainTypeOK, SeqTypeOK, TypeOK, Stages, Infos
<1> QED BY <1>1, <1>2, <1>3, Invariance, PTL DEF Spec
-----------------------------------------------------------------------------
(* Nothing gets stuck *)

\* A sequence without repetitions is no longer than what it is made of.
LEMMA NoLongerThan ==
  ASSUME NEW S, IsFiniteSet(S), NEW c, NEW T, c \in Seq(T), \A i \in DOMAIN c : c[i] \in S,
         \A i, j \in DOMAIN c : c[i] = c[j] => i = j
  PROVE  Len(c) <= Cardinality(S)
<1>1. Len(c) \in Nat /\ DOMAIN c = 1 .. Len(c)
  OBVIOUS
<1> DEFINE f == [i \in 1 .. Len(c) |-> c[i]]
<1>2. f \in [1 .. Len(c) -> S] /\ \A i, j \in 1 .. Len(c) : f[i] = f[j] => i = j
  BY <1>1
<1> HIDE DEF f
<1>3. IsFiniteSet(1 .. Len(c)) /\ Cardinality(1 .. Len(c)) = Len(c)
  <2> DEFINE n == Len(c)
  <2>1. n \in Nat
    BY <1>1
  <2> HIDE DEF n
  <2>2. 1 \in Int /\ n \in Int
    BY <2>1
  <2>3. IsFiniteSet(1 .. n) /\ Cardinality(1 .. n) = IF 1 > n THEN 0 ELSE n - 1 + 1
    BY <2>2, FS_Interval
  <2>4. Cardinality(1 .. n) = n
    BY <2>1, <2>3
  <2> QED
    BY <2>3, <2>4 DEF n
<1>4. ASSUME Cardinality(S) < Len(c) PROVE FALSE
  <2> DEFINE D == 1 .. Len(c)
  <2>1. IsFiniteSet(D) /\ Cardinality(S) < Cardinality(D) /\ f \in [D -> S]
    BY <1>2, <1>3, <1>4
  <2>2. \A i, j \in D : f[i] = f[j] => i = j
    BY <1>2
  <2> HIDE DEF D
  <2>3. \E i, j \in D : i # j /\ f[i] = f[j]
    BY <2>1, FS_PigeonHole
  <2> QED
    BY <2>2, <2>3
<1> QED
  BY <1>1, <1>4, FS_CardinalityType

\* Who has a status to send finds room on the channel: it is not on it itself, and
\* nobody else is on it twice.
LEMMA RoomToSend ==
  ASSUME IInv, NEW r \in Requests, NEW h \in Hostnames,
         worker[r][h] = "send", query[r].kind # "one"
  PROVE  Len(channel[r]) < Cardinality(Asked(query[r].kind))
<1> DEFINE asked == Asked(query[r].kind)
           c == channel[r]
           rest == asked \ {h}
<1>1. FlowInv(r) /\ DeliveryInv(r) /\ c \in Seq(Modules)
  BY DEF IInv, RequestInv, SeqTypeOK
<1>2. \A g \in Hostnames : worker[r][g] = "none" <=> g \notin asked
  BY <1>1 DEF FlowInv
<1>3. asked \subseteq Modules /\ IsFiniteSet(asked) /\ h \in asked
  <2>1. asked \subseteq Modules
    BY DEF Asked
  <2> QED
    BY <1>2, <2>1, StatusAssumption, FS_Subset
<1>4. ASSUME NEW i \in DOMAIN c PROVE c[i] \in rest
  <2>1. c[i] \in Modules
    BY <1>1
  <2>2. Delivered(r, c[i])
    BY <1>1, <2>1 DEF DeliveryInv, Occurs
  <2>3. worker[r][c[i]] \in {"sent", "done"}
    BY <2>2 DEF Delivered
  <2> QED
    BY <1>2, <2>1, <2>3, StatusAssumption
<1>5. \A i, j \in DOMAIN c : c[i] = c[j] => i = j
  BY <1>1 DEF DeliveryInv, NoRepeats
<1> HIDE DEF asked, c
<1>6. IsFiniteSet(rest) /\ Cardinality(rest) = Cardinality(asked) - 1
  BY <1>3, FS_RemoveElement
<1>7. Len(c) <= Cardinality(rest)
  <2> HIDE DEF rest
  <2> QED
    BY <1>1, <1>4, <1>5, <1>6, NoLongerThan
<1>8. Len(c) \in Nat /\ Cardinality(asked) \in Nat
  BY <1>1, <1>3, FS_CardinalityType
<1>9. Len(c) < Cardinality(asked)
  BY <1>6, <1>7, <1>8
<1> QED
  BY <1>9 DEF asked, c

\* For any number of modules, whichever of them are slow: no request waits for a
\* goroutine that has ended, and no goroutine for room on the channel.
THEOREM NoDeadlock == Spec => []NeverStuck
<1>1. ASSUME IInv, NEW r \in Requests, pc[r] = "collect",
             channel[r] = <<>>, closer[r] # "closed", wg[r] # 0
      PROVE  \E h \in Hostnames : worker[r][h] \notin {"none", "done"}
  <2>1. wg[r] = Cardinality(Active(r))
    BY <1>1 DEF IInv, RequestInv, FlowInv
  <2>2. Active(r) # {}
    BY <1>1, <2>1, FS_EmptySet
  <2> QED
    BY <2>2 DEF Active
<1>2. ASSUME IInv, NEW r \in Requests, pc[r] = "single"
      PROVE  worker[r][query[r].host] \notin {"none", "done"}
  <2>1. query[r].host \in Hostnames /\ FlowInv(r)
    BY <1>2 DEF IInv, RequestInv, PlainTypeOK
  <2> QED
    BY <1>2, <2>1 DEF FlowInv
<1>3. IInv => NeverStuck
  BY <1>1, <1>2, RoomToSend DEF NeverStuck
<1> QED
  BY <1>3, Invariance, PTL
=============================================================================
