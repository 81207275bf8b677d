-------------------------- MODULE NodeUpdate_proofs --------------------------
(***************************************************************************)
(* A node installs only what an administrator approved for it, never an    *)
(* older binary over a newer one, and says "succeeded" only of what is     *)
(* installed: for every number of releases, requests, images, faults and   *)
(* messages in flight.                                                     *)
(***************************************************************************)
EXTENDS NodeUpdate, TLAPS

\* What may travel towards the updater: no version, the version the node came
\* with, and the approved ones.
Good == approved \cup {0, OldVersion}

GoodMessage == [type : {"hello", "heartbeat", "update_status"}, version : Good,
                report : Statuses]

Typed ==
    /\ release \in 0..MaxVersion /\ row \in Row /\ job \in [Handlers -> Job]
    /\ running \in Versions /\ cmd \in 0..MaxVersion /\ request \in 0..MaxVersion
    /\ status \in Report /\ disk \in Versions /\ updater \in Updater
    /\ approved \subseteq 0..MaxVersion

\* From the row to the installed binary: each place that a version goes through
\* holds an approved one.  A running node reports its version back, and
\* MarkNodeSeen makes it the desired one.
RowGood == row.desired \in Good
SendGood == \A h \in Handlers : job[h].pc = "send" => job[h].target \in Good
UpGood == up \in Seq(GoodMessage)
DownGood == down \in Seq(Good)
NodeGood == running \in Good /\ cmd \in Good
HostGood == request \in Good /\ updater.target \in Good /\ disk \in Good

\* The updater has found the installed binary older than its target, and is the
\* only one to replace it.
UpdaterOK ==
    /\ updater.pc \in {"fetch", "download"} => disk < updater.target
    /\ updater.pc = "replaced" => disk = updater.target

\* The inductive invariant.
IInv ==
    /\ Typed
    /\ RowGood /\ SendGood /\ UpGood /\ DownGood /\ NodeGood /\ HostGood
    /\ UpdaterOK /\ SucceededIsInstalled

-----------------------------------------------------------------------------
\* A queue's next message, and what is left of it.
LEMMA TailIs ==
    ASSUME NEW S, NEW s \in Seq(S), s # <<>>
    PROVE  Head(s) \in S /\ Tail(s) \in Seq(S)
OBVIOUS

\* A queue of a larger set.
LEMMA SeqGrows ==
    ASSUME NEW S, NEW T, S \subseteq T, NEW s \in Seq(S)
    PROVE  s \in Seq(T)
OBVIOUS

\* Queues that are written down, and put together.
LEMMA ShortSeqs ==
    ASSUME NEW S, NEW m \in S
    PROVE  /\ <<>> \in Seq(S) /\ <<m>> \in Seq(S)
           /\ \A t \in Seq(S) : <<m>> \o t \in Seq(S)
<1>1. <<>> \in Seq(S) /\ <<m>> \in Seq(S)
  OBVIOUS
<1>2. \A s, t \in Seq(S) : s \o t \in Seq(S)
  OBVIOUS
<1> QED
  BY <1>1, <1>2

\* What MarkNodeSeen and UpdateNodeReport leave in the row.
LEMMA RowStep ==
    ASSUME row \in Row, RowGood, NEW v \in 0..MaxVersion, v \in Good, NEW s \in Statuses,
           MarkNodeSeen(v) \/ UpdateNodeReport(s)
    PROVE  row' \in Row /\ row'.desired \in Good
<1>1. CASE row' = [version |-> v, desired |-> v, status |-> "succeeded"]
  BY <1>1 DEF Row, Statuses
<1>2. CASE row' = [row EXCEPT !.version = v]
  BY <1>2 DEF Row, RowGood
<1>3. CASE UpdateNodeReport(s)
  BY <1>3 DEF Row, RowGood, UpdateNodeReport
<1> QED
  BY <1>1, <1>2, <1>3 DEF MarkNodeSeen

\* The messages a node writes.
LEMMA MessageGood ==
    ASSUME NodeGood, NEW type \in {"hello", "heartbeat", "update_status"}, NEW s \in Statuses
    PROVE  Message(type, s) \in GoodMessage
BY DEF Message, GoodMessage, NodeGood, Good

LEMMA ReplyGood ==
    ASSUME NodeGood, UpGood, NEW s \in Statuses, Reply(s)
    PROVE  up' \in Seq(GoodMessage)
BY MessageGood DEF Reply, UpGood

\* A handler's place after its step.
LEMMA JobStep ==
    ASSUME job \in [Handlers -> Job], SendGood, NEW h \in Handlers, NEW j \in Job,
           job' = [job EXCEPT ![h] = j], j.pc = "send" => j.target \in Good
    PROVE  /\ job' \in [Handlers -> Job]
           /\ \A g \in Handlers : job'[g].pc = "send" => job'[g].target \in Good
BY DEF SendGood

LEMMA IdleIs == Idle \in Job /\ Idle.pc = "idle" /\ Idle.target = 0 /\ Idle.report = ""
BY BoundsAssumption DEF Idle, Job, Statuses

\* The part of the invariant that speaks of the controller and the wire, over
\* the approvals there were.
Wire ==
    /\ release' \in 0..MaxVersion /\ row' \in Row /\ job' \in [Handlers -> Job]
    /\ row'.desired \in Good
    /\ \A h \in Handlers : job'[h].pc = "send" => job'[h].target \in Good
    /\ up' \in Seq(GoodMessage) /\ down' \in Seq(Good)

\* The part that speaks of the node and its host.
Host ==
    /\ running' \in Versions /\ cmd' \in 0..MaxVersion /\ request' \in 0..MaxVersion
    /\ status' \in Report /\ disk' \in Versions /\ updater' \in Updater
    /\ {running', cmd', request', updater'.target, disk'} \subseteq Good
    /\ UpdaterOK' /\ SucceededIsInstalled'

LEMMA Compose ==
    ASSUME IInv, Wire, Host, approved' = approved
    PROVE  IInv'
<1>1. Good' = Good /\ GoodMessage' = GoodMessage
  BY DEF Good, GoodMessage
<1> QED
  BY <1>1 DEF IInv, Typed, Wire, Host, RowGood, SendGood, UpGood, DownGood, NodeGood, HostGood

\* Steps that leave one of the two alone.
LEMMA HostStays ==
    ASSUME IInv, UNCHANGED <<nodeVars, hostVars>>
    PROVE  Host
BY DEF IInv, Typed, NodeGood, HostGood, Host, nodeVars, hostVars, UpdaterOK,
       SucceededIsInstalled

LEMMA WireStays ==
    ASSUME IInv, UNCHANGED <<ctlVars, wireVars>>
    PROVE  Wire
BY DEF IInv, Typed, RowGood, SendGood, UpGood, DownGood, Wire, ctlVars, wireVars

-----------------------------------------------------------------------------
\* The controller's steps.
LEMMA ControllerStep ==
    ASSUME IInv,
           \/ UpdateNodeBinary
           \/ \E h \in Handlers : PushNodeUpdate(h) \/ SendUpdate(h)
           \/ Receive \/ StoreReport \/ ReplaceImage
    PROVE  IInv'
<1>1. /\ release \in 0..MaxVersion /\ row \in Row /\ job \in [Handlers -> Job]
      /\ RowGood /\ SendGood /\ up \in Seq(GoodMessage) /\ down \in Seq(Good)
      /\ approved \subseteq 0..MaxVersion
  BY DEF IInv, Typed, UpGood, DownGood
<1>2. "http" \in Handlers /\ "ws" \in Handlers
  BY DEF Handlers
<1>3. Good \subseteq 0..MaxVersion
  BY <1>1, BoundsAssumption DEF Good, OldVersion
<1>4. CASE UpdateNodeBinary
  <2> DEFINE j == [Idle EXCEPT !.pc = "request", !.target = release]
  <2>1. j \in Job /\ j.pc = "request"
    BY <1>1, IdleIs DEF Job
  <2>2. job' = [job EXCEPT !["http"] = j]
    BY <1>4 DEF UpdateNodeBinary
  <2> HIDE DEF j
  <2>3. /\ job' \in [Handlers -> Job]
        /\ \A g \in Handlers : job'[g].pc = "send" => job'[g].target \in Good
    BY <1>1, <1>2, <2>1, <2>2, JobStep
  <2>4. Wire
    BY <1>1, <1>4, <2>3 DEF UpdateNodeBinary, Wire, wireVars, RowGood
  <2> QED
    BY <1>4, <2>4, HostStays, Compose DEF UpdateNodeBinary
<1>5. ASSUME NEW h \in Handlers, PushNodeUpdate(h) PROVE IInv'
  <2> DEFINE j == [Idle EXCEPT !.pc = "send", !.target = row.desired]
  <2>1. row.desired \in Good /\ row.desired \in 0..MaxVersion
    BY <1>1 DEF RowGood, Row
  <2>2. j \in Job /\ j.target = row.desired
    BY <2>1, IdleIs DEF Job
  <2>3. job' = [job EXCEPT ![h] = j] \/ job' = [job EXCEPT ![h] = Idle]
    BY <1>5 DEF PushNodeUpdate
  <2> HIDE DEF j
  <2>4. /\ job' \in [Handlers -> Job]
        /\ \A g \in Handlers : job'[g].pc = "send" => job'[g].target \in Good
    BY <1>1, <2>1, <2>2, <2>3, IdleIs, JobStep
  <2>5. Wire
    BY <1>1, <1>5, <2>4 DEF PushNodeUpdate, Wire, wireVars, RowGood
  <2> QED
    BY <1>5, <2>5, HostStays, Compose DEF PushNodeUpdate
<1>6. ASSUME NEW h \in Handlers, SendUpdate(h) PROVE IInv'
  <2>1. /\ job' \in [Handlers -> Job]
        /\ \A g \in Handlers : job'[g].pc = "send" => job'[g].target \in Good
    BY <1>1, <1>6, IdleIs, JobStep DEF SendUpdate
  <2>2. job[h].target \in Good
    BY <1>1, <1>6 DEF SendUpdate, SendGood
  <2>3. down' \in Seq(Good)
    <3>1. down' = down \/ down' = Append(down, job[h].target)
      BY <1>6 DEF SendUpdate
    <3> QED
      BY <1>1, <2>2, <3>1
  <2>4. Wire
    BY <1>1, <1>6, <2>1, <2>3 DEF SendUpdate, Wire, RowGood
  <2> QED
    BY <1>6, <2>4, HostStays, Compose DEF SendUpdate
<1>7. CASE Receive
  <2> DEFINE msg == Head(up)
             j == [Idle EXCEPT !.pc = "report", !.report = msg.report]
             i == [Idle EXCEPT !.pc = "push"]
             w == [job["ws"] EXCEPT !.pc = "push"]
  <2>1. msg \in GoodMessage /\ up' \in Seq(GoodMessage) /\ down' = down
    BY <1>1, <1>7, TailIs DEF Receive
  <2>2. msg.version \in Good /\ msg.version \in 0..MaxVersion /\ msg.report \in Statuses
    BY <1>3, <2>1 DEF GoodMessage
  <2>3. row' \in Row /\ row'.desired \in Good
    BY <1>1, <1>7, <2>2, RowStep DEF Receive
  <2>4. i \in Job /\ i.pc = "push" /\ j \in Job /\ j.pc = "report"
    BY <2>2, IdleIs DEF Job
  <2>5. w \in Job /\ w.pc = "push"
    BY <1>1, <1>2 DEF Job
  <2>6. \/ job' = [job EXCEPT !["ws"] = w] \/ job' = [job EXCEPT !["ws"] = i]
        \/ job' = [job EXCEPT !["ws"] = j] \/ job' = job
    BY <1>7 DEF Receive
  <2> HIDE DEF i, j, w
  <2>7. /\ job' \in [Handlers -> Job]
        /\ \A g \in Handlers : job'[g].pc = "send" => job'[g].target \in Good
    <3>1. CASE job' = job
      BY <1>1, <3>1 DEF SendGood
    <3> QED
      BY <1>1, <1>2, <2>4, <2>5, <2>6, <3>1, JobStep
  <2>8. Wire
    BY <1>1, <1>7, <2>1, <2>3, <2>7 DEF Receive, Wire
  <2> QED
    BY <1>7, <2>8, HostStays, Compose DEF Receive
<1>8. CASE StoreReport
  <2> DEFINE i == [Idle EXCEPT !.pc = "push"]
  <2>1. job["ws"].report \in Statuses /\ 0 \in Good /\ 0 \in 0..MaxVersion
    BY <1>1, <1>2, BoundsAssumption DEF Job, Good
  <2>2. row' \in Row /\ row'.desired \in Good
    BY <1>1, <1>8, <2>1, RowStep DEF StoreReport
  <2>3. i \in Job /\ i.pc = "push"
    BY IdleIs DEF Job
  <2>4. job' = [job EXCEPT !["ws"] = i]
    BY <1>8 DEF StoreReport
  <2> HIDE DEF i
  <2>5. /\ job' \in [Handlers -> Job]
        /\ \A g \in Handlers : job'[g].pc = "send" => job'[g].target \in Good
    BY <1>1, <1>2, <2>3, <2>4, JobStep
  <2>6. Wire
    BY <1>1, <1>8, <2>2, <2>5 DEF StoreReport, Wire, wireVars
  <2> QED
    BY <1>8, <2>6, HostStays, Compose DEF StoreReport
<1>9. CASE ReplaceImage
  <2>1. release' \in 0..MaxVersion
    BY <1>9, BoundsAssumption DEF ReplaceImage, Versions
  <2>2. job' \in [Handlers -> Job] /\ \A g \in Handlers : job'[g].pc = "idle"
    BY <1>9, IdleIs DEF ReplaceImage
  <2>3. Wire
    BY <1>1, <1>9, <2>1, <2>2 DEF ReplaceImage, Disconnected, Wire, RowGood
  <2> QED
    BY <1>9, <2>3, HostStays, Compose DEF ReplaceImage
<1> QED
  BY <1>4, <1>5, <1>6, <1>7, <1>8, <1>9

\* The approval itself: what was good stays so.
LEMMA ApprovalStep ==
    ASSUME IInv, RequestNodeUpdate
    PROVE  IInv'
<1> DEFINE target == job["http"].target
           j == [job["http"] EXCEPT !.pc = "push"]
<1>1. /\ release \in 0..MaxVersion /\ row \in Row /\ job \in [Handlers -> Job]
      /\ SendGood /\ up \in Seq(GoodMessage) /\ down \in Seq(Good)
      /\ approved \subseteq 0..MaxVersion /\ "http" \in Handlers
  BY DEF IInv, Typed, UpGood, DownGood, Handlers
<1>2. target \in 0..MaxVersion /\ j \in Job /\ j.pc = "push"
  BY <1>1 DEF Job
<1>3. job' = [job EXCEPT !["http"] = j] /\ approved' = approved \cup {target}
  BY DEF RequestNodeUpdate
<1>4. row' \in Row /\ row'.desired = target
  BY <1>1, <1>2 DEF RequestNodeUpdate, Row, Statuses
<1> HIDE DEF j, target
<1>5. Good \subseteq Good' /\ target \in Good' /\ approved' \subseteq 0..MaxVersion
  BY <1>1, <1>2, <1>3 DEF Good
<1>6. /\ job' \in [Handlers -> Job]
      /\ \A g \in Handlers : job'[g].pc = "send" => job'[g].target \in Good
  BY <1>1, <1>2, <1>3, JobStep
<1>7. GoodMessage \subseteq GoodMessage'
  BY <1>5 DEF GoodMessage
<1>8. up' = up /\ down' = down /\ release' = release
  BY DEF RequestNodeUpdate, wireVars
<1>9. up' \in Seq(GoodMessage') /\ down' \in Seq(Good')
  BY <1>1, <1>5, <1>7, <1>8, SeqGrows
<1>10. Host
  BY HostStays DEF RequestNodeUpdate
<1>11. Typed'
  BY <1>1, <1>4, <1>5, <1>6, <1>8, <1>10 DEF Typed, Host
<1>12. RowGood' /\ SendGood' /\ UpGood' /\ DownGood'
  BY <1>4, <1>5, <1>6, <1>9 DEF RowGood, SendGood, UpGood, DownGood
<1>13. NodeGood' /\ HostGood'
  BY <1>5, <1>10 DEF Host, NodeGood, HostGood
<1> QED
  BY <1>10, <1>11, <1>12, <1>13 DEF IInv, Host

\* The node's steps.
LEMMA NodeStep ==
    ASSUME IInv,
           \/ Connect \/ Heartbeat \/ HandleUpdateCommand \/ WriteUpdateRequest
           \/ UpdateCommandFails \/ LoseConnection \/ NodeCrash
    PROVE  IInv'
<1>1. /\ release \in 0..MaxVersion /\ row \in Row /\ job \in [Handlers -> Job]
      /\ RowGood /\ SendGood /\ UpGood /\ NodeGood
      /\ up \in Seq(GoodMessage) /\ down \in Seq(Good)
      /\ approved \subseteq 0..MaxVersion
  BY DEF IInv, Typed, UpGood, DownGood
<1>2. /\ running \in Versions /\ cmd \in 0..MaxVersion /\ request \in 0..MaxVersion
      /\ status \in Report /\ disk \in Versions /\ updater \in Updater
      /\ {running, cmd, request, updater.target, disk} \subseteq Good
      /\ UpdaterOK /\ SucceededIsInstalled
  BY DEF IInv, Typed, NodeGood, HostGood
<1>3. Good \subseteq 0..MaxVersion /\ 0 \in Good
  BY <1>1, BoundsAssumption DEF Good, OldVersion
<1>4. status.status \in Statuses /\ {"", "requested", "failed"} \subseteq Statuses
  BY <1>2 DEF Report, Statuses
<1>5. ASSUME release' = release, row' = row, job' = job \/ job' = [job EXCEPT !["ws"] = Idle],
             up' \in Seq(GoodMessage), down' \in Seq(Good)
      PROVE  Wire
  <2>1. CASE job' = job
    BY <1>1, <1>5, <2>1 DEF Wire, RowGood, SendGood
  <2>2. CASE job' = [job EXCEPT !["ws"] = Idle]
    <3>1. /\ job' \in [Handlers -> Job]
          /\ \A g \in Handlers : job'[g].pc = "send" => job'[g].target \in Good
      BY <1>1, <2>2, IdleIs, JobStep DEF Handlers
    <3> QED
      BY <1>1, <1>5, <3>1 DEF Wire, RowGood
  <2> QED
    BY <1>5, <2>1, <2>2
<1>6. CASE Connect
  <2>1. Message("hello", "") \in GoodMessage
        /\ Message("update_status", status.status) \in GoodMessage
    BY <1>1, <1>4, MessageGood
  <2>2. StatusReports \in Seq(GoodMessage)
    <3>1. \/ StatusReports = <<>>
          \/ StatusReports = <<Message("update_status", status.status)>>
      BY DEF StatusReports
    <3> QED
      BY <2>1, <3>1, ShortSeqs
  <2>3. up' = <<Message("hello", "")>> \o StatusReports /\ down' = <<>>
    BY <1>6 DEF Connect
  <2>4. up' \in Seq(GoodMessage) /\ down' \in Seq(Good)
    BY <1>3, <2>1, <2>2, <2>3, ShortSeqs
  <2>5. Wire
    BY <1>5, <1>6, <2>4 DEF Connect, ctlVars
  <2> QED
    BY <1>6, <2>5, HostStays, Compose DEF Connect
<1>7. CASE Heartbeat
  <2>1. Message("heartbeat", status.status) \in GoodMessage
    BY <1>1, <1>4, MessageGood
  <2>2. Wire
    BY <1>1, <1>5, <1>7, <2>1 DEF Heartbeat, ctlVars
  <2> QED
    BY <1>7, <2>2, HostStays, Compose DEF Heartbeat
<1>8. CASE HandleUpdateCommand
  <2> DEFINE version == Head(down)
  <2>1. version \in Good /\ version \in 0..MaxVersion /\ down' \in Seq(Good)
    BY <1>1, <1>3, <1>8, TailIs DEF HandleUpdateCommand
  <2>2. up' \in Seq(GoodMessage)
    BY <1>1, <1>4, <1>8, ReplyGood DEF HandleUpdateCommand
  <2>3. Wire
    BY <1>5, <1>8, <2>1, <2>2 DEF HandleUpdateCommand, ctlVars
  <2>4. Host
    <3>1. UNCHANGED <<running, request, disk, updater>> /\ UpdaterOK'
      BY <1>2, <1>8 DEF HandleUpdateCommand, UpdaterOK
    <3>2. CASE cmd' = version /\ status' = [status |-> "requested", version |-> version]
      BY <1>2, <1>4, <2>1, <3>1, <3>2 DEF Host, SucceededIsInstalled, Report
    <3>3. CASE UNCHANGED <<cmd, status>>
      BY <1>2, <3>1, <3>3 DEF Host, SucceededIsInstalled
    <3> QED
      BY <1>8, <3>2, <3>3 DEF HandleUpdateCommand
  <2> QED
    BY <1>8, <2>3, <2>4, Compose DEF HandleUpdateCommand
<1>9. CASE WriteUpdateRequest
  <2>1. Wire
    BY <1>1, <1>4, <1>5, <1>9, ReplyGood DEF WriteUpdateRequest, ctlVars
  <2>2. Host
    BY <1>2, <1>3, <1>9 DEF WriteUpdateRequest, Host, UpdaterOK, SucceededIsInstalled
  <2> QED
    BY <1>9, <2>1, <2>2, Compose DEF WriteUpdateRequest
<1>10. CASE UpdateCommandFails
  <2>1. down' \in Seq(Good)
    BY <1>1, <1>10, TailIs DEF UpdateCommandFails
  <2>2. Wire
    BY <1>1, <1>4, <1>5, <1>10, <2>1, ReplyGood DEF UpdateCommandFails, ctlVars
  <2>3. Host
    BY <1>2, <1>3, <1>10 DEF UpdateCommandFails, hostVars, Host, UpdaterOK, SucceededIsInstalled
  <2> QED
    BY <1>10, <2>2, <2>3, Compose DEF UpdateCommandFails
<1>11. ASSUME Disconnected PROVE up' \in Seq(GoodMessage) /\ down' \in Seq(Good)
  BY <1>11 DEF Disconnected
<1>12. CASE LoseConnection
  <2>1. Wire
    BY <1>5, <1>11, <1>12 DEF LoseConnection
  <2> QED
    BY <1>12, <2>1, HostStays, Compose DEF LoseConnection
<1>13. CASE NodeCrash
  <2>1. Wire
    BY <1>5, <1>11, <1>13 DEF NodeCrash, Restarted
  <2>2. Host
    BY <1>2, <1>3, <1>13 DEF NodeCrash, Restarted, hostVars, Host, UpdaterOK, SucceededIsInstalled
  <2> QED
    BY <1>13, <2>1, <2>2, Compose DEF NodeCrash
<1> QED
  BY <1>6, <1>7, <1>8, <1>9, <1>10, <1>12, <1>13

\* The updater's steps.
LEMMA UpdaterKeeps ==
    ASSUME IInv, UpdaterStep \/ StatusWriteFails \/ RequestDamaged \/ UpdaterCrash
    PROVE  IInv' /\ disk' >= disk
<1>1. /\ running \in Versions /\ cmd \in 0..MaxVersion /\ request \in 0..MaxVersion
      /\ status \in Report /\ disk \in Versions /\ updater \in Updater
      /\ {running, cmd, request, updater.target, disk} \subseteq Good
      /\ UpdaterOK /\ SucceededIsInstalled
  BY DEF IInv, Typed, NodeGood, HostGood
<1>2. /\ 0 \in Good /\ 0 \in 0..MaxVersion /\ MaxVersion \in Nat /\ release \in 0..MaxVersion
      /\ {"running", "succeeded", "failed"} \subseteq Statuses
      /\ \A v \in Versions : v \in Nat /\ v # 0
  BY BoundsAssumption DEF IInv, Typed, Good, Versions, Statuses
<1>3. updater.pc \in {"idle", "fetch", "download", "replaced", "failed", "remove",
                       "remove_failed", "restart"} /\ updater.target \in 0..MaxVersion
  BY <1>1 DEF Updater
<1>4. NoUpdate \in Updater /\ NoUpdate.pc = "idle" /\ NoUpdate.target = 0
  BY <1>2 DEF NoUpdate, Updater
<1>5. ASSUME NEW pc \in {"idle", "fetch", "download", "replaced", "failed", "remove",
                          "remove_failed", "restart"}, Progress(pc)
      PROVE  updater' \in Updater /\ updater'.pc = pc /\ updater'.target = updater.target
  BY <1>1, <1>5 DEF Progress, Updater
<1>6. CASE StartUpdate
  <2>1. UNCHANGED <<ctlVars, wireVars, nodeVars, disk, approved>>
    BY <1>6 DEF StartUpdate
  <2>2. ASSUME NeedsUpdate(disk, request) PROVE Host
    <3>1. /\ updater' = [pc |-> "fetch", target |-> request]
          /\ status' = [status |-> "running", version |-> request] /\ request' = request
      BY <1>6, <2>2 DEF StartUpdate
    <3>2. updater' \in Updater /\ updater'.pc = "fetch" /\ updater'.target = request
      BY <1>1, <3>1 DEF Updater
    <3>3. status' \in Report /\ status'.status = "running"
      BY <1>1, <1>2, <3>1 DEF Report
    <3> QED
      BY <1>1, <2>1, <2>2, <3>1, <3>2, <3>3
         DEF NeedsUpdate, Host, nodeVars, UpdaterOK, SucceededIsInstalled
  <2>3. ASSUME ~NeedsUpdate(disk, request) PROVE Host
    <3>1. /\ updater' = [pc |-> "remove_failed", target |-> request]
          /\ status' = status /\ request' = request
      BY <1>6, <2>3 DEF StartUpdate
    <3>2. updater' \in Updater /\ updater'.pc = "remove_failed" /\ updater'.target = request
      BY <1>1, <3>1 DEF Updater
    <3> QED
      BY <1>1, <2>1, <3>1, <3>2 DEF Host, nodeVars, UpdaterOK, SucceededIsInstalled
  <2> QED
    BY <1>1, <1>2, <2>1, <2>2, <2>3, WireStays, Compose
<1>7. CASE FetchNodeRelease
  <2>1. UNCHANGED <<ctlVars, wireVars, nodeVars, status, request, disk, approved>>
    BY <1>7 DEF FetchNodeRelease
  <2>2. updater' \in Updater /\ updater'.pc = "download" /\ updater'.target = updater.target
    BY <1>5, <1>7 DEF FetchNodeRelease
  <2>3. Host
    BY <1>1, <1>7, <2>1, <2>2 DEF FetchNodeRelease, Host, nodeVars, UpdaterOK, SucceededIsInstalled
  <2> QED
    BY <1>1, <1>2, <2>1, <2>3, WireStays, Compose
<1>8. CASE ReplaceBinary
  <2>1. UNCHANGED <<ctlVars, wireVars, nodeVars, status, request, approved>>
    BY <1>8 DEF ReplaceBinary
  <2>2. updater' \in Updater /\ updater'.pc = "replaced" /\ updater'.target = updater.target
    BY <1>5, <1>8 DEF ReplaceBinary
  <2>3. disk' = updater.target /\ disk < disk'
    BY <1>1, <1>8 DEF ReplaceBinary, UpdaterOK
  <2>4. disk \in Nat /\ disk' \in Nat /\ disk' \in Versions /\ status.version \in Nat
    BY <1>1, <1>2, <1>3, <2>3 DEF Versions, Report
  <2>5. SucceededIsInstalled' /\ disk' >= disk
    BY <1>1, <2>1, <2>3, <2>4 DEF SucceededIsInstalled
  <2>6. Host
    BY <1>1, <2>1, <2>2, <2>3, <2>4, <2>5 DEF Host, nodeVars, UpdaterOK
  <2> QED
    BY <2>1, <2>5, <2>6, WireStays, Compose
<1>9. CASE PerformUpdateFails
  <2>1. UNCHANGED <<ctlVars, wireVars, nodeVars, status, request, disk, approved>>
    BY <1>9 DEF PerformUpdateFails
  <2>2. updater' \in Updater /\ updater'.pc = "failed" /\ updater'.target = updater.target
    BY <1>5, <1>9 DEF PerformUpdateFails
  <2>3. Host
    BY <1>1, <2>1, <2>2 DEF Host, nodeVars, UpdaterOK, SucceededIsInstalled
  <2> QED
    BY <1>1, <1>2, <2>1, <2>3, WireStays, Compose
<1>10. CASE SaveOutcome
  <2>1. UNCHANGED <<ctlVars, wireVars, nodeVars, request, disk, approved>>
    BY <1>10 DEF SaveOutcome
  <2>2. /\ updater' \in Updater /\ updater'.pc \in {"remove", "remove_failed"}
        /\ updater'.target = updater.target
    BY <1>5, <1>10 DEF SaveOutcome
  <2>3. \/ /\ updater.pc = "replaced"
           /\ status' = [status |-> "succeeded", version |-> updater.target]
        \/ status' = [status |-> "failed", version |-> updater.target]
    BY <1>10 DEF SaveOutcome
  <2>4. status' \in Report /\ SucceededIsInstalled'
    BY <1>1, <1>2, <1>3, <2>1, <2>3 DEF Report, SucceededIsInstalled, UpdaterOK
  <2>5. Host
    BY <1>1, <2>1, <2>2, <2>4 DEF Host, nodeVars, UpdaterOK
  <2> QED
    BY <1>1, <1>2, <2>1, <2>5, WireStays, Compose
<1>11. CASE StatusWriteFails
  <2>1. UNCHANGED <<ctlVars, wireVars, nodeVars, status, disk, approved>>
    BY <1>11 DEF StatusWriteFails
  <2>2. /\ request' = request /\ updater' \in Updater /\ updater'.pc = "remove_failed"
        /\ updater'.target \in {request, updater.target}
    <3>1. CASE updater' = [pc |-> "remove_failed", target |-> request]
      BY <1>1, <1>11, <3>1 DEF StatusWriteFails, Updater
    <3>2. CASE Progress("remove_failed")
      BY <1>5, <1>11, <3>2 DEF StatusWriteFails
    <3> QED
      BY <1>11, <3>1, <3>2 DEF StatusWriteFails
  <2>3. Host
    BY <1>1, <1>2, <2>1, <2>2 DEF Host, nodeVars, UpdaterOK, SucceededIsInstalled
  <2> QED
    BY <1>1, <1>2, <2>1, <2>3, WireStays, Compose
<1>12. CASE RemoveRequest
  <2>1. UNCHANGED <<ctlVars, wireVars, nodeVars, status, disk, approved>>
        /\ request' \in {request, 0}
    BY <1>12 DEF RemoveRequest
  <2>2. \/ updater' = NoUpdate
        \/ /\ updater' \in Updater /\ updater'.pc = "restart"
           /\ updater'.target = updater.target
    BY <1>5, <1>12 DEF RemoveRequest, Progress
  <2>3. Host
    BY <1>1, <1>2, <1>4, <2>1, <2>2 DEF Host, nodeVars, UpdaterOK, SucceededIsInstalled
  <2> QED
    BY <1>1, <1>2, <2>1, <2>3, WireStays, Compose
<1>13. CASE RestartNodeService
  <2>1. UNCHANGED <<status, request, disk, approved>> /\ updater' = NoUpdate
    BY <1>13 DEF RestartNodeService
  <2>2. Host
    BY <1>1, <1>2, <1>4, <1>13, <2>1
       DEF RestartNodeService, Restarted, Host, UpdaterOK, SucceededIsInstalled
  <2>3. up' = <<>> /\ down' = <<>> /\ UNCHANGED <<release, row>>
    BY <1>13 DEF RestartNodeService, Restarted, Disconnected
  <2>4. /\ job' \in [Handlers -> Job]
        /\ \A g \in Handlers : job'[g].pc = "send" => job'[g].target \in Good
    BY <1>13, IdleIs, JobStep DEF RestartNodeService, IInv, Typed, Handlers
  <2>5. Wire
    BY <2>3, <2>4 DEF Wire, IInv, Typed, RowGood
  <2> QED
    BY <1>1, <1>2, <2>1, <2>2, <2>5, Compose
<1>14. CASE UpdaterCrash
  <2>1. UNCHANGED <<ctlVars, wireVars, nodeVars, status, request, disk, approved>>
        /\ updater' = NoUpdate
    BY <1>14 DEF UpdaterCrash
  <2>2. Host
    BY <1>1, <1>2, <1>4, <2>1 DEF Host, nodeVars, UpdaterOK, SucceededIsInstalled
  <2> QED
    BY <1>1, <1>2, <2>1, <2>2, WireStays, Compose
<1>15. CASE RequestDamaged
  <2>1. UNCHANGED <<ctlVars, wireVars, nodeVars, status, request, disk, updater, approved>>
    BY <1>15 DEF RequestDamaged
  <2>2. Host
    BY <1>1, <2>1 DEF Host, nodeVars, UpdaterOK, SucceededIsInstalled
  <2> QED
    BY <1>1, <1>2, <2>1, <2>2, WireStays, Compose
<1> QED
  BY <1>6, <1>7, <1>8, <1>9, <1>10, <1>11, <1>12, <1>13, <1>14, <1>15 DEF UpdaterStep

\* The node has what it came with, and nothing is under way.
LEMMA InitIInv == Init => IInv
<1> SUFFICES ASSUME Init PROVE IInv
  OBVIOUS
<1>1. /\ MaxVersion \in Nat \ {0} /\ FirstRelease \in 0..MaxVersion
      /\ 0 \in 0..MaxVersion /\ 1 \in Versions
  BY BoundsAssumption DEF Versions
<1>2. Typed
  BY <1>1, IdleIs DEF Init, Typed, Row, Report, NoReport, Statuses, NoUpdate, Updater, OldVersion
<1>3. RowGood /\ NodeGood /\ HostGood /\ UpdaterOK /\ SucceededIsInstalled
  BY DEF Init, RowGood, NodeGood, HostGood, UpdaterOK, SucceededIsInstalled, Good, NoUpdate, NoReport
<1>4. SendGood
  BY IdleIs DEF Init, SendGood
<1>5. up = <<>> /\ down = <<>>
  BY DEF Init
<1>6. UpGood /\ DownGood
  BY <1>5 DEF UpGood, DownGood
<1> QED
  BY <1>2, <1>3, <1>4, <1>6 DEF IInv

\* Every step keeps the invariant, and none puts back an older binary.
LEMMA NextIInv == IInv /\ [Next]_vars => IInv' /\ disk' >= disk
<1> SUFFICES ASSUME IInv, [Next]_vars PROVE IInv' /\ disk' >= disk
  OBVIOUS
<1>1. disk \in Nat /\ disk >= disk
  BY DEF IInv, Typed, Versions
<1>2. CASE \/ UpdateNodeBinary
           \/ \E h \in Handlers : PushNodeUpdate(h) \/ SendUpdate(h)
           \/ Receive \/ StoreReport \/ ReplaceImage
  <2>1. disk' = disk
    BY <1>2 DEF UpdateNodeBinary, PushNodeUpdate, SendUpdate, Receive, StoreReport,
                ReplaceImage, hostVars
  <2> QED
    BY <1>1, <1>2, <2>1, ControllerStep
<1>3. CASE RequestNodeUpdate
  BY <1>1, <1>3, ApprovalStep DEF RequestNodeUpdate, hostVars
<1>4. CASE \/ Connect \/ Heartbeat \/ HandleUpdateCommand \/ WriteUpdateRequest
           \/ UpdateCommandFails \/ LoseConnection \/ NodeCrash
  <2>1. disk' = disk
    BY <1>4 DEF Connect, Heartbeat, HandleUpdateCommand, WriteUpdateRequest,
                UpdateCommandFails, LoseConnection, NodeCrash, hostVars
  <2> QED
    BY <1>1, <1>4, <2>1, NodeStep
<1>5. CASE UNCHANGED vars
  <2>1. Wire /\ Host /\ disk' = disk /\ approved' = approved
    BY <1>5, HostStays, WireStays DEF vars, hostVars
  <2> QED
    BY <1>1, <2>1, Compose
<1> QED
  BY <1>2, <1>3, <1>4, <1>5, UpdaterKeeps DEF Next

\* Whatever releases come and go while an update is under way, the installed
\* binary is the one the node came with or one an administrator approved: the
\* approval is what RequestNodeUpdate wrote, and every later hop compares.
THEOREM OnlyApprovedIsInstalled == Spec => []InstalledIsApproved
<1>1. IInv => InstalledIsApproved
  <2> SUFFICES ASSUME IInv PROVE disk \in approved \cup {OldVersion}
    BY DEF InstalledIsApproved
  <2>1. disk \in Versions /\ disk \in Good
    BY DEF IInv, Typed, HostGood
  <2> QED
    BY <2>1 DEF Versions, Good
<1> QED
  BY <1>1, InitIInv, NextIInv, PTL DEF Spec

\* status.json says "succeeded" only of an installed version: saveUpdateStatus
\* follows the rename of the binary, and no later step puts an older one back.
THEOREM SuccessIsReal == Spec => []SucceededIsInstalled
<1>1. IInv => SucceededIsInstalled
  BY DEF IInv
<1> QED
  BY <1>1, InitIInv, NextIInv, PTL DEF Spec

\* The updater never replaces a binary by an older one, whatever the release
\* is rolled back to between its check and its download.
THEOREM NoDowngrade == Spec => NeverDowngraded
<1>1. IInv /\ [Next]_vars => [disk' >= disk]_disk
  BY NextIInv
<1>2. Spec => [][disk' >= disk]_disk
  BY <1>1, InitIInv, NextIInv, PTL DEF Spec
<1> QED
  BY <1>2 DEF NeverDowngraded

=============================================================================
