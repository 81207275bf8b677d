----------------------------- MODULE NodeUpdate -----------------------------
(***************************************************************************)
(* The approved update of a node's binary, from the click in the panel to  *)
(* the restarted service: the node's row in the controller's database, the *)
(* control connection, the node process, the two files it shares with the  *)
(* updater (request.json and status.json) and the updater, a oneshot unit  *)
(* that systemd starts whenever request.json exists.                       *)
(*                                                                         *)
(* One node is modelled: rows, files and connections of two nodes share    *)
(* nothing but the release the controller bundles.  Versions are numbers   *)
(* in release order, 0 being the empty string.  A signed manifest and the  *)
(* binary it describes are both the version they carry, so a binary whose  *)
(* digest differs from the manifest's is one of another version.           *)
(***************************************************************************)
EXTENDS Naturals, Sequences

CONSTANTS
    MaxVersion,  \* bound: the newest release
    FirstRelease,\* the release the controller starts with, 0: none
    MaxRequests, \* bound: how often an administrator asks for an update
    MaxImages,   \* bound: how often the controller's image is replaced
    MaxFaults,   \* bound: crashes, lost connections and failed writes
    StatusFaults,\* whether the updater's writes of status.json may fail
    MaxQueue     \* bound: messages in flight in one direction

ASSUME BoundsAssumption ==
    /\ MaxVersion \in Nat \ {0} /\ MaxRequests \in Nat
    /\ FirstRelease \in 0..MaxVersion
    /\ MaxImages \in Nat /\ MaxFaults \in Nat /\ StatusFaults \in BOOLEAN
    /\ MaxQueue \in Nat \ {0}

VARIABLES
    release,   \* version bundled with the controller, 0: updates disabled
    row,       \* the node's row: version, desired_version, update_status
    job,       \* what the HTTP handler and the websocket handler are doing
    conn,      \* "down", "hello" (accepted, not registered) or "up"
    up, down,  \* messages in flight to the controller, and to the node
    running,   \* version of the node process
    cmd,       \* version whose request the node is still to write, or 0
    status,    \* status.json
    request,   \* target version in request.json, 0: no such file
    legible,   \* whether that file, if there is one, can be read and parsed
    disk,      \* version of the installed binary
    updater,   \* the updater's progress
    approved,  \* history: the versions an administrator approved
    requests,  \* number of administrators' requests so far
    images,    \* number of image replacements so far
    faults     \* number of faults so far

ctlVars == <<release, row, job, requests, images>>
wireVars == <<conn, up, down>>
nodeVars == <<running, cmd>>
hostVars == <<status, request, legible, disk, updater>>
vars == <<ctlVars, wireVars, nodeVars, hostVars, approved, faults>>

-----------------------------------------------------------------------------
Versions == 1..MaxVersion
OldVersion == 1
Handlers == {"http", "ws"}
Statuses == {"", "requested", "running", "succeeded", "failed"}
Report == [status : Statuses, version : 0..MaxVersion]
NoReport == [status |-> "", version |-> 0]
Row == [version : 0..MaxVersion, desired : 0..MaxVersion, status : Statuses]
Idle == [pc |-> "idle", target |-> 0, report |-> ""]
Job == [pc : {"idle", "request", "report", "push", "send"},
        target : 0..MaxVersion, report : Statuses]
UpMessage == [type : {"hello", "heartbeat", "update_status"},
              version : 0..MaxVersion, report : Statuses]
NoUpdate == [pc |-> "idle", target |-> 0]
Updater == [pc : {"idle", "fetch", "download", "replaced", "failed",
                  "remove", "remove_failed", "restart"},
            target : 0..MaxVersion]

\* sharedversion.NeedsUpdate: the desired version is set and newer.
NeedsUpdate(current, desired) == desired # 0 /\ current < desired

Init ==
    /\ release = FirstRelease
    /\ row = [version |-> 0, desired |-> 0, status |-> ""]
    /\ job = [h \in Handlers |-> Idle]
    /\ conn = "down" /\ up = <<>> /\ down = <<>>
    /\ running = OldVersion /\ cmd = 0
    /\ status = NoReport /\ request = 0 /\ legible = TRUE /\ disk = OldVersion
    /\ updater = NoUpdate
    /\ approved = {} /\ requests = 0 /\ images = 0 /\ faults = 0

-----------------------------------------------------------------------------
(* The controller.                                                         *)

\* handleUpdateNodeBinary (and each round of handleUpdateAllNodeBinaries):
\* the release and the node are read, and nothing happens unless the node
\* is older than the release.
UpdateNodeBinary ==
    /\ requests < MaxRequests
    /\ requests' = requests + 1
    /\ job["http"].pc = "idle"
    /\ release # 0
    /\ NeedsUpdate(row.version, release)
    /\ job' = [job EXCEPT !["http"] =
                 [Idle EXCEPT !.pc = "request", !.target = release]]
    /\ UNCHANGED <<release, row, images, wireVars, nodeVars, hostVars,
                   approved, faults>>

RequestNodeUpdate ==
    /\ job["http"].pc = "request"
    /\ LET target == job["http"].target IN
       /\ row' = [row EXCEPT !.desired = target, !.status = "requested"]
       /\ approved' = approved \cup {target}
    /\ job' = [job EXCEPT !["http"].pc = "push"]
    /\ UNCHANGED <<release, requests, images, wireVars, nodeVars, hostVars,
                   faults>>

\* The command is due: approved, not reported on, not reached, on offer.
CommandDue ==
    /\ row.status = "requested" /\ row.desired # 0
    /\ NeedsUpdate(row.version, row.desired)
    /\ release # 0 /\ release = row.desired

\* sendNodeUpdateIfNeeded reads the row and decides ...
PushNodeUpdate(h) ==
    /\ job[h].pc = "push"
    /\ job' = [job EXCEPT ![h] = IF CommandDue
                                 THEN [Idle EXCEPT !.pc = "send",
                                                   !.target = row.desired]
                                 ELSE Idle]
    /\ UNCHANGED <<release, row, requests, images, wireVars, nodeVars,
                   hostVars, approved, faults>>

\* ... and hands the command to the hub, which has no socket to write to
\* unless the node is registered.
SendUpdate(h) ==
    /\ job[h].pc = "send"
    /\ IF conn = "up"
       THEN /\ Len(down) < MaxQueue
            /\ down' = Append(down, job[h].target)
       ELSE down' = down
    /\ job' = [job EXCEPT ![h] = Idle]
    /\ UNCHANGED <<release, row, requests, images, conn, up, nodeVars,
                   hostVars, approved, faults>>

\* MarkNodeSeen: the reported version is stored, and an update whose version
\* is reached succeeds.
MarkNodeSeen(version) ==
    row' = IF row.desired # 0 /\ ~NeedsUpdate(version, row.desired)
           THEN [version |-> version, desired |-> version,
                 status |-> "succeeded"]
           ELSE [row EXCEPT !.version = version]

\* UpdateNodeReport stores the status; the report's version is not looked at,
\* so the model's messages do not carry it.
UpdateNodeReport(report) == row' = [row EXCEPT !.status = report]

\* handleNodeWS reads one message and acts on it: a hello registers the
\* socket; a heartbeat stores the version, then the report it may carry, and
\* may resend the command; an update_status stores its report.
Receive ==
    /\ job["ws"].pc = "idle" /\ conn # "down" /\ up # <<>>
    /\ LET msg == Head(up) IN
       /\ up' = Tail(up)
       /\ conn' = "up"
       /\ \/ /\ msg.type = "hello"
             /\ MarkNodeSeen(msg.version)
             /\ job' = [job EXCEPT !["ws"].pc = "push"]
          \/ /\ msg.type = "heartbeat"
             /\ MarkNodeSeen(msg.version)
             /\ job' = [job EXCEPT !["ws"] =
                  IF msg.report = ""
                  THEN [Idle EXCEPT !.pc = "push"]
                  ELSE [Idle EXCEPT !.pc = "report",
                                    !.report = msg.report]]
          \/ /\ msg.type = "update_status"
             /\ UpdateNodeReport(msg.report)
             /\ UNCHANGED job
    /\ UNCHANGED <<release, requests, images, down, nodeVars, hostVars,
                   approved, faults>>

\* The second transaction of a heartbeat.
StoreReport ==
    /\ job["ws"].pc = "report"
    /\ UpdateNodeReport(job["ws"].report)
    /\ job' = [job EXCEPT !["ws"] = [Idle EXCEPT !.pc = "push"]]
    /\ UNCHANGED <<release, requests, images, wireVars, nodeVars, hostVars,
                   approved, faults>>

Disconnected == conn' = "down" /\ up' = <<>> /\ down' = <<>>

\* The controller is restarted on another image: its handlers and its
\* sockets are gone, its database stays, its release is the new image's
\* (older after a rollback, none if the image has no usable release).
ReplaceImage ==
    /\ images < MaxImages
    /\ images' = images + 1
    /\ release' \in (Versions \cup {0}) \ {release}
    /\ job' = [h \in Handlers |-> Idle]
    /\ Disconnected
    /\ UNCHANGED <<row, requests, nodeVars, hostVars, approved, faults>>

-----------------------------------------------------------------------------
(* The node process.                                                       *)

\* hello and heartbeat carry the version of the process.
Message(type, report) ==
    [type |-> type, report |-> report,
     version |-> IF type = "update_status" THEN 0 ELSE running]

\* What the process reads back from status.json: nothing if there is none.
StatusReports ==
    IF status = NoReport THEN <<>>
    ELSE <<Message("update_status", status.status)>>

\* controlLoop dials once it is back from the message it was handling, says
\* hello and reports what status.json holds.
Connect ==
    /\ conn = "down" /\ cmd = 0 /\ job["ws"].pc = "idle"
    /\ conn' = "hello"
    /\ up' = <<Message("hello", "")>> \o StatusReports
    /\ down' = <<>>
    /\ UNCHANGED <<ctlVars, nodeVars, hostVars, approved, faults>>

\* The heartbeat goroutine, whatever the reading loop is busy with.
Heartbeat ==
    /\ conn # "down" /\ Len(up) < MaxQueue
    /\ up' = Append(up, Message("heartbeat", status.status))
    /\ UNCHANGED <<ctlVars, conn, down, nodeVars, hostVars, approved,
                   faults>>

\* A write on the connection the command came from, lost if that is gone.
Reply(report) ==
    up' = IF conn = "down" THEN up
          ELSE Append(up, Message("update_status", report))

\* handleUpdateCommand, up to status.json.  A command for a version that is
\* not newer is acknowledged like any other.
HandleUpdateCommand ==
    /\ cmd = 0 /\ down # <<>>
    /\ LET version == Head(down) IN
       /\ down' = Tail(down)
       /\ IF NeedsUpdate(running, version)
          THEN /\ status' = [status |-> "requested", version |-> version]
               /\ cmd' = version
               /\ up' = up
          ELSE /\ Reply("requested")
               /\ UNCHANGED <<status, cmd>>
    /\ UNCHANGED <<ctlVars, conn, running, request, legible, disk, updater,
                   approved, faults>>

\* ... then request.json, in the place of any other, and the acknowledgement.
WriteUpdateRequest ==
    /\ cmd # 0
    /\ request' = cmd /\ legible' = TRUE
    /\ Reply("requested")
    /\ cmd' = 0
    /\ UNCHANGED <<ctlVars, conn, down, running, status, disk, updater,
                   approved, faults>>

\* One of the two writes fails, which the node reports: status.json's
\* leaves the file as it was, request.json's leaves "requested" in it.
UpdateCommandFails ==
    /\ faults < MaxFaults
    /\ faults' = faults + 1
    /\ \/ /\ cmd = 0 /\ down # <<>> /\ NeedsUpdate(running, Head(down))
          /\ Reply("failed")
          /\ down' = Tail(down)
       \/ /\ cmd # 0
          /\ Reply("failed")
          /\ down' = down
    /\ cmd' = 0
    /\ UNCHANGED <<ctlVars, conn, running, hostVars, approved>>

\* The process starts again, from the binary that is installed by then.
Restarted == running' = disk /\ cmd' = 0 /\ Disconnected

\* The connection breaks; the websocket handler ends with it.
LoseConnection ==
    /\ conn # "down" /\ faults < MaxFaults
    /\ faults' = faults + 1
    /\ job' = [job EXCEPT !["ws"] = Idle]
    /\ Disconnected
    /\ UNCHANGED <<release, row, requests, images, nodeVars, hostVars,
                   approved>>

\* The node process crashes and systemd restarts it (Restart=always).
NodeCrash ==
    /\ faults < MaxFaults
    /\ faults' = faults + 1
    /\ job' = [job EXCEPT !["ws"] = Idle]
    /\ Restarted
    /\ UNCHANGED <<release, row, requests, images, hostVars, approved>>

-----------------------------------------------------------------------------
(* The updater.                                                            *)

\* Mutant: the request is not compared with the installed version.
StartUnvalidated ==
    /\ updater.pc = "idle" /\ request # 0 /\ legible
    /\ updater' = [pc |-> "fetch", target |-> request]
    /\ status' = [status |-> "running", version |-> request]
    /\ UNCHANGED <<ctlVars, wireVars, nodeVars, request, legible, disk,
                   approved, faults>>

\* Mutant: the removal is deferred after the validation.
StartKeepsInvalid ==
    /\ updater.pc = "idle" /\ request # 0 /\ legible
    /\ NeedsUpdate(disk, request)
    /\ updater' = [pc |-> "fetch", target |-> request]
    /\ status' = [status |-> "running", version |-> request]
    /\ UNCHANGED <<ctlVars, wireVars, nodeVars, request, legible, disk,
                   approved, faults>>

\* runUpdate loads the request, and ends at once if it cannot: the file stays.
\* Else it will be removed, and is validated against the version the updater
\* was built as, that of the installed binary; if it fails that, status.json
\* is left alone.
StartUpdate ==
    /\ updater.pc = "idle" /\ request # 0 /\ legible
    /\ \/ /\ NeedsUpdate(disk, request)
          /\ updater' = [pc |-> "fetch", target |-> request]
          /\ status' = [status |-> "running", version |-> request]
       \/ /\ ~NeedsUpdate(disk, request)
          /\ updater' = [pc |-> "remove_failed", target |-> request]
          /\ UNCHANGED status
    /\ UNCHANGED <<ctlVars, wireVars, nodeVars, request, legible, disk,
                   approved, faults>>

\* Something other than the program damages the request: what the node writes
\* is complete, synced and renamed into its place.
RequestDamaged ==
    /\ request # 0 /\ legible /\ faults < MaxFaults
    /\ faults' = faults + 1
    /\ legible' = FALSE
    /\ UNCHANGED <<ctlVars, wireVars, nodeVars, status, request, disk,
                   updater, approved>>

Progress(pc) == updater' = [updater EXCEPT !.pc = pc]

\* The release manifest must be the one of the requested version.
FetchNodeRelease ==
    /\ updater.pc = "fetch"
    /\ release # 0 /\ release = updater.target
    /\ Progress("download")
    /\ UNCHANGED <<ctlVars, wireVars, nodeVars, status, request, legible,
                   disk, approved, faults>>

\* Mutant: the downloaded binary's digest is not checked.
ReplaceUnverified ==
    /\ updater.pc = "download"
    /\ release # 0
    /\ disk' = release
    /\ Progress("replaced")
    /\ UNCHANGED <<ctlVars, wireVars, nodeVars, status, request, legible,
                   approved, faults>>

\* The binary is downloaded, checked against the manifest's digest and
\* renamed over the installed one.
ReplaceBinary ==
    /\ updater.pc = "download"
    /\ release = updater.target
    /\ disk' = release
    /\ Progress("replaced")
    /\ UNCHANGED <<ctlVars, wireVars, nodeVars, status, request, legible,
                   approved, faults>>

\* performUpdate returns an error: the controller is away or refuses, or the
\* version or the digest is not the requested one.
PerformUpdateFails ==
    /\ updater.pc \in {"fetch", "download"}
    /\ Progress("failed")
    /\ UNCHANGED <<ctlVars, wireVars, nodeVars, status, request, legible,
                   disk, approved, faults>>

\* Mutant: the error of performUpdate is dropped.
SaveSuccess ==
    /\ updater.pc \in {"replaced", "failed"}
    /\ status' = [status |-> "succeeded", version |-> updater.target]
    /\ Progress("remove")
    /\ UNCHANGED <<ctlVars, wireVars, nodeVars, request, legible, disk,
                   approved, faults>>

SaveOutcome ==
    /\ \/ /\ updater.pc = "replaced"
          /\ status' = [status |-> "succeeded", version |-> updater.target]
          /\ Progress("remove")
       \/ /\ updater.pc = "failed"
          /\ status' = [status |-> "failed", version |-> updater.target]
          /\ Progress("remove_failed")
    /\ UNCHANGED <<ctlVars, wireVars, nodeVars, request, legible, disk,
                   approved, faults>>

\* saveUpdateStatus fails.  Before the update that ends the run; after a failed
\* update the error is dropped; after a successful one the new binary stays,
\* without a restart.
StatusWriteFails ==
    /\ StatusFaults /\ faults < MaxFaults
    /\ faults' = faults + 1
    /\ \/ /\ updater.pc = "idle" /\ request # 0 /\ legible
          /\ NeedsUpdate(disk, request)
          /\ updater' = [pc |-> "remove_failed", target |-> request]
       \/ updater.pc \in {"replaced", "failed"} /\ Progress("remove_failed")
    /\ UNCHANGED <<ctlVars, wireVars, nodeVars, status, request, legible, disk,
                   approved>>

\* The deferred removal of request.json, whichever request it holds now; its
\* error is dropped.  Only a successful update goes on to restart the service.
RemoveRequest ==
    /\ updater.pc \in {"remove", "remove_failed"}
    /\ \/ request' = 0 /\ legible' = TRUE /\ UNCHANGED faults
       \/ /\ faults < MaxFaults /\ faults' = faults + 1
          /\ UNCHANGED <<request, legible>>
    /\ updater' = IF updater.pc = "remove"
                  THEN [updater EXCEPT !.pc = "restart"]
                  ELSE NoUpdate
    /\ UNCHANGED <<ctlVars, wireVars, nodeVars, status, disk, approved>>

RestartNodeService ==
    /\ updater.pc = "restart"
    /\ updater' = NoUpdate
    /\ job' = [job EXCEPT !["ws"] = Idle]
    /\ Restarted
    /\ UNCHANGED <<release, row, requests, images, status, request, legible,
                   disk, approved, faults>>

\* The updater is killed, or systemctl fails: what is on disk stays.
UpdaterCrash ==
    /\ updater.pc # "idle" /\ faults < MaxFaults
    /\ faults' = faults + 1
    /\ updater' = NoUpdate
    /\ UNCHANGED <<ctlVars, wireVars, nodeVars, status, request, legible, disk,
                   approved>>

-----------------------------------------------------------------------------
\* What the updater does on its way to the end.
UpdaterStep ==
    \/ StartUpdate \/ FetchNodeRelease \/ ReplaceBinary \/ PerformUpdateFails
    \/ SaveOutcome \/ RemoveRequest \/ RestartNodeService

Next ==
    \/ UpdateNodeBinary \/ RequestNodeUpdate
    \/ \E h \in Handlers : PushNodeUpdate(h) \/ SendUpdate(h)
    \/ Receive \/ StoreReport \/ ReplaceImage
    \/ Connect \/ Heartbeat \/ HandleUpdateCommand \/ WriteUpdateRequest
    \/ UpdateCommandFails \/ LoseConnection \/ NodeCrash
    \/ UpdaterStep \/ StatusWriteFails \/ RequestDamaged \/ UpdaterCrash

Spec == Init /\ [][Next]_vars

\* systemd starts the updater while request.json exists, and a started
\* updater that can read it runs to its end (its HTTP client gives up after 30
\* seconds).
FairSpec == Spec /\ WF_vars(UpdaterStep)
-----------------------------------------------------------------------------
TypeOK ==
    /\ release \in 0..MaxVersion
    /\ row \in Row
    /\ job \in [Handlers -> Job]
    /\ conn \in {"down", "hello", "up"}
    /\ \A i \in DOMAIN up : up[i] \in UpMessage
    /\ \A i \in DOMAIN down : down[i] \in Versions
    /\ running \in Versions /\ cmd \in 0..MaxVersion
    /\ status \in Report /\ request \in 0..MaxVersion /\ legible \in BOOLEAN
    /\ disk \in Versions /\ updater \in Updater
    /\ approved \subseteq Versions
    /\ requests \in 0..MaxRequests
    /\ images \in 0..MaxImages /\ faults \in 0..MaxFaults

\* The binary a node has installed is the one it came with or one that an
\* administrator approved for it: a release that replaced the approved one
\* while the update was under way is never installed in its place.
InstalledIsApproved == disk \in approved \cup {OldVersion}

\* status.json says "succeeded" only of a version that was really installed
\* (and not replaced by an older one since).
SucceededIsInstalled ==
    status.status = "succeeded" => disk >= status.version

\* No step puts an older binary over a newer one, whatever the controller
\* was rolled back to while a node waited for its restart.
NeverDowngraded == [][disk' >= disk]_disk

\* systemd starts the updater as long as request.json exists, so a request the
\* updater can read must be gone after a finite number of runs, whether it
\* passes validation or not, and however its runs end.  (One it cannot read
\* stays, and the updater is started in vain, until another is written over it.)
RequestConsumed == request # 0 ~> request = 0 \/ ~legible
=============================================================================
