------------------------------- MODULE History -------------------------------
(***************************************************************************)
(* The metrics history and the settings that govern it: the counters and   *)
(* periodic reports of a node, handleNodeMetrics, the rows,                *)
(* handleUpdateControllerInfo, loadHistoryCleanupConfig at the start, and  *)
(* historyCleanupLoop with its timer and its wake-up channel.              *)
(*                                                                         *)
(* Time is counted in half seconds, because rows are compared as text      *)
(* (RFC3339Nano), whose order within a second is not that of time.  The    *)
(* audit retention is the same code over another table and is left out;    *)
(* what a new failure cooldown does is Change in module NodeHub.           *)
(***************************************************************************)
EXTENDS Integers, FiniteSets, FiniteSetsExt, Functions

CONSTANTS
  Patch,       \* concurrent PATCH requests
  Request,     \* what they may change: functions on some of Setting
  Default,     \* the configuration file's settings
  MaxNow,      \* bound on time
  MaxTraffic,  \* bound on the units counted
  MaxFaults    \* bound on restarts, lost requests and failed transactions

Setting == {"retention", "interval"}

\* Settings in seconds; 0 switches off.
Values == {Default[s] : s \in Setting} \cup UNION {Range(r) : r \in Request}

ASSUME SettingsAssumption ==
  /\ Default \in [Setting -> Nat]
  /\ \A r \in Request : DOMAIN r \subseteq Setting /\ Range(r) \subseteq Nat
ASSUME BoundsAssumption ==
  {MaxNow, MaxTraffic, MaxFaults} \subseteq Nat

VARIABLES
  stored,    \* the settings in the database
  memory,    \* Server.cleanupConfig
  wake,      \* whether cleanupWake holds a token
  loop,      \* historyCleanupLoop
  patches,   \* the PATCH handlers
  now,
  counter,   \* metrics.Counters of the node: the units they add up
  report,    \* the report it has under way
  rows,      \* the metrics table
  traffic,   \* how many units were ever counted; they are 1 .. traffic
  faults

settings == <<stored, memory, wake, loop, patches>>
metrics == <<counter, report, traffic>>
historyVars == <<settings, metrics, rows, now, faults>>

Config == [Setting -> Values]

Unit == 1 .. MaxTraffic

NoReport == [pc |-> "none", units |-> {}, at |-> 0]

Row == [id : Nat, units : SUBSET Unit, at : 0 .. MaxNow]

\* The key of a new row: AUTOINCREMENT, as far as it tells rows apart.
NextId == 1 + Max({0} \cup {r.id : r \in rows})

HistoryTypeOK ==
  /\ stored \in Config /\ memory \in Config
  /\ wake \in BOOLEAN
  /\ loop \in [pc : {"run", "read", "prune", "schedule", "select"},
               before : Int, timer : Values \cup {0}]
  /\ patches \in [Patch -> [pc : {"idle", "store", "memory", "wake"},
                            req : Request \cup {<<>>}, next : Config]]
  /\ now \in 0 .. MaxNow
  /\ counter \subseteq Unit
  /\ report \in [pc : {"none", "sent"}, units : SUBSET Unit, at : 0 .. MaxNow]
  /\ rows \subseteq Row
  /\ traffic \in 0 .. MaxTraffic
  /\ faults \in 0 .. MaxFaults

\* No time: nothing is pruned.
Never == -MaxNow

LoopStart == [pc |-> "run", before |-> Never, timer |-> 0]
NoPatch == [pc |-> "idle", req |-> <<>>, next |-> Default]

HistoryInit ==
  /\ stored = Default /\ memory = Default
  /\ wake = FALSE
  /\ loop = LoopStart
  /\ patches = [h \in Patch |-> NoPatch]
  /\ now = 0
  /\ counter = {}
  /\ report = NoReport
  /\ rows = {}
  /\ traffic = 0
  /\ faults = 0

Fault == faults < MaxFaults /\ faults' = faults + 1

-----------------------------------------------------------------------------
(* Settings *)

PatchAt(h, pc) == patches[h].pc = pc

\* currentHistoryCleanupConfig and the changes of the request.
ReadConfig(h, req) ==
  /\ PatchAt(h, "idle")
  /\ patches' = [patches EXCEPT ![h] =
       [pc |-> "store", req |-> req,
        next |-> [s \in Setting |-> IF s \in DOMAIN req THEN req[s] ELSE memory[s]]]]
  /\ UNCHANGED <<stored, memory, wake, loop, metrics, rows, now, faults>>

\* SetSettings writes the request's settings in one transaction.
SetSettings(h) ==
  /\ PatchAt(h, "store")
  /\ \/ /\ stored' = [s \in Setting |-> IF s \in DOMAIN patches[h].req
                                          THEN patches[h].req[s] ELSE stored[s]]
        /\ patches' = [patches EXCEPT ![h].pc = "memory", ![h].req = <<>>]
        /\ UNCHANGED faults
     \/ /\ Fault
        /\ patches' = [patches EXCEPT ![h] = NoPatch]
        /\ UNCHANGED stored
  /\ UNCHANGED <<memory, wake, loop, metrics, rows, now>>

\* setHistoryCleanupConfig, under cleanupMu and after it.
SetConfig(h) ==
  /\ PatchAt(h, "memory")
  /\ memory' = patches[h].next
  /\ patches' = [patches EXCEPT ![h] = [NoPatch EXCEPT !.pc = "wake"]]
  /\ UNCHANGED <<stored, wake, loop, metrics, rows, now, faults>>

\* Mutant: the loop is not woken.
WakeLost(h) ==
  /\ PatchAt(h, "wake")
  /\ patches' = [patches EXCEPT ![h] = NoPatch]
  /\ UNCHANGED <<stored, memory, wake, loop, metrics, rows, now, faults>>

Wake(h) ==
  /\ PatchAt(h, "wake")
  /\ wake' = TRUE
  /\ patches' = [patches EXCEPT ![h] = NoPatch]
  /\ UNCHANGED <<stored, memory, loop, metrics, rows, now, faults>>

\* The controller stops and starts: loadHistoryCleanupConfig, a new channel and
\* a new loop.  The requests under way are lost.
Restart ==
  /\ Fault
  /\ memory' = stored
  /\ wake' = FALSE
  /\ loop' = LoopStart
  /\ patches' = [h \in Patch |-> NoPatch]
  /\ report' = NoReport
  /\ UNCHANGED <<stored, counter, traffic, rows, now>>

-----------------------------------------------------------------------------
(* historyCleanupLoop *)

LoopAt(pc) == loop.pc = pc

\* historyCleanupEnabled
CleanupEnabled(cfg) == cfg.interval > 0 /\ cfg.retention > 0

RunCleanup ==
  /\ LoopAt("run")
  /\ loop' = [loop EXCEPT !.pc = IF CleanupEnabled(memory) THEN "read" ELSE "schedule"]
  /\ UNCHANGED <<stored, memory, wake, patches, metrics, rows, now, faults>>

\* Mutant: a retention of 0 is taken for no retention at all.
CleanupReadsZero ==
  /\ LoopAt("read")
  /\ loop' = [loop EXCEPT !.pc = "prune", !.before = now - 2 * memory.retention]
  /\ UNCHANGED <<stored, memory, wake, patches, metrics, rows, now, faults>>

\* cleanupHistory reads the configuration again.
CleanupReads ==
  /\ LoopAt("read")
  /\ loop' = [loop EXCEPT !.pc = "prune",
                          !.before = IF memory.retention > 0 THEN now - 2 * memory.retention
                                     ELSE Never]
  /\ UNCHANGED <<stored, memory, wake, patches, metrics, rows, now, faults>>

\* The order of RFC3339Nano texts: within a second, one with a fraction comes
\* before the one without.
TextBefore(a, b) ==
  \/ a \div 2 < b \div 2
  \/ a \div 2 = b \div 2 /\ a % 2 = 1 /\ b % 2 = 0

PruneHistory ==
  /\ LoopAt("prune")
  /\ \/ /\ rows' = {r \in rows : ~TextBefore(r.at, loop.before)}
        /\ UNCHANGED faults
     \/ Fault /\ UNCHANGED rows
  /\ loop' = [loop EXCEPT !.pc = "schedule", !.before = Never]
  /\ UNCHANGED <<stored, memory, wake, patches, metrics, now>>

\* Mutant: the old timer is kept when the loop is switched off.
ScheduleKeeps ==
  /\ LoopAt("schedule")
  /\ loop' = [loop EXCEPT !.pc = "select",
                          !.timer = IF CleanupEnabled(memory) THEN memory.interval ELSE @]
  /\ UNCHANGED <<stored, memory, wake, patches, metrics, rows, now, faults>>

Schedule ==
  /\ LoopAt("schedule")
  /\ loop' = [loop EXCEPT !.pc = "select",
                          !.timer = IF CleanupEnabled(memory) THEN memory.interval ELSE 0]
  /\ UNCHANGED <<stored, memory, wake, patches, metrics, rows, now, faults>>

\* cleanupWake or the timer
Awake ==
  /\ LoopAt("select")
  /\ \/ wake /\ wake' = FALSE
     \/ loop.timer > 0 /\ UNCHANGED wake
  /\ loop' = [loop EXCEPT !.pc = "run"]
  /\ UNCHANGED <<stored, memory, patches, metrics, rows, now, faults>>

LoopStep == RunCleanup \/ CleanupReads \/ PruneHistory \/ Schedule \/ Awake

-----------------------------------------------------------------------------
(* Metrics *)

Count ==
  /\ traffic < MaxTraffic
  /\ traffic' = traffic + 1
  /\ counter' = counter \cup {traffic + 1}
  /\ UNCHANGED <<settings, report, rows, now, faults>>

\* Mutant: Snapshot for SnapshotAndReset.
ReportSnapshot ==
  /\ report = NoReport /\ counter # {}
  /\ report' = [pc |-> "sent", units |-> counter, at |-> now]
  /\ UNCHANGED <<settings, counter, traffic, rows, now, faults>>

\* The ticker; the next tick waits for the request.  A report without units
\* changes nothing.
Report ==
  /\ report = NoReport /\ counter # {}
  /\ report' = [pc |-> "sent", units |-> counter, at |-> now]
  /\ counter' = {}
  /\ UNCHANGED <<settings, traffic, rows, now, faults>>

\* handleNodeMetrics
InsertMetrics ==
  /\ report # NoReport
  /\ rows' = rows \cup {[id |-> NextId, units |-> report.units, at |-> report.at]}
  /\ report' = NoReport
  /\ UNCHANGED <<settings, counter, traffic, now, faults>>

\* The request is lost, refused as too frequent or too old, or its transaction
\* is rolled back.  The node has reset its counters and sends no second time.
LoseReport ==
  /\ report # NoReport
  /\ Fault
  /\ report' = NoReport
  /\ UNCHANGED <<settings, counter, traffic, rows, now>>

\* The process of the node ends, and with it its counters.
NodeStops ==
  /\ counter # {}
  /\ Fault
  /\ counter' = {}
  /\ UNCHANGED <<settings, report, traffic, rows, now>>

Tick ==
  /\ now < MaxNow
  /\ now' = now + 1
  /\ UNCHANGED <<settings, metrics, rows, faults>>

-----------------------------------------------------------------------------
Update(h) == SetSettings(h) \/ SetConfig(h) \/ Wake(h)

HistoryNext ==
  \/ \E h \in Patch : Update(h) \/ \E req \in Request : ReadConfig(h, req)
  \/ Restart
  \/ LoopStep
  \/ Count \/ Report \/ InsertMetrics \/ LoseReport \/ NodeStops
  \/ Tick

HistorySpec == HistoryInit /\ [][HistoryNext]_historyVars

\* The loop's goroutine runs and its timer fires; a handler that has started
\* goes on.
HistoryFairSpec ==
  HistorySpec /\ WF_historyVars(LoopStep) /\ \A h \in Patch : WF_historyVars(Update(h))

-----------------------------------------------------------------------------
(* Properties *)

\* No wake-up is lost: when the loop waits and nothing is under way to wake it,
\* its timer is the one the settings in force ask for, or none.  The handlers
\* change the settings at any time, also between the loop's reads of them.
TimerFollowsSettings ==
  LoopAt("select") /\ ~wake /\ (\A h \in Patch : ~PatchAt(h, "wake")) =>
    loop.timer = IF CleanupEnabled(memory) THEN memory.interval ELSE 0

\* Whatever is restarted or changed while the loop prunes, it only deletes rows
\* that are older, to the second, than the shortest retention ever asked for;
\* a retention that is switched off meanwhile deletes nothing.
KeptForRetention ==
  [][\A r \in rows \ rows' :
       r.at \div 2 <= (now - 2 * Min(Values \ {0})) \div 2]_historyVars

\* A report that is lost, refused or rolled back loses what it counted, but
\* nothing is ever counted twice: every unit is in the counters, in the report
\* under way or in one row of the table, and only one.
CountedOnce ==
  /\ \A r \in rows : r.units \cap (report.units \cup counter) = {}
  /\ \A r, q \in rows : r # q => r.units \cap q.units = {}
  /\ report.units \cap counter = {}

\* While the settings in force ask for it, expired rows do not stay.
Expired ==
  CleanupEnabled(memory) /\ \E r \in rows : TextBefore(r.at, now - 2 * memory.retention)

ExpiredRowsGo == Expired ~> ~Expired
=============================================================================
