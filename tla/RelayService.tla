---------------------------- MODULE RelayService ----------------------------
(***************************************************************************)
(* The life of the relay runtime of one node: internal/node/relay          *)
(* Service.Apply, restorePreviousConfig, stopRuntimeLocked,                *)
(* startConfigLocked and the expiry goroutines expireConfig.               *)
(*                                                                         *)
(* Apply and the critical section of expireConfig hold Service.mu, so each *)
(* is one action.  An expiry goroutine is not atomic: its select returns   *)
(* before it asks for the mutex, and between the two any Apply may run.    *)
(* That window is the phase "fired".                                       *)
(*                                                                         *)
(* A configuration is abstracted to its revision, its lease expiry and the *)
(* set of addresses startConfigLocked listens on for it (stages of which   *)
(* the node is a member, enabled forwards of tunnels it is an entry of).   *)
(* One revision may come with several contents: compileConfig reads the    *)
(* tables and the revision in separate queries.  A renewal then stores the *)
(* new content in Service.config and leaves the listeners as they are.     *)
(* Time is an integer; 0 is the zero time.Time, which means "no expiry".   *)
(***************************************************************************)
EXTENDS Integers

CONSTANTS
  Addr,        \* addresses a configuration may listen on
  Revision,    \* revisions the controller may issue
  Content,     \* the sets of listeners each revision may ask this node for
  TimerId,     \* identities for the expiry goroutines alive at one time
  None,        \* no timer, no configuration
  MaxTime      \* bound on the clock

ASSUME RevisionAssumption == Revision \subseteq Nat /\ 0 \in Revision
ASSUME ContentAssumption == Content \in [Revision -> SUBSET (SUBSET Addr)]
ASSUME NoneAssumption == None \notin TimerId
ASSUME MaxTimeAssumption == MaxTime \in Nat \ {0}

VARIABLES
  now,           \* time.Now()
  revision,      \* Service.revision
  config,        \* Service.config
  running,       \* Service.cancel # nil (and runtimeCtx # nil)
  listeners,     \* Service.servers, as the addresses they hold
  expireCancel,  \* the goroutine Service.expireCancel cancels, None for nil
  timers,        \* the expiry goroutines
  busy,          \* addresses some other process of the host holds
  granted        \* history: the last configuration Apply accepted

vars == <<now, revision, config, running, listeners, expireCancel, timers,
          busy, granted>>

Time == 0 .. MaxTime

Config == [rev : Revision, content : SUBSET Addr, exp : Time]

EmptyConfig == [rev |-> 0, content |-> {}, exp |-> 0]

Idle == [rev |-> 0, exp |-> 0, phase |-> "idle"]

\* A goroutine waits in its select ("armed", "cancelled" once its context is
\* done) or has taken the timer branch and waits for the mutex ("fired").
Timer == [rev : Revision, exp : Time,
          phase : {"idle", "armed", "cancelled", "fired"}]

Init ==
  /\ now = 1
  /\ revision = 0
  /\ config = EmptyConfig
  /\ running = FALSE
  /\ listeners = {}
  /\ expireCancel = None
  /\ timers = [i \in TimerId |-> Idle]
  /\ busy = {}
  /\ granted = None

-----------------------------------------------------------------------------
(* Expiry goroutines *)

\* !cfg.ExpiresAt.IsZero() && !time.Now().Before(cfg.ExpiresAt)
Expired(cfg) == cfg.exp # 0 /\ cfg.exp <= now

\* A slip: the previous goroutine is forgotten, not cancelled.
CancelNothing(T, i) == T

\* expireCancel(): the context of the goroutine it belongs to is done.
\* One that has fired already no longer looks at it.
CancelTimer(T, i) ==
  IF i # None /\ T[i].phase = "armed"
  THEN [T EXCEPT ![i] = [rev |-> T[i].rev, exp |-> T[i].exp, phase |-> "cancelled"]]
  ELSE T

\* "go s.expireConfig(...)" for a configuration that has an expiry.
SpawnTimer(T, i, cfg) ==
  IF cfg.exp = 0 THEN T
  ELSE [T EXCEPT ![i] = [rev |-> cfg.rev, exp |-> cfg.exp, phase |-> "armed"]]

TimerOf(i, cfg) == IF cfg.exp = 0 THEN None ELSE i

Free == {i \in TimerId : timers[i].phase = "idle"}

\* An unused identity; TimerId bounds the goroutines alive at one time.
NewTimer(S) == CHOOSE i \in S : TRUE

-----------------------------------------------------------------------------
(* Apply *)

\* startConfigLocked succeeds when every listen succeeds.
Startable(cfg) == cfg.content \cap busy = {}

\* A configuration whose lease is over is refused.
ApplyExpired(cfg) == Expired(cfg) /\ UNCHANGED vars

\* The running revision arrives again: the lease is renewed, the configuration
\* replaced, and nothing stopped or started.
RenewsRunning(cfg) == cfg.rev # 0 /\ cfg.rev = revision /\ running

\* A slip: the renewal cancels the old goroutine and starts no new one.
RenewUnguarded(cfg) ==
  /\ ~Expired(cfg)
  /\ RenewsRunning(cfg)
  /\ timers' = CancelTimer(timers, expireCancel)
  /\ expireCancel' = None
  /\ config' = cfg
  /\ granted' = cfg
  /\ UNCHANGED <<now, revision, running, listeners, busy>>

ApplyRenew(cfg) ==
  /\ ~Expired(cfg)
  /\ RenewsRunning(cfg)
  /\ Free # {}
  /\ timers' = SpawnTimer(CancelTimer(timers, expireCancel), NewTimer(Free), cfg)
  /\ expireCancel' = TimerOf(NewTimer(Free), cfg)
  /\ config' = cfg
  /\ granted' = cfg
  /\ UNCHANGED <<now, revision, running, listeners, busy>>

\* The old runtime is stopped and every listener of the new one starts.
ApplyStart(cfg) ==
  /\ ~Expired(cfg)
  /\ ~RenewsRunning(cfg)
  /\ Startable(cfg)
  /\ Free # {}
  /\ timers' = SpawnTimer(CancelTimer(timers, expireCancel), NewTimer(Free), cfg)
  /\ expireCancel' = TimerOf(NewTimer(Free), cfg)
  /\ config' = cfg
  /\ revision' = cfg.rev
  /\ running' = TRUE
  /\ listeners' = cfg.content
  /\ granted' = cfg
  /\ UNCHANGED <<now, busy>>

\* Nothing was ever applied: there is nothing to go back to.
NothingToRestore == revision = 0 /\ config.content = {}

\* A listen fails.  The goroutine already started for cfg is cancelled, what
\* was opened is closed, and the previous configuration is started again;
\* when that fails too the runtime stays stopped under the old revision.
ApplyRestore(cfg) ==
  /\ ~Expired(cfg)
  /\ ~RenewsRunning(cfg)
  /\ ~Startable(cfg)
  /\ \E i, j \in Free : i # j
  /\ LET i == NewTimer(Free)
         j == NewTimer(Free \ {i})
         started == SpawnTimer(CancelTimer(timers, expireCancel), i, cfg)
         failed  == CancelTimer(started, TimerOf(i, cfg))
         again   == SpawnTimer(failed, j, config)
     IN  \/ /\ NothingToRestore
            /\ timers' = failed
            /\ expireCancel' = None
            /\ running' = FALSE
            /\ listeners' = {}
            /\ UNCHANGED granted
         \/ /\ ~NothingToRestore
            /\ Startable(config)
            /\ timers' = again
            /\ expireCancel' = TimerOf(j, config)
            /\ running' = TRUE
            /\ listeners' = config.content
            /\ UNCHANGED granted
         \/ /\ ~NothingToRestore
            /\ ~Startable(config)
            /\ timers' = CancelTimer(again, TimerOf(j, config))
            /\ expireCancel' = None
            /\ running' = FALSE
            /\ listeners' = {}
            /\ granted' = None
  /\ UNCHANGED <<now, revision, config, busy>>

Apply(cfg) ==
  \/ ApplyExpired(cfg)
  \/ ApplyRenew(cfg)
  \/ ApplyStart(cfg)
  \/ ApplyRestore(cfg)

-----------------------------------------------------------------------------
(* expireConfig *)

\* ctx.Done(): a cancelled goroutine leaves.
TimerCancelled(i) ==
  /\ timers[i].phase = "cancelled"
  /\ timers' = [timers EXCEPT ![i] = Idle]
  /\ UNCHANGED <<now, revision, config, running, listeners, expireCancel,
                 busy, granted>>

\* A slip: the branches of the select are mixed up.
FiresOnlyCancelled(i) ==
  /\ timers[i].phase = "cancelled"
  /\ timers[i].exp <= now
  /\ timers' = [timers EXCEPT ![i].phase = "fired"]
  /\ UNCHANGED <<now, revision, config, running, listeners, expireCancel,
                 busy, granted>>

\* timer.C: select may take this branch even when ctx.Done() is ready too.
TimerFires(i) ==
  /\ timers[i].phase \in {"armed", "cancelled"}
  /\ timers[i].exp <= now
  /\ timers' = [timers EXCEPT ![i].phase = "fired"]
  /\ UNCHANGED <<now, revision, config, running, listeners, expireCancel,
                 busy, granted>>

\* The goroutine has the mutex: the guard compares the revision only.
ExpiryApplies(i) == revision = timers[i].rev /\ running

\* A slip: the runtime is marked stopped, its listeners stay open.
ExpireLeavesListeners(i) ==
  /\ timers[i].phase = "fired"
  /\ ExpiryApplies(i)
  /\ timers' = [CancelTimer(timers, expireCancel) EXCEPT ![i] = Idle]
  /\ expireCancel' = None
  /\ running' = FALSE
  /\ config' = [rev |-> timers[i].rev, content |-> {}, exp |-> timers[i].exp]
  /\ UNCHANGED <<now, revision, listeners, busy, granted>>

ExpireStops(i) ==
  /\ timers[i].phase = "fired"
  /\ ExpiryApplies(i)
  /\ timers' = [CancelTimer(timers, expireCancel) EXCEPT ![i] = Idle]
  /\ expireCancel' = None
  /\ running' = FALSE
  /\ listeners' = {}
  /\ config' = [rev |-> timers[i].rev, content |-> {}, exp |-> timers[i].exp]
  /\ UNCHANGED <<now, revision, busy, granted>>

ExpireIgnored(i) ==
  /\ timers[i].phase = "fired"
  /\ ~ExpiryApplies(i)
  /\ timers' = [timers EXCEPT ![i] = Idle]
  /\ UNCHANGED <<now, revision, config, running, listeners, expireCancel,
                 busy, granted>>

ExpireConfig(i) == ExpireStops(i) \/ ExpireIgnored(i)

-----------------------------------------------------------------------------
(* Environment *)

Tick ==
  /\ now < MaxTime
  /\ now' = now + 1
  /\ UNCHANGED <<revision, config, running, listeners, expireCancel, timers,
                 busy, granted>>

\* Another process takes or releases an address the relay does not hold.
HostTakes(a) ==
  /\ a \notin listeners
  /\ busy' = IF a \in busy THEN busy \ {a} ELSE busy \cup {a}
  /\ UNCHANGED <<now, revision, config, running, listeners, expireCancel,
                 timers, granted>>

\* What the controller sends: any content of a revision, any lease.
Offered ==
  UNION {{[rev |-> r, content |-> c, exp |-> e] : c \in Content[r], e \in Time} :
           r \in Revision}

Next ==
  \/ \E cfg \in Offered : Apply(cfg)
  \/ \E i \in TimerId : TimerCancelled(i) \/ TimerFires(i) \/ ExpireConfig(i)
  \/ Tick
  \/ \E a \in Addr : HostTakes(a)

\* The Go scheduler does not starve all the expiry goroutines that are due for
\* ever (a select whose two branches are ready takes either with equal
\* probability), and every goroutine that waits for the mutex gets it.
Fairness ==
  /\ WF_vars(\E i \in TimerId : TimerFires(i))
  /\ \A i \in TimerId : WF_vars(ExpireConfig(i))

Spec == Init /\ [][Next]_vars

FairSpec == Spec /\ Fairness

-----------------------------------------------------------------------------
(* Properties *)

TypeOK ==
  /\ now \in Time
  /\ revision \in Revision
  /\ config \in Config
  /\ running \in BOOLEAN
  /\ listeners \in SUBSET Addr
  /\ expireCancel \in TimerId \cup {None}
  /\ timers \in [TimerId -> Timer]
  /\ busy \in SUBSET Addr
  /\ granted \in Config \cup {None}

\* A goroutine that can still stop the runtime under the lease in force.
Guards(i) ==
  /\ timers[i].rev = revision
  /\ timers[i].exp = config.exp
  /\ timers[i].phase \in {"armed", "fired"}

\* A running configuration that has a lease always has an expiry goroutine of
\* that very lease which no later call has cancelled: no order of renewals,
\* failed applies, restores and expiries leaves listeners nobody will stop.
LeaseGuarded ==
  running /\ config.exp # 0 => \E i \in TimerId : Guards(i)

\* Apply and restorePreviousConfig hand over from one expiry goroutine to the
\* next: the only one that is not cancelled is the one expireCancel refers to.
OneLiveTimer ==
  \A i \in TimerId : timers[i].phase = "armed" => i = expireCancel

\* The addresses the service holds are all those of one configuration it was
\* given under the revision it reports, or none: no failed apply, restore or
\* expiry leaves half of a configuration or a listener of another revision
\* open, although renewals may have changed Service.config since the listeners
\* were opened.  A stopped service holds none.
ListenersOfRevision ==
  /\ listeners \in Content[revision] \cup {{}}
  /\ ~running => listeners = {}

\* The configuration is one its revision came with, or what expiry leaves.
ConfigOfRevision ==
  /\ config.rev = revision
  /\ config.content \in Content[revision] \cup {{}}

\* The inductive invariant behind the safety theorems.
IInv ==
  TypeOK /\ LeaseGuarded /\ OneLiveTimer /\ ListenersOfRevision /\ ConfigOfRevision

\* An expired lease does not stay in force: the runtime is stopped or the
\* lease renewed (README: "once the lease expires, the node stops its relay
\* listeners").
ExpiredLeaseEnds == (running /\ Expired(config)) ~> ~(running /\ Expired(config))

\* README: "keep existing routes running for up to 30 days [...] once the
\* lease expires, the node stops its relay listeners": while the lease of the
\* last accepted configuration lasts and it has listeners, some are open.
LeaseKeepsRoutes ==
  granted # None /\ granted.content # {} /\ granted.exp > now => listeners # {}
=============================================================================
