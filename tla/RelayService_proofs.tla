------------------------- MODULE RelayService_proofs -------------------------
(* Proofs of the safety properties of RelayService. *)
EXTENDS RelayService, TLAPS

USE RevisionAssumption, ContentAssumption, NoneAssumption, MaxTimeAssumption

-----------------------------------------------------------------------------
(* The operators on the table of expiry goroutines *)

\* Cancelling a goroutine leaves it its lease and arms no other.
LEMMA CancelTimerType ==
  ASSUME NEW T \in [TimerId -> Timer], NEW i \in TimerId \cup {None}
  PROVE  /\ CancelTimer(T, i) \in [TimerId -> Timer]
         /\ \A k \in TimerId :
              /\ CancelTimer(T, i)[k].rev = T[k].rev
              /\ CancelTimer(T, i)[k].exp = T[k].exp
              /\ CancelTimer(T, i)[k].phase = "armed" => T[k].phase = "armed" /\ k # i
  BY DEF CancelTimer, Timer

\* A started goroutine is armed with the lease of its configuration.
LEMMA SpawnTimerType ==
  ASSUME NEW T \in [TimerId -> Timer], NEW i \in TimerId, NEW cfg \in Config
  PROVE  /\ SpawnTimer(T, i, cfg) \in [TimerId -> Timer]
         /\ cfg.exp # 0 =>
              SpawnTimer(T, i, cfg)[i] =
                [rev |-> cfg.rev, exp |-> cfg.exp, phase |-> "armed"]
  BY DEF SpawnTimer, Timer, Config, Time

\* An identity taken from a non-empty set belongs to it.
LEMMA NewTimerMember ==
  ASSUME NEW S, S # {}
  PROVE  NewTimer(S) \in S
  BY DEF NewTimer

LEMMA OfferedConfig ==
  ASSUME NEW cfg \in Offered
  PROVE  cfg \in Config /\ cfg.content \in Content[cfg.rev]
  BY DEF Offered, Config

-----------------------------------------------------------------------------
(* Initial states *)

LEMMA InitIInv == Init => IInv
<1> SUFFICES ASSUME Init PROVE IInv
  OBVIOUS
<1>1. TypeOK
  <2>1. 0 \in Time /\ 1 \in Time /\ 0 \in Revision
    BY DEF Time
  <2>2. EmptyConfig \in Config /\ Idle \in Timer
    BY <2>1 DEF EmptyConfig, Config, Idle, Timer
  <2> QED
    BY <2>1, <2>2 DEF Init, TypeOK
<1>2. LeaseGuarded
  BY DEF Init, LeaseGuarded
<1>3. OneLiveTimer
  BY DEF Init, OneLiveTimer, Idle
<1>4. ListenersOfRevision /\ ConfigOfRevision
  BY DEF Init, ListenersOfRevision, ConfigOfRevision, EmptyConfig
<1> QED
  BY <1>1, <1>2, <1>3, <1>4 DEF IInv

-----------------------------------------------------------------------------
(* Apply *)

\* A lease handed over from the old goroutine to a new one: what renewing and
\* starting a configuration have in common.
LEMMA HandOver ==
  ASSUME IInv, NEW cfg \in Config, Free # {},
         timers' = SpawnTimer(CancelTimer(timers, expireCancel), NewTimer(Free), cfg),
         expireCancel' = TimerOf(NewTimer(Free), cfg),
         config' = cfg, revision' = cfg.rev
  PROVE  /\ timers' \in [TimerId -> Timer]
         /\ expireCancel' \in TimerId \cup {None}
         /\ LeaseGuarded'
         /\ OneLiveTimer'
<1> DEFINE C == CancelTimer(timers, expireCancel)
<1>1. PICK i \in TimerId : i = NewTimer(Free)
  BY NewTimerMember DEF Free
<1>2. timers \in [TimerId -> Timer] /\ expireCancel \in TimerId \cup {None}
  BY DEF IInv, TypeOK
<1>3. C \in [TimerId -> Timer]
  BY <1>2, CancelTimerType
<1>4. timers' \in [TimerId -> Timer] /\ expireCancel' \in TimerId \cup {None}
  BY <1>1, <1>3, SpawnTimerType DEF TimerOf
<1>5. LeaseGuarded'
  <2> SUFFICES ASSUME cfg.exp # 0 PROVE Guards(i)'
    BY <1>1 DEF LeaseGuarded
  <2>1. timers'[i] = [rev |-> cfg.rev, exp |-> cfg.exp, phase |-> "armed"]
    BY <1>1, <1>3, SpawnTimerType
  <2> QED
    BY <2>1 DEF Guards
<1>6. OneLiveTimer'
  <2> SUFFICES ASSUME NEW k \in TimerId, timers'[k].phase = "armed"
               PROVE  k = expireCancel'
    BY DEF OneLiveTimer
  <2>1. CASE cfg.exp # 0 /\ k = i
    BY <1>1, <2>1 DEF TimerOf
  <2>2. CASE cfg.exp = 0 \/ k # i
    <3>1. timers'[k] = C[k]
      BY <2>2, <1>1, <1>3 DEF SpawnTimer
    <3>2. timers[k].phase = "armed" /\ k # expireCancel
      BY <3>1, <1>2, CancelTimerType
    <3> QED
      BY <3>2 DEF IInv, OneLiveTimer
  <2> QED
    BY <2>1, <2>2
<1> QED
  BY <1>4, <1>5, <1>6

LEMMA RenewIInv ==
  ASSUME IInv, NEW cfg \in Offered, ApplyRenew(cfg)
  PROVE  IInv'
<1>1. cfg \in Config /\ cfg.content \in Content[cfg.rev]
  BY OfferedConfig
<1>2. revision' = cfg.rev
  BY DEF ApplyRenew, RenewsRunning
<1>3. /\ timers' \in [TimerId -> Timer]
      /\ expireCancel' \in TimerId \cup {None}
      /\ LeaseGuarded'
      /\ OneLiveTimer'
  <2> USE <1>1, <1>2
  <2> QED
    BY HandOver DEF ApplyRenew
<1>4. TypeOK'
  BY <1>1, <1>3 DEF ApplyRenew, IInv, TypeOK
<1>5. ConfigOfRevision'
  BY <1>1, <1>2 DEF ApplyRenew, ConfigOfRevision
<1>6. ListenersOfRevision'
  BY DEF ApplyRenew, IInv, ListenersOfRevision
<1> QED
  BY <1>3, <1>4, <1>5, <1>6 DEF IInv

LEMMA StartIInv ==
  ASSUME IInv, NEW cfg \in Offered, ApplyStart(cfg)
  PROVE  IInv'
<1>1. cfg \in Config /\ cfg.content \in Content[cfg.rev]
  BY OfferedConfig
<1>2. /\ timers' \in [TimerId -> Timer]
      /\ expireCancel' \in TimerId \cup {None}
      /\ LeaseGuarded'
      /\ OneLiveTimer'
  BY <1>1, HandOver DEF ApplyStart
<1>3. TypeOK'
  BY <1>1, <1>2 DEF ApplyStart, IInv, TypeOK, Config
<1>4. ConfigOfRevision' /\ ListenersOfRevision'
  BY <1>1 DEF ApplyStart, ConfigOfRevision, ListenersOfRevision
<1> QED
  BY <1>2, <1>3, <1>4 DEF IInv

LEMMA RestoreIInv ==
  ASSUME IInv, NEW cfg \in Offered, ApplyRestore(cfg)
  PROVE  IInv'
<1>a. PICK i : i = NewTimer(Free)
  OBVIOUS
<1>b. PICK j : j = NewTimer(Free \ {i})
  OBVIOUS
<1> DEFINE C == CancelTimer(timers, expireCancel)
           started == SpawnTimer(C, i, cfg)
           failed  == CancelTimer(started, TimerOf(i, cfg))
           again   == SpawnTimer(failed, j, config)
<1>1. i \in Free /\ j \in Free /\ j # i
  <2>1. \E x, y \in Free : x # y
    BY DEF ApplyRestore
  <2>2. Free # {} /\ i \in Free
    BY <1>a, <2>1, NewTimerMember
  <2>3. Free \ {i} # {}
    BY <2>1
  <2>4. j \in Free \ {i}
    BY <1>b, <2>3, NewTimerMember
  <2> QED
    BY <2>2, <2>4
<1>2. i \in TimerId /\ j \in TimerId /\ cfg \in Config /\ config \in Config
  BY <1>1, OfferedConfig DEF Free, IInv, TypeOK
<1>3. /\ timers \in [TimerId -> Timer] /\ expireCancel \in TimerId \cup {None}
      /\ C \in [TimerId -> Timer]
  BY CancelTimerType DEF IInv, TypeOK
<1>4. started \in [TimerId -> Timer]
  BY <1>2, <1>3, SpawnTimerType
<1>5. TimerOf(i, cfg) \in TimerId \cup {None} /\ TimerOf(j, config) \in TimerId \cup {None}
  BY <1>2 DEF TimerOf
<1>6. failed \in [TimerId -> Timer]
  BY <1>4, <1>5, CancelTimerType
<1>7. again \in [TimerId -> Timer]
  BY <1>2, <1>6, SpawnTimerType
<1>8. \A k \in TimerId : failed[k].phase # "armed"
  <2> SUFFICES ASSUME NEW k \in TimerId, failed[k].phase = "armed"
               PROVE  FALSE
    BY <1>6 DEF Timer
  <2>1. started[k].phase = "armed" /\ k # TimerOf(i, cfg)
    BY <1>4, <1>5, CancelTimerType
  <2>2. cfg.exp = 0 \/ k # i
    BY <2>1 DEF TimerOf
  <2>3. started[k] = C[k]
    BY <2>2, <1>2, <1>3 DEF SpawnTimer
  <2>4. timers[k].phase = "armed" /\ k # expireCancel
    BY <2>1, <2>3, <1>3, CancelTimerType
  <2> QED
    BY <2>4 DEF IInv, OneLiveTimer
<1>9. \A k \in TimerId :
        again[k].phase = "armed" => k = TimerOf(j, config)
  <2> SUFFICES ASSUME NEW k \in TimerId, again[k].phase = "armed", k # TimerOf(j, config)
               PROVE  FALSE
    OBVIOUS
  <2>1. config.exp = 0 \/ k # j
    BY DEF TimerOf
  <2>2. again[k] = failed[k]
    BY <2>1, <1>2, <1>6 DEF SpawnTimer
  <2> QED
    BY <2>2, <1>8
<1>10. CASE /\ timers' = failed /\ expireCancel' = None /\ running' = FALSE
            /\ listeners' = {} /\ UNCHANGED granted
  <2>1. TypeOK'
    BY <1>10, <1>6 DEF ApplyRestore, IInv, TypeOK
  <2>2. LeaseGuarded' /\ ListenersOfRevision' /\ ConfigOfRevision'
    BY <1>10 DEF ApplyRestore, IInv, LeaseGuarded, ListenersOfRevision, ConfigOfRevision
  <2>3. OneLiveTimer'
    BY <1>10, <1>8 DEF OneLiveTimer
  <2> QED
    BY <2>1, <2>2, <2>3 DEF IInv
<1>11. CASE /\ timers' = again /\ expireCancel' = TimerOf(j, config) /\ running' = TRUE
            /\ listeners' = config.content /\ UNCHANGED granted
  <2>1. TypeOK'
    BY <1>11, <1>5, <1>7, <1>2 DEF ApplyRestore, IInv, TypeOK, Config
  <2>2. ListenersOfRevision' /\ ConfigOfRevision'
    BY <1>11 DEF ApplyRestore, IInv, ListenersOfRevision, ConfigOfRevision
  <2>3. OneLiveTimer'
    BY <1>11, <1>9 DEF OneLiveTimer
  <2>4. LeaseGuarded'
    <3> SUFFICES ASSUME config.exp # 0 PROVE Guards(j)'
      BY <1>2 DEF LeaseGuarded, ApplyRestore
    <3>1. timers'[j] = [rev |-> config.rev, exp |-> config.exp, phase |-> "armed"]
      BY <1>11, <1>2, <1>6, SpawnTimerType
    <3> QED
      BY <3>1 DEF Guards, ApplyRestore, IInv, ConfigOfRevision
  <2> QED
    BY <2>1, <2>2, <2>3, <2>4 DEF IInv
<1>12. CASE /\ timers' = CancelTimer(again, TimerOf(j, config)) /\ expireCancel' = None
            /\ running' = FALSE /\ listeners' = {} /\ granted' = None
  <2>1. TypeOK'
    BY <1>12, <1>5, <1>7, CancelTimerType DEF ApplyRestore, IInv, TypeOK
  <2>2. LeaseGuarded' /\ ListenersOfRevision' /\ ConfigOfRevision'
    BY <1>12 DEF ApplyRestore, IInv, LeaseGuarded, ListenersOfRevision, ConfigOfRevision
  <2>3. OneLiveTimer'
    <3> SUFFICES ASSUME NEW k \in TimerId, timers'[k].phase = "armed"
                 PROVE  FALSE
      BY DEF OneLiveTimer
    <3>1. again[k].phase = "armed" /\ k # TimerOf(j, config)
      BY <1>12, <1>5, <1>7, CancelTimerType
    <3> QED
      BY <3>1, <1>9
  <2> QED
    BY <2>1, <2>2, <2>3 DEF IInv
<1> QED
  BY <1>a, <1>b, <1>10, <1>11, <1>12 DEF ApplyRestore

-----------------------------------------------------------------------------
(* The expiry goroutines and the environment *)

LEMMA TimerCancelledIInv ==
  ASSUME IInv, NEW i \in TimerId, TimerCancelled(i)
  PROVE  IInv'
<1>1. TypeOK'
  BY DEF TimerCancelled, IInv, TypeOK, Idle, Timer, Time
<1>2. OneLiveTimer'
  BY DEF TimerCancelled, IInv, TypeOK, OneLiveTimer, Idle
<1>3. LeaseGuarded'
  BY DEF TimerCancelled, IInv, TypeOK, LeaseGuarded, Guards
<1>4. ListenersOfRevision' /\ ConfigOfRevision'
  BY DEF TimerCancelled, IInv, ListenersOfRevision, ConfigOfRevision
<1> QED
  BY <1>1, <1>2, <1>3, <1>4 DEF IInv

LEMMA TimerFiresIInv ==
  ASSUME IInv, NEW i \in TimerId, TimerFires(i)
  PROVE  IInv'
<1>1. /\ timers' = [timers EXCEPT ![i] = [timers[i] EXCEPT !.phase = "fired"]]
      /\ timers \in [TimerId -> Timer]
  BY DEF TimerFires, IInv, TypeOK
<1>2. /\ timers' \in [TimerId -> Timer]
      /\ \A k \in TimerId : k # i => timers'[k] = timers[k]
      /\ timers'[i].phase = "fired"
      /\ timers'[i].rev = timers[i].rev
      /\ timers'[i].exp = timers[i].exp
  BY <1>1 DEF Timer
<1>3. TypeOK'
  BY <1>2 DEF TimerFires, IInv, TypeOK
<1>4. OneLiveTimer'
  BY <1>2 DEF TimerFires, IInv, OneLiveTimer
<1>5. LeaseGuarded'
  BY <1>2 DEF TimerFires, IInv, LeaseGuarded, Guards
<1>6. ListenersOfRevision' /\ ConfigOfRevision'
  BY DEF TimerFires, IInv, ListenersOfRevision, ConfigOfRevision
<1> QED
  BY <1>3, <1>4, <1>5, <1>6 DEF IInv

LEMMA ExpireStopsIInv ==
  ASSUME IInv, NEW i \in TimerId, ExpireStops(i)
  PROVE  IInv'
<1> DEFINE C == CancelTimer(timers, expireCancel)
<1>1. /\ timers \in [TimerId -> Timer] /\ expireCancel \in TimerId \cup {None}
      /\ C \in [TimerId -> Timer]
  BY CancelTimerType DEF IInv, TypeOK
<1>2. /\ timers' \in [TimerId -> Timer]
      /\ timers'[i] = Idle
      /\ \A k \in TimerId : k # i => timers'[k] = C[k]
  BY <1>1 DEF ExpireStops, Idle, Timer, Time
<1>3. timers[i].rev \in Revision /\ timers[i].exp \in Time
  BY <1>1 DEF Timer
<1>4. TypeOK'
  BY <1>2, <1>3 DEF ExpireStops, IInv, TypeOK, Config
<1>5. OneLiveTimer'
  <2> SUFFICES ASSUME NEW k \in TimerId, timers'[k].phase = "armed"
               PROVE  FALSE
    BY DEF OneLiveTimer
  <2>1. k # i /\ timers'[k] = C[k]
    BY <1>2 DEF Idle
  <2>2. timers[k].phase = "armed" /\ k # expireCancel
    BY <2>1, <1>1, CancelTimerType
  <2> QED
    BY <2>2 DEF IInv, OneLiveTimer
<1>6. LeaseGuarded' /\ ListenersOfRevision'
  BY DEF ExpireStops, LeaseGuarded, ListenersOfRevision
<1>7. ConfigOfRevision'
  BY DEF ExpireStops, ExpiryApplies, ConfigOfRevision
<1> QED
  BY <1>4, <1>5, <1>6, <1>7 DEF IInv

LEMMA ExpireIgnoredIInv ==
  ASSUME IInv, NEW i \in TimerId, ExpireIgnored(i)
  PROVE  IInv'
<1>1. TypeOK'
  BY DEF ExpireIgnored, IInv, TypeOK, Idle, Timer, Time
<1>2. OneLiveTimer'
  BY DEF ExpireIgnored, IInv, TypeOK, OneLiveTimer, Idle
<1>3. LeaseGuarded'
  BY DEF ExpireIgnored, ExpiryApplies, IInv, TypeOK, LeaseGuarded, Guards
<1>4. ListenersOfRevision' /\ ConfigOfRevision'
  BY DEF ExpireIgnored, IInv, ListenersOfRevision, ConfigOfRevision
<1> QED
  BY <1>1, <1>2, <1>3, <1>4 DEF IInv

LEMMA EnvironmentIInv ==
  ASSUME IInv, Tick \/ (\E a \in Addr : HostTakes(a))
  PROVE  IInv'
<1>1. UNCHANGED <<revision, config, running, listeners, expireCancel, timers, granted>>
  BY DEF Tick, HostTakes
<1>2. now' \in Time /\ busy' \in SUBSET Addr
  BY DEF Tick, HostTakes, IInv, TypeOK, Time
<1>3. TypeOK'
  BY <1>1, <1>2 DEF IInv, TypeOK
<1>4. LeaseGuarded' /\ OneLiveTimer'
  BY <1>1 DEF IInv, LeaseGuarded, Guards, OneLiveTimer
<1>5. ListenersOfRevision' /\ ConfigOfRevision'
  BY <1>1 DEF IInv, ListenersOfRevision, ConfigOfRevision
<1> QED
  BY <1>3, <1>4, <1>5 DEF IInv

-----------------------------------------------------------------------------
(* The theorems *)

LEMMA NextIInv == IInv /\ [Next]_vars => IInv'
<1> SUFFICES ASSUME IInv, [Next]_vars PROVE IInv'
  OBVIOUS
<1>1. CASE UNCHANGED vars
  BY <1>1 DEF vars, IInv, TypeOK, LeaseGuarded, Guards, OneLiveTimer,
              ListenersOfRevision, ConfigOfRevision
<1>2. ASSUME NEW cfg \in Offered, Apply(cfg) PROVE IInv'
  <2>1. CASE ApplyExpired(cfg)
    BY <1>1, <2>1 DEF ApplyExpired
  <2>2. CASE ApplyRenew(cfg)
    BY <2>2, RenewIInv
  <2>3. CASE ApplyStart(cfg)
    BY <2>3, StartIInv
  <2>4. CASE ApplyRestore(cfg)
    BY <2>4, RestoreIInv
  <2> QED
    BY <1>2, <2>1, <2>2, <2>3, <2>4 DEF Apply
<1>3. ASSUME NEW i \in TimerId, TimerCancelled(i) \/ TimerFires(i) \/ ExpireConfig(i)
      PROVE  IInv'
  BY <1>3, TimerCancelledIInv, TimerFiresIInv, ExpireStopsIInv, ExpireIgnoredIInv
     DEF ExpireConfig
<1> QED
  BY <1>1, <1>2, <1>3, EnvironmentIInv DEF Next

\* Every state the service reaches satisfies the inductive invariant.
THEOREM Invariance == Spec => []IInv
  BY InitIInv, NextIInv, PTL DEF Spec

\* Service.Apply, restorePreviousConfig and expireConfig keep every field in
\* its type.
THEOREM TypeCorrect == Spec => []TypeOK
<1>1. IInv => TypeOK
  BY DEF IInv
<1> QED
  BY <1>1, Invariance, PTL

\* Whatever the order of applies, failed applies, restores and expiries, a
\* running lease has an expiry goroutine that will stop it.
THEOREM LeaseAlwaysGuarded == Spec => []LeaseGuarded
<1>1. IInv => LeaseGuarded
  BY DEF IInv
<1> QED
  BY <1>1, Invariance, PTL

\* Two expiry goroutines are never both uncancelled.
THEOREM AtMostOneLiveTimer == Spec => []OneLiveTimer
<1>1. IInv => OneLiveTimer
  BY DEF IInv
<1> QED
  BY <1>1, Invariance, PTL

\* The listeners that are open are those of one configuration of the revision in
\* force, also after failed applies, restores, expiries and renewals with another
\* content, and none once the runtime is stopped.
THEOREM NoForeignListener == Spec => []ListenersOfRevision
<1>1. IInv => ListenersOfRevision
  BY DEF IInv
<1> QED
  BY <1>1, Invariance, PTL
=============================================================================
