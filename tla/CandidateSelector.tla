-------------------------- MODULE CandidateSelector --------------------------
(***************************************************************************)
(* How a node chooses among the candidates of the next stage: the failure  *)
(* state and round-robin cursor of candidateSelector, the table that keeps *)
(* a UDP session on its candidate (udpCandidateSessions), and the dials    *)
(* that use both.  Every method of the two structures holds its own mutex; *)
(* a dial calls several of them, with network operations in between, and   *)
(* runs on while Service.Apply cancels its runtime and clears both.        *)
(*                                                                         *)
(* One stage and one network (UDP) are modelled: the keys of the maps are  *)
(* made of tunnel, stage and network, so other stages and TCP share none   *)
(* of this state.  A dial without a session identifier (NoKey) takes the   *)
(* path of a TCP dial.  targetSelector and the udpTargets table, used for  *)
(* the targets of a forward, are the same code over another set.           *)
(***************************************************************************)
EXTENDS Naturals, FiniteSets, SequencesExt

CONSTANTS
    Nodes,        \* nodes that can be candidates
    Configurations,   \* what a configuration may give the stage: a strategy and
                      \* candidates, and failure_cooldown_seconds in ticks
    Keys,         \* session keys
    NoKey,        \* a dial without a session
    Dials,        \* concurrent dials
    IdleTimeout,  \* udpSessionIdleTimeout, in ticks
    MaxEntries,   \* maxUDPSessionEntries
    MaxFails,     \* defaultCandidateMaxFails
    MaxTime,      \* bound: ticks of the clock
    MaxGenerations   \* bound: configurations applied

Candidate == [node : Nodes, weight : Nat, udp : BOOLEAN]
Strategies == {"single", "failover", "round_robin", "random"}

ASSUME ConstantsAssumption ==
    /\ Configurations \subseteq
         [stage : [strategy : Strategies, nodes : Seq(Candidate)], cooldown : Nat \ {0}]
    /\ NoKey \notin Keys
    /\ IdleTimeout \in Nat \ {0}
    /\ MaxEntries \in Nat \ {0} /\ MaxFails \in Nat \ {0}
    /\ MaxTime \in Nat /\ MaxGenerations \in Nat \ {0}

Stages == {cfg.stage : cfg \in Configurations}
FailTimeouts == {cfg.cooldown : cfg \in Configurations}

VARIABLES
    now,       \* the clock
    generation,   \* number of the runtime in force
    stage,     \* the stage in its configuration
    running,   \* no configuration is being exchanged
    failTimeout,   \* candidateSelector.failTimeout
    lastTimeout,   \* history: the one before the last setFailTimeout
    cursor,    \* candidateSelector.rr
    states,    \* candidateSelector.states
    sessions,  \* udpCandidateSessions.sessions
    dials      \* the dials under way and the streams they opened

selector == <<cursor, states>>
settings == <<generation, stage, running, failTimeout, lastTimeout>>
selectorVars == <<now, settings, cursor, states, sessions, dials>>
-----------------------------------------------------------------------------
NoFailure == [fails |-> 0, until |-> 0]
Unbound == [index |-> 0, node |-> NoKey, lastSeen |-> 0]
NoStage == [strategy |-> "single", nodes |-> <<>>]
NoDial == [pc |-> "idle", key |-> NoKey, stage |-> NoStage,
           index |-> 0, order |-> <<>>, offered |-> {}]

Bound == {k \in Keys : sessions[k] # Unbound}

\* The elements of a sequence that are in a set, in their order.
Keep(q, set) ==
    LET kept[n \in 0..Len(q)] ==
          IF n = 0 THEN <<>>
          ELSE IF q[n] \in set THEN Append(kept[n - 1], q[n]) ELSE kept[n - 1]
    IN kept[Len(q)]

\* stageCandidatesForNetwork: the indices that carry UDP.
Candidates(s) ==
    Keep([i \in DOMAIN s.nodes |-> i], {i \in DOMAIN s.nodes : s.nodes[i].udp})

maxSelectionWeight == 100

boundedSelectionWeight(w) ==
    IF w <= 0 THEN 1 ELSE IF w > maxSelectionWeight THEN maxSelectionWeight
    ELSE w

\* weightedCandidatePool: each candidate as often as its weight says.
WeightedPool(s) ==
    FlattenSeq([j \in DOMAIN Candidates(s) |->
        [n \in 1..boundedSelectionWeight(s.nodes[Candidates(s)[j]].weight) |->
            Candidates(s)[j]]])

\* Mutant: neighbours are compared, as if the pool were never rotated.
DedupeNeighbours(pool) ==
    LET out[n \in 0..Len(pool)] ==
          IF n = 0 THEN <<>>
          ELSE IF n > 1 /\ pool[n - 1] = pool[n] THEN out[n - 1]
          ELSE Append(out[n - 1], pool[n])
    IN out[Len(pool)]

\* dedupeCandidatePool: the first occurrence of each candidate.
Dedupe(pool) ==
    LET out[n \in 0..Len(pool)] ==
          IF n = 0 THEN <<>>
          ELSE IF pool[n] \in ToSet(out[n - 1]) THEN out[n - 1]
          ELSE Append(out[n - 1], pool[n])
    IN out[Len(pool)]

Rotated(pool, start) ==
    SubSeq(pool, start + 1, Len(pool)) \o SubSeq(pool, 1, start)

\* candidateAvailableLocked: no cooldown, or one that is over.
Available(node) == states[node].until = 0 \/ now >= states[node].until

\* ... which forgets a cooldown that is over, for each node it is asked about.
Recovered(nodes) ==
    [n \in Nodes |-> IF n \in nodes /\ states[n].until # 0
                          /\ now >= states[n].until
                     THEN [states[n] EXCEPT !.fails = 0, !.until = 0]
                     ELSE states[n]]

NodesOf(s, indices) == {s.nodes[i].node : i \in indices}

SelectorInit ==
    /\ now = 0 /\ generation = 1
    /\ running = TRUE
    /\ \E cfg \in Configurations :
         stage = cfg.stage /\ failTimeout = cfg.cooldown /\ lastTimeout = cfg.cooldown
    /\ cursor = 0
    /\ states = [n \in Nodes |-> NoFailure]
    /\ sessions = [k \in Keys |-> Unbound]
    /\ dials = [d \in Dials |-> NoDial]

-----------------------------------------------------------------------------
(* The methods of the two structures.                                      *)

\* Failures are counted as far as the count is compared.
FailsAfter(node) ==
    IF states[node].fails < MaxFails THEN states[node].fails + 1 ELSE MaxFails

\* Mutant: a further failure lengthens the cooldown that is running.
RecordFailureAgain(node) ==
    states' = [states EXCEPT ![node] =
        [fails |-> FailsAfter(node),
         until |-> IF FailsAfter(node) >= MaxFails
                   THEN (IF @.until = 0 THEN now ELSE @.until) + failTimeout
                   ELSE @.until]]

RecordFailure(node) ==
    states' = [states EXCEPT ![node] =
        [fails |-> FailsAfter(node),
         until |-> IF FailsAfter(node) >= MaxFails THEN now + failTimeout
                   ELSE @.until]]

RecordSuccess(node) == states' = [states EXCEPT ![node] = NoFailure]

Expired(session) == now - session.lastSeen > IdleTimeout

Oldest == {k \in Bound : \A other \in Bound :
               sessions[k].lastSeen <= sessions[other].lastSeen}

\* bind: an entry is updated; a new one first makes room if the table is
\* full, at the cost of an entry that was used least recently.
Bind(k, entry) ==
    IF k \in Bound \/ Cardinality(Bound) < MaxEntries
    THEN sessions' = [sessions EXCEPT ![k] = entry]
    ELSE \E victim \in Oldest :
           sessions' = [sessions EXCEPT ![victim] = Unbound, ![k] = entry]

-----------------------------------------------------------------------------
(* A dial: dialForwardNext, and dialForwardNextUDP if there is a session.  *)

At(d, pc) == dials[d].pc = pc
Resume(d, pc) ==
    dials' = [dials EXCEPT ![d].pc = pc, ![d].order = <<>>, ![d].offered = {}]
Ended(d) == dials' = [dials EXCEPT ![d] = NoDial]

Begin(d) ==
    /\ At(d, "idle")
    /\ \E k \in Keys \cup {NoKey} :
         dials' = [dials EXCEPT ![d] =
           [NoDial EXCEPT !.pc = IF k = NoKey THEN "order" ELSE "get",
                          !.key = k, !.stage = stage]]
    /\ UNCHANGED <<now, settings, selector, sessions>>

\* Mutant: the binding is taken as it is found.
UsableAlways(s, session) == session.index # 0

\* The binding is usable if its index still means the same node, for UDP.
Usable(s, session) ==
    /\ session.index \in DOMAIN s.nodes
    /\ s.nodes[session.index].node = session.node
    /\ s.nodes[session.index].udp

\* get: an expired binding is removed, a live one is touched.  A binding
\* whose index is past the list is then deleted; one whose node changed
\* stays until a new choice is bound over it.
Get(d) ==
    /\ At(d, "get")
    /\ LET k == dials[d].key
           session == sessions[k]
           live == k \in Bound /\ ~Expired(session)
           usable == live /\ Usable(dials[d].stage, session)
           past == live /\ session.index \notin DOMAIN dials[d].stage.nodes IN
       /\ sessions' = [sessions EXCEPT ![k] =
                         IF live THEN [session EXCEPT !.lastSeen = now]
                         ELSE Unbound]
       /\ dials' = [dials EXCEPT
                      ![d].pc = IF usable THEN "affine"
                                ELSE IF past THEN "unbind" ELSE "order",
                      ![d].index = IF usable THEN session.index ELSE 0]
    /\ UNCHANGED <<now, settings, selector>>

NodeOf(d) == dials[d].stage.nodes[dials[d].index].node

\* dialStageCandidate on the bound candidate.  A dial that was under way when
\* its runtime was stopped may succeed all the same.
DialBound(d) ==
    /\ At(d, "affine")
    /\ \/ RecordSuccess(NodeOf(d)) /\ Resume(d, "open")
       \/ RecordFailure(NodeOf(d)) /\ Resume(d, "unbind")
    /\ UNCHANGED <<now, settings, cursor, sessions>>

\* The deletion after a failed dial or an index past the list, whatever the
\* table holds for the key by then.
Unbind(d) ==
    /\ At(d, "unbind")
    /\ sessions' = [sessions EXCEPT ![dials[d].key] = Unbound]
    /\ Resume(d, "order")
    /\ UNCHANGED <<now, settings, selector>>

\* What order may return, before the candidates that cool down are left out.
Ranked(s) ==
    LET pool == WeightedPool(s) IN
    CASE s.strategy = "round_robin" ->
           {Dedupe(Rotated(pool, cursor % Len(pool)))}
      [] s.strategy = "random" -> SetToSeqs(ToSet(Candidates(s)))
      [] s.strategy = "failover" -> {Candidates(s)}
      [] OTHER -> {<<Head(Candidates(s))>>}

\* "single" does not ask whether its candidate is available.
Offered(s, ranked) ==
    IF s.strategy = "single" THEN ranked
    ELSE Keep(ranked, {i \in DOMAIN s.nodes : Available(s.nodes[i].node)})

\* order: an empty answer ends the dial.
Order(d) ==
    /\ At(d, "order")
    /\ LET s == dials[d].stage
           none == Candidates(s) = <<>> IN
       \E ranked \in IF none THEN {<<>>} ELSE Ranked(s) :
         /\ states' = IF s.strategy = "single" THEN states
                      ELSE Recovered(NodesOf(s, ToSet(ranked)))
         /\ cursor' = IF none \/ s.strategy # "round_robin" THEN cursor
                      ELSE ((cursor % Len(WeightedPool(s))) + 1)
                             % Len(WeightedPool(s))
         /\ LET order == Offered(s, ranked) IN
            dials' = [dials EXCEPT ![d] =
              IF order = <<>> THEN NoDial
              ELSE [@ EXCEPT !.pc = "dial", !.order = order,
                             !.index = Head(order),
                             !.offered = {i \in ToSet(Candidates(s)) :
                                            Available(s.nodes[i].node)}]]
    /\ UNCHANGED <<now, settings, sessions>>

\* dialStageCandidate on the next candidate of the order.
DialNext(d) ==
    /\ At(d, "dial")
    /\ LET rest == Tail(dials[d].order) IN
       \/ /\ RecordSuccess(NodeOf(d))
          /\ Resume(d, IF dials[d].key = NoKey THEN "open" ELSE "bind")
       \/ /\ RecordFailure(NodeOf(d))
          /\ dials' = [dials EXCEPT ![d] =
               IF rest = <<>> THEN NoDial
               ELSE [dials[d] EXCEPT !.order = rest, !.index = Head(rest),
                                     !.offered = @ \ {dials[d].index}]]
    /\ UNCHANGED <<now, settings, cursor, sessions>>

BindChosen(d) ==
    /\ At(d, "bind")
    /\ Bind(dials[d].key,
            [index |-> dials[d].index, node |-> NodeOf(d), lastSeen |-> now])
    /\ Resume(d, "open")
    /\ UNCHANGED <<now, settings, selector>>

\* The stream ends without blame: end of file, idle, or the runtime's end.
CloseStream(d) ==
    /\ At(d, "open")
    /\ Ended(d)
    /\ UNCHANGED <<now, settings, selector, sessions>>

\* markUDPStreamFailure: the candidate is blamed, then the binding of the
\* session is removed, whichever candidate it names by then.
StreamFails(d) ==
    /\ At(d, "open") /\ dials[d].key # NoKey
    /\ RecordFailure(NodeOf(d))
    /\ Resume(d, "drop")
    /\ UNCHANGED <<now, settings, cursor, sessions>>

DropBinding(d) ==
    /\ At(d, "drop")
    /\ sessions' = [sessions EXCEPT ![dials[d].key] = Unbound]
    /\ Ended(d)
    /\ UNCHANGED <<now, settings, selector>>

-----------------------------------------------------------------------------
\* gcLoop.
GC ==
    /\ \E k \in Bound : Expired(sessions[k])
    /\ sessions' = [k \in Keys |->
                      IF k \in Bound /\ Expired(sessions[k]) THEN Unbound
                      ELSE sessions[k]]
    /\ UNCHANGED <<now, settings, selector, dials>>

\* stopRuntimeLocked, by Apply or an expiry: the dials of the runtime are
\* cancelled, which they notice in their own time.
StopStage ==
    /\ running /\ generation < MaxGenerations
    /\ running' = FALSE
    /\ sessions' = [k \in Keys |-> Unbound]
    /\ cursor' = 0
    /\ states' = [n \in Nodes |-> NoFailure]
    /\ UNCHANGED <<now, generation, stage, failTimeout, lastTimeout, dials>>

\* Apply or restorePreviousConfig goes on: setFailTimeout, and then another
\* configuration is started.
ApplyStage ==
    /\ ~running /\ running' = TRUE
    /\ generation' = generation + 1
    /\ \E cfg \in Configurations : stage' = cfg.stage /\ failTimeout' = cfg.cooldown
    /\ lastTimeout' = failTimeout
    /\ UNCHANGED <<now, selector, sessions, dials>>

Tick ==
    /\ now < MaxTime
    /\ now' = now + 1
    /\ UNCHANGED <<settings, selector, sessions, dials>>

DialStep(d) ==
    \/ Get(d) \/ DialBound(d) \/ Unbind(d) \/ Order(d) \/ DialNext(d)
    \/ BindChosen(d) \/ DropBinding(d)

SelectorNext ==
    \/ \E d \in Dials : Begin(d) \/ DialStep(d) \/ CloseStream(d) \/ StreamFails(d)
    \/ GC \/ StopStage \/ ApplyStage \/ Tick

SelectorSpec == SelectorInit /\ [][SelectorNext]_selectorVars
-----------------------------------------------------------------------------
SelectorTypeOK ==
    /\ now \in 0..MaxTime /\ generation \in 1..MaxGenerations /\ stage \in Stages
    /\ running \in BOOLEAN /\ {failTimeout, lastTimeout} \subseteq FailTimeouts
    /\ cursor \in Nat
    /\ \A n \in Nodes : states[n].fails \in 0..MaxFails
                     /\ \E t \in FailTimeouts : states[n].until \in 0..(MaxTime + t)
    /\ \A k \in Bound : sessions[k].node \in Nodes
                     /\ sessions[k].lastSeen \in 0..now
    /\ \A d \in Dials :
         /\ dials[d].pc \in {"idle", "get", "affine", "unbind", "order",
                             "dial", "bind", "open", "drop"}

\* However the weights repeat a candidate and wherever the cursor stands,
\* the candidates a dial still has before it are exactly the available ones
\* it has not tried: none is left out and none is dialled twice.
OrderIsComplete ==
    \A d \in Dials : At(d, "dial") /\ dials[d].stage.strategy # "single" =>
        /\ ToSet(dials[d].order) = dials[d].offered
        /\ Len(dials[d].order) = Cardinality(dials[d].offered)

\* Whichever dials bind, expire and unbind across reloads, the affinity table
\* keeps its limit, and a dial that goes by a binding of another configuration
\* never leaves the list of candidates of its own.
AffinitySafe ==
    /\ Cardinality(Bound) <= MaxEntries
    /\ \A d \in Dials :
         dials[d].pc \in {"affine", "dial", "bind", "open", "drop"} =>
           dials[d].index \in DOMAIN dials[d].stage.nodes

\* However many dials fail at once, a candidate is back in the order no
\* later than one cooldown from now.  The cooldown is the one that is set, or
\* that of the configuration just before: a dial of a stopped runtime may fail
\* after the reset and before setFailTimeout, and what it leaves outlasts a
\* shorter timeout.  Nothing older comes through the reset.
CooldownBounded ==
    \A n \in Nodes : \E timeout \in {failTimeout, lastTimeout} :
        states[n].until <= now + timeout
=============================================================================
