----------------------------- MODULE WorkPlanes -----------------------------
(***************************************************************************)
(* The planes that carry work, messages and time: the work fabric, the     *)
(* control weave, the causal weave, the predictive loop, the cluster       *)
(* quiver, the timer wheel, the sleepers and the transmuting mailboxes.    *)
(* The parts share no state; a behaviour runs one of them.                 *)
(***************************************************************************)
EXTENDS Integers, Sequences, FiniteSets, FiniteSetsExt, TLC, SequencesExt

CONSTANTS
    \* WorkFabric
    NodeSlots, WorkSlots,
    NodeKinds,          \* [class, numa, capabilities] of the nodes that may register
    Descriptors,        \* [class, numa, opcode] of the work that may be submitted
    Results,            \* results a backend may report
    WorkQueueCapacity,  \* NODE_QUEUE_CAPACITY
    WorkGenerationMax,  \* bound on the generations of a work slot
    \* ControlWeave
    EndpointSlots,
    WeaveQueueCapacity, \* CONTROL_QUEUE_DEPTH
    WeaveGenerationMax, \* bound on the generations of a slot
    MaxMessages,        \* bound on messages routed
    \* CausalWeave
    MaximumEvents, MaximumEdges,    \* MAX_EVENTS, MAX_EDGES
    MinimumCausalGap,               \* MIN_CAUSAL_GAP_NS
    RetainTicks,                    \* EVENT_RETAIN_TICKS
    ConeDepth,                      \* CAUSAL_CONE_DEPTH
    TimeOf,                         \* the physical time of the i-th event
    EdgeKinds,                      \* HardDependency, DataFlow, ..., SpeculativeHint
    \* PredictiveLoop
    PredictiveCapacity, \* MAXIMUM_PENDING_TRANSITIONS
    UpdateBatch,      \* maximum_update_batch
    MinimumSamples,   \* minimum_model_samples and the calibrator's minimum
    PlanPeriod,       \* plan_period_epochs
    Controls,         \* the first controls a plan may select
    MaxEpoch,         \* bound on the epochs
    \* ClusterQuiver
    Nodes,            \* the nodes, 0..n-1
    MaxArrows,        \* MAX_E
    MaxMultiplicity,  \* the largest multiplicity (u8::MAX)
    Multiplicities,   \* multiplicities callers pass to add_arrow
    Congestions,      \* the congestion a node may be given
    Threshold,        \* mut_threshold
    MaxSteps,         \* bound on the arrows added and the mutations
    \* Chronos
    Levels,         \* WHEEL_LEVELS
    Slots,          \* SLOTS_PER_LEVEL
    ChronosPids,    \* services with a worldline
    Loads,          \* cpu loads reported
    Gamma,          \* Lorentz factor of each load
    Members,        \* services of the one group
    Delays,         \* proper delays asked for
    MaxReports,     \* bound on vitals reported
    MaxEvents,      \* bound on events scheduled
    ChronosMaxWall, \* bound on the wall clock
    \* Morpheus
    MorpheusPids,
    Thresholds,     \* stage_thresholds, six of them, indexed from 0
    Reasons,        \* codes of WakeReason
    Heaps,          \* heap images checkpointed: sequences of bytes
    JournalSize,    \* 32, entries kept
    MorpheusMaxWall, \* bound on the clock
    MaxWakes,       \* bound on wakes
    MaxCheckpoints, \* bound on checkpoints
    \* Alchemy
    AlchemyPids,    \* processes
    Listeners,      \* processes that register
    Types,          \* type identifiers
    AlchemyCapacity, \* CRUCIBLE_CAPACITY
    Payloads,       \* payloads sent: sequences of nonzero bytes
    Schemas,        \* conversions: from, to, from_size, to_size, fields
    MaxRoutes,      \* bound on subscriptions to a type
    MaxSent         \* bound on atoms placed in one ring

VARIABLES
    state,      \* of the part a behaviour runs
    past        \* history the properties refer to

vars == <<state, past>>

-----------------------------------------------------------------------------
(***************************************************************************)
(* Part WorkFabric.                                                        *)
(* fabric.rs: the work fabric, which queues descriptors on processing      *)
(* nodes and follows each to its completion.  Every method runs under the  *)
(* fabric's lock.  Handles are Copy: their holders may use them again      *)
(* after the slot was given to someone else.                               *)
(***************************************************************************)
EmptyNode == [occupied |-> FALSE, generation |-> 0]

EmptyWork == [generation |-> 0, state |-> "Free"]

WorkInit ==
    /\ state = [nodes |-> [n \in NodeSlots |-> EmptyNode],
                work |-> [w \in WorkSlots |-> EmptyWork]]
    /\ past = [results |-> <<>>]

\* Handles issued so far, current or stale.
WorkHandles == {<<w, g>> \in WorkSlots \X (1..WorkGenerationMax) : g <= state.work[w].generation}

RegisterNode(kind) ==
    LET free == {n \in NodeSlots : ~state.nodes[n].occupied} IN
    /\ free # {}
    /\ LET n == Min(free) IN
         state' = [state EXCEPT !.nodes[n] =
             [occupied |-> TRUE, generation |-> @.generation + 1, kind |-> kind, online |-> TRUE, queue |-> <<>>]]
    /\ UNCHANGED past

SetNodeOnline(n, online) ==
    /\ state.nodes[n].occupied
    /\ state' = [state EXCEPT !.nodes[n].online = online]
    /\ UNCHANGED past

CapabilitiesForOpcode(opcode) == IF opcode = "NOP" THEN {} ELSE {opcode}

Compatible(d) ==
    {n \in NodeSlots :
        LET node == state.nodes[n] IN
        /\ node.occupied
        /\ node.online
        /\ node.kind.class = d.class
        /\ CapabilitiesForOpcode(d.opcode) \subseteq node.kind.capabilities
        /\ Len(node.queue) < WorkQueueCapacity}

\* select_node: the first compatible node of the preferred domain, else the first one.
SelectNode(d) ==
    LET near == {n \in Compatible(d) : state.nodes[n].kind.numa = d.numa} IN
    Min(IF near # {} THEN near ELSE Compatible(d))

Submit(d) ==
    LET free == {w \in WorkSlots : state.work[w].state = "Free"} IN
    /\ Compatible(d) # {}
    /\ free # {}
    /\ LET w == Min(free)
           n == SelectNode(d)
           generation == state.work[w].generation + 1 IN
         /\ generation <= WorkGenerationMax
         /\ state' = [state EXCEPT
                !.work[w] = [generation |-> generation, state |-> "Queued", descriptor |-> d, node |-> n],
                !.nodes[n].queue = Append(@, <<w, generation>>)]
    /\ UNCHANGED past

ValidWork(h) == state.work[h[1]].state # "Free" /\ state.work[h[1]].generation = h[2]

\* The entry leaves the queue before its work is looked up.
Take(n) ==
    LET node == state.nodes[n] IN
    /\ node.occupied /\ node.online /\ node.queue # <<>>
    /\ LET h == Head(node.queue)
           valid == ValidWork(h) /\ state.work[h[1]].state = "Queued" /\ state.work[h[1]].node = n IN
         state' = [state EXCEPT !.nodes[n].queue = Tail(@),
                                !.work[h[1]].state = IF valid THEN "Running" ELSE @]
    /\ UNCHANGED past

\* A backend may report the same work twice; Complete is called with any handle taken.
WorkComplete(h, result) ==
    /\ ValidWork(h)
    /\ state.work[h[1]].state = "Running"
    /\ state' = [state EXCEPT !.work[h[1]].state = result]
    /\ past' = [past EXCEPT !.results = IF h \in DOMAIN @ THEN @ ELSE (h :> result) @@ @]


Releasable(s) == s \in Results

Release(h) ==
    /\ ValidWork(h)
    /\ Releasable(state.work[h[1]].state)
    /\ state' = [state EXCEPT !.work[h[1]].state = "Free"]
    /\ UNCHANGED past

WorkNext ==
    \/ \E kind \in NodeKinds : RegisterNode(kind)
    \/ \E n \in NodeSlots : (\E online \in BOOLEAN : SetNodeOnline(n, online)) \/ Take(n)
    \/ \E d \in Descriptors : Submit(d)
    \/ \E h \in WorkHandles : (\E r \in Results : WorkComplete(h, r)) \/ Release(h)

WorkSpec == WorkInit /\ [][WorkNext]_vars

-----------------------------------------------------------------------------
\* Queues and work agree: a queue holds the handle of exactly the queued work of its node,
\* once, so take never meets a handle whose work is gone.
QueuesHoldQueuedWork ==
    \A n \in NodeSlots : state.nodes[n].occupied =>
        LET queue == state.nodes[n].queue IN
        /\ \A i, j \in DOMAIN queue : i # j => queue[i] # queue[j]
        /\ {queue[i] : i \in DOMAIN queue}
             = {<<w, state.work[w].generation>> : w \in
                  {w \in WorkSlots : state.work[w].state = "Queued" /\ state.work[w].node = n}}

\* Finished work has the result first reported under its own handle, whatever is reported
\* later, or under a stale handle of the same slot.
ResultsAreFinal ==
    /\ \A w \in WorkSlots :
         LET h == <<w, state.work[w].generation>> IN
         state.work[w].state \in Results => h \in DOMAIN past.results
    /\ \A h \in DOMAIN past.results :
         state.work[h[1]].generation = h[2] => state.work[h[1]].state \in {past.results[h], "Free"}

-----------------------------------------------------------------------------
(***************************************************************************)
(* Part ControlWeave.                                                      *)
(* fabric.rs, ControlWeave: control messages between endpoints named by    *)
(* slot and generation.  Every method runs under the weave's lock, and a   *)
(* holder may use its handle after the endpoint was unbound.               *)
(***************************************************************************)
EmptyEndpoint == [active |-> FALSE, generation |-> 0, queue |-> <<>>]

WeaveInit ==
    /\ state = [endpoints |-> [e \in EndpointSlots |-> EmptyEndpoint], sequence |-> 1]
    /\ past = [received |-> {}]

\* Handles issued so far, current or stale.
WeaveHandles == {<<e, g>> \in EndpointSlots \X (1..WeaveGenerationMax) : g <= state.endpoints[e].generation}

ValidEndpoint(h) == state.endpoints[h[1]].active /\ state.endpoints[h[1]].generation = h[2]

Bind ==
    LET free == {e \in EndpointSlots : ~state.endpoints[e].active} IN
    /\ free # {}
    /\ LET e == Min(free) IN
         /\ state.endpoints[e].generation < WeaveGenerationMax
         /\ state' = [state EXCEPT !.endpoints[e] =
                [active |-> TRUE, generation |-> @.generation + 1, queue |-> <<>>]]
    /\ UNCHANGED past

Unbind(h) ==
    /\ ValidEndpoint(h)
    /\ state' = [state EXCEPT !.endpoints[h[1]].active = FALSE, !.endpoints[h[1]].queue = <<>>]
    /\ UNCHANGED past

\* route: a number is used up also when the destination is stale or full.
Route(source, destination) ==
    /\ state.sequence <= MaxMessages
    /\ ValidEndpoint(source)
    /\ LET delivered == ValidEndpoint(destination)
                        /\ Len(state.endpoints[destination[1]].queue) < WeaveQueueCapacity
           message == [to |-> destination, source |-> source, sequence |-> state.sequence] IN
         state' = [state EXCEPT !.sequence = @ + 1,
                                !.endpoints[destination[1]].queue = IF delivered THEN Append(@, message) ELSE @]
    /\ UNCHANGED past

Receive(h) ==
    /\ ValidEndpoint(h)
    /\ state.endpoints[h[1]].queue # <<>>
    /\ LET message == Head(state.endpoints[h[1]].queue) IN
         past' = [past EXCEPT !.received = @ \cup {[by |-> h, message |-> message]}]
    /\ state' = [state EXCEPT !.endpoints[h[1]].queue = Tail(@)]

WeaveNext ==
    \/ Bind
    \/ \E h \in WeaveHandles : Unbind(h) \/ Receive(h)
    \/ \E s, d \in WeaveHandles : Route(s, d)

WeaveSpec == WeaveInit /\ [][WeaveNext]_vars

-----------------------------------------------------------------------------
\* A message is received only by the binding it was routed to, never by a later one of the
\* same slot, and messages between two bindings arrive in the order they were routed.
MessagesReachTheirBinding ==
    /\ \A r \in past.received : r.by = r.message.to
    /\ \A e \in EndpointSlots :
         LET queue == state.endpoints[e].queue IN
         \A i \in DOMAIN queue :
            /\ \A j \in i+1..Len(queue) : queue[i].sequence < queue[j].sequence
            /\ \A r \in past.received :
                 r.message.to = queue[i].to => r.message.sequence < queue[i].sequence

-----------------------------------------------------------------------------
(***************************************************************************)
(* Part CausalWeave.                                                       *)
(* fabric_weave.rs: the graph of kernel events and the causal edges        *)
(* between them, sorted with Kahn's algorithm and traced in both           *)
(* directions.  Every method takes &mut self.  An event that finds the     *)
(* table full, or that was evicted, leaves its identifier in the hands of  *)
(* its caller, who may still draw edges to and from it.  The order of the  *)
(* edges and their repetition are read by nothing: they form a set.        *)
(***************************************************************************)
CausalInit ==
    /\ state = [events |-> <<>>, edges |-> {}, next |-> 1, order |-> <<>>]
    /\ past = [sorted |-> "None"]

\* logical_clock advances with next_event_id, one behind it.
LogicalClock == state.next - 1

CausalRecorded == DOMAIN state.events

Invalidated == past' = [past EXCEPT !.sorted = "None"]

Weave ==
    /\ state.next <= Len(TimeOf)
    /\ state' = [state EXCEPT
           !.next = @ + 1,
           !.events = IF Cardinality(CausalRecorded) < MaximumEvents
                        THEN (state.next :> [logical |-> LogicalClock, ns |-> TimeOf[state.next],
                                             completed |-> FALSE, violation |-> FALSE]) @@ @
                        ELSE @,
           !.order = <<>>]
    /\ Invalidated

Violates(from, to, kind) ==
    /\ from \in CausalRecorded /\ to \in CausalRecorded
    /\ LET f == state.events[from]
           t == state.events[to] IN
       \/ t.completed /\ ~f.completed /\ kind = "HardDependency"
       \/ t.ns + MinimumCausalGap < f.ns /\ kind # "SpeculativeHint"

AddEdge(from, to, kind) ==
    /\ Cardinality(state.edges) < MaximumEdges
    /\ state' = [state EXCEPT
           !.events = [id \in CausalRecorded |->
               [@[id] EXCEPT !.violation = @ \/ (id = to /\ Violates(from, to, kind))]],
           !.edges = @ \cup {[from |-> from, to |-> to, kind |-> kind]},
           !.order = <<>>]
    /\ Invalidated

\* The in-degree of an event falls to zero once every edge into it left a placed event.
Ready(done) == {id \in CausalRecorded \ done : \A e \in state.edges : e.to = id => e.from \in done}

RECURSIVE Kahn(_)

\* The loop of topological_sort: of the ready events, the one of lowest logical time next.
Kahn(order) ==
    LET ready == Ready({order[i] : i \in DOMAIN order}) IN
    IF ready = {} THEN order
    ELSE Kahn(Append(order, CHOOSE id \in ready :
                 \A other \in ready : state.events[id].logical <= state.events[other].logical))

TopologicalSort ==
    /\ CausalRecorded # {}
    /\ LET order == Kahn(<<>>)
           sorted == Len(order) = Cardinality(CausalRecorded) IN
         /\ state' = [state EXCEPT !.order = IF sorted THEN order ELSE <<>>]
         /\ past' = [past EXCEPT !.sorted = IF sorted THEN "Sorted" ELSE "CycleDetected"]

CausalComplete(id) ==
    /\ id \in CausalRecorded
    /\ state' = [state EXCEPT !.events[id].completed = TRUE]
    /\ UNCHANGED past

EvictOld ==
    LET old == {id \in CausalRecorded : state.events[id].completed
                                         /\ state.events[id].logical < LogicalClock - RetainTicks} IN
    /\ state' = [state EXCEPT
           !.events = [id \in CausalRecorded \ old |-> @[id]],
           !.edges = {e \in @ : e.from \notin old /\ e.to \notin old},
           !.order = <<>>]
    /\ Invalidated

RECURSIVE PastCone(_, _)

PastCone(id, depth) ==
    IF depth = 0 THEN {}
    ELSE LET parents == {e.from : e \in {e \in state.edges : e.to = id}} IN
         parents \cup UNION {PastCone(p, depth - 1) : p \in parents}

RECURSIVE FutureCone(_, _)

FutureCone(id, depth) ==
    IF depth = 0 THEN {}
    ELSE LET children == {e.to : e \in {e \in state.edges : e.from = id}} IN
         children \cup UNION {FutureCone(c, depth - 1) : c \in children}

Issued == 1..state.next - 1

CausalNext ==
    \/ Weave
    \/ \E from, to \in Issued, kind \in EdgeKinds : AddEdge(from, to, kind)
    \/ TopologicalSort
    \/ \E id \in Issued : CausalComplete(id)
    \/ EvictOld

CausalSpec == CausalInit /\ [][CausalNext]_vars

-----------------------------------------------------------------------------
\* While topo_valid is set, topo_order names every recorded event once, each after all the
\* events that have an edge to it; and the sort fails exactly when recorded events depend on
\* one another in a circle or on an event that is not recorded.
SortIsRight ==
    LET position(id) == CHOOSE i \in DOMAIN state.order : state.order[i] = id
        stuck == {id \in CausalRecorded : \E e \in state.edges : e.to = id /\ e.from \notin CausalRecorded}
        circular == {id \in CausalRecorded : id \in FutureCone(id, MaximumEvents)}
    IN  /\ state.order # <<>> =>
             /\ {state.order[i] : i \in DOMAIN state.order} = CausalRecorded
             /\ Len(state.order) = Cardinality(CausalRecorded)
             /\ \A e \in state.edges : e.from \in CausalRecorded /\ e.to \in CausalRecorded => position(e.from) < position(e.to)
        /\ past.sorted = "Sorted" => stuck \cup circular = {}
        /\ past.sorted = "CycleDetected" => stuck \cup circular # {}

\* The two traces mirror each other: an event is in the past cone of another exactly when that
\* one is in its future cone, traced to the same depth.
ConesMirror ==
    \A a, b \in Issued : a \in PastCone(b, ConeDepth) <=> b \in FutureCone(a, ConeDepth)

-----------------------------------------------------------------------------
(***************************************************************************)
(* Part PredictiveLoop.                                                    *)
(* The manifold orchestrator and the predictive controller it feeds        *)
(* (manifold_orchestrator.rs, predictive_kernel.rs, predictive_control/    *)
(* runtime.rs, tensor_kernel.rs and certified_math/runtime.rs): the boot   *)
(* that brings the parts up one after the other, the timer tick that       *)
(* evolves the manifold, observes it and has the actuation certified, and  *)
(* the deferred worker that learns, plans, charges the certified queue and *)
(* marks the plan applied, each under a lock of its own.  What the solvers *)
(* compute is numerics and left to chance; when they may fail is not.      *)
(***************************************************************************)
\* ManifoldOrchestrator::new, the three runtimes absent; last 0 is last_state None.
PredictiveInit ==
  /\ state = [phase |-> "cold", ready |-> FALSE, epoch |-> 0, published |-> 0,
              tensor |-> FALSE, predictive |-> FALSE, certified |-> FALSE,
              ring |-> <<>>, last |-> 0, control |-> 0, model |-> 0, calibrator |-> 0,
              planEpoch |-> 0, directive |-> [epoch |-> 0, control |-> 0],
              worker |-> "idle", held |-> [epoch |-> 0, control |-> 0]]
  /\ past = [learnt |-> 0, charged |-> {}, twice |-> FALSE, applied |-> 0]

\* ManifoldOrchestrator::boot: a seed that fails leaves the phase cold; a failed
\* identity or mutation degrades it.
BootPhases == {"cold", "live", "degraded"}

\* boot_after_drivernet: after the manifold's boot come the domains, the tensor
\* runtime, the predictive runtime, READY and at last the certified runtime;
\* the first that fails ends it.
Boot ==
  \E phase \in BootPhases, reached \in 0..4 :
    /\ state.phase = "cold"
    /\ phase = "cold" => reached = 0
    /\ state' = [state EXCEPT !.phase = phase,
         !.tensor = reached >= 1, !.predictive = reached >= 2,
         !.ready = reached >= 3, !.certified = reached >= 4]
    /\ UNCHANGED past

\* PredictiveRuntime::observe: the transition from the last state is queued; a
\* full ring refuses it and the last state stays.
Observed(s) ==
  LET transition == [previous |-> s.last, next |-> s.epoch, control |-> s.control]
  IN  CASE ~s.predictive -> s
        [] s.last = 0 -> [s EXCEPT !.last = s.epoch]
        [] Len(s.ring) >= PredictiveCapacity -> s
        [] OTHER -> [s EXCEPT !.ring = Append(@, transition), !.last = s.epoch]

\* ManifoldOrchestrator::tick: one evolution; a mutation that fails degrades.
Evolved(s, phase) == [s EXCEPT !.epoch = @ + 1, !.phase = phase]

\* tick: one evolution, its publication and its observation.  The certified step
\* that follows changes only what is returned.
PredictiveTick ==
  \E phase \in {state.phase, "degraded"} :
    /\ state.ready /\ state.epoch < MaxEpoch
    /\ state' = Observed([Evolved(state, phase) EXCEPT !.published = state.epoch + 1])
    /\ UNCHANGED past

Goto(s, at) == [s EXCEPT !.worker = at]

\* One transition learnt: both estimators take it, or it is dropped and both are
\* restored.
Learnt(s, ok) ==
  IF ok THEN [s EXCEPT !.ring = Tail(@), !.model = @ + 1, !.calibrator = @ + 1]
  ELSE [s EXCEPT !.ring = Tail(@)]

\* update_model_deferred: up to a batch; the first transition that fails ends the
\* whole deferred run with its error.
UpdateModel ==
  \E good \in 0..UpdateBatch :
    LET batch == IF Len(state.ring) < UpdateBatch THEN Len(state.ring) ELSE UpdateBatch
        steps[n \in 0..good] == IF n = 0 THEN state ELSE Learnt(steps[n - 1], TRUE)
        taken == IF good < batch THEN good + 1 ELSE batch
    IN  /\ state.worker = "idle" /\ state.predictive /\ good <= batch
        /\ state' = IF good < batch THEN Learnt(steps[good], FALSE)
                    ELSE Goto(steps[good], "learnt")
        /\ past' = IF taken = 0 THEN past
                   ELSE [past EXCEPT !.learnt = state.ring[taken].next]

\* plan_deferred's early returns.
MayPlan ==
  /\ state.last # 0
  /\ state.model >= MinimumSamples
  /\ state.calibrator >= MinimumSamples
  /\ state.planEpoch # 0 => state.last - state.planEpoch >= PlanPeriod

\* plan_robust_mpc: the first control of the cheapest safe sequence.
Directive(control) == [epoch |-> state.last, control |-> control]

\* plan_deferred: a directive for the last state, or none.
Plan ==
  /\ state.worker = "learnt"
  /\ \/ /\ MayPlan
        /\ \E control \in Controls :
             LET directive == Directive(control)
             IN  state' = [state EXCEPT !.planEpoch = state.last, !.directive = directive,
                                        !.held = directive, !.worker = "planned"]
     \/ state' = Goto(state, "idle")
  /\ UNCHANGED past

\* The charge of the certified queue, which is absent, refuses, or takes it.
Charge ==
  /\ state.worker = "planned"
  /\ \/ /\ state.certified
        /\ state' = Goto(state, "charged")
        /\ past' = [past EXCEPT !.twice = @ \/ state.held.epoch \in past.charged,
                                !.charged = @ \union {state.held.epoch}]
     \/ state' = Goto(state, "idle") /\ UNCHANGED past

\* mark_applied: only the last directive planned is taken.
MarkApplied ==
  /\ state.worker = "charged"
  /\ state' = [Goto(state, "idle") EXCEPT !.control =
                 IF state.held = state.directive THEN state.held.control ELSE @]
  /\ past' = [past EXCEPT !.applied = IF state.held = state.directive THEN state.held.epoch ELSE @]

PredictiveNext == Boot \/ PredictiveTick \/ UpdateModel \/ Plan \/ Charge \/ MarkApplied

PredictiveSpec == PredictiveInit /\ [][PredictiveNext]_vars

-------------------------------------------------------------------------------

(***************************************************************************)
(* The model learns one history (observe, push_transition and pop_         *)
(* transition of predictive_control/runtime.rs): what was learnt, what is  *)
(* queued and the state the next plan starts from form one chain, in which *)
(* each transition starts where the one before ended; a full ring skips    *)
(* epochs but never breaks the chain.                                      *)
(***************************************************************************)
HistoryIsAChain ==
  LET ends == <<past.learnt>> \o [i \in DOMAIN state.ring |-> state.ring[i].next]
  IN  /\ \A i \in DOMAIN state.ring : i > 1 \/ past.learnt # 0 =>
           state.ring[i].previous = ends[i]
      /\ Len(ends) > 1 \/ past.learnt # 0 => state.last = ends[Len(ends)]

(***************************************************************************)
(* One step of several failing (update_model_deferred of predictive_       *)
(* control/runtime.rs and run_predictive_control_deferred of manifold_     *)
(* orchestrator.rs): the model and its calibrator have always learnt the   *)
(* same transitions; a directive is charged at most once, and the control  *)
(* in force is one whose charge the certified queue took.                  *)
(***************************************************************************)
EffectsAreWhole ==
  /\ state.model = state.calibrator
  /\ ~past.twice
  /\ past.applied # 0 => past.applied \in past.charged

-----------------------------------------------------------------------------
(***************************************************************************)
(* Part ClusterQuiver.                                                     *)
(* The resource quiver of kernel/boulder/src/cluster_quiver.rs: a table of *)
(* arrows with multiplicities, filled slot by slot, arrows between two     *)
(* nodes cancelling, and its mutation at a node: composites are added, the *)
(* incident arrows are taken out and put back reversed, 2-cycles cancel.   *)
(* The values at the nodes are fixed-point data; that their product may    *)
(* fail ends a mutation before it changes anything.                        *)
(***************************************************************************)
\* ResourceQuiver::new.
QuiverInit ==
  /\ state = [arrows |-> <<>>, steps |-> 0]
  /\ past = [exact |-> TRUE, expected |-> [e \in Nodes \X Nodes |-> 0]]

Live(arrows) == {i \in DOMAIN arrows : arrows[i].live}

Arrow(from, to, mult) == [live |-> TRUE, from |-> from, to |-> to, mult |-> mult]

Capped(mult) == IF mult > MaxMultiplicity THEN MaxMultiplicity ELSE mult

\* add_arrow_raw: the arrow's own slot grows, else the first dead slot is used,
\* else a new one; a full table fails.  q is [arrows, ok, exact].
AddArrowRaw(q, from, to, mult) ==
  LET same == {i \in Live(q.arrows) : q.arrows[i].from = from /\ q.arrows[i].to = to}
      dead == DOMAIN q.arrows \ Live(q.arrows)
      grown(i) == q.arrows[i].mult + mult
  IN  CASE ~q.ok \/ mult = 0 \/ from = to -> q
        [] q.ok /\ mult # 0 /\ from # to /\ same # {} ->
             [q EXCEPT !.arrows[Min(same)].mult = Capped(grown(Min(same))),
                       !.exact = @ /\ grown(Min(same)) <= MaxMultiplicity]
        [] q.ok /\ mult # 0 /\ from # to /\ same = {} /\ dead # {} ->
             [q EXCEPT !.arrows[Min(dead)] = Arrow(from, to, mult)]
        [] q.ok /\ mult # 0 /\ from # to /\ same = {} /\ dead = {} /\ Len(q.arrows) < MaxArrows ->
             [q EXCEPT !.arrows = Append(@, Arrow(from, to, mult))]
        [] OTHER -> [q EXCEPT !.ok = FALSE]

\* cancel_two_cycles for slot i: the first later slot that runs the other way
\* loses the common multiplicity with it.
CancelAt(arrows, i) ==
  LET back == {j \in Live(arrows) : j > i /\ arrows[j].from = arrows[i].to
                                          /\ arrows[j].to = arrows[i].from}
      j == Min(back)
      common == Min({arrows[i].mult, arrows[j].mult})
      less(a) == [a EXCEPT !.mult = @ - common, !.live = a.mult # common]
  IN  IF i \notin Live(arrows) \/ back = {} THEN arrows
      ELSE [arrows EXCEPT ![i] = less(@), ![j] = less(@)]

CancelTwoCycles(arrows) ==
  FoldLeft(CancelAt, arrows, [i \in DOMAIN arrows |-> i])

\* The multiplicity from a to b less the one back.
Matrix(arrows) ==
  LET sum(a, b) == MapThenSumSet(LAMBDA i : arrows[i].mult,
                     {i \in Live(arrows) : arrows[i].from = a /\ arrows[i].to = b})
  IN  [e \in Nodes \X Nodes |-> sum(e[1], e[2]) - sum(e[2], e[1])]

\* add_arrow.
AddArrow ==
  \E from, to \in Nodes, mult \in Multiplicities :
    LET q == AddArrowRaw([arrows |-> state.arrows, ok |-> TRUE, exact |-> TRUE], from, to, mult)
        arrows == CancelTwoCycles(q.arrows)
    IN  /\ from # to /\ q.ok /\ state.steps < MaxSteps
        /\ state' = [arrows |-> arrows, steps |-> state.steps + 1]
        /\ past' = [past EXCEPT !.expected = Matrix(arrows)]

Abs(v) == IF v < 0 THEN -v ELSE v

\* The exchange of Fomin and Zelevinsky, the reference definition.
Exchange(b, k) ==
  [e \in Nodes \X Nodes |->
     IF k \in {e[1], e[2]} THEN -b[e]
     ELSE b[e] + (Abs(b[<<e[1], k>>]) * b[<<k, e[2]>>]
                  + b[<<e[1], k>>] * Abs(b[<<k, e[2]>>])) \div 2]

\* mutate: composites of the arrows into and out of k, in slot order; the
\* incident arrows die; then they return reversed; then 2-cycles cancel.  A full
\* table ends it where it stands.
Mutated(k) ==
  LET slots(P(_)) == SelectSeq([i \in DOMAIN state.arrows |-> state.arrows[i]],
                               LAMBDA a : a.live /\ P(a))
      into == slots(LAMBDA a : a.to = k)
      out == slots(LAMBDA a : a.from = k)
      pairs == [p \in 1..(Len(into) * Len(out)) |->
                  <<into[((p - 1) \div Len(out)) + 1], out[((p - 1) % Len(out)) + 1]>>]
      composite(q, p) ==
        LET product == p[1].mult * p[2].mult
        IN  [AddArrowRaw(q, p[1].from, p[2].to, Capped(product)) EXCEPT
               !.exact = @ /\ product <= MaxMultiplicity]
      composed == FoldLeft(composite, [arrows |-> state.arrows, ok |-> TRUE, exact |-> TRUE], pairs)
      cleared == [composed EXCEPT !.arrows = [i \in DOMAIN @ |->
                    IF k \in {@[i].from, @[i].to} THEN [@[i] EXCEPT !.live = FALSE] ELSE @[i]]]
      reversed == FoldLeft(LAMBDA q, a : AddArrowRaw(q, a.to, a.from, a.mult),
                           cleared, into \o out)
  IN  CASE ~composed.ok -> composed
        [] composed.ok /\ ~reversed.ok -> reversed
        [] OTHER -> [reversed EXCEPT !.arrows = CancelTwoCycles(@)]

\* mutate_hottest: the first node with the greatest congestion over the threshold.
Hottest(congestion) ==
  {k \in Nodes : /\ congestion[k] > Threshold
                 /\ \A j \in Nodes : congestion[j] < congestion[k]
                                     \/ (congestion[j] = congestion[k] /\ k <= j)}

\* set_congestion on every node and mutate_hottest, as the orchestrator's tick.
MutateHottest ==
  \E congestion \in [Nodes -> Congestions] : \E k \in Hottest(congestion) :
    LET q == Mutated(k)
    IN  /\ state.steps < MaxSteps
        /\ state' = [arrows |-> q.arrows, steps |-> state.steps + 1]
        /\ past' = [exact |-> past.exact /\ q.ok /\ q.exact,
                    expected |-> Exchange(Matrix(state.arrows), k)]

QuiverNext == AddArrow \/ MutateHottest

QuiverSpec == QuiverInit /\ [][QuiverNext]_vars

-------------------------------------------------------------------------------

(***************************************************************************)
(* The mutation is the algebra's (mutate of cluster_quiver.rs): as long as *)
(* no table was full and no multiplicity saturated, the arrow table always *)
(* describes the exchange matrix that the mutation rule gives, with at     *)
(* most one live arrow between any two nodes - which is also what keeps    *)
(* the into and out arrays of mutate, sized by the nodes, in bounds.       *)
(***************************************************************************)
MutationIsExchange ==
  past.exact =>
    /\ Matrix(state.arrows) = past.expected
    /\ \A i, j \in Live(state.arrows) :
         {state.arrows[i].from, state.arrows[i].to} = {state.arrows[j].from, state.arrows[j].to}
           => i = j

-----------------------------------------------------------------------------
(***************************************************************************)
(* Part Chronos.                                                           *)
(* userland/push chronos.rs: the hierarchical timer wheel, the worldlines  *)
(* that stretch a service's delay by its load, and the groups.  Time is    *)
(* counted in milliseconds, the tick of level 0; the stretch of a load is  *)
(* the integer the constant Gamma gives it (the code computes a float).    *)
(* The structure is called through &mut: its operations do not overlap.    *)
(***************************************************************************)
\* resolution_ns, in milliseconds: Slots to the power of the level.
Resolution(level) == LET R[l \in 0..Levels] == IF l = 0 THEN 1 ELSE Slots * R[l - 1] IN R[level]

\* Worldline::new.
Rest == [gamma |-> 1, proper |-> 0, last |-> {}]

ChronosInit ==
    /\ state = [wall |-> 0, wheel |-> 0, next |-> 1,
                slots |-> [p \in (0..Levels-1) \X (0..Slots-1) |-> <<>>],
                cursors |-> [l \in 0..Levels-1 |-> 0],
                worldlines |-> [p \in ChronosPids |-> Rest], reports |-> 0]
    /\ past = [fired |-> [e \in {} |-> 0], asked |-> [e \in {} |-> <<>>], twice |-> FALSE]

\* TimerWheel::insert: the level by the time left, the slot counted from the cursor of the level.
Level(delta) == CHOOSE l \in 0..Levels-1 :
    /\ l = 0 \/ delta >= Resolution(l)
    /\ l = Levels - 1 \/ delta < Resolution(l + 1)
Place(st, event) ==
    LET delta == IF event.deadline > st.wheel THEN event.deadline - st.wheel ELSE 0
        level == Level(delta)
    IN <<level, (st.cursors[level] + delta \div Resolution(level)) % Slots>>
Inserted(st, event) == [st EXCEPT !.slots[Place(st, event)] = Append(@, event)]

\* cascade_level for one event: level 0 when it is near, else wherever insert puts it.
Replaced(st, event) ==
    LET delta == IF event.deadline > st.wheel THEN event.deadline - st.wheel ELSE 0 IN
    IF event.deadline <= st.wheel + Slots
    THEN [st EXCEPT !.slots[<<0, (st.cursors[0] + delta) % Slots>>] = Append(@, event)]
    ELSE Inserted(st, event)

\* cascade_level: the slot under the cursor, the cursor, and the next level when it wraps.
Cascaded(st, from) ==
    LET OneLevel(cur, level) ==
            LET slot == <<level, cur.cursors[level]>>
                emptied == [cur EXCEPT !.slots[slot] = <<>>]
                placed == FoldLeft(Replaced, emptied, cur.slots[slot])
            IN [placed EXCEPT !.cursors[level] = (@ + 1) % Slots]
        Step(acc, level) ==
            IF ~acc.go THEN acc
            ELSE LET done == OneLevel(acc.st, level) IN [st |-> done, go |-> done.cursors[level] = 0]
    IN FoldLeft(Step, [st |-> st, go |-> TRUE], [i \in 1..Levels-from |-> from + i - 1]).st

\* TimerWheel::tick: the time, the slot under the cursor, the cursor, and a cascade when it wraps.
WheelTick(st) ==
    LET slot == <<0, st.cursors[0]>>
        after == [st EXCEPT !.wheel = @ + 1, !.slots[slot] = <<>>, !.cursors[0] = (@ + 1) % Slots]
    IN <<IF after.cursors[0] = 0 THEN Cascaded(after, 1) ELSE after, st.slots[slot]>>

\* Chronos::tick of one millisecond: the wheel takes the wall clock and then adds its own tick.
ChronosTick ==
    /\ state.wall < ChronosMaxWall
    /\ LET set == [state EXCEPT !.wall = @ + 1, !.wheel = state.wall + 1]
           out == WheelTick(set)
           ids == {out[2][i].id : i \in 1..Len(out[2])}
       IN
       /\ state' = out[1]
       /\ past' = [past EXCEPT
            !.fired = [e \in DOMAIN @ \cup ids |-> IF e \in ids THEN state.wall + 1 ELSE @[e]],
            !.twice = @ \/ ids \cap DOMAIN past.fired # {} \/ Cardinality(ids) < Len(out[2])]

\* schedule_proper_timeout: the delay stretched by the worldline of the service.
Scheduled(st, pid, delay) ==
    LET event == [id |-> st.next, deadline |-> st.wall + delay * st.worldlines[pid].gamma] IN
    [Inserted(st, event) EXCEPT !.next = @ + 1]
Asked(history, st, pid, delay) ==
    LET deadline == st.wall + delay * st.worldlines[pid].gamma
        level == Place(st, [deadline |-> deadline])[1]
    IN [e \in DOMAIN history \cup {st.next} |-> IF e = st.next THEN <<deadline, level>> ELSE history[e]]

Schedule(pid, delay) ==
    /\ state.next <= MaxEvents
    /\ state' = Scheduled(state, pid, delay)
    /\ past' = [past EXCEPT !.asked = Asked(@, state, pid, delay)]

\* schedule_group_sync: the same proper delay for every member, each on its own worldline.
GroupSync(delay) ==
    /\ state.next + Cardinality(Members) <= MaxEvents + 1
    /\ LET members == SetToSeq(Members)
           Both(acc, pid) == <<Scheduled(acc[1], pid, delay), Asked(acc[2], acc[1], pid, delay)>>
           all == FoldLeft(Both, <<state, past.asked>>, members)
       IN state' = all[1] /\ past' = [past EXCEPT !.asked = all[2]]

\* update_vitals and Worldline::advance: the load sets the factor, the time since the last report
\* passes at the new factor.
Advanced(line, wall, load) ==
    [gamma |-> Gamma[load], last |-> {wall},
     proper |-> line.proper + (IF line.last = {} THEN 0
                               ELSE (wall - CHOOSE t \in line.last : TRUE) \div Gamma[load])]
UpdateVitals(pid, load) ==
    /\ state.reports < MaxReports
    /\ state' = [state EXCEPT !.worldlines[pid] = Advanced(@, state.wall, load), !.reports = @ + 1]
    /\ UNCHANGED past

ChronosNext ==
    \/ ChronosTick
    \/ \E p \in ChronosPids, d \in Delays : Schedule(p, d)
    \/ \E d \in Delays : GroupSync(d)
    \/ \E p \in ChronosPids, l \in Loads : UpdateVitals(p, l)

ChronosSpec == ChronosInit /\ [][ChronosNext]_vars

-----------------------------------------------------------------------------

Pending(e) == {<<p, i>> \in (DOMAIN state.slots) \X (1..MaxEvents) :
                   i <= Len(state.slots[p]) /\ state.slots[p][i].id = e}

\* An event that was scheduled is in the wheel exactly once until it fires, and it fires once, through
\* every cascade from level to level.  It fires no later than one slot of the level it was scheduled
\* on after its deadline, and one still in the wheel is not overdue by more than that.
\* No service's own clock runs ahead of the wall clock.
EventsFireOnce ==
    /\ ~past.twice
    /\ \A e \in DOMAIN past.asked :
        LET due == past.asked[e][1]  slack == Resolution(past.asked[e][2]) IN
        /\ Cardinality(Pending(e)) = IF e \in DOMAIN past.fired THEN 0 ELSE 1
        /\ IF e \in DOMAIN past.fired THEN past.fired[e] <= due + slack ELSE state.wall <= due + slack
    /\ \A p \in ChronosPids : state.worldlines[p].proper <= state.wall

-----------------------------------------------------------------------------
(***************************************************************************)
(* Part Morpheus.                                                          *)
(* userland/push morpheus.rs: services that fall asleep in stages, the     *)
(* chain of accesses that predicts when one wakes, and the journal of heap *)
(* snapshots a sleeping service keeps.  Called through &mut, one operation *)
(* at a time.  Time is in ticks; the six thresholds are constants.  With   *)
(* the seven event codes the code records, the entropy that decides about  *)
(* pre-warming reaches its limit exactly when a state has no history.      *)
(***************************************************************************)
Stages == <<"Awake", "Nrem1", "Nrem2", "Nrem3", "Nrem4", "Rem", "Suspended">>
Number(stage) == (CHOOSE i \in 1..7 : Stages[i] = stage) - 1

\* SleepStage::deepen: REM comes before NREM4.
Deepen == [Awake |-> "Nrem1", Nrem1 |-> "Nrem2", Nrem2 |-> "Nrem3", Nrem3 |-> "Rem",
           Rem |-> "Nrem4", Nrem4 |-> "Suspended", Suspended |-> "Suspended"]

\* SleepingService::new.
Fresh == [stage |-> "Awake", idle |-> 0, ready |-> FALSE, chain |-> <<0, 0>>, known |-> {},
          snapshot |-> <<>>, journal |-> <<>>, dictionary |-> <<>>]

\* Morpheus::new, with the services registered.
MorpheusInit ==
    /\ state = [wall |-> 0, services |-> [p \in MorpheusPids |-> Fresh], wakes |-> 0, checkpoints |-> 0]
    /\ past = [busy |-> [p \in MorpheusPids |-> 0], heaps |-> [p \in MorpheusPids |-> <<>>], warmed |-> [p \in MorpheusPids |-> 0]]

\* record_access: the transition is counted for the pair of codes before it.
MorpheusRecorded(svc, code) == [svc EXCEPT !.known = @ \cup {svc.chain}, !.chain = <<svc.chain[2], code>>]

\* mark_active and wake.
Activated(svc) ==
    MorpheusRecorded([svc EXCEPT !.stage = "Awake", !.idle = 0, !.ready = IF svc.stage # "Awake" THEN FALSE ELSE @], 0)

MarkActive(p) ==
    /\ state.wakes < MaxWakes
    /\ state' = [state EXCEPT !.services[p] = Activated(@), !.wakes = @ + 1]
    /\ past' = [past EXCEPT !.busy[p] = state.wall, !.warmed[p] = 0]

\* force_wake: the idle time and the readiness stay as they are.
ForceWake(p, reason) ==
    /\ state.wakes < MaxWakes
    /\ state' = [state EXCEPT !.services[p] = MorpheusRecorded([@ EXCEPT !.stage = "Awake"], reason), !.wakes = @ + 1]
    /\ past' = [past EXCEPT !.warmed[p] = 0]

\* The branch of evaluate_service for a service that is awake.
AwakeEvaluated(svc, wall) ==
    IF svc.idle = 0 THEN [svc EXCEPT !.idle = wall]
    ELSE IF wall - svc.idle >= Thresholds[0] THEN [svc EXCEPT !.stage = Deepen[@]]
    ELSE svc

\* evaluate_service: the threshold is looked up by the number of the stage.
DeepensNow(svc, wall) ==
    /\ Number(svc.stage) \in 0..5
    /\ wall - svc.idle >= Thresholds[Number(svc.stage)]

\* predicted_wake_ms against prefetch_lead_ns.
Imminent(svc) == svc.chain \notin svc.known

Warms(svc) == svc.stage = "Rem" /\ ~svc.ready /\ Imminent(svc)

Evaluated(svc, wall) ==
    IF svc.stage = "Awake" THEN AwakeEvaluated(svc, wall)
    ELSE IF DeepensNow(svc, wall)
    THEN [svc EXCEPT !.stage = Deepen[@], !.ready = IF Deepen[svc.stage] = "Rem" THEN FALSE ELSE @]
    ELSE IF Warms(svc) THEN [svc EXCEPT !.ready = TRUE]
    ELSE svc

WarmsIn(svc, wall) == svc.stage # "Awake" /\ ~DeepensNow(svc, wall) /\ Warms(svc)

\* tick: the clock, then every service.
MorpheusTick(d) ==
    /\ state.wall + d <= MorpheusMaxWall
    /\ LET wall == state.wall + d IN
       /\ state' = [state EXCEPT !.wall = wall,
                                 !.services = [p \in MorpheusPids |-> Evaluated(@[p], wall)]]
       /\ past' = [past EXCEPT !.warmed = [p \in MorpheusPids |-> IF WarmsIn(state.services[p], wall) THEN @[p] + 1 ELSE @[p]]]

\* delta_encode: what differs in the common part, and everything past it.
DeltaEncode(prev, curr) ==
    {<<i, curr[i]>> : i \in {j \in 1..Len(curr) : j > Len(prev) \/ prev[j] # curr[j]}}

\* DreamCompressor::compress: tokens are bytes or the number of a word of the dictionary.
Coded(dictionary, word) == {i \in 1..Len(dictionary) : dictionary[i] = word}
CompressByte(acc, byte) ==
    LET longer == Append(acc.window, byte)
        codes == Coded(acc.dictionary, acc.window)
    IN IF Coded(acc.dictionary, longer) # {} THEN [acc EXCEPT !.window = longer]
       ELSE [tokens |-> Append(acc.tokens, IF codes = {} THEN <<"byte", byte>> ELSE <<"word", CHOOSE i \in codes : TRUE>>),
             dictionary |-> Append(acc.dictionary, longer), window |-> <<byte>>]
Compress(dictionary, data) ==
    LET end == FoldLeft(CompressByte, [tokens |-> <<>>, dictionary |-> dictionary, window |-> <<>>], data)
        codes == Coded(end.dictionary, end.window)
    IN [tokens |-> IF codes # {} THEN Append(end.tokens, <<"word", CHOOSE i \in codes : TRUE>>)
                   ELSE IF Len(end.window) = 1 THEN Append(end.tokens, <<"byte", end.window[1]>>)
                   ELSE end.tokens,
        dictionary |-> end.dictionary]

\* checkpoint: the delta against the last snapshot, the tokens, the oldest entry out, the snapshot.
Checkpoint(p, heap) ==
    LET svc == state.services[p]
        packed == Compress(svc.dictionary, heap)
        entry == [stage |-> svc.stage, delta |-> DeltaEncode(svc.snapshot, heap), length |-> Len(packed.tokens)]
        longer == Append(svc.journal, entry)
    IN
    /\ state.checkpoints < MaxCheckpoints
    /\ state' = [state EXCEPT !.checkpoints = @ + 1,
                    !.services[p] = [svc EXCEPT !.journal = IF Len(longer) > JournalSize THEN Tail(longer) ELSE longer,
                                                !.snapshot = heap, !.dictionary = packed.dictionary]]
    /\ past' = [past EXCEPT !.heaps[p] = Append(@, heap)]

MorpheusNext ==
    \/ \E d \in 1..2 : MorpheusTick(d)
    \/ \E p \in MorpheusPids : MarkActive(p) \/ \E r \in Reasons : ForceWake(p, r)
    \/ \E p \in MorpheusPids, h \in Heaps : Checkpoint(p, h)

MorpheusSpec == MorpheusInit /\ [][MorpheusNext]_vars

-----------------------------------------------------------------------------

\* What the patches of the entries of the journal make of a heap, one after the other.
Patched(heap, entry) ==
    LET ends == {Len(heap)} \cup {d[1] : d \in entry.delta}
        n == CHOOSE n \in ends : \A m \in ends : m <= n
        At(i) == {d \in entry.delta : d[1] = i}
    IN [i \in 1..n |-> IF At(i) # {} THEN (CHOOSE d \in At(i) : TRUE)[2] ELSE heap[i]]

MinimalIdle == [Nrem1 |-> 0, Nrem2 |-> 1, Nrem3 |-> 2, Rem |-> 3, Nrem4 |-> 5, Suspended |-> 5]

\* A service sleeps at a stage only when nothing marked it active for the threshold that leads to
\* that stage (through force_wake, which does not restart the idle time, too), and it is warmed at
\* most once between two wakes while it dreams.  The entries the journal still has are the last
\* checkpoints, and applied to the heap before the first of them their patches give every heap
\* as it was when it was checkpointed, up to its length; the snapshot is the last of them.
SleepIsEarned ==
    \A p \in MorpheusPids :
    LET svc == state.services[p]  heaps == past.heaps[p]
        first == Len(heaps) - Len(svc.journal)
        base == IF first = 0 THEN <<>> ELSE heaps[first]
        After(k) == FoldLeft(Patched, base, SubSeq(svc.journal, 1, k))
    IN
    /\ svc.stage # "Awake" => state.wall - past.busy[p] >= Thresholds[MinimalIdle[svc.stage]]
    /\ past.warmed[p] <= 1
    /\ Len(svc.journal) = IF Len(heaps) < JournalSize THEN Len(heaps) ELSE JournalSize
    /\ \A k \in 1..Len(svc.journal) : IsPrefix(heaps[first + k], After(k))
    /\ heaps # <<>> => svc.snapshot = heaps[Len(heaps)]

-----------------------------------------------------------------------------
(***************************************************************************)
(* Part Alchemy.                                                           *)
(* ipc/alchemy.rs: a ring of atoms for every receiver, the router that     *)
(* sends, broadcasts and converts messages, and the schemas that say which *)
(* fields a conversion copies.  The router is called through &mut, so its  *)
(* operations do not overlap.  A payload is the function from its offsets  *)
(* to its bytes; the memory of an atom does not decay, so its checksum     *)
(* always matches (external).                                              *)
(***************************************************************************)
EmptyAtom == [flag |-> "empty", type |-> "none", sender |-> "none", data |-> <<>>]

\* Crucible::new.
NewCrucible == [atoms |-> [i \in 0..AlchemyCapacity-1 |-> EmptyAtom], head |-> 0, tail |-> 0]

AlchemyInit ==
    /\ state = [crucibles |-> [p \in {} |-> NewCrucible], schemas |-> {}, routes |-> [t \in Types |-> <<>>]]
    /\ past = [p \in AlchemyPids |-> <<>>]

Registered == DOMAIN state.crucibles

\* register: a process that registers again gets a new ring.
Register(pid) ==
    /\ state' = [state EXCEPT !.crucibles =
                    [p \in Registered \cup {pid} |-> IF p = pid THEN NewCrucible ELSE @[p]]]
    /\ past' = [past EXCEPT ![pid] = <<>>]

\* register_type and register_schema: the later schema of two types replaces the earlier.
RegisterSchema(s) ==
    /\ s \notin state.schemas
    /\ state' = [state EXCEPT !.schemas = {t \in @ : <<t.from, t.to>> # <<s.from, s.to>>} \cup {s}]
    /\ UNCHANGED past

\* subscribe: nothing keeps a process from subscribing twice.
Subscribe(pid, type) ==
    /\ Len(state.routes[type]) < MaxRoutes
    /\ state' = [state EXCEPT !.routes[type] = Append(@, pid)]
    /\ UNCHANGED past

\* Crucible::send with crystallize: the claim is given back when the slot is taken.
Placed(ring, atom) ==
    LET slot == ring.tail % AlchemyCapacity IN
    IF ring.atoms[slot].flag = "empty" THEN [ring EXCEPT !.tail = @ + 1, !.atoms[slot] = atom] ELSE ring

Accepts(ring) == ring.atoms[ring.tail % AlchemyCapacity].flag = "empty"
Atom(type, sender, data) == [flag |-> "ready", type |-> type, sender |-> sender, data |-> data]

\* Whole of a delivery to one ring, and what it makes of the history.
Delivered(crucibles, pid, atom) == [crucibles EXCEPT ![pid] = Placed(@, atom)]
Remembered(history, crucibles, pid, atom) ==
    IF Accepts(crucibles[pid]) THEN [history EXCEPT ![pid] = Append(@, atom)] ELSE history

\* send.
Send(sender, receiver, type, data) ==
    /\ receiver \in Registered /\ state.crucibles[receiver].tail < MaxSent
    /\ LET atom == Atom(type, sender, data) IN
       /\ state' = [state EXCEPT !.crucibles = Delivered(@, receiver, atom)]
       /\ past' = Remembered(past, state.crucibles, receiver, atom)

\* validate.
Valid(s, data) == Len(data) >= s.from_size /\ \A f \in s.fields : f.inhabited => f.from + f.size <= Len(data)

\* transmute: zeroes, then the fields that exist in the source.
Transmuted(s, data) ==
    [i \in 1..s.to_size |->
        LET from == {f \in s.fields : f.inhabited /\ i - 1 \in f.to..f.to + f.size - 1} IN
        IF from = {} THEN 0 ELSE LET f == CHOOSE f \in from : TRUE IN data[(i - f.to + f.from)]]
FitsTarget(s) == \A f \in s.fields : f.inhabited => f.to + f.size <= s.to_size

\* transmute_send of two different types: the atom keeps the sender's type.
TransmuteSend(sender, receiver, from, to, data) ==
    /\ from # to
    /\ \E s \in state.schemas :
         /\ s.from = from /\ s.to = to /\ Valid(s, data) /\ FitsTarget(s)
         /\ receiver \in Registered /\ state.crucibles[receiver].tail < MaxSent
         /\ LET atom == Atom(from, sender, Transmuted(s, data)) IN
            /\ state' = [state EXCEPT !.crucibles = Delivered(@, receiver, atom)]
            /\ past' = Remembered(past, state.crucibles, receiver, atom)

\* broadcast: every subscriber but the sender, in order of subscription.
Broadcast(sender, type, data) ==
    LET atom == Atom(type, sender, data)
        to == SelectSeq(state.routes[type], LAMBDA p : p # sender /\ p \in Registered)
        After(acc, pid) == <<Delivered(acc[1], pid, atom), Remembered(acc[2], acc[1], pid, atom)>>
        all == FoldLeft(After, <<state.crucibles, past>>, to)
    IN
    /\ to # <<>> /\ \A p \in Registered : state.crucibles[p].tail < MaxSent
    /\ state' = [state EXCEPT !.crucibles = all[1]]
    /\ past' = all[2]

\* recv: shatter, copy, recycle, and only then the head.
Recv(pid) ==
    /\ pid \in Registered
    /\ LET ring == state.crucibles[pid]  slot == ring.head % AlchemyCapacity IN
       /\ ring.atoms[slot].flag = "ready"
       /\ state' = [state EXCEPT !.crucibles[pid] =
                        [ring EXCEPT !.head = @ + 1, !.atoms[slot].flag = "empty", !.atoms[slot].data = <<>>]]
    /\ past' = [past EXCEPT ![pid] = IF @ = <<>> THEN @ ELSE Tail(@)]

AlchemyNext ==
    \/ \E p \in Listeners : Register(p) \/ Recv(p)
    \/ \E s \in Schemas : RegisterSchema(s)
    \/ \E p \in AlchemyPids, t \in Types : Subscribe(p, t)
    \/ \E s, r \in AlchemyPids, t \in Types, d \in Payloads : Send(s, r, t, d)
    \/ \E s, r \in AlchemyPids, t, u \in Types, d \in Payloads : TransmuteSend(s, r, t, u, d)
    \/ \E s \in AlchemyPids, t \in Types, d \in Payloads : Broadcast(s, t, d)

AlchemySpec == AlchemyInit /\ [][AlchemyNext]_vars

-----------------------------------------------------------------------------

\* Every ring holds exactly the messages it accepted and has not given out, in their order, in
\* the slots between its head and its tail, however often it was full; so each is received once
\* and in order, and the next receive finds the oldest.  A converted message has only bytes its
\* sender wrote or zeroes, and no byte of a field the source does not have.
MessagesInOrder ==
    /\ \A p \in Registered :
        LET ring == state.crucibles[p] IN
        /\ ring.tail - ring.head = Len(past[p]) /\ Len(past[p]) <= AlchemyCapacity
        /\ \A k \in 0..AlchemyCapacity-1 :
            LET atom == ring.atoms[(ring.head + k) % AlchemyCapacity] IN
            IF k < Len(past[p]) THEN atom = past[p][k + 1] ELSE atom.flag = "empty"
    /\ \A s \in state.schemas, d \in Payloads : Valid(s, d) /\ FitsTarget(s) =>
        \A i \in 1..s.to_size :
            Transmuted(s, d)[i] # 0 =>
                \E f \in s.fields : f.inhabited /\ i - 1 \in f.to..f.to + f.size - 1

=============================================================================
