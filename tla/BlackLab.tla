------------------------------ MODULE BlackLab ------------------------------
(***************************************************************************)
(* The Black Lab: its rules, sensors and ledger; its windows, tombs,       *)
(* chambers and learner; how it comes up; and the programs that run        *)
(* inside it and inside Aether.  The parts share no state; a behaviour     *)
(* runs one of them.                                                       *)
(***************************************************************************)
EXTENDS Integers, Sequences, FiniteSets, TLC, FiniteSetsExt, SequencesExt, Functions

CONSTANTS
    \* BlackLabControl
    Samples,            \* Samples[t]: the [tick, resource] thread t ingests
    Severities,         \* severities assess may return, 0 (Stable) to 4 (Terminal)
    Rules,              \* the temporal rules that may be installed, by name
    SensorCapacity, RuleCapacity,
    LedgerCapacity,
    MaximumViolations,  \* MAXIMUM_VIOLATIONS_PER_EVENT
    RateSamples,        \* MAXIMUM_RATE_SAMPLES
    QuarantineVotes, MinimumRetention,
    MaxEpoch,           \* bound on ledger epochs
    \* BlackLabCore
    Slots,              \* MAXIMUM_SHARED_WINDOWS, MAXIMUM_TOMBSTONES: 1 .. n
    GenerationModulus,  \* 2^32: the width of a slot's generation
    MaxIssued,          \* bound: handles issued, fewer than the modulus
    WindowRequests,     \* requests [object, from, until, pages] made of Echidna
    TombRequests,       \* requests [object, first, count, epoch] made of Tartarus
    Faults,             \* faults [space, object, page, epoch] it is shown
    Epochs,             \* epochs the callers name
    SampleCapacity,     \* MAXIMUM_DEFERRED_SAMPLES
    Population,         \* POPULATION_SIZE: genomes 0 .. n - 1
    Elite,              \* ELITE_COUNT
    CapsuleCapacity,    \* CAPSULE_CAPACITY
    MinimumScored,      \* MINIMUM_SCORED_SAMPLES
    Genes,              \* what a genome may carry
    Temperatures,       \* temperatures observed
    MaxPredictions,     \* bound: predictions made in one generation
    CoreMaxGeneration,  \* bound: generations bred
    Writers, Readers,   \* processors that learn, processors that classify
    SnapshotAttempts,   \* SNAPSHOT_ATTEMPTS
    One,                \* FIXED_POINT_ONE
    Aggressiveness,     \* aggressiveness_q16
    FeatureSets,        \* feature vectors, all of one length
    MaxLearns,          \* bound: updates of the weights
    \* BlackLabBoot
    MaxCalls,        \* bound: calls of initialize
    Block, LengthAt, \* the digest's block, and where its length field starts (64, 56)
    MaxMessage,      \* bound: bytes digested
    Words,           \* bytes of a generator word (8)
    Sizes,           \* sizes of artifacts, up to MAXIMUM_ARTIFACT_BYTES
    ImageSize,       \* MINIMAL_X86_64_ELF_BYTES
    Inodes,          \* inode ids, 0 among them
    CatalogCapacity, \* MAXIMUM_FRACTAL_INODES
    MaxNodes, MaxEdges,   \* capacities of the semantic graph
    MaxAdvice,       \* MAXIMUM_CASCADE_PREDICTIONS
    Walkers,         \* walkers [ready, page], ready: active and in eclipse
    MaxWalkers,      \* bound: walkers of one cascade
    LastPage,        \* u64::MAX
    Losses,          \* losses and latencies of transforms
    Bins, Circle,    \* cells of the resonance field, width of the phase circle
    Signals, Rates,  \* signals accumulated, learning rates
    MaxSignals,      \* bound: signals accumulated
    \* AetherVm
    Programs,           \* what is offered to PolicyVm::load: [code, entry]
    MaximumInstructions,\* MAXIMUM_INSTRUCTIONS
    Fuel,               \* fuel of one policy run
    Runners,            \* processors that run policies
    MaxLoads,           \* bound on loads
    LabPrograms,        \* what is offered to the capsule
    Metrics,            \* values of the metric
    LabLength,          \* MAX_INSTRUCTIONS of the lab machine
    LabFuel,            \* MAXIMUM_FUEL
    Batches,            \* causal policy batches: [epoch, operations]
    MaximumRejections,  \* MAXIMUM_REJECTIONS
    VmMaxGeneration,    \* bound on published policies
    Effects,            \* effects that callers push
    MaximumEffects,     \* N of EffectProgram<N>
    Ceilings, Heats     \* heat ceilings, and the heat when prepare is called

VARIABLES
    state,      \* of the part a behaviour runs
    past        \* history the properties refer to

vars == <<state, past>>

-----------------------------------------------------------------------------
(***************************************************************************)
(* Part BlackLabControl.                                                   *)
(* The Black Lab control plane: ingest (blacklab_control_plane.rs) carries *)
(* a telemetry sample through the sentinel (argus_sentinel.rs), the mesh   *)
(* of temporal rules (oracular_mesh.rs), the hash-chained ring ledger      *)
(* (mnemosyne_ledger.rs) and the reactor that writes an intervention plan  *)
(* (cassandra_reactor.rs).  Each keeps its own lock, so ingests of several *)
(* threads interleave between the calls.                                   *)
(*                                                                         *)
(* Left to chance: the fixed-point risk of a sample, so its severity, and  *)
(* whether failure is forecast.  A root is the epoch, number and event it  *)
(* is computed from: a number is given once in an epoch, so the root it    *)
(* follows adds nothing.  The subject and value masks of a predicate are   *)
(* the subjects it accepts.                                                *)
(***************************************************************************)
MaximumPlanSteps == 8

Threads == DOMAIN Samples

Genesis(epoch) == <<epoch>>

NewLedger(epoch) ==
    [entries |-> [i \in 0..LedgerCapacity-1 |-> <<>>], head |-> 0, length |-> 0, next |-> 1,
     epoch |-> epoch, anchor |-> Genesis(epoch)]

NewRuntime == [armed |-> FALSE, deadline |-> 0, subject |-> 0, hits |-> <<>>]

ControlInit ==
    /\ state = [sensors |-> <<>>, mesh |-> <<>>, last |-> 0, observed |-> 0,
                ledger |-> NewLedger(1),
                ingest |-> [t \in Threads |-> [pc |-> "observe"]]]
    /\ past = [events |-> <<>>, verdict |-> {}, since |-> <<>>]

-----------------------------------------------------------------------------
\* The ledger.

LogicalIndex(l, offset) == (l.head + offset) % LedgerCapacity

LatestRoot(l) == IF l.length = 0 THEN l.anchor ELSE l.entries[LogicalIndex(l, l.length - 1)].root

EntryRoot(epoch, sequence, event) == <<epoch, sequence, event>>

\* append: a full ring overwrites its oldest entry, whose root becomes the anchor.
Appended(l, event) ==
    LET entry == [sequence |-> l.next, previous |-> LatestRoot(l), event |-> event,
                  root |-> EntryRoot(l.epoch, l.next, event)] IN
    IF l.length < LedgerCapacity
    THEN [l EXCEPT !.entries[LogicalIndex(l, l.length)] = entry, !.length = @ + 1, !.next = @ + 1]
    ELSE [l EXCEPT !.entries[l.head] = entry, !.anchor = l.entries[l.head].root,
                   !.head = (@ + 1) % LedgerCapacity, !.next = @ + 1]

Verify(l) ==
    \A offset \in 0..l.length-1 :
        LET entry == l.entries[LogicalIndex(l, offset)]
            before == l.entries[LogicalIndex(l, offset - 1)] IN
        /\ entry.previous = IF offset = 0 THEN l.anchor ELSE before.root
        /\ IF offset = 0 THEN entry.sequence > 0 ELSE entry.sequence = before.sequence + 1
        /\ entry.root = EntryRoot(l.epoch, entry.sequence, entry.event)

ResetEpoch ==
    /\ state.ledger.epoch < MaxEpoch
    /\ state' = [state EXCEPT !.ledger = NewLedger(state.ledger.epoch + 1)]
    /\ UNCHANGED past

-----------------------------------------------------------------------------
\* The mesh of temporal rules.

ControlMatches(p, event) ==
    event.kind = p.kind /\ event.severity >= p.severity /\ event.subject \in p.subjects

SubjectMatches(r, runtime, event) == ~r.correlate \/ runtime.subject = event.subject

Armed(r, runtime, event) ==
    [runtime EXCEPT !.armed = TRUE, !.subject = event.subject, !.deadline = event.tick + r.horizon]

\* [runtime, violated]: a consequent that came late or never, an answer, then a new trigger.
ObserveLeadsTo(r, runtime, event) ==
    LET late == runtime.armed /\ event.tick > runtime.deadline
        answered == runtime.armed /\ ~late /\ ControlMatches(r.target, event) /\ SubjectMatches(r, runtime, event)
        open == [runtime EXCEPT !.armed = @ /\ ~late /\ ~answered] IN
    [runtime |-> IF ~open.armed /\ ControlMatches(r.trigger, event) THEN Armed(r, open, event) ELSE open,
     violated |-> IF late THEN {runtime.subject} ELSE {}]

ObserveInhibits(r, runtime, event) ==
    LET open == runtime.armed /\ event.tick <= runtime.deadline
        forbidden == open /\ ControlMatches(r.target, event) /\ SubjectMatches(r, runtime, event) IN
    [runtime |-> IF ControlMatches(r.trigger, event) THEN Armed(r, runtime, event)
                 ELSE [runtime EXCEPT !.armed = open],
     violated |-> IF forbidden THEN {event.subject} ELSE {}]

\* remember_hit keeps the last RateSamples ticks; recent_hits counts those within the horizon.
ObserveRate(r, runtime, event) ==
    LET hits == SubSeq(<<event.tick>> \o runtime.hits, 1,
                       IF Len(runtime.hits) < RateSamples THEN Len(runtime.hits) + 1 ELSE RateSamples)
        recent == {i \in DOMAIN hits : event.tick - hits[i] <= r.horizon} IN
    IF ~ControlMatches(r.target, event) THEN [runtime |-> runtime, violated |-> {}]
    ELSE [runtime |-> [runtime EXCEPT !.hits = hits],
          violated |-> IF Cardinality(recent) > r.maximum THEN {event.subject} ELSE {}]

ControlObserve(name, event) ==
    LET r == Rules[name]
        runtime == state.mesh[name] IN
    CASE r.mode = "LeadsTo" -> ObserveLeadsTo(r, runtime, event)
      [] r.mode = "Inhibits" -> ObserveInhibits(r, runtime, event)
      [] r.mode = "RateLimit" -> ObserveRate(r, runtime, event)

ValidRule(r) == r.mode = "RateLimit" => r.maximum > 0 /\ r.maximum < RateSamples

Install(name) ==
    /\ name \notin DOMAIN state.mesh
    /\ Cardinality(DOMAIN state.mesh) < RuleCapacity
    /\ ValidRule(Rules[name])
    /\ state' = [state EXCEPT !.mesh = (name :> NewRuntime) @@ @]
    /\ past' = [past EXCEPT !.since = (name :> Len(past.events)) @@ @]

ControlRemove(name) ==
    /\ name \in DOMAIN state.mesh
    /\ state' = [state EXCEPT !.mesh = [n \in DOMAIN @ \ {name} |-> @[n]]]
    /\ past' = [past EXCEPT !.since = [n \in DOMAIN @ \ {name} |-> @[n]]]

\* The verdict on an event, at most MaximumViolations of it.
Verdict(event) ==
    UNION {{[rule |-> n, subject |-> s] : s \in ControlObserve(n, event).violated} : n \in DOMAIN state.mesh}

Counted(verdict) == IF Cardinality(verdict) < MaximumViolations THEN Cardinality(verdict) ELSE MaximumViolations

Accepts(event) == state.observed = 0 \/ event.tick >= state.last

\* The mesh takes an event in; the ingest goes on as given.
MeshObserves(event, t, ingest) ==
    /\ state' = [state EXCEPT !.mesh = [n \in DOMAIN @ |-> ControlObserve(n, event).runtime],
                              !.last = event.tick, !.observed = 1, !.ingest[t] = ingest]
    /\ past' = [past EXCEPT !.events = Append(@, event), !.verdict = Verdict(event)]

-----------------------------------------------------------------------------
\* The sentinel and the reactor.

\* The action assess chooses for a severity; faulty: the fault rate is at its watch level.
ActionOf(severity, faulty) ==
    CASE severity = 0 -> "Observe"
      [] severity = 1 -> "IncreaseSampling"
      [] severity = 2 -> "Quarantine"
      [] severity = 3 -> IF faulty THEN "RevokeDma" ELSE "ResetDevice"
      [] severity = 4 -> "RetireResource"

Votes(severity, temporal, ledger, forecast) ==
    (IF severity > 0 THEN {"anomaly"} ELSE {}) \cup (IF temporal THEN {"temporal"} ELSE {})
    \cup (IF ledger THEN {"ledger"} ELSE {}) \cup (IF forecast THEN {"forecast"} ELSE {})
    \cup (IF severity >= 3 THEN {"severe"} ELSE {})

\* The steps synthesize pushes; push_step drops a second one of the same action.
PlanSteps(votes, action) ==
    (IF "anomaly" \in votes THEN {"IncreaseSampling"} ELSE {})
    \cup (IF "temporal" \in votes THEN {"FreezeSubject", "RevokeLeases"} ELSE {})
    \cup (IF "ledger" \in votes THEN {"IsolateControlPlane", "RotateLedgerEpoch"} ELSE {})
    \cup (IF Cardinality(votes) >= QuarantineVotes THEN {"CaptureCheckpoint", "Quarantine"} ELSE {})
    \cup ({action} \ {"Observe", "IncreaseSampling"})

-----------------------------------------------------------------------------
\* ingest, one call of a component at a time.

Telemetry(t, severity) ==
    [tick |-> Samples[t].tick, kind |-> "telemetry", severity |-> severity, subject |-> Samples[t].resource]

Intervention(t, severity) ==
    [tick |-> Samples[t].tick, kind |-> "intervention", severity |-> severity, subject |-> Samples[t].resource]

Goto(t, pc) == [state.ingest[t] EXCEPT !.pc = pc]

\* ArgusSentinel::observe: a new resource takes a sensor, a known one must not go back in time.
ArgusObserve(t) ==
    LET s == Samples[t]
        known == s.resource \in DOMAIN state.sensors IN
    /\ state.ingest[t].pc = "observe"
    /\ IF IF known THEN s.tick >= state.sensors[s.resource]
          ELSE Cardinality(DOMAIN state.sensors) < SensorCapacity
       THEN \E severity \in Severities, faulty \in BOOLEAN :
              /\ faulty => severity = 3
              /\ state' = [state EXCEPT
                   !.sensors = (s.resource :> s.tick) @@ @,
                   !.ingest[t] = [pc |-> "oracle", severity |-> severity,
                                  action |-> ActionOf(severity, faulty)]]
       ELSE state' = [state EXCEPT !.ingest[t] = [pc |-> "refused"]]
    /\ UNCHANGED past

ControlForget(resource) ==
    /\ resource \in DOMAIN state.sensors
    /\ state' = [state EXCEPT !.sensors = [r \in DOMAIN @ \ {resource} |-> @[r]]]
    /\ UNCHANGED past

\* The mesh refuses an event older than its last one: the ingest ends there.
OracleTelemetry(t) ==
    LET i == state.ingest[t]
        event == Telemetry(t, i.severity)
        violations == Counted(Verdict(event)) IN
    /\ i.pc = "oracle"
    /\ IF Accepts(event)
       THEN MeshObserves(event, t, [violations |-> violations, left |-> violations] @@ Goto(t, "append"))
       ELSE state' = [state EXCEPT !.ingest[t] = [pc |-> "refused"]] /\ UNCHANGED past

AppendObservation(t) ==
    LET i == state.ingest[t] IN
    /\ i.pc = "append"
    /\ state' = [state EXCEPT !.ledger = Appended(@, "Observation"),
                              !.ingest[t].pc = IF i.left > 0 THEN "violations" ELSE "verify"]
    /\ UNCHANGED past

AppendViolation(t) ==
    LET i == state.ingest[t] IN
    /\ i.pc = "violations"
    /\ state' = [state EXCEPT !.ledger = Appended(@, "TemporalViolation"),
                              !.ingest[t] = [i EXCEPT !.left = @ - 1,
                                                      !.pc = IF i.left = 1 THEN "verify" ELSE @]]
    /\ UNCHANGED past

VerifyLedger(t) ==
    LET i == state.ingest[t] IN
    /\ i.pc = "verify"
    /\ state' = [state EXCEPT !.ingest[t] = [verified |-> Verify(state.ledger)] @@ [i EXCEPT !.pc = "seal"]]
    /\ UNCHANGED past

\* seal and synthesize: the plan of the ingest; forecast: failure is imminent.
Synthesize(t, forecast) ==
    LET i == state.ingest[t]
        ledger_fault == ~i.verified \/ state.ledger.length < MinimumRetention
        votes == Votes(i.severity, i.violations > 0, ledger_fault, forecast)
        steps == PlanSteps(votes, i.action) IN
    /\ i.pc = "seal"
    /\ state' = [state EXCEPT !.ingest[t] =
            IF Cardinality(steps) > MaximumPlanSteps THEN Goto(t, "capacity")
            ELSE [pc |-> "decide", severity |-> i.severity, steps |-> steps]]
    /\ UNCHANGED past

AppendDecision(t) ==
    /\ state.ingest[t].pc = "decide"
    /\ state' = [state EXCEPT !.ledger = Appended(@, "PolicyDecision"), !.ingest[t] = Goto(t, "announce")]
    /\ UNCHANGED past

\* The plan is announced to the mesh; an ingest overtaken meanwhile reports an error here.
OracleIntervention(t) ==
    LET event == Intervention(t, state.ingest[t].severity) IN
    /\ state.ingest[t].pc = "announce"
    /\ IF Accepts(event) THEN MeshObserves(event, t, [pc |-> "done"])
       ELSE state' = [state EXCEPT !.ingest[t] = [pc |-> "overtaken"]] /\ UNCHANGED past

ControlNext ==
    \/ \E name \in DOMAIN Rules : Install(name) \/ ControlRemove(name)
    \/ ResetEpoch
    \/ \E t \in Threads :
         \/ ArgusObserve(t) \/ OracleTelemetry(t) \/ AppendObservation(t) \/ AppendViolation(t)
         \/ VerifyLedger(t) \/ (\E forecast \in BOOLEAN : Synthesize(t, forecast)) \/ AppendDecision(t) \/ OracleIntervention(t)
         \/ ControlForget(Samples[t].resource)

ControlSpec == ControlInit /\ [][ControlNext]_vars

-----------------------------------------------------------------------------
\* The ring ledger verifies whatever threads append, also after it wrapped and after a
\* new epoch, and its numbers run without a gap to the last one given.
LedgerVerifies ==
    /\ Verify(state.ledger)
    /\ state.ledger.length > 0 =>
          state.ledger.entries[LogicalIndex(state.ledger, state.ledger.length - 1)].sequence = state.ledger.next - 1

\* The rule mesh against the history of events.  Rate limits and inhibitions report exactly
\* the events they should, although only the last RateSamples ticks and the last trigger
\* are kept; a leads-to rule, which tracks one trigger at a time, never reports a trigger
\* that was answered in time.
VerdictsAreRight ==
    LET e == past.events
        k == Len(e)
        Since(n) == past.since[n]+1..k-1
        Hits(r, n) == {j \in past.since[n]+1..k : ControlMatches(r.target, e[j]) /\ e[k].tick - e[j].tick <= r.horizon}
        Latest(r, n) == {j \in Since(n) : ControlMatches(r.trigger, e[j]) /\ \A i \in j+1..k-1 : ~ControlMatches(r.trigger, e[i])}
        Right(n) ==
            LET r == Rules[n]
                reported == {v.subject : v \in {v \in past.verdict : v.rule = n}} IN
            CASE r.mode = "RateLimit" ->
                   (reported # {}) <=> ControlMatches(r.target, e[k]) /\ Cardinality(Hits(r, n)) > r.maximum
              [] r.mode = "Inhibits" ->
                   (reported # {}) <=> /\ ControlMatches(r.target, e[k])
                                       /\ \E j \in Latest(r, n) : /\ e[k].tick <= e[j].tick + r.horizon
                                                                 /\ r.correlate => e[j].subject = e[k].subject
              [] r.mode = "LeadsTo" ->
                   \A s \in reported : \E j \in Since(n) :
                       /\ ControlMatches(r.trigger, e[j]) /\ e[j].subject = s /\ e[j].tick + r.horizon < e[k].tick
                       /\ \A i \in j+1..k-1 : ~(ControlMatches(r.target, e[i]) /\ (r.correlate => e[i].subject = s)
                                               /\ e[i].tick <= e[j].tick + r.horizon) IN
    k > 0 => \A n \in DOMAIN state.mesh : past.since[n] < k => Right(n)

\* A plan fits its eight steps whatever was voted, and a plan that resets a device, retires
\* a resource or revokes its DMA also captures a checkpoint and quarantines it.
PlansArePrepared ==
    \A t \in Threads :
        /\ state.ingest[t].pc # "capacity"
        /\ state.ingest[t].pc \in {"decide", "announce"} =>
              (state.ingest[t].steps \cap {"ResetDevice", "RetireResource", "RevokeDma"} # {} =>
                  {"CaptureCheckpoint", "Quarantine"} \subseteq state.ingest[t].steps)

-----------------------------------------------------------------------------
(***************************************************************************)
(* Part BlackLabCore.                                                      *)
(* The four registries of the Black Lab core that live as long as the      *)
(* kernel: the shared windows of Echidna, the tombstones of Tartarus with  *)
(* their queue of deferred samples, the population of the evolution        *)
(* chamber, and the classifier of Pythia, whose weights one processor may  *)
(* be changing while others read them.                                     *)
(*                                                                         *)
(* Every registry is a part of its own; `state' holds the part in play and *)
(* `past' what the last call was given and answered.                       *)
(***************************************************************************)
Nothing == [kind |-> "none"]

(* ---- slots with generations (echidna.rs and tartarus.rs alike) ---- *)
EmptySlot == [generation |-> 0, request |-> {}, occupied |-> FALSE]

next_generation(g) ==
    LET next == (g + 1) % GenerationModulus
    IN  IF next = 0 THEN 1 ELSE next

FreeSlots(table) == {i \in Slots : ~table[i].occupied}

Filled(table, i, request) ==
    [table EXCEPT ![i] = [generation |-> next_generation(@.generation),
                          request |-> {request}, occupied |-> TRUE]]

HandleIsGood(table, handle) ==
    /\ table[handle[1]].occupied
    /\ table[handle[1]].generation = handle[2]

TheRequest(slot) == CHOOSE r \in slot.request : TRUE

(* ---- shared windows ---- *)
ValidWindow(r) == r.pages > 0 /\ r.until > r.from

Grant ==
    \E r \in WindowRequests :
      /\ ValidWindow(r)
      /\ FreeSlots(state.slots) # {}
      /\ Cardinality(state.issued) < MaxIssued
      /\ LET i == Min(FreeSlots(state.slots))
             table == Filled(state.slots, i, r)
             handle == <<i, table[i].generation>>
         IN  /\ state' = [state EXCEPT !.slots = table,
                                       !.issued = @ \cup {[handle |-> handle, request |-> r,
                                                           live |-> TRUE]}]
             /\ past' = [kind |-> "grant", handle |-> handle]


LeaseActive(r, epoch) == epoch >= r.from /\ epoch < r.until

Resolve ==
    \E entry \in state.issued, epoch \in Epochs :
      LET slot == state.slots[entry.handle[1]]
      IN  /\ HandleIsGood(state.slots, entry.handle)
          /\ LeaseActive(TheRequest(slot), epoch)
          /\ past' = [kind |-> "resolve", entry |-> entry, epoch |-> epoch,
                      request |-> TheRequest(slot)]
          /\ UNCHANGED state

Revoke ==
    \E entry \in state.issued :
      LET i == entry.handle[1]
      IN  /\ HandleIsGood(state.slots, entry.handle)
          /\ state' = [state EXCEPT !.slots[i].occupied = FALSE,
                                    !.issued = (@ \ {entry})
                                               \cup {[entry EXCEPT !.live = FALSE]}]
          /\ past' = [kind |-> "revoke", entry |-> entry,
                      request |-> TheRequest(state.slots[i])]

WindowNext == state.part = "windows" /\ (Grant \/ Resolve \/ Revoke)

(* ---- tombstones and deferred samples ---- *)
ValidTomb(r) == r.object # 0 /\ r.count > 0

Retire ==
    \E r \in TombRequests :
      /\ ValidTomb(r)
      /\ FreeSlots(state.slots) # {}
      /\ Cardinality(state.issued) < MaxIssued
      /\ LET i == Min(FreeSlots(state.slots))
             table == Filled(state.slots, i, r)
         IN  state' = [state EXCEPT !.slots = table,
                                    !.issued = @ \cup {[handle |-> <<i, table[i].generation>>,
                                                        request |-> r, live |-> TRUE]}]
      /\ past' = Nothing

PageInRange(page, r) == page >= r.first /\ page < r.first + r.count

CoreMatches(r, fault) ==
    /\ r.object = fault.object
    /\ fault.epoch >= r.epoch
    /\ PageInRange(fault.page, r)

Pushed(ring, sample) ==
    LET tail == (ring.head + ring.len) % SampleCapacity
    IN  IF ring.len = SampleCapacity THEN ring
        ELSE [ring EXCEPT !.cells[tail] = sample, !.len = @ + 1]

InspectFault ==
    \E fault \in Faults :
      LET known   == fault.space # 0 /\ fault.object # 0
          matched == known /\ \E i \in Slots : /\ state.slots[i].occupied
                                               /\ CoreMatches(TheRequest(state.slots[i]), fault)
          ring    == Pushed(state.ring, fault)
      IN  /\ past' = [kind |-> "fault", fault |-> fault, quarantined |-> matched,
                      queued |-> matched /\ state.ring.len < SampleCapacity]
          /\ state' = IF matched
                        THEN [state EXCEPT !.ring = ring,
                                           !.line = IF state.ring.len < SampleCapacity
                                                      THEN Append(@, fault) ELSE @]
                        ELSE state

TakeLearningSample ==
    /\ state.ring.len > 0
    /\ past' = [kind |-> "take", sample |-> state.ring.cells[state.ring.head],
                due |-> Head(state.line)]
    /\ state' = [state EXCEPT !.ring.head = (@ + 1) % SampleCapacity,
                              !.ring.len = @ - 1,
                              !.line = Tail(@)]

Quiescent(r, epoch) == epoch > r.epoch

Reclaim ==
    \E entry \in state.issued, epoch \in Epochs :
      LET i == entry.handle[1]
      IN  /\ HandleIsGood(state.slots, entry.handle)
          /\ Quiescent(TheRequest(state.slots[i]), epoch)
          /\ state' = [state EXCEPT !.slots[i].occupied = FALSE,
                                    !.issued = (@ \ {entry})
                                               \cup {[entry EXCEPT !.live = FALSE]}]
          /\ past' = [kind |-> "reclaim", entry |-> entry, epoch |-> epoch]

TombNext ==
    state.part = "tombs" /\ (Retire \/ InspectFault \/ TakeLearningSample \/ Reclaim)

(* ---- the evolution chamber ---- *)
Genomes == 0 .. Population - 1

Fresh(genes) == [i \in Genomes |-> [gene |-> genes[i], error |-> 0, samples |-> 0]]

EmptyCapsule == [valid |-> FALSE, scored |-> FALSE, generation |-> 0, made |-> 0,
                 target |-> 0, predictions |-> <<>>]

Initialize ==
    /\ ~state.initialized
    /\ \E genes \in [Genomes -> Genes] :
         state' = [state EXCEPT !.population = Fresh(genes), !.initialized = TRUE]
    /\ past' = Nothing

\* A genome's network answers with its gene: what it predicts for the inputs.
PredictPopulation ==
    \E epoch \in Epochs, delta \in {1} :
      /\ state.initialized
      /\ state.made < MaxPredictions
      /\ LET capsule == [valid |-> TRUE, scored |-> FALSE, generation |-> state.generation,
                         made |-> epoch, target |-> epoch + delta,
                         predictions |-> [i \in Genomes |-> state.population[i].gene]]
         IN  state' = [state EXCEPT !.capsules[state.next] = capsule,
                                    !.next = (@ + 1) % CapsuleCapacity,
                                    !.made = @ + 1]
      /\ past' = Nothing

Due(capsule, epoch) ==
    /\ capsule.valid /\ ~capsule.scored
    /\ capsule.generation = state.generation
    /\ capsule.made < epoch /\ capsule.target = epoch

Distance(a, b) == IF a > b THEN a - b ELSE b - a

ErrorOver(due, i, actual) ==
    MapThenSumSet(LAMBDA c : Distance(state.capsules[c].predictions[i], actual), due)

\* compare_fitness: the mean error of the left is less than that of the right.
Fitter(left, right) ==
    IF left.samples = 0 THEN FALSE
    ELSE IF right.samples = 0 THEN TRUE
         ELSE left.error * right.samples < right.error * left.samples

Ranks(population, i, j) ==
    \/ Fitter(population[i], population[j])
    \/ ~Fitter(population[j], population[i]) /\ i < j

BestIndex(population, otherwise) ==
    LET scored == {i \in Genomes : population[i].samples # 0}
    IN  IF scored = {} THEN otherwise
        ELSE CHOOSE i \in scored : \A j \in scored \ {i} : Ranks(population, i, j)

CoreObserve ==
    \E epoch \in Epochs, actual \in Temperatures :
      LET due == {c \in DOMAIN state.capsules : Due(state.capsules[c], epoch)}
          population == [i \in Genomes |->
                           [state.population[i] EXCEPT !.error = @ + ErrorOver(due, i, actual),
                                                       !.samples = @ + Cardinality(due)]]
      IN  /\ state.initialized
          /\ state' = [state EXCEPT !.population = population,
                                    !.capsules = [c \in DOMAIN @ |->
                                       [@[c] EXCEPT !.scored = @ \/ c \in due]],
                                    !.apex = BestIndex(population, @)]
          /\ past' = [kind |-> "observe", scored |-> Cardinality(due)]

EnoughEvidence(population) == \A i \in Genomes : population[i].samples >= MinimumScored

Ranking(population) == SetToSortSeq(Genomes, LAMBDA i, j : Ranks(population, i, j))

\* A child takes each gene from one of two elites, perhaps mutated.
ChildGenes(elite) == Genes \cap UNION {{g - 1, g, g + 1} : g \in elite}

Evolve ==
    /\ state.initialized
    /\ EnoughEvidence(state.population)
    /\ state.generation < CoreMaxGeneration
    /\ LET ranking == Ranking(state.population)
           elite   == [i \in 0 .. Elite - 1 |-> state.population[ranking[i + 1]].gene]
       IN  \E children \in [Elite .. Population - 1 -> ChildGenes(Range(elite))] :
             /\ state' = [state EXCEPT !.generation = @ + 1,
                                       !.population = Fresh(elite @@ children),
                                       !.capsules = [c \in DOMAIN @ |-> EmptyCapsule],
                                       !.next = 0, !.apex = 0, !.made = 0]
             /\ past' = [kind |-> "evolve", before |-> state.population]

ChamberNext ==
    state.part = "chamber" /\ (Initialize \/ PredictPopulation \/ CoreObserve \/ Evolve)

(* ---- the classifier ---- *)
Dot(weights, features) ==
    SumFunction([k \in DOMAIN features |-> weights[k] * features[k]])

Norm(features) == SumFunction([k \in DOMAIN features |-> features[k] * features[k]])

HingeLoss(score, label) == Max({One - score * label, 0})

StepOf(loss, features) == Min({loss \div Norm(features), Aggressiveness})

IdleWriter == [pc |-> "idle", features |-> <<>>, label |-> 1, step |-> 0, at |-> 1]

Claim(w) ==
    \E features \in FeatureSets, label \in {-1, 1} :
      /\ state.writers[w].pc = "idle" /\ ~state.busy
      /\ state.learns < MaxLearns
      /\ state' = [state EXCEPT !.busy = TRUE, !.learns = @ + 1,
                                !.writers[w] = [pc |-> "claimed", features |-> features,
                                                label |-> label, step |-> 0, at |-> 1]]
      /\ past' = Nothing

\* The loss is zero, or the features are: the writer leaves with nothing changed.
LeaveUnchanged(w) ==
    LET me == state.writers[w]
        loss == HingeLoss(Dot(state.weights, me.features), me.label)
    IN  /\ me.pc = "claimed"
        /\ loss = 0 \/ Norm(me.features) = 0
        /\ state' = [state EXCEPT !.busy = FALSE, !.writers[w] = IdleWriter]
        /\ past' = Nothing

BeginsOdd == state.sequence + 1

Begin(w) ==
    LET me == state.writers[w]
        loss == HingeLoss(Dot(state.weights, me.features), me.label)
    IN  /\ me.pc = "claimed"
        /\ loss # 0 /\ Norm(me.features) # 0
        /\ state' = [state EXCEPT !.sequence = BeginsOdd,
                                  !.writers[w].pc = "writing",
                                  !.writers[w].step = StepOf(loss, me.features)]
        /\ past' = Nothing

StoreWeight(w) ==
    LET me == state.writers[w]
    IN  /\ me.pc = "writing" /\ me.at <= Len(me.features)
        /\ state' = [state EXCEPT !.weights[me.at] = @ + me.step * me.label * me.features[me.at],
                                  !.writers[w].at = @ + 1]
        /\ past' = Nothing

CoreFinish(w) ==
    LET me == state.writers[w]
    IN  /\ me.pc = "writing" /\ me.at > Len(me.features)
        /\ state' = [state EXCEPT !.sequence = @ + 1, !.writers[w].pc = "leaving",
                                  !.published = state.weights]
        /\ past' = [kind |-> "learnt", features |-> me.features, label |-> me.label,
                    before |-> state.published, after |-> state.weights]

Leave(w) ==
    /\ state.writers[w].pc = "leaving"
    /\ state' = [state EXCEPT !.busy = FALSE, !.writers[w] = IdleWriter]
    /\ past' = Nothing

IdleReader == [pc |-> "idle", features |-> <<>>, before |-> 0, score |-> 0, at |-> 1, tries |-> 0]

Ask(r) ==
    \E features \in FeatureSets :
      /\ state.readers[r].pc = "idle"
      /\ state' = [state EXCEPT !.readers[r] = [IdleReader EXCEPT !.pc = "sample",
                                                                  !.features = features]]
      /\ past' = Nothing

\* The attempt is over without an answer: another one, or UnstableSnapshot.
NextAttempt(r) ==
    IF state.readers[r].tries + 1 = SnapshotAttempts THEN IdleReader
    ELSE [state.readers[r] EXCEPT !.pc = "sample", !.tries = @ + 1, !.score = 0, !.at = 1]

LoadBefore(r) ==
    /\ state.readers[r].pc = "sample"
    /\ state' = [state EXCEPT !.readers[r] =
                   IF state.sequence % 2 # 0 THEN NextAttempt(r)
                   ELSE [@ EXCEPT !.pc = "summing", !.before = state.sequence]]
    /\ past' = Nothing

LoadWeight(r) ==
    LET me == state.readers[r]
    IN  /\ me.pc = "summing" /\ me.at <= Len(me.features)
        /\ state' = [state EXCEPT !.readers[r].score = @ + state.weights[me.at] * me.features[me.at],
                                  !.readers[r].at = @ + 1]
        /\ past' = Nothing

SnapshotHolds(before, after) == before = after

LoadAfter(r) ==
    LET me == state.readers[r]
        ok == SnapshotHolds(me.before, state.sequence)
    IN  /\ me.pc = "summing" /\ me.at > Len(me.features)
        /\ state' = [state EXCEPT !.readers[r] = IF ok THEN IdleReader ELSE NextAttempt(r)]
        /\ past' = IF ok THEN [kind |-> "classified", features |-> me.features,
                               score |-> me.score,
                               suspicious |-> me.score >= 0]
                   ELSE Nothing

WriterNext(w) ==
    Claim(w) \/ LeaveUnchanged(w) \/ Begin(w) \/ StoreWeight(w) \/ CoreFinish(w) \/ Leave(w)

ReaderNext(r) == Ask(r) \/ LoadBefore(r) \/ LoadWeight(r) \/ LoadAfter(r)

LearnerNext ==
    /\ state.part = "learner"
    /\ (\E w \in Writers : WriterNext(w)) \/ (\E r \in Readers : ReaderNext(r))

(* ---- the four parts ---- *)
EmptyTable == [i \in Slots |-> EmptySlot]
Width == Len(CHOOSE f \in FeatureSets : TRUE)

CoreInit ==
    /\ past = Nothing
    /\ \/ state = [part |-> "windows", slots |-> EmptyTable, issued |-> {}]
       \/ state = [part |-> "tombs", slots |-> EmptyTable, issued |-> {}, line |-> <<>>,
                   ring |-> [cells |-> [i \in 0 .. SampleCapacity - 1 |-> {}],
                             head |-> 0, len |-> 0]]
       \/ state = [part |-> "chamber", initialized |-> FALSE, generation |-> 1, made |-> 0,
                   population |-> [i \in Genomes |-> [gene |-> 0, error |-> 0, samples |-> 0]],
                   capsules |-> [c \in 0 .. CapsuleCapacity - 1 |-> EmptyCapsule],
                   next |-> 0, apex |-> 0]
       \/ state = [part |-> "learner", weights |-> [k \in 1 .. Width |-> 0],
                   published |-> [k \in 1 .. Width |-> 0], sequence |-> 0, busy |-> FALSE,
                   learns |-> 0,
                   writers |-> [w \in Writers |-> IdleWriter],
                   readers |-> [r \in Readers |-> IdleReader]]

CoreNext == WindowNext \/ TombNext \/ ChamberNext \/ LearnerNext

CoreSpec == CoreInit /\ [][CoreNext]_vars
-----------------------------------------------------------------------------

\* A handle of a shared window resolves to the window it was granted for, while
\* that window is not revoked and its lease runs; a handle of an earlier
\* occupant of the slot opens nothing (SharedWindowRegistry).
WindowsAreLeases ==
    past.kind \in {"resolve", "revoke"} =>
      /\ past.entry.live
      /\ past.request = past.entry.request
      /\ past.kind = "resolve" => /\ past.epoch >= past.entry.request.from
                                  /\ past.epoch < past.entry.request.until

\* A fault is quarantined exactly when a page retired and not yet reclaimed
\* covers it, a page is reclaimed once and after the epoch that retired it, and
\* the samples are taken in the order of the faults that left them (TartarusVoid).
FaultsAreJudged ==
    /\ past.kind = "fault" =>
         past.quarantined <=>
           /\ past.fault.space # 0
           /\ \E entry \in state.issued : entry.live /\ CoreMatches(entry.request, past.fault)
    /\ past.kind = "reclaim" => past.entry.live /\ past.epoch > past.entry.request.epoch
    /\ past.kind = "take" => past.sample = past.due

\* Each prediction is counted at most once and for every genome alike, the apex
\* is the first genome of least error, and a generation is bred only from a
\* population with enough evidence, its fittest genomes carried over in order
\* (EvolutionChamber observe and evolve).
EvidenceCountsOnce ==
    /\ \A i, j \in Genomes : state.population[i].samples = state.population[j].samples
    /\ state.made <= CapsuleCapacity =>
         state.population[0].samples =
           Cardinality({c \in DOMAIN state.capsules : state.capsules[c].scored})
    /\ state.population[0].samples <= state.made
    /\ state.population[0].samples > 0 =>
         \A i \in Genomes :
           \/ state.population[i].error > state.population[state.apex].error
           \/ state.population[i].error = state.population[state.apex].error /\ i >= state.apex
    /\ past.kind = "evolve" =>
         /\ \A i \in Genomes : past.before[i].samples >= MinimumScored
         /\ \E best \in [1 .. Elite -> Genomes] :
              /\ IsInjective(best)
              /\ \A k \in 1 .. Elite : state.population[k - 1].gene = past.before[best[k]].gene
              /\ \A k \in 1 .. Elite : \A i \in Genomes \ {best[j] : j \in 1 .. k} :
                   past.before[best[k]].error <= past.before[i].error

\* A classification is made from weights that were all there together when it
\* was answered, never from a mixture of two updates, and an update never takes
\* its example further from the margin (PassiveAggressiveClassifier).
AnswersAreWhole ==
    /\ past.kind = "classified" => past.score = Dot(state.published, past.features)
    /\ past.kind = "learnt" =>
         HingeLoss(Dot(past.after, past.features), past.label)
           <= HingeLoss(Dot(past.before, past.features), past.label)
    /\ Cardinality({w \in Writers : state.writers[w].pc # "idle"}) <= 1

\* The four registries keep their records: leases, tombstones, evidence, weights.
LabRecordsHold ==
    CASE state.part = "windows" -> WindowsAreLeases
      [] state.part = "tombs"   -> FaultsAreJudged
      [] state.part = "chamber" -> EvidenceCountsOnce
      [] state.part = "learner" -> AnswersAreWhole

-----------------------------------------------------------------------------
(***************************************************************************)
(* Part BlackLabBoot.                                                      *)
(* How Black Lab comes up: the one call of blacklab::initialize that takes *)
(* its registries through a rehearsal, verifies and installs PID 1 and     *)
(* hands the process over; the catalog of recipes and the streaming digest *)
(* the verification rests on; the semantic graph, the dialects and the     *)
(* cascade plan it makes; and the resonance field the nexus matrix learns. *)
(***************************************************************************)
(* ---- initialize ---- *)

Returned(result) ==
    /\ state' = [state EXCEPT !.phase = "idle"]
    /\ past' = [kind |-> "returned", result |-> result, call |-> state.calls]

NotYetInitialized == ~state.initialized

Enter ==
    /\ state.phase = "idle" /\ state.calls < MaxCalls
    /\ IF NotYetInitialized
         THEN /\ state' = [state EXCEPT !.phase = "graph", !.calls = @ + 1]
              /\ past' = Nothing
         ELSE /\ state' = [state EXCEPT !.calls = @ + 1]
              /\ past' = [kind |-> "returned", result |-> "already", call |-> state.calls + 1]

\* add_node twice, add_edge, add_personality twice, add_transform: a call that
\* fails later leaves them.
RehearseGraph ==
    /\ state.phase = "graph"
    /\ state' = [state EXCEPT !.phase = "evolution", !.nodes = @ + 2]
    /\ past' = Nothing

ChamberIsFresh == ~state.evolved

RehearseEvolution ==
    /\ state.phase = "evolution"
    /\ IF ChamberIsFresh
         THEN /\ state' = [state EXCEPT !.phase = "artifact", !.evolved = TRUE]
              /\ past' = Nothing
         ELSE Returned("evolution")

\* plant_seed of inode 1, materialize: a call that would plant it again has
\* already been refused by the chamber.
RehearseArtifact ==
    /\ state.phase = "artifact"
    /\ 1 \notin state.planted
    /\ state' = [state EXCEPT !.phase = "image", !.planted = @ \cup {1}]
    /\ past' = Nothing

\* verify_artifact, prepare_user_image and install_user_image may each refuse;
\* a refused installation leaves no process.
VerifyAndInstall ==
    /\ state.phase = "image"
    /\ \/ Returned("refused")
       \/ /\ state' = [state EXCEPT !.phase = "process", !.process = "installed",
                                    !.installs = @ + 1]
          /\ past' = Nothing

Released(result) ==
    \E left \in {"none", "stranded"} :
      /\ state' = [state EXCEPT !.phase = "idle", !.process = left]
      /\ past' = [kind |-> "returned", call |-> state.calls,
                  result |-> IF left = "none" THEN result ELSE "cleanup"]

\* process_info, process_generation, and their comparison with the image.
CheckProcess ==
    /\ state.phase = "process"
    /\ \/ Released("incomplete")
       \/ /\ state' = [state EXCEPT !.phase = "activate"]
          /\ past' = Nothing

\* validate_activation: its error is returned as it is, without a release.
ValidateActivation ==
    /\ state.phase = "activate"
    /\ \/ Returned("activation")
       \/ /\ state' = [state EXCEPT !.phase = "complete"]
          /\ past' = Nothing

\* The classifier, the cascade, the prediction and the transform; initialized is
\* set last, and the process goes to the caller.
Complete ==
    /\ state.phase = "complete"
    /\ \/ Released("plan")
       \/ /\ state' = [state EXCEPT !.phase = "idle", !.initialized = TRUE,
                                    !.process = "handed", !.handed = @ + 1]
          /\ past' = [kind |-> "returned", result |-> "ok", call |-> state.calls]

BootNext ==
    /\ state.part = "boot"
    /\ \/ Enter \/ RehearseGraph \/ RehearseEvolution \/ RehearseArtifact
       \/ VerifyAndInstall \/ CheckProcess \/ ValidateActivation \/ Complete

(* ---- the streaming digest ---- *)
\* compress is taken as collision free: the digest's state is the list of the
\* blocks it was given.
Message(from, to) == [i \in 1 .. to - from |-> from + i]

Overlay(block, at, bytes) ==
    [i \in 1 .. Block |-> IF i > at /\ i <= at + Len(bytes) THEN bytes[i - at] ELSE block[i]]

WholeBlocks(h, input) ==
    LET n == Len(input) \div Block
        rest == SubSeq(input, n * Block + 1, Len(input))
    IN  [h EXCEPT !.blocks = @ \o [k \in 1 .. n |-> SubSeq(input, (k - 1) * Block + 1, k * Block)],
                  !.block = Overlay(@, 0, rest), !.length = Len(rest)]

Updated(h, input) ==
    LET copied == Min({Block - h.length, Len(input)})
        filled == Overlay(h.block, h.length, SubSeq(input, 1, copied))
        rest   == SubSeq(input, copied + 1, Len(input))
        counted == [h EXCEPT !.total = @ + Len(input)]
    IN  IF h.length = 0 THEN WholeBlocks(counted, input)
        ELSE IF h.length + copied = Block
               THEN WholeBlocks([counted EXCEPT !.blocks = Append(@, filled), !.block = filled,
                                                !.length = 0], rest)
               ELSE [counted EXCEPT !.block = filled, !.length = @ + copied]

Zeros(n) == [i \in 1 .. n |-> 0]

Spills(length) == length > LengthAt

Finished(h) ==
    LET marked == Overlay(h.block, h.length, <<128>>)
        length == h.length + 1
        spill  == Overlay(marked, length, Zeros(Block - length))
        last   == IF Spills(length) THEN Zeros(Block)
                  ELSE Overlay(marked, length, Zeros(LengthAt - length))
        sealed == Overlay(last, LengthAt, Zeros(Block - LengthAt - 1) \o <<h.total * 8>>)
    IN  h.blocks \o (IF Spills(length) THEN <<spill>> ELSE <<>>) \o <<sealed>>

NewHasher == [blocks |-> <<>>, block |-> Zeros(Block), length |-> 0, total |-> 0]

Update ==
    \E n \in 0 .. MaxMessage - state.hasher.total :
      /\ state.digest = <<>>
      /\ state' = [state EXCEPT !.hasher =
                     Updated(@, Message(state.hasher.total, state.hasher.total + n))]
      /\ past' = Nothing

IgnitionFinish ==
    /\ state.digest = <<>>
    /\ state' = [state EXCEPT !.digest = Finished(state.hasher)]
    /\ past' = Nothing

DigestNext == state.part = "digest" /\ (Update \/ IgnitionFinish)

(* ---- the catalog of recipes ---- *)
Zero == <<0, 0, 0>>
Dirty == <<9, 9, 9>>
Classes == {"executable", "configuration"}

\* What the recipe's generator yields byte by byte, a word at a time.
Unfold(recipe, size) ==
    [i \in 1 .. size |-> <<recipe, (i - 1) \div Words, (i - 1) % Words>>]

MeasureRecipe(recipe, size) ==
    LET whole == (size \div Words) * Words
        word(k) == SubSeq(Unfold(recipe, whole + Words), k * Words + 1, (k + 1) * Words)
    IN  FlattenSeq([k \in 1 .. size \div Words |-> word(k - 1)])
          \o SubSeq(word(size \div Words), 1, size % Words)

\* The second algorithm writes the minimal image, the first anything.
ValidSeed(seed) ==
    /\ seed.inode # 0 /\ seed.size > 0 /\ seed.expected # <<>>
    /\ IF seed.class = "executable" THEN seed.entry < seed.size ELSE seed.entry = 0
    /\ seed.recipe = 2 => seed.class = "executable" /\ seed.size = ImageSize

SeedsOffered ==
    {[inode |-> i, class |-> c, recipe |-> r, size |-> n, entry |-> e, expected |-> x] :
       i \in Inodes, c \in Classes, r \in {1, 2}, n \in Sizes, e \in {0, Max(Sizes)},
       x \in {<<>>, MeasureRecipe(1, Max(Sizes)), MeasureRecipe(2, ImageSize)}}

InodeIsNew(seeds, inode) == \A k \in DOMAIN seeds : seeds[k].inode # inode

PlantSeed ==
    \E seed \in SeedsOffered :
      /\ ValidSeed(seed)
      /\ InodeIsNew(state.seeds, seed.inode)
      /\ Len(state.seeds) < CatalogCapacity
      /\ state' = [state EXCEPT !.seeds = Append(@, seed), !.planted[seed.inode] = {seed}]
      /\ past' = Nothing

Fill(target, bytes) ==
    [i \in 1 .. Len(target) |-> IF i <= Len(bytes) THEN bytes[i] ELSE target[i]]

Refused(target, output) == Fill(target, [i \in 1 .. Len(output) |-> Zero])

Materialize ==
    \E inode \in Inodes, room \in Sizes :
      LET found  == SelectSeq(state.seeds, LAMBDA s : s.inode = inode)
          seed   == Head(found)
          target == [i \in 1 .. room |-> Dirty]
          output == Unfold(seed.recipe, seed.size)
          good   == output = seed.expected
      IN  /\ found # <<>>
          /\ room >= seed.size
          /\ UNCHANGED state
          /\ past' = [kind |-> "artifact", inode |-> inode, good |-> good, room |-> room,
                      target |-> IF good THEN Fill(target, output) ELSE Refused(target, output),
                      bytes |-> IF good THEN seed.size ELSE 0]

\* verify_artifact: bytes the caller keeps, against a manifest.
VerifyArtifact ==
    \E seed \in SeedsOffered, size \in Sizes :
      LET bytes == Unfold(1, size)
      IN  /\ seed.inode # 0 /\ seed.expected # <<>>
          /\ IF seed.class = "executable" THEN seed.entry < size ELSE seed.entry = 0
          /\ bytes = seed.expected
          /\ UNCHANGED state
          /\ past' = [kind |-> "verified", manifest |-> seed, size |-> size]

CatalogNext == state.part = "catalog" /\ (PlantSeed \/ Materialize \/ VerifyArtifact)

(* ---- graph, dialects and the cascade ---- *)
AddNode ==
    /\ state.nodes < MaxNodes
    /\ state' = [state EXCEPT !.nodes = @ + 1]
    /\ past' = Nothing

Known(id) == id < state.nodes

AddEdge ==
    \E a, b \in 0 .. MaxNodes :
      /\ Known(a) /\ Known(b)
      /\ Len(state.edges) < MaxEdges
      /\ state' = [state EXCEPT !.edges = Append(@, <<a, b>>)]
      /\ past' = Nothing

\* Transforms lead from one personality to others, some on the bus asked for;
\* `at' tells equal ones apart.
AddTransform ==
    \E t \in [meets : BOOLEAN, loss : Losses, latency : Losses] :
      /\ Len(state.transforms) < MaxEdges
      /\ state' = [state EXCEPT !.transforms =
                     Append(@, [meets |-> t.meets, loss |-> t.loss, latency |-> t.latency,
                                at |-> Len(@) + 1])]
      /\ past' = Nothing

Cheaper(s, t) == s.loss < t.loss \/ (s.loss = t.loss /\ s.latency < t.latency)

\* min_by_key keeps the first of equal ones.
BestOf(ts) ==
    FoldLeft(LAMBDA best, t : IF \E b \in best : ~Cheaper(t, b) THEN best ELSE {t}, {}, ts)

BestTransform ==
    /\ past' = [kind |-> "transform",
                best |-> BestOf(SelectSeq(state.transforms, LAMBDA t : t.meets))]
    /\ UNCHANGED state

Advised(acc, w) ==
    IF acc.truncated \/ ~w.ready \/ w.page = LastPage THEN acc
    ELSE IF Len(acc.list) = MaxAdvice THEN [acc EXCEPT !.truncated = TRUE]
         ELSE [acc EXCEPT !.list = Append(@, w.page + 1)]

PlanCascade ==
    \E walkers \in BoundedSeq(Walkers, MaxWalkers) :
      /\ past' = [kind |-> "plan", walkers |-> walkers,
                  plan |-> FoldLeft(Advised, [list |-> <<>>, truncated |-> FALSE], walkers)]
      /\ UNCHANGED state

AdviceNext ==
    \/ state.part = "graph" /\ (AddNode \/ AddEdge)
    \/ state.part = "dialects" /\ (AddTransform \/ BestTransform)
    \/ state.part = "cascade" /\ PlanCascade

(* ---- the resonance field ---- *)
Cells == 0 .. Bins - 1

phase_to_index(phase) == (phase * Bins) \div Circle

index_to_phase(index) == (index * Circle + Bins \div 2) \div Bins

\* A neighbour gets an eighth; with one or two cells it may be the centre.
Spread(center, signal) ==
    LET left  == IF center = 0 THEN Bins - 1 ELSE center - 1
        right == (center + 1) % Bins
    IN  [c \in Cells |-> IF c = center THEN signal
                         ELSE IF c \in {left, right} THEN signal \div 8 ELSE 0]

Accumulate ==
    \E phase \in 0 .. Circle - 1, signal \in Signals :
      /\ state.samples < MaxSignals
      /\ state' = [state EXCEPT !.samples = @ + 1,
                                !.energy = [c \in Cells |->
                                   @[c] + Spread(phase_to_index(phase), signal)[c]]]
      /\ past' = Nothing

\* The square of the sum, raised by the gain; max_by_key keeps the last.
Score(c) == state.energy[c] * state.energy[c] * (16 + state.gain[c])

Louder(c, d) == Score(c) > Score(d) \/ (Score(c) = Score(d) /\ c > d)

Loudest == CHOOSE c \in Cells : \A d \in Cells \ {c} : Louder(c, d)

Learn ==
    \E rate \in Rates :
      LET named == index_to_phase(Loudest)
          cell  == phase_to_index(named)
      IN  /\ state.samples > 0 /\ state.learnt < 2
          /\ state' = [state EXCEPT !.gain[cell] = @ + rate \div 8, !.learnt = @ + 1]
          /\ past' = [kind |-> "learnt", phase |-> named, cell |-> cell, loudest |-> Loudest]

Decay ==
    /\ \E c \in Cells : state.energy[c] # 0 \/ state.gain[c] # 0
    /\ state' = [state EXCEPT !.energy = [c \in Cells |-> @[c] \div 2],
                              !.gain = [c \in Cells |-> @[c] \div 2]]
    /\ past' = Nothing

FieldNext == state.part = "field" /\ (Accumulate \/ Learn \/ Decay)

(* ---- the parts ---- *)
IgnitionInit ==
    /\ past = Nothing
    /\ \/ state = [part |-> "boot", phase |-> "idle", calls |-> 0, initialized |-> FALSE,
                   nodes |-> 0, evolved |-> FALSE, planted |-> {}, process |-> "none",
                   installs |-> 0, handed |-> 0]
       \/ state = [part |-> "digest", hasher |-> NewHasher, digest |-> <<>>]
       \/ state = [part |-> "catalog", seeds |-> <<>>, planted |-> [i \in Inodes |-> {}]]
       \/ state = [part |-> "graph", nodes |-> 0, edges |-> <<>>]
       \/ state = [part |-> "dialects", transforms |-> <<>>]
       \/ state = [part |-> "cascade"]
       \/ state = [part |-> "field", energy |-> [c \in Cells |-> 0],
                   gain |-> [c \in Cells |-> 0], samples |-> 0, learnt |-> 0]

IgnitionNext == BootNext \/ DigestNext \/ CatalogNext \/ AdviceNext \/ FieldNext

IgnitionSpec == IgnitionInit /\ [][IgnitionNext]_vars
-----------------------------------------------------------------------------

\* However the calls of initialize end, PID 1 is installed at most once and
\* handed over at most once, by the call that succeeds; an error leaves no
\* process behind but where the activation or the release itself failed; and a
\* call after the successful one changes nothing (blacklab::initialize).
PidOneIsHandedOnce ==
    /\ state.installs <= 1 /\ state.handed <= 1
    /\ state.initialized <=> state.process = "handed"
    /\ state.initialized => state.nodes = 2
    /\ past.kind = "returned" =>
         /\ past.result \in {"refused", "incomplete", "plan"} => state.process = "none"
         /\ past.result = "activation" => state.process = "installed"
         /\ past.result = "already" <=> (state.initialized /\ past.call # 1
                                         /\ past.result # "ok")

\* Whatever pieces the bytes come in, the digest is that of the padded whole:
\* the bytes, the mark, zeros, and the length in bits (Sha256).
DigestIsOfTheWhole ==
    state.digest # <<>> =>
      LET n == state.hasher.total
          flat == FlattenSeq(state.digest)
          end == Len(flat)
      IN  /\ \A k \in 1 .. Len(state.digest) : Len(state.digest[k]) = Block
          /\ SubSeq(flat, 1, n) = Message(0, n)
          /\ flat[n + 1] = 128 /\ flat[end] = 8 * n
          /\ \A i \in n + 2 .. end - 1 : flat[i] = 0
          /\ end >= n + 1 + Block - LengthAt /\ end - (n + 1 + Block - LengthAt) < Block

\* What is materialized is the recipe of the one seed planted under the inode
\* and has its digest; bytes the digest refuses are not left in the target, and
\* the target beyond the artifact is untouched (FractalCatalog, verify_artifact).
ArtifactsAreMeasured ==
    /\ past.kind = "artifact" =>
         LET seed == CHOOSE s \in state.planted[past.inode] : TRUE
         IN  /\ past.good <=> MeasureRecipe(seed.recipe, seed.size) = seed.expected
             /\ \A i \in 1 .. past.room :
                  past.target[i] = IF i > seed.size THEN Dirty
                                   ELSE IF past.good THEN Unfold(seed.recipe, seed.size)[i]
                                        ELSE Zero
    /\ past.kind = "verified" => past.manifest.expected = MeasureRecipe(1, past.size)

\* Every edge joins nodes that are there, the transform chosen is the first of
\* least loss and latency, and the advice is for the first walkers that can move
\* on, marked truncated exactly when some were left out.
AdviceIsSound ==
    /\ state.part = "graph" => \A k \in DOMAIN state.edges : Range(state.edges[k]) \subseteq 0 .. state.nodes - 1
    /\ past.kind = "transform" =>
         past.best = {t \in ToSet(state.transforms) :
                        /\ t.meets
                        /\ \A u \in ToSet(state.transforms) :
                             u.meets => ~Cheaper(u, t) /\ (Cheaper(t, u) \/ t.at <= u.at)}
    /\ past.kind = "plan" =>
         LET movers == SelectSeq(past.walkers, LAMBDA w : w.ready /\ w.page < LastPage)
         IN  /\ past.plan.list = [k \in 1 .. Min({Len(movers), MaxAdvice}) |-> movers[k].page + 1]
             /\ past.plan.truncated <=> Len(movers) > MaxAdvice

\* The phase the field names is that of its loudest cell, and learning raises
\* the gain of that cell (eigenphase_bin and learn).
LearningFollowsTheLoudest ==
    past.kind = "learnt" => past.cell = past.loudest

\* Black Lab comes up whole: its process, digests, artifacts, advice and field.
LabComesUpWhole ==
    CASE state.part = "boot"    -> PidOneIsHandedOnce
      [] state.part = "digest"  -> DigestIsOfTheWhole
      [] state.part = "catalog" -> ArtifactsAreMeasured
      [] state.part = "field"   -> LearningFollowsTheLoudest
      [] OTHER                  -> AdviceIsSound

-----------------------------------------------------------------------------
(***************************************************************************)
(* Part AetherVm.                                                          *)
(* The programs that run inside the kernel without being its code:         *)
(*   "policy"   core/aether/src/policy.rs, PolicyVm: verified programs,    *)
(*              loaded while other processors run them;                    *)
(*   "capsule"  kernel/boulder/src/lab_capsule.rs, LabCapsule: a Black Lab *)
(*              program (blacklab_vm.rs) steers the resonance policy, and  *)
(*              batches of causal_policy.rs replace it, behind a fuse;     *)
(*   "effects"  core/aether/src/effect_program.rs: a sealed list of        *)
(*              effects, prepared against the state it was written for.    *)
(* Registers, metrics and checksums are reduced to one register, one       *)
(* metric and the contents the checksum covers.                            *)
(***************************************************************************)
(* PolicyVm.  An instruction is <<operation, operand>>; "move" stands for   *)
(* every operation that only computes, "bad" for one that does not decode.  *)
Straight == {"nop", "move"}
Branches == {"jump", "jz", "jnz"}
Empty == [i \in 1 .. MaximumInstructions |-> <<"return", 0>>]
Vacant == [code |-> Empty, length |-> 0, entry |-> 1, live |-> FALSE, generation |-> 0]
Stopped == [at |-> "idle", program |-> Vacant, pc |-> 1, register |-> 0, fuel |-> 0,
            result |-> <<"none">>]

branch_target(pc, relative) == pc + relative

InstructionOk(code, i) ==
    /\ code[i][1] \in Straight \cup Branches \cup {"call", "return"}
    /\ code[i][1] \in Branches => branch_target(i, code[i][2]) \in 1 .. Len(code)

verify(program) ==
    /\ Len(program.code) \in 1 .. MaximumInstructions
    /\ program.entry \in 1 .. Len(program.code)
    /\ \A i \in 1 .. Len(program.code) : InstructionOk(program.code, i)
    /\ \E i \in 1 .. Len(program.code) : program.code[i][1] = "return"

PolicyInit ==
    /\ state = [part |-> "policy", slot |-> Vacant, host |-> FALSE,
                run |-> [r \in Runners |-> Stopped]]
    /\ past = [loaded |-> <<>>, version |-> [r \in Runners |-> 0], argument |-> [r \in Runners |-> 0]]

RegisterHost ==
    /\ ~state.host
    /\ state' = [state EXCEPT !.host = TRUE]
    /\ UNCHANGED past

\* load copies over the front of the old code and leaves the rest of it.
Load(program) ==
    /\ verify(program) /\ Len(past.loaded) < MaxLoads
    /\ state' = [state EXCEPT !.slot =
            [code |-> [i \in 1 .. MaximumInstructions |->
                          IF i \in 1 .. Len(program.code) THEN program.code[i] ELSE @.code[i]],
             length |-> Len(program.code), entry |-> program.entry, live |-> TRUE,
             generation |-> @.generation + 1]]
    /\ past' = [past EXCEPT !.loaded = Append(@, program)]

\* run_with_fuel takes its copy of the slot under the lock.
Start(r, argument) ==
    /\ state.run[r].at = "idle" /\ state.slot.live
    /\ state' = [state EXCEPT !.run[r] =
            [at |-> "run", program |-> state.slot, pc |-> state.slot.entry,
             register |-> argument, fuel |-> Fuel, result |-> <<"none">>]]
    /\ past' = [past EXCEPT !.version[r] = Len(past.loaded), !.argument[r] = argument]

Ended(run, result) == [run EXCEPT !.at = "ended", !.result = result]

Fetchable(program, pc) == pc \in 1 .. MaximumInstructions /\ pc <= program.length

Fetched(run) == run.program.code[run.pc]

Jumps(operation, register) ==
    \/ operation = "jump"
    \/ operation = "jz" /\ register = 0
    \/ operation = "jnz" /\ register # 0

Executed(run, instruction) ==
    LET burnt == [run EXCEPT !.fuel = @ - 1]
        next == [burnt EXCEPT !.pc = @ + 1]
    IN  CASE instruction[1] = "nop" -> next
          [] instruction[1] = "move" -> [next EXCEPT !.register = instruction[2]]
          [] instruction[1] \in Branches ->
               IF Jumps(instruction[1], run.register)
               THEN [burnt EXCEPT !.pc = branch_target(run.pc, instruction[2])]
               ELSE next
          [] instruction[1] = "call" ->
               IF state.host THEN [next EXCEPT !.register = 1 - @] ELSE Ended(burnt, <<"no host">>)
          [] instruction[1] = "return" -> Ended(burnt, <<"value", run.register>>)

Step(r) ==
    LET run == state.run[r]
    IN  /\ run.at = "run"
        /\ state' = [state EXCEPT !.run[r] =
              IF run.fuel = 0 THEN Ended(run, <<"out of fuel">>)
              ELSE IF ~Fetchable(run.program, run.pc) THEN Ended(run, <<"bad counter">>)
              ELSE Executed(run, Fetched(run))]
        /\ UNCHANGED past

VmForget(r) ==
    /\ state.run[r].at = "ended"
    /\ state' = [state EXCEPT !.run[r] = Stopped]
    /\ UNCHANGED past

PolicyNext ==
    /\ state.part = "policy"
    /\ \/ RegisterHost
       \/ \E program \in Programs : Load(program)
       \/ \E r \in Runners : (\E argument \in {0, 1} : Start(r, argument)) \/ Step(r) \/ VmForget(r)

(* LabCapsule.  A policy is [heat, phase, flags]; a control is the function *)
(* from the fields the program set to their values.                         *)
DefaultPolicy == [heat |-> 1, phase |-> 0, flags |-> {}]

Valid(policy) ==
    /\ policy.heat \in 1 .. 2
    /\ policy.phase \in 0 .. 1
    /\ policy.flags \subseteq {"rephase", "clamp"}

TargetOk(target, pc, length) == ~(target <= pc \/ target > length)

LabVerify(program) ==
    /\ Len(program) \in 1 .. LabLength
    /\ \A pc \in 1 .. Len(program) : program[pc][1] = "jz" => TargetOk(program[pc][2], pc, Len(program))
    /\ \E pc \in 1 .. Len(program) : program[pc][1] = "halt"

NoControl == <<>>
SetField(control, field, value) ==
    [f \in (DOMAIN control) \cup {field} |-> IF f = field THEN value ELSE control[f]]

\* One turn of execute's loop; "pc" past the end is FellOffProgram.
LabStep(lab) ==
    LET instruction == lab.program[lab.pc]
        next == [lab EXCEPT !.pc = @ + 1, !.fuel = @ - 1]
    IN  IF lab.pc > Len(lab.program) THEN [lab EXCEPT !.at = "fell off"]
        ELSE IF lab.fuel = 0 THEN [lab EXCEPT !.at = "exhausted"]
        ELSE CASE instruction[1] = "load" -> [next EXCEPT !.register = instruction[2]]
               [] instruction[1] = "metric" -> [next EXCEPT !.register = lab.metric]
               [] instruction[1] = "jz" ->
                    IF lab.register = 0 THEN [next EXCEPT !.pc = instruction[2]] ELSE next
               [] instruction[1] = "set" ->
                    [next EXCEPT !.control = SetField(@, instruction[2], lab.register)]
               [] instruction[1] = "halt" -> [next EXCEPT !.at = "halted"]

NoLab == [at |-> "idle", program |-> <<>>, pc |-> 1, fuel |-> 0, register |-> 0, metric |-> 0,
          control |-> NoControl]
NoBatch == [at |-> "idle", epoch |-> 0, policy |-> DefaultPolicy]

CapsuleInit ==
    /\ \E program \in LabPrograms :
          /\ LabVerify(program)
          /\ state = [part |-> "capsule", program |-> program, policy |-> DefaultPolicy,
                      generation |-> 1, tripped |-> FALSE, rejections |-> 0,
                      lab |-> NoLab, current |-> DefaultPolicy, batch |-> NoBatch]
    /\ past = [refused |-> 0, spent |-> 0]

RequireLive == ~state.tripped

InstallProgram(program) ==
    /\ RequireLive /\ LabVerify(program)
    /\ state' = [state EXCEPT !.program = program]
    /\ UNCHANGED past

EvaluateBegin(metric) ==
    /\ state.lab.at = "idle" /\ RequireLive
    /\ state' = [state EXCEPT !.lab = [NoLab EXCEPT !.at = "run", !.program = state.program,
                                                   !.fuel = LabFuel, !.metric = metric]]
    /\ past' = [past EXCEPT !.spent = 0]

EvaluateRun ==
    /\ state.lab.at = "run"
    /\ state' = [state EXCEPT !.lab = LabStep(@)]
    /\ past' = [past EXCEPT !.spent = @ + 1]

Trips(count) == count >= MaximumRejections

\* reject, the end of an evaluation that went wrong.
Rejected == [state EXCEPT !.rejections = @ + 1, !.tripped = @ \/ Trips(state.rejections + 1),
                          !.lab = NoLab]

EvaluateFails ==
    /\ state.lab.at \in {"fell off", "exhausted"}
    /\ state' = Rejected
    /\ past' = [past EXCEPT !.refused = @ + 1]

EvaluateNothing ==
    /\ state.lab.at = "halted" /\ state.lab.control = NoControl
    /\ state' = [state EXCEPT !.lab = NoLab]
    /\ UNCHANGED past

EvaluateRead ==
    /\ state.lab.at = "halted" /\ state.lab.control # NoControl
    /\ state' = [state EXCEPT !.lab.at = "apply", !.current = state.policy]
    /\ UNCHANGED past

\* The flags whose bits a number has: bit 0 is POLICY_REPHASE.
FlagsOf(n) == IF n = 1 THEN {"rephase"} ELSE {}

\* The fields in the order of evaluate: phase sets REPHASE, flags replaces it.
Controlled(policy, control) ==
    LET Has(field) == field \in DOMAIN control
    IN  [heat |-> IF Has("heat") THEN control["heat"] ELSE policy.heat,
         phase |-> IF Has("phase") THEN control["phase"] ELSE policy.phase,
         flags |-> IF Has("flags") THEN FlagsOf(control["flags"])
                   ELSE IF Has("phase") THEN policy.flags \cup {"rephase"} ELSE policy.flags]

Unbounded(control) == \E field \in DOMAIN control : control[field] < 0

\* publish by the evaluation: it does not ask whether the policy moved on.
EvaluateApply ==
    LET next == Controlled(state.current, state.lab.control)
    IN  /\ state.lab.at = "apply"
        /\ \/ /\ Unbounded(state.lab.control)
              /\ state' = [state EXCEPT !.lab = NoLab]
              /\ UNCHANGED past
           \/ /\ ~Unbounded(state.lab.control) /\ ~Valid(next)
              /\ state' = Rejected
              /\ past' = [past EXCEPT !.refused = @ + 1]
           \/ /\ ~Unbounded(state.lab.control) /\ Valid(next) /\ next = state.current
              /\ state' = [state EXCEPT !.lab = NoLab]
              /\ UNCHANGED past
           \/ /\ ~Unbounded(state.lab.control) /\ Valid(next) /\ next # state.current
              /\ state.generation < VmMaxGeneration
              /\ state' = [state EXCEPT !.policy = next, !.generation = @ + 1,
                                        !.rejections = 0, !.lab = NoLab]
              /\ past' = [past EXCEPT !.refused = 0]

ResetFuse ==
    /\ state.tripped
    /\ state' = [state EXCEPT !.rejections = 0, !.tripped = FALSE]
    /\ past' = [past EXCEPT !.refused = 0]

apply_operation(policy, operation) ==
    CASE operation[1] = "heat" -> [policy EXCEPT !.heat = operation[2]]
      [] operation[1] = "phase" -> [policy EXCEPT !.phase = operation[2], !.flags = @ \cup {"rephase"}]
      [] operation[1] = "flags" -> [policy EXCEPT !.flags = operation[2]]
      [] operation[1] = "add" -> [policy EXCEPT !.flags = @ \cup operation[2]]
      [] operation[1] = "remove" -> [policy EXCEPT !.flags = @ \ operation[2]]

Applied(policy, operations) == FoldLeft(apply_operation, policy, operations)

DependenciesEarlier(operations) == \A i \in 1 .. Len(operations) : operations[i][3] \subseteq 1 .. (i - 1)

Compiles(batch, epoch, base) ==
    /\ batch.epoch = epoch /\ batch.operations # <<>> /\ DependenciesEarlier(batch.operations)
    /\ Valid(Applied(base, batch.operations))

BatchCompile(batch) ==
    /\ state.batch.at = "idle" /\ RequireLive
    /\ Compiles(batch, state.generation, state.policy)
    /\ state' = [state EXCEPT !.batch = [at |-> "compiled", epoch |-> state.generation,
                                         policy |-> Applied(state.policy, batch.operations)]]
    /\ UNCHANGED past

\* The epoch is read again, and the batch is given up when it has moved.
BatchObserve ==
    /\ state.batch.at = "compiled"
    /\ state' = [state EXCEPT !.batch = IF state.generation = @.epoch THEN [@ EXCEPT !.at = "publish"]
                                        ELSE NoBatch]
    /\ UNCHANGED past

BatchPublish ==
    /\ state.batch.at = "publish" /\ state.generation < VmMaxGeneration
    /\ state' = [state EXCEPT !.policy = state.batch.policy, !.generation = @ + 1, !.batch = NoBatch]
    /\ UNCHANGED past

CapsuleNext ==
    /\ state.part = "capsule"
    /\ \/ \E program \in LabPrograms : InstallProgram(program)
       \/ \E metric \in Metrics : EvaluateBegin(metric)
       \/ EvaluateRun \/ EvaluateFails \/ EvaluateNothing \/ EvaluateRead \/ EvaluateApply
       \/ ResetFuse
       \/ (\E batch \in Batches : BatchCompile(batch)) \/ BatchObserve \/ BatchPublish

(* EffectProgram.  An effect is [kind, amount, deps]; the checksum is the   *)
(* tuple of everything it covers.                                           *)
Checksum(program) ==
    <<program.generation, program.root, program.ceiling, program.effects>>
Unsealed == <<>>

EffectsInit ==
    /\ \E generation, root \in {1, 2}, ceiling \in Ceilings :
          state = [part |-> "effects", generation |-> generation, root |-> root, ceiling |-> ceiling,
                   effects |-> <<>>, checksum |-> Unsealed, prepared |-> {}]
    /\ past = [sealed |-> <<>>]

Push(effect) ==
    /\ Len(state.effects) < MaximumEffects
    /\ state' = [state EXCEPT !.effects = Append(@, effect), !.checksum = Unsealed, !.prepared = {}]
    /\ UNCHANGED past

Seal ==
    /\ state.checksum = Unsealed
    /\ state' = [state EXCEPT !.checksum = Checksum(state)]
    /\ past' = [sealed |-> state.effects]

validate_effect(effect) ==
    effect.kind \in {"charge", "credit"} => effect.amount # 0

NonNegative(n) == IF n < 0 THEN 0 ELSE n

Warmed(heat, effect) ==
    CASE effect.kind = "charge" -> heat + effect.amount
      [] effect.kind = "credit" -> NonNegative(heat - effect.amount)
      [] OTHER -> heat

Projected(effects, heat) == FoldLeft(Warmed, heat, effects)

HeatHolds(effects, heat, ceiling) ==
    \A i \in 1 .. Len(effects) : Projected(SubSeq(effects, 1, i), heat) <= ceiling

Preparable(generation, root, heat) ==
    /\ state.effects # <<>>
    /\ state.checksum = Checksum(state)
    /\ state.generation = generation /\ state.root = root
    /\ \A i \in 1 .. Len(state.effects) :
          state.effects[i].deps \subseteq 1 .. (i - 1) /\ validate_effect(state.effects[i])
    /\ HeatHolds(state.effects, heat, state.ceiling)

Prepare(generation, root, heat) ==
    /\ state.prepared = {} /\ Preparable(generation, root, heat)
    /\ state' = [state EXCEPT !.prepared = {[effects |-> state.effects, generation |-> generation,
                                             root |-> root, heat |-> heat]}]
    /\ UNCHANGED past

EffectsNext ==
    /\ state.part = "effects"
    /\ \/ \E effect \in Effects : Push(effect)
       \/ Seal
       \/ \E generation, root \in {1, 2}, heat \in Heats : Prepare(generation, root, heat)

VmInit == PolicyInit \/ CapsuleInit \/ EffectsInit

VmNext == PolicyNext \/ CapsuleNext \/ EffectsNext

VmSpec == VmInit /\ [][VmNext]_vars

-----------------------------------------------------------------------------
\* What a program gives by its own text: the run of `code` from `pc` with the
\* host function present or not; a counter outside the text is an error.
Outcome(code, entry, argument, host) ==
    LET go[fuel \in 0 .. Fuel, pc \in -4 .. (MaximumInstructions + 4), register \in 0 .. 1] ==
          IF fuel = 0 THEN <<"out of fuel">>
          ELSE IF pc \notin 1 .. Len(code) THEN <<"bad counter">>
          ELSE LET operation == code[pc][1]
                   operand == code[pc][2]
               IN  CASE operation = "nop" -> go[fuel - 1, pc + 1, register]
                     [] operation = "move" -> go[fuel - 1, pc + 1, operand]
                     [] operation \in Branches ->
                          go[fuel - 1, IF Jumps(operation, register) THEN pc + operand ELSE pc + 1, register]
                     [] operation = "call" ->
                          IF host THEN go[fuel - 1, pc + 1, 1 - register] ELSE <<"no host">>
                     [] operation = "return" -> <<"value", register>>
    IN  go[Fuel, entry, argument]

\* PolicyVm: "Each run takes an immutable snapshot, so an in-flight run completes
\* its original version": whatever is loaded meanwhile, and whatever an older and
\* longer program left behind in the slot, a run ends as the text it started on
\* says (with the host function there or not when it is first called).
RunsAreTheirVersion ==
    \A r \in Runners : state.run[r].at = "ended" =>
        LET program == past.loaded[past.version[r]]
        IN  \E host \in {FALSE, state.host} :
               state.run[r].result = Outcome(program.code, program.entry, past.argument[r], host)

\* LabCapsule: a verified program runs each of its instructions at most once and
\* never out of fuel; the policy is valid whoever published it and however the
\* evaluation and the batch interleave; and the fuse is blown exactly when
\* MAXIMUM_REJECTIONS evaluations were rejected since the last commit or reset.
CapsuleHolds ==
    /\ state.lab.at # "exhausted"
    /\ past.spent <= Len(state.lab.program) + 1 \/ state.lab.at = "idle"
    /\ Valid(state.policy)
    /\ state.tripped <=> past.refused >= MaximumRejections

\* EffectProgram: what prepare returns is the sealed list, every dependency before
\* the effect that names it, and the heat under the ceiling after every single
\* effect, so that applying them in order never overheats on the way.
PreparedIsSafe ==
    \A prepared \in state.prepared :
        /\ prepared.effects = past.sealed
        /\ \A i \in 1 .. Len(prepared.effects) :
              /\ \A d \in prepared.effects[i].deps : d < i
              /\ Projected(SubSeq(prepared.effects, 1, i), prepared.heat) <= state.ceiling
        /\ prepared.generation = state.generation /\ prepared.root = state.root

\* The three of them, each in its part.
VmIsBounded ==
    CASE state.part = "policy" -> RunsAreTheirVersion
      [] state.part = "capsule" -> CapsuleHolds
      [] state.part = "effects" -> PreparedIsSafe

=============================================================================
