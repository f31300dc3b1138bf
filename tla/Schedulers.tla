----------------------------- MODULE Schedulers -----------------------------
(***************************************************************************)
(* The schedulers of Boulder and the topology they place work on: the      *)
(* phase ring, the real-time task table, the bandit scheduler, the         *)
(* coupling matrix and the Kairos topology.  The parts share no state; a   *)
(* behaviour runs one of them.                                             *)
(***************************************************************************)
EXTENDS Integers, Sequences, FiniteSets, FiniteSetsExt, Folds, SequencesExt

CONSTANTS
    \* PhaseRing
    Tasks,              \* task of each pair, in the order of the pairs
    RingSlots, MomentSlots,
    Window,             \* ticks a moment stays open, 1024 in the heartbeat
    PhaseBins,          \* PHASE_BIN_COUNT
    WakeWeight,         \* 256 in score, next to the squared phase alignment
    AgeLimit,           \* 4096 in score
    MaxCredit,          \* u16::MAX, where wake_credit saturates
    MaxTick,            \* bound on heartbeats
    \* EdfScheduler
    TaskSet,          \* the RealTimeTasks callers offer: pid, computation, period
    Slots,            \* the indices of the task table, 1..MAXIMUM_REAL_TIME_TASKS
    UtilizationOne,   \* the fixed-point one of utilization_q32
    Delays,           \* how far in the future a first release may lie
    MaxTime,          \* bound on the modelled time
    \* Hydra
    HydraPids,        \* process identifiers (0 is the scheduler's "nobody")
    Cores,            \* core indices, 0..(number of cores - 1)
    Masks,            \* the affinity masks callers pass, as sets of cores
    NumaOf,           \* core -> NUMA node
    GossipInterval,   \* GOSSIP_INTERVAL_TICKS
    \* Eigenthread
    EigenPids,        \* process identifiers
    MaxEigenstates,   \* MAX_EIGENSTATES
    GroundStateTopN,  \* GROUND_STATE_TOPN
    Strengths,        \* coupling changes the counters report (fixed point)
    MaxCoupling,      \* MAX_COUPLING
    CouplingDecay,    \* COUPLING_DECAY, out of 64
    RediagInterval,   \* rediag_interval
    \* KairosTopology
    FirmwareTables,     \* [cpus, memory, io] the boot may find
    Threads,            \* threads of one process
    Requests,           \* [kind, required, optional] of a negotiation
    NativeFeatures,     \* features the kernel offers
    DriverFeatures,     \* features the driver negotiator always requires
    NativeBase,         \* features the native negotiator always requires
    MaximumCpus, MaximumRegions, MaximumDevices, MaximumDomains,
    AddressLimit,       \* one more than the largest address
    Totals              \* amounts of work to divide

VARIABLES
    state,      \* of the part a behaviour runs
    past        \* history the properties refer to

vars == <<state, past>>

-----------------------------------------------------------------------------
(***************************************************************************)
(* Part PhaseRing.                                                         *)
(* The task ring of ouroboros.rs and the scheduler of critical moments of  *)
(* kairos.rs, as the heartbeat of nexus_matrix.rs drives them: expired     *)
(* moments are retired, every live pair offers its task anew, and the ring *)
(* picks the task that runs next.  Each structure has a fixed number of    *)
(* slots, and the ring may be full when the scheduler is not.              *)
(***************************************************************************)
RingPairs == DOMAIN Tasks

Empty == [active |-> FALSE]

RingInit ==
    /\ state = [live |-> [p \in RingPairs |-> FALSE], phase |-> [p \in RingPairs |-> 0],
                moments |-> [m \in MomentSlots |-> Empty], ring |-> [r \in RingSlots |-> Empty], tick |-> 0]
    /\ past = [live |-> [p \in RingPairs |-> 0], next |-> {}]

\* The first active slot that holds the task, else the first free one; none when full.
SlotFor(slots, task) ==
    LET own == {i \in DOMAIN slots : slots[i].active /\ slots[i].task = task}
        free == {i \in DOMAIN slots : ~slots[i].active}
    IN  IF own # {} THEN {Min(own)} ELSE IF free # {} THEN {Min(free)} ELSE {}

\* ConstructiveRing::offer
RingOffer(ring, task, phase, now) ==
    [i \in RingSlots |->
        IF i \notin SlotFor(ring, task) THEN ring[i]
        ELSE IF ring[i].active THEN [ring[i] EXCEPT !.phase = phase, !.last = now]
        ELSE [active |-> TRUE, task |-> task, phase |-> phase, last |-> now, epoch |-> 0, credit |-> 1]]

\* KairosScheduler::offer takes the moment's slot before the ring may refuse the task.
KairosOffer(s, task, phase) ==
    IF SlotFor(s.moments, task) = {} THEN s
    ELSE [s EXCEPT !.moments = [m \in MomentSlots |->
                       IF m \in SlotFor(s.moments, task)
                       THEN [active |-> TRUE, task |-> task, closes |-> s.tick + Window] ELSE @[m]],
                   !.ring = RingOffer(@, task, phase, s.tick)]

\* retire_expired
Retired(s) ==
    LET expired == {m \in MomentSlots : s.moments[m].active /\ s.moments[m].closes < s.tick}
        tasks == {s.moments[m].task : m \in expired}
    IN  [s EXCEPT !.moments = [m \in MomentSlots |-> IF m \in expired THEN Empty ELSE @[m]],
                  !.ring = [r \in RingSlots |-> IF @[r].active /\ @[r].task \in tasks THEN Empty ELSE @[r]]]

RECURSIVE Offered(_, _)

\* The pairs offer in index order, each with its phase moved on by one.
Offered(s, p) ==
    IF p > Len(Tasks) THEN s
    ELSE Offered(IF ~s.live[p] THEN s
                 ELSE LET phase == (s.phase[p] + 1) % PhaseBins IN
                      KairosOffer([s EXCEPT !.phase[p] = phase], Tasks[p], phase), p + 1)

PhaseDistance(a, b) ==
    LET direct == IF a > b THEN a - b ELSE b - a IN Min({direct, PhaseBins - direct})

\* Coherence and mass are the same for every offer of the heartbeat.
Score(entry, reference, now) ==
    LET aligned == PhaseBins - PhaseDistance(entry.phase, reference) IN
    aligned * aligned + Min({now - entry.last, AgeLimit}) + entry.credit * WakeWeight

\* ConstructiveRing::select: of the best entries, max_by_key takes the last.
Selected(s, reference) ==
    LET active == {r \in RingSlots : s.ring[r].active}
        best == {r \in active : \A o \in active : Score(s.ring[o], reference, s.tick) <= Score(s.ring[r], reference, s.tick)}
    IN  IF active = {} THEN {} ELSE {Max(best)}

Heartbeat(reference) ==
    /\ state.tick < MaxTick
    /\ LET offered == Offered(Retired([state EXCEPT !.tick = @ + 1]), 1)
           chosen == Selected(offered, reference) IN
         /\ state' = [offered EXCEPT !.ring = [r \in RingSlots |->
                IF r \in chosen THEN [@[r] EXCEPT !.last = offered.tick, !.credit = IF @ = 0 THEN 0 ELSE @ - 1]
                ELSE @[r]]]
         /\ past' = [live |-> [p \in RingPairs |-> IF state.live[p] THEN offered.tick ELSE past.live[p]],
                     next |-> {offered.ring[r].task : r \in chosen}]

\* Pairs are entangled and collapse between heartbeats.
Entangle(p) ==
    /\ ~state.live[p]
    /\ state' = [state EXCEPT !.live[p] = TRUE]
    /\ past' = [past EXCEPT !.next = {}]

Collapse(p) ==
    /\ state.live[p]
    /\ state' = [state EXCEPT !.live[p] = FALSE]
    /\ past' = [past EXCEPT !.next = {}]

\* ExecutorHook::wake: tokens of an older epoch are ignored.
Wake(r, epoch) ==
    /\ state.ring[r].active
    /\ epoch >= state.ring[r].epoch
    /\ state.ring[r].credit < MaxCredit
    /\ state' = [state EXCEPT !.ring[r].epoch = epoch, !.ring[r].credit = @ + 1]
    /\ past' = [past EXCEPT !.next = {}]

RingNext ==
    \/ \E reference \in 0..PhaseBins-1 : Heartbeat(reference)
    \/ \E p \in RingPairs : Entangle(p) \/ Collapse(p)
    \/ \E r \in RingSlots, epoch \in 0..1 : Wake(r, epoch)

RingSpec == RingInit /\ [][RingNext]_vars

-----------------------------------------------------------------------------
\* The task a heartbeat selects belongs to a pair that was live no more than a window ago: a
\* collapsed pair's task leaves the ring with its moment, also when the ring was full in
\* between.
SelectedWasLive ==
    \A task \in past.next : \E p \in RingPairs : Tasks[p] = task /\ past.live[p] + Window >= state.tick

\* A task is in the ring at most once, and only while it has an open moment, so that retiring
\* the moment removes it.
RingFollowsMoments ==
    /\ \A a, b \in RingSlots : a # b /\ state.ring[a].active /\ state.ring[b].active
         => state.ring[a].task # state.ring[b].task
    /\ \A r \in RingSlots : state.ring[r].active =>
         \E m \in MomentSlots : state.moments[m].active /\ state.moments[m].task = state.ring[r].task

-----------------------------------------------------------------------------
(***************************************************************************)
(* Part EdfScheduler.                                                      *)
(* The earliest-deadline-first scheduler of kernel/boulder/src/scheduler/  *)
(* rtos.rs: a table of implicit-deadline periodic tasks, an admission test *)
(* in fixed point, the release of due jobs and the choice of the earliest  *)
(* deadline.  The processor runs what next_task returns for one quantum    *)
(* and accounts for it; tasks may be admitted between any two quanta.      *)
(***************************************************************************)
\* TaskSlot::EMPTY: the inactive slot.
EmptySlot ==
  [active |-> FALSE, pid |-> 0, computation |-> 0, period |-> 0,
   release |-> 0, deadline |-> 0, budget |-> 0]

EdfInit ==
  /\ state = [tasks |-> [s \in Slots |-> EmptySlot], utilization |-> 0, now |-> 0]
  /\ past = [missed |-> FALSE]

Active == {s \in Slots : state.tasks[s].active}

\* utilization_q32: the share of the processor, rounded up.
Utilization(task) ==
  (task.computation * UtilizationOne + task.period - 1) \div task.period


\* The checks of admit_task in their order; the first free slot takes the task.
Admissible(task) ==
  /\ task.pid # 0 /\ task.computation # 0 /\ task.period # 0
  /\ task.computation <= task.period
  /\ \A s \in Active : state.tasks[s].pid # task.pid
  /\ state.utilization + Utilization(task) <= UtilizationOne
  /\ Active # Slots

AdmitTask ==
  \E task \in TaskSet, delay \in Delays :
    LET slot == CHOOSE s \in Slots \ Active : \A t \in Slots \ Active : s <= t
    IN  /\ Admissible(task)
        /\ state' = [state EXCEPT
             !.tasks[slot] =
               [active |-> TRUE, pid |-> task.pid, computation |-> task.computation,
                period |-> task.period, release |-> state.now + delay,
                deadline |-> 0, budget |-> 0],
             !.utilization = @ + Utilization(task)]
        /\ UNCHANGED past

\* The job of a slot is late when release_due_tasks looks at it.
Late(slot) ==
  \/ slot.budget # 0 /\ state.now > slot.deadline
  \/ /\ state.now >= slot.release
     /\ \/ slot.budget # 0
        \/ (state.now - slot.release) \div slot.period # 0

\* release_due_tasks on one slot: a due job gets its deadline and its budget.
Released(slot) ==
  IF slot.active /\ state.now >= slot.release
  THEN [slot EXCEPT !.deadline = slot.release + slot.period,
                    !.release = slot.release + slot.period,
                    !.budget = slot.computation]
  ELSE slot

\* next_task: the slots with work left whose deadline is the earliest, and of
\* these the first (min_by_key keeps the first minimum).
Earliest(tasks) ==
  LET ready == {s \in Slots : tasks[s].active /\ tasks[s].budget # 0}
  IN  {s \in ready : \A t \in ready :
         \/ tasks[s].deadline < tasks[t].deadline
         \/ tasks[s].deadline = tasks[t].deadline /\ s <= t}

\* One quantum: the releases, the choice, one unit of execution and
\* account_runtime.  A late job ends the run with DeadlineMissed.
Quantum ==
  /\ state.now < MaxTime
  /\ ~past.missed
  /\ LET tasks == [s \in Slots |-> Released(state.tasks[s])]
         ran == Earliest(tasks)
         after == [s \in Slots |->
                     IF s \in ran THEN [tasks[s] EXCEPT !.budget = @ - 1] ELSE tasks[s]]
         late == \E s \in Active : Late(state.tasks[s])
         overrun == \E s \in ran :
                      after[s].budget # 0 /\ state.now + 1 > after[s].deadline
     IN  /\ state' = [state EXCEPT !.tasks = IF late THEN @ ELSE after, !.now = @ + 1]
         /\ past' = [missed |-> late \/ overrun]

EdfNext == AdmitTask \/ Quantum

EdfSpec == EdfInit /\ [][EdfNext]_vars

-------------------------------------------------------------------------------

(***************************************************************************)
(* Admission is a promise (admit_task and next_task of rtos.rs): whatever  *)
(* tasks were admitted, and whenever, a processor that runs the task       *)
(* next_task names never meets DeadlineMissed.                             *)
(***************************************************************************)
DeadlinesAreMet == ~past.missed

-----------------------------------------------------------------------------
(***************************************************************************)
(* Part Hydra.                                                             *)
(* The bandit scheduler of kernel/boulder/src/scheduler/hydra.rs: one run  *)
(* queue and one local model (a map of "arms") per core, admission to the  *)
(* least loaded core the affinity mask allows, a tick in which every core  *)
(* selects, idle cores steal and, every few ticks, neighbours gossip.  The *)
(* sampled scores are floating point: which runnable process wins is left  *)
(* to chance.                                                              *)
(***************************************************************************)
\* Hydra::new; arms[c] are the pids core c has a local arm for, global the
\* affinity of every admitted process, idle the cores past the stealing delay.
HydraInit ==
  /\ state = [queue |-> [c \in Cores |-> <<>>], arms |-> [c \in Cores |-> {}],
              global |-> <<>>, idle |-> {}, current |-> [c \in Cores |-> 0], tick |-> 0]
  /\ past = [late |-> {}]

Admitted == DOMAIN state.global

Queued(queue, core) == Range(queue[core])

\* best_core_for: the least load, a foreign NUMA node counting as 1000, among
\* the cores of the mask; the first core when the mask names none.
BestCoreFor(mask, numa) ==
  LET load(c) == Len(state.queue[c]) + IF NumaOf[c] = numa THEN 0 ELSE 1000
      allowed == Cores \cap mask
      best == {c \in allowed : \A d \in allowed :
                 load(c) < load(d) \/ (load(c) = load(d) /\ c <= d)}
  IN  IF best = {} THEN 0 ELSE CHOOSE c \in best : TRUE

\* admit for a process the scheduler does not hold.
HydraAdmit ==
  \E pid \in HydraPids \ Admitted, mask \in Masks, numa \in Range(NumaOf) :
    LET core == BestCoreFor(mask, numa)
    IN  /\ state' = [state EXCEPT
             !.global = [p \in Admitted \union {pid} |-> IF p = pid THEN mask ELSE @[p]],
             !.queue[core] = Append(@, pid),
             !.arms[core] = @ \union {pid}]
        /\ past' = [past EXCEPT !.late = @ \ {pid}]

Terminate ==
  \E pid \in Admitted :
    /\ state' = [state EXCEPT
         !.global = [p \in Admitted \ {pid} |-> @[p]],
         !.queue = [c \in Cores |-> SelectSeq(@[c], LAMBDA p : p # pid)],
         !.arms = [c \in Cores |-> @[c] \ {pid}]]
    /\ UNCHANGED past

\* record_completion: the quantum's outcome reaches the core that ran it, which
\* creates the arm it needs; the process may have been terminated meanwhile.
RecordCompletion ==
  \E core \in Cores :
    LET pid == state.current[core]
    IN  /\ pid # 0
        /\ state' = [state EXCEPT !.arms[core] = @ \union {pid}, !.current[core] = 0]
        /\ past' = [past EXCEPT !.late = IF pid \in Admitted THEN @ ELSE @ \union {pid}]

\* work_steal for one idle core: the first process of the busy core's queue
\* that may run on the idle core moves there.  (No process is ever pinned.)
Stolen(queue, busy, idle) ==
  LET movable == SelectSeq(queue[busy], LAMBDA p : idle \in state.global[p])
      pid == Head(movable)
  IN  IF movable = <<>> THEN queue
      ELSE [queue EXCEPT ![busy] = SelectSeq(@, LAMBDA p : p # pid), ![idle] = Append(@, pid)]

\* work_steal: loads, idle and busy cores are measured once; every idle core
\* then steals from the first busy one.
WorkSteal(queue, idle) ==
  LET total == MapThenSumSet(LAMBDA c : Len(queue[c]), Cores)
      average == total \div Cardinality(Cores)
      thieves == SetToSortSeq({c \in idle : queue[c] = <<>>}, <)
      busy == {c \in Cores : Len(queue[c]) > average + 1}
  IN  IF busy = {} THEN queue
      ELSE FoldLeft(LAMBDA q, c : Stolen(q, Min(busy), c), queue, thieves)

\* gossip_round: every core merges the arms its neighbour had before the round.
Gossip(arms) ==
  [c \in Cores |-> arms[c] \union arms[(c + 1) % Cardinality(Cores)]]

\* tick: a core with an empty queue grows idle (never to be reset), another
\* selects one of its queue and keeps an arm for each; then the stealing and,
\* at the interval, the gossip.
HydraTick ==
  \E choice \in [Cores -> HydraPids \union {0}] :
    LET idle == state.idle \union {c \in Cores : state.queue[c] = <<>>}
        queue == WorkSteal(state.queue, idle)
        arms == [c \in Cores |-> state.arms[c] \union Queued(state.queue, c)
                                   \union Queued(queue, c)]
    IN  /\ \A c \in Cores :
             choice[c] \in IF state.queue[c] = <<>> THEN {0} ELSE Queued(state.queue, c)
        /\ state' = [state EXCEPT
             !.queue = queue, !.idle = idle,
             !.current = [c \in Cores |-> IF choice[c] = 0 THEN @[c] ELSE choice[c]],
             !.tick = (@ + 1) % GossipInterval,
             !.arms = IF (state.tick + 1) % GossipInterval = 0 THEN Gossip(arms) ELSE arms]
        /\ UNCHANGED past

HydraNext == HydraAdmit \/ Terminate \/ RecordCompletion \/ HydraTick

HydraSpec == HydraInit /\ [][HydraNext]_vars

-------------------------------------------------------------------------------

(***************************************************************************)
(* Placement (admit, terminate and work_steal of hydra.rs): whatever is    *)
(* admitted, stolen and terminated, each admitted process waits in exactly *)
(* one run queue, once, on a core its affinity allows whenever it allows   *)
(* one, and no queue holds a terminated process; so no tick, where each    *)
(* core takes from its own queue, runs one process on two cores.           *)
(***************************************************************************)
PlacedExactlyOnce ==
  /\ \A pid \in Admitted :
       LET homes == {c \in Cores : pid \in Queued(state.queue, c)}
       IN  /\ Cardinality(homes) = 1
           /\ \A c \in homes :
                /\ Cardinality({i \in DOMAIN state.queue[c] : state.queue[c][i] = pid}) = 1
                /\ state.global[pid] \cap Cores # {} => c \in state.global[pid]
  /\ \A c \in Cores : Queued(state.queue, c) \subseteq Admitted

(***************************************************************************)
(* Forgetting (terminate, gossip_round and record_completion of hydra.rs): *)
(* gossip never brings back the arm of a terminated process; only a        *)
(* completion reported after the termination leaves one behind.            *)
(***************************************************************************)
DeadAreForgotten ==
  \A c \in Cores : state.arms[c] \subseteq Admitted \union past.late

-----------------------------------------------------------------------------
(***************************************************************************)
(* Part Eigenthread.                                                       *)
(* The Hamiltonian scheduler of kernel/boulder/src/scheduler/eigenthread.  *)
(* rs: processes in a vector, a symmetric matrix indexed by position whose *)
(* off-diagonal entries are the couplings measured between processes, and  *)
(* a tick that rebuilds the matrix and, every rediag_interval ticks,       *)
(* solves it for the ground set.  The power iteration is numerics: what it *)
(* is given is modelled, which processes it ranks first is left to chance. *)
(***************************************************************************)
Indices == 1..MaxEigenstates

EigenPairs == {p \in Indices \X Indices : p[1] # p[2]}

\* Eigenthread::new and Hamiltonian::new.
EigenInit ==
  /\ state = [processes |-> <<>>, h |-> [p \in EigenPairs |-> 0], dim |-> 0,
              ground |-> <<>>, tick |-> 0]
  /\ past = {}

Members(processes) == Range(processes)

\* admit: beyond the matrix's dimension the process is silently left out.
EigenAdmit ==
  \E pid \in EigenPids \ Members(state.processes) :
    /\ Len(state.processes) < MaxEigenstates
    /\ state' = [state EXCEPT !.processes = Append(@, pid)]
    /\ UNCHANGED past

\* remove: the later processes move up; the matrix is left as it is.
RemoveProcess ==
  \E pid \in Members(state.processes) :
    /\ state' = [state EXCEPT !.processes = SelectSeq(@, LAMBDA p : p # pid)]
    /\ UNCHANGED past

Clamp(value) ==
  IF value > MaxCoupling THEN MaxCoupling
  ELSE IF value < -MaxCoupling THEN -MaxCoupling ELSE value

PositionOf(pid) == CHOOSE i \in DOMAIN state.processes : state.processes[i] = pid

Coupled(h, i, j, value) == [h EXCEPT ![<<i, j>>] = value, ![<<j, i>>] = value]

\* record_cache_sharing and record_io_contention: add_coupling on both entries
\* of the pair, when the matrix's dimension reaches them.
RecordCoupling ==
  \E a, b \in Members(state.processes), delta \in Strengths :
    LET i == PositionOf(a)
        j == PositionOf(b)
        value == Clamp(state.h[<<i, j>>] + delta)
    IN  /\ i # j /\ i <= state.dim /\ j <= state.dim
        /\ state' = [state EXCEPT !.h = Coupled(@, i, j, value)]
        /\ UNCHANGED past

\* decay_couplings: the integer division truncates towards zero.
Decayed(value) ==
  IF value >= 0 THEN (value * CouplingDecay) \div 64 ELSE -((-value * CouplingDecay) \div 64)

\* reset: every entry of the matrix becomes zero.
Reset == [p \in EigenPairs |-> 0]

\* tick: the matrix is reset to the current dimension and its diagonal rebuilt,
\* the couplings decay and, at the interval, the matrix is solved: the ground
\* set are the pids ranked first.
EigenTick ==
  LET processes == state.processes
      dim == Len(processes)
      h == [p \in EigenPairs |-> Decayed(Reset[p])]
      solving == (state.tick + 1) % RediagInterval = 0
  IN  \E ground \in SetToSeqs(Members(processes)) :
        /\ dim # 0
        /\ state' = [state EXCEPT !.tick = (@ + 1) % RediagInterval, !.dim = dim, !.h = h,
             !.ground = IF solving THEN SubSeq(ground, 1, IF dim < GroundStateTopN THEN dim
                                                          ELSE GroundStateTopN)
                        ELSE @]
        /\ past' = IF solving THEN Members(processes) ELSE past

EigenNext == EigenAdmit \/ RemoveProcess \/ RecordCoupling \/ EigenTick

EigenSpec == EigenInit /\ [][EigenNext]_vars

-----------------------------------------------------------------------------
\* The matrix the solver is given stays a symmetric one, with no coupling at a position
\* beyond the processes of the last tick, although processes leave and the later ones move
\* up without it; and the ground set names processes of the last solution, none of them twice.
MatrixIsSymmetric ==
  /\ \A p \in EigenPairs : state.h[p] = state.h[<<p[2], p[1]>>]
  /\ \A p \in EigenPairs : p[1] > state.dim => state.h[p] = 0
  /\ Members(state.ground) \subseteq past
  /\ \A i, j \in DOMAIN state.ground : state.ground[i] = state.ground[j] => i = j

-----------------------------------------------------------------------------
(***************************************************************************)
(* Part KairosTopology.                                                    *)
(* Kairos: the machine profile the kernel builds once from the firmware's  *)
(* tables (core/kairos, kernel kairos.rs), the reply its query call writes *)
(* into a process's slot, and the client that negotiates an ABI, validates *)
(* the reply and divides work by it (slope kairos.rs).  This kernel's boot *)
(* reports every processor in NUMA domain 0; the profile and the topology  *)
(* take any domain, and the tables here name several.                      *)
(***************************************************************************)
\* RawTopologyReply::zeroed: entries the kernel has not written read as zero.
ZeroReply == [cpus |-> 0, domains |-> 0, flags |-> {}, cpu |-> <<>>, domain |-> <<>>]

TopologyInit ==
    /\ \E f \in FirmwareTables :
         state = [firmware |-> f, kernel |-> "Booting", domains |-> <<>>,
                  claimed |-> FALSE, reply |-> ZeroReply, storage |-> {},
                  thread |-> [t \in Threads |-> [pc |-> "Start", features |-> {}]]]
    /\ past = [refused |-> FALSE]

-----------------------------------------------------------------------------
\* The kernel.

Distinct(s, Key(_)) == \A i, j \in DOMAIN s : i # j => Key(s[i]) # Key(s[j])

\* push_cpu, push_memory and push_io accept every entry of the tables.
TablesAccepted(f) ==
    /\ Len(f.cpus) <= MaximumCpus
    /\ Distinct(f.cpus, LAMBDA c : c.hardware)
    /\ Len(f.memory) <= MaximumRegions
    /\ \A i \in DOMAIN f.memory : f.memory[i].length > 0 /\ f.memory[i].base + f.memory[i].length < AddressLimit
    /\ \A i, j \in DOMAIN f.memory : i < j =>
         \/ f.memory[i].base + f.memory[i].length <= f.memory[j].base
         \/ f.memory[j].base + f.memory[j].length <= f.memory[i].base
    /\ Len(f.io) <= MaximumDevices
    /\ Distinct(f.io, LAMBDA d : <<d.bus, d.device, d.function>>)
    /\ \A i \in DOMAIN f.io : f.io[i].device < 32 /\ f.io[i].function < 8

\* Logical identifiers, counted from 0, of the enabled processors.
EnabledIds(cpus) == SelectSeq([i \in 1..Len(cpus) |-> i - 1], LAMBDA id : cpus[id + 1].enabled)

DomainId(numa) == numa + 1

\* DomainGraph::rebuild: the machine, then a domain for each NUMA number as it first appears.
Rebuild(cpus) ==
    LET ids == EnabledIds(cpus)
        numas == FoldLeft(LAMBDA seen, id : IF \E i \in DOMAIN seen : seen[i] = cpus[id + 1].numa THEN seen
                                            ELSE Append(seen, cpus[id + 1].numa), <<>>, ids)
    IN  <<[id |-> 0, kind |-> "Machine", parent |-> {}, members |-> ids]>>
        \o [k \in 1..Len(numas) |->
              [id |-> DomainId(numas[k]), kind |-> "Numa", parent |-> {0},
               members |-> SelectSeq(ids, LAMBDA id : cpus[id + 1].numa = numas[k])]]

Traits(f) ==
    LET enabled == {f.cpus[i] : i \in {i \in DOMAIN f.cpus : f.cpus[i].enabled}}
        kinds == {f.memory[i].kind : i \in DOMAIN f.memory}
    IN  (IF Len(EnabledIds(f.cpus)) > 1 THEN {"SMP"} ELSE {})
        \cup (IF Cardinality({c.numa : c \in enabled}) > 1 THEN {"NUMA"} ELSE {})
        \cup (IF Cardinality({c.kind : c \in enabled}) > 1 THEN {"HETEROGENEOUS"} ELSE {})
        \cup (IF \E c \in enabled : c.kind = "Offload" THEN {"OFFLOAD"} ELSE {})
        \cup (kinds \cap {"Persistent", "Shared"})

\* A failed initialize halts the machine.
Initialize ==
    /\ state.kernel = "Booting"
    /\ LET f == state.firmware
           domains == Rebuild(f.cpus)
           accepted == TablesAccepted(f) /\ EnabledIds(f.cpus) # <<>> /\ Len(domains) <= MaximumDomains IN
         state' = [state EXCEPT !.kernel = IF accepted THEN "Ready" ELSE "Halted",
                                !.domains = IF accepted THEN domains ELSE <<>>]
    /\ UNCHANGED past

\* negotiate_request, for a request whose layout is the machine's own.
NegotiateRequest(kind, requested) ==
    IF kind \notin {"Native", "Driver"} THEN [status |-> 1, granted |-> {}, unavailable |-> {}]
    ELSE [status |-> 0, granted |-> NativeFeatures \cap requested, unavailable |-> requested \ NativeFeatures]

-----------------------------------------------------------------------------
\* A thread of the process.

At(t, pc) == state.thread[t].pc = pc

Goto(s, t, pc) == [s EXCEPT !.thread[t].pc = pc]

Required(r) == r.required \cup IF r.kind = "Driver" THEN DriverFeatures ELSE NativeBase

Negotiate(t, r) ==
    /\ state.kernel # "Halted"
    /\ At(t, "Start")
    /\ LET reply == NegotiateRequest(r.kind, Required(r) \cup r.optional) IN
         /\ reply.status = 0
         /\ reply.granted \subseteq Required(r) \cup r.optional
         /\ Required(r) \subseteq reply.granted
         /\ state' = [Goto(state, t, "Query") EXCEPT !.thread[t].features = reply.granted]
    /\ UNCHANGED past

\* RawQuerySlot::acquire; a busy slot and a kernel that is not ready send the thread back.
Acquire(t) ==
    /\ At(t, "Query") /\ state.kernel = "Ready"
    /\ state' = IF state.claimed THEN Goto(state, t, "Start")
                ELSE [Goto(state, t, "Header") EXCEPT !.claimed = TRUE]
    /\ UNCHANGED past

\* The call writes the header first and then entry after entry, straight into the slot.
WriteHeader(t) ==
    /\ At(t, "Header")
    /\ state' = [Goto(state, t, "Entries") EXCEPT
           !.reply.cpus = Len(state.firmware.cpus), !.reply.domains = Len(state.domains),
           !.reply.flags = Traits(state.firmware)]
    /\ UNCHANGED past

WriteEntries(t) ==
    /\ At(t, "Entries")
    /\ state' = [Goto(state, t, "Validate") EXCEPT
           !.reply.cpu = [i \in DOMAIN state.firmware.cpus |->
               [logical |-> i - 1, numa |-> state.firmware.cpus[i].numa,
                kind |-> state.firmware.cpus[i].kind, enabled |-> state.firmware.cpus[i].enabled]],
           !.reply.domain = state.domains]
    /\ UNCHANGED past

\* TopologySnapshot::from_raw.
Valid(reply) ==
    /\ reply.cpus \in 1..MaximumCpus /\ reply.domains \in 1..MaximumDomains
    /\ Len(reply.cpu) = reply.cpus /\ Distinct(reply.cpu, LAMBDA c : c.logical)
    /\ Len(reply.domain) = reply.domains /\ Distinct(reply.domain, LAMBDA d : d.id)
    /\ \A i \in DOMAIN reply.domain :
         LET d == reply.domain[i] IN
         /\ Distinct(d.members, LAMBDA m : m)
         /\ \A m \in DOMAIN d.members : \E c \in DOMAIN reply.cpu : reply.cpu[c].logical = d.members[m]
         /\ \A p \in d.parent : \E j \in DOMAIN reply.domain : reply.domain[j].id = p

\* query_ref keeps the snapshot for the life of the process; the guard is dropped on return.
Validate(t) ==
    /\ At(t, "Validate")
    /\ state' = [Goto(state, t, IF Valid(state.reply) THEN "Ready" ELSE "Start") EXCEPT
           !.claimed = FALSE,
           !.storage = IF Valid(state.reply) THEN {state.reply} ELSE @]
    /\ past' = [past EXCEPT !.refused = @ \/ ~Valid(state.reply)]

TopologyNext ==
    \/ Initialize
    \/ \E t \in Threads :
         \/ \E r \in Requests : Negotiate(t, r)
         \/ Acquire(t) \/ WriteHeader(t) \/ WriteEntries(t) \/ Validate(t)

TopologySpec == TopologyInit /\ [][TopologyNext]_vars

-----------------------------------------------------------------------------
\* Work divided over the domains of a snapshot.

EnabledMembers(snapshot, d) ==
    Cardinality({m \in DOMAIN d.members : \E c \in DOMAIN snapshot.cpu :
                    snapshot.cpu[c].logical = d.members[m] /\ snapshot.cpu[c].enabled})

Chunk(total, weight, weights) ==
    (total \div weights) * weight + ((total % weights) * weight) \div weights

\* partition_work: the sizes of the slices, one for each NUMA domain with an enabled processor.
PartitionWork(snapshot, total) ==
    LET shared == SelectSeq(snapshot.domain, LAMBDA d : d.kind = "Numa" /\ EnabledMembers(snapshot, d) > 0)
        weight == [i \in DOMAIN shared |-> EnabledMembers(snapshot, shared[i])]
        weights == FoldLeft(+, 0, weight)
        base == [i \in DOMAIN shared |-> Chunk(total, weight[i], weights)]
        rest == total - FoldLeft(+, 0, base)
    IN  IF weights = 0 THEN <<[size |-> total, weight |-> 1]>>
        ELSE [i \in DOMAIN shared |-> [size |-> base[i] + (IF i <= rest THEN 1 ELSE 0), weight |-> weight[i]]]

-----------------------------------------------------------------------------
\* The client never refuses what a ready kernel serves, whoever else queries at the same time,
\* and what it keeps is the kernel's own topology, entry by entry.
TopologyIsServedWhole ==
    /\ ~past.refused
    /\ \A snapshot \in state.storage :
         /\ snapshot.domain = state.domains
         /\ \A i \in DOMAIN state.firmware.cpus : snapshot.cpu[i].numa = state.firmware.cpus[i].numa

\* partition_work hands out exactly the work there is: the slices add up to it, and none is
\* more than one unit from the share of its processors.
PartitionIsExact ==
    \A snapshot \in state.storage, total \in Totals :
        LET slices == PartitionWork(snapshot, total)
            weights == FoldLeft(LAMBDA a, s : a + s.weight, 0, slices)
        IN  /\ FoldLeft(LAMBDA a, s : a + s.size, 0, slices) = total
            /\ \A i \in DOMAIN slices :
                 /\ slices[i].size * weights <= total * slices[i].weight + weights
                 /\ total * slices[i].weight <= slices[i].size * weights + weights

=============================================================================
