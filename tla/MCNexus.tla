------------------------------ MODULE MCNexus ------------------------------
(***************************************************************************)
(* The Nexus plane: the tick queue that drives it, the leases its commands *)
(* are admitted with, and the runtime itself.  They share no state, so     *)
(* each behaviour runs one of them.  Queue: two contexts, a cap of two     *)
(* ticks and more interrupts than the cap.  Leases, twice: four issues in  *)
(* three slots, which give a chain of three leases and a child that        *)
(* outlives its parent's slot; and rights and lifetimes varied over three  *)
(* issues.  Runtime: three checkpoints in a vault of two, pairs up to the  *)
(* charge, and two policies, one of which rephases.  Axioms, twice: two    *)
(* calls of submit, with a transfer that is lawful once and a thermal      *)
(* exchange that has a deadline; and three transfers over two slots.       *)
(* Pages: three contexts on a policy constellation through three           *)
(* publications, and a writer and a reader on each of the shared pages.    *)
(***************************************************************************)
EXTENDS NexusDeferred, PolicyConstellation, AetherPages, TLC

CONSTANTS a, b, n1, n2

VARIABLES focus, records, now, grants, matrix, charge, vault, reactor, cert, echoes, drive,
          cells, root, slots, frontiers, counters, clock, calls,
          plane, past

TwoRights == {"delegate", "observe"}

Tree == INSTANCE LeaseLattice WITH
    Slots <- 0 .. 2, Rights <- TwoRights, RightSets <- {TwoRights}, Tags <- {1},
    Generations <- 8, MaximumDepth <- 2, Ticks <- {0}, Expiries <- {1},
    Quotas <- 1 .. 2, MaxIssues <- 4, RootParent <- 65535

Limits == INSTANCE LeaseLattice WITH
    Slots <- 0 .. 2, Rights <- TwoRights,
    RightSets <- {{"delegate"}, {"observe"}, TwoRights}, Tags <- {1},
    Generations <- 8, MaximumDepth <- 2, Ticks <- 0 .. 1, Expiries <- 1 .. 2,
    Quotas <- {1}, MaxIssues <- 3, RootParent <- 65535

Runtime == INSTANCE NexusRuntime WITH
    Pairs <- 1 .. 2, Costs <- {8}, MaxCharge <- 16,
    Policies <- {[setting |-> 1, rephase |-> FALSE, ceiling |-> 16],
                 [setting |-> 0, rephase |-> TRUE, ceiling |-> 8]},
    VaultSlots <- 0 .. 1, MaxEchoes <- 1, MaxCheckpoints <- 3, MaxDrives <- 2

\* The two drafts of stage_numa_rebalance, the first without its version reads.
Transfer ==
    [kind |-> "compute", priority |-> 240, required |-> 1, deadline |-> 0,
     reads |-> [c \in {} |-> 0],
     writes |-> [numa_zero |-> [op |-> "AddSigned", operand |-> -1],
                 numa_one |-> [op |-> "AddSigned", operand |-> 1]]]

Reconciliation ==
    [kind |-> "thermal", priority |-> 224, required |-> 0, deadline |-> 1,
     reads |-> [thermal |-> 1],
     writes |-> [thermal |-> [op |-> "CompareExchange", operand |-> 1, expected |-> 2]]]

Axioms == INSTANCE AxiomManifold WITH
    Slots <- 0 .. 1, Nodes <- {n1, n2}, MaxCalls <- 2, Drafts <- {Transfer, Reconciliation},
    WallTicks <- {1}, Ticks <- 1 .. 2,
    Seeds <- [numa_zero |-> 2, numa_one |-> 2, thermal |-> 2, dma |-> 1, floor |-> 0],
    TotalComputeCredits <- 4, MaxSingleNumaCredits <- 3, MaxDmaReserve <- 2,
    ThermalFloor <- 1, ThermalCeiling <- 2, ValueMax <- 9, GenerationMax <- 4, MaxStamps <- 2

\* A third transaction, which takes the slot of an earlier one.
Reuse == INSTANCE AxiomManifold WITH
    Slots <- 0 .. 1, Nodes <- {n1, n2}, MaxCalls <- 2, Drafts <- {[Transfer EXCEPT !.deadline = 1]},
    WallTicks <- {1}, Ticks <- 1 .. 2,
    Seeds <- [numa_zero |-> 2, numa_one |-> 2, thermal |-> 2, dma |-> 1, floor |-> 0],
    TotalComputeCredits <- 4, MaxSingleNumaCredits <- 3, MaxDmaReserve <- 2,
    ThermalFloor <- 1, ThermalCeiling <- 2, ValueMax <- 9, GenerationMax <- 4, MaxStamps <- 3

Sample(tick) == [tick |-> tick, resource |-> 1]

Pattern(kind, severity) == [kind |-> kind, severity |-> severity, subjects |-> 1 .. 2]

\* One rule of each mode.
LabRules ==
    [plan |-> [mode |-> "LeadsTo", trigger |-> Pattern("telemetry", 3),
               target |-> Pattern("intervention", 0), horizon |-> 1, correlate |-> TRUE],
     rate |-> [mode |-> "RateLimit", target |-> Pattern("telemetry", 0), horizon |-> 9, maximum |-> 1],
     calm |-> [mode |-> "Inhibits", trigger |-> Pattern("telemetry", 3),
               target |-> Pattern("intervention", 0), horizon |-> 2, correlate |-> TRUE]]

Window(object, from, until) == [object |-> object, from |-> from, until |-> until, pages |-> 1]

Tomb(object, first, count, epoch) ==
    [object |-> object, first |-> first, count |-> count, epoch |-> epoch]

Code(instructions, entry) == [code |-> instructions, entry |-> entry]

\* Programs of different lengths, one that falls off its end, one that loops, two refused.
VmPrograms ==
    {Code(<<<<"move", 1>>, <<"jz", 2>>, <<"nop", 0>>, <<"return", 0>>>>, 1),
     Code(<<<<"jnz", 1>>, <<"call", 0>>, <<"return", 0>>>>, 1),
     Code(<<<<"return", 0>>, <<"move", 0>>>>, 2),
     Code(<<<<"call", 0>>, <<"jump", -1>>, <<"return", 0>>>>, 1),
     Code(<<<<"jump", 2>>, <<"return", 0>>>>, 1), Code(<<<<"nop", 0>>>>, 1)}

\* Programs that set what is refused or kept, that fall off, that rephase; two refused.
CapsulePrograms ==
    {<<<<"metric", 0>>, <<"set", "heat">>, <<"halt", 0>>>>,
     <<<<"metric", 0>>, <<"jz", 4>>, <<"halt", 0>>, <<"set", "phase">>>>,
     <<<<"metric", 0>>, <<"set", "phase">>, <<"load", 0>>, <<"set", "flags">>, <<"halt", 0>>>>,
     <<<<"metric", 0>>, <<"jz", 2>>, <<"halt", 0>>>>, <<<<"jz", 3>>, <<"metric", 0>>>>}

CapsuleBatches ==
    [epoch : 1 .. 2,
     operations : {<<>>, <<<<"heat", 3, {}>>, <<"heat", 2, {1}>>>>,
                   <<<<"phase", 1, {}>>, <<"add", {"clamp"}, {}>>>>, <<<<"flags", {"odd"}, {}>>>>,
                   <<<<"remove", {"rephase"}, {}>>>>, <<<<"heat", 1, {2}>>>>}]

Effect(kind, amount, deps) == [kind |-> kind, amount |-> amount, deps |-> deps]

Lab == INSTANCE BlackLab WITH
    \* BlackLabControl.
    Samples <- <<Sample(1), Sample(3)>>, Rules <- LabRules, Severities <- {0, 3},
    RuleCapacity <- 1, SensorCapacity <- 1, LedgerCapacity <- 2, MaximumViolations <- 8,
    RateSamples <- 2, QuarantineVotes <- 2, MinimumRetention <- 2, MaxEpoch <- 1,
    \* BlackLabCore.
    Slots <- {1, 2}, GenerationModulus <- 8, MaxIssued <- 3,
    WindowRequests <- {Window(1, 1, 2), Window(2, 1, 3), Window(2, 2, 2)},
    TombRequests <- {Tomb(1, 0, 2, 1), Tomb(1, 1, 1, 2), Tomb(0, 1, 1, 1)},
    Faults <- [space : {0, 1}, object : {1}, page : {1, 2}, epoch : {1, 2}],
    Epochs <- 1 .. 3, SampleCapacity <- 2, Population <- 3, Elite <- 2, CapsuleCapacity <- 2,
    MinimumScored <- 1, Genes <- 0 .. 1, Temperatures <- {0, 2}, MaxPredictions <- 3,
    CoreMaxGeneration <- 2, Writers <- {1, 2}, Readers <- {3}, SnapshotAttempts <- 2, One <- 2,
    Aggressiveness <- 3, FeatureSets <- {<<1, 1>>, <<1, -1>>, <<0, 0>>}, MaxLearns <- 2,
    \* BlackLabBoot.
    MaxCalls <- 3, Block <- 5, LengthAt <- 3, MaxMessage <- 12, Words <- 2, Sizes <- {2, 3},
    ImageSize <- 2, Inodes <- 0 .. 2, CatalogCapacity <- 2, MaxNodes <- 2, MaxEdges <- 2,
    MaxAdvice <- 2, Walkers <- [ready : BOOLEAN, page : {0, 3}], MaxWalkers <- 4, LastPage <- 3,
    Losses <- {0, 1}, Bins <- 4, Circle <- 16, Signals <- {-8, 9}, Rates <- {8, 16},
    MaxSignals <- 2,
    \* AetherVm.
    Programs <- VmPrograms, MaximumInstructions <- 4, Fuel <- 5, Runners <- {1, 2}, MaxLoads <- 2,
    LabPrograms <- CapsulePrograms, Metrics <- -1 .. 1, LabLength <- 5, LabFuel <- 10,
    Batches <- CapsuleBatches, MaximumRejections <- 2, VmMaxGeneration <- 3,
    Effects <- {Effect("charge", 2, {}), Effect("charge", 0, {}), Effect("credit", 3, {1}),
                Effect("rephase", 0, {1, 2})},
    MaximumEffects <- 3, Ceilings <- {2, 3}, Heats <- {0, 1},
    state <- plane

Node(numa, capabilities) == [class |-> "Cpu", numa |-> numa, capabilities |-> capabilities]

Field(from, to, inhabited) == [from |-> from, to |-> to, size |-> 1, inhabited |-> inhabited]

Plane == INSTANCE WorkPlanes WITH
    \* WorkFabric.
    NodeSlots <- 0 .. 1, WorkSlots <- 0 .. 1,
    NodeKinds <- {Node(0, {"COPY"}), Node(1, {"COPY", "SET"})},
    Descriptors <- {[class |-> "Cpu", numa |-> 1, opcode |-> "COPY"],
                    [class |-> "Cpu", numa |-> 0, opcode |-> "SET"]},
    Results <- {"Succeeded", "Failed"}, WorkQueueCapacity <- 2, WorkGenerationMax <- 2,
    \* ControlWeave.
    EndpointSlots <- 0 .. 1, WeaveQueueCapacity <- 2, WeaveGenerationMax <- 2, MaxMessages <- 3,
    \* CausalWeave.
    MaximumEvents <- 3, MaximumEdges <- 2, MinimumCausalGap <- 1, RetainTicks <- 1, ConeDepth <- 2,
    TimeOf <- <<2, 0, 0>>, EdgeKinds <- {"HardDependency", "SpeculativeHint"},
    \* PredictiveLoop.
    PredictiveCapacity <- 2, UpdateBatch <- 2, MinimumSamples <- 1, PlanPeriod <- 2, Controls <- {0, 1},
    MaxEpoch <- 6,
    \* ClusterQuiver.
    Nodes <- 0 .. 2, MaxArrows <- 5, MaxMultiplicity <- 4, Multiplicities <- {1, 2},
    Congestions <- {0, 2}, Threshold <- 1, MaxSteps <- 4,
    \* Chronos.
    Levels <- 3, Slots <- 2, ChronosPids <- {1, 2}, Loads <- {0, 1}, Gamma <- [l \in {0, 1} |-> l + 1],
    Delays <- {5}, MaxEvents <- 2, Members <- {1, 2}, MaxReports <- 1, ChronosMaxWall <- 10,
    \* Morpheus.
    MorpheusPids <- {1}, Thresholds <- [i \in 0 .. 5 |-> IF i = 5 THEN 7 ELSE i + 1], Reasons <- {1},
    Heaps <- {<<0>>, <<1, 0>>, <<0, 1, 1>>}, JournalSize <- 1, MorpheusMaxWall <- 10, MaxWakes <- 1,
    MaxCheckpoints <- 2,
    \* Alchemy.
    AlchemyPids <- {"p", "q"}, Listeners <- {"q"}, Types <- {"t", "u"}, AlchemyCapacity <- 2,
    Payloads <- {<<1, 2>>},
    Schemas <- {[from |-> "t", to |-> "u", from_size |-> 1, to_size |-> 2,
                 fields |-> {Field(1, 0, TRUE), Field(0, 1, FALSE)}]},
    MaxSent <- 4, MaxRoutes <- 2,
    state <- plane

NodeSymmetry == Permutations({n1, n2})

leases == <<records, now, grants>>

runtime == <<matrix, charge, vault, reactor, cert, echoes, drive>>

axioms == <<cells, root, slots, frontiers, counters, clock, calls>>

planes == <<plane, past>>

nexus == <<vars, leases, runtime, axioms, policyVars, pageVars>>

all == <<focus, nexus, planes>>

PlaneInit ==
    \/ focus \in {"queue", "tree", "limits", "runtime", "axioms", "reuse", "guarded"}
       /\ plane = 0 /\ past = 0
    \/ focus = "control" /\ Lab!ControlInit
    \/ focus = "core" /\ Lab!CoreInit
    \/ focus = "ignition" /\ Lab!IgnitionInit
    \/ focus = "vm" /\ Lab!VmInit
    \/ focus = "work" /\ Plane!WorkInit
    \/ focus = "weave" /\ Plane!WeaveInit
    \/ focus = "causal" /\ Plane!CausalInit
    \/ focus = "predictive" /\ Plane!PredictiveInit
    \/ focus = "quiver" /\ Plane!QuiverInit
    \/ focus = "chronos" /\ Plane!ChronosInit
    \/ focus = "morpheus" /\ Plane!MorpheusInit
    \/ focus = "alchemy" /\ Plane!AlchemyInit

MCInit ==
    /\ Init /\ Tree!Init /\ Runtime!NexusInit /\ Axioms!Init /\ PolicyInit /\ PagesInit
    /\ \/ focus = "pages" /\ plane = 0 /\ past = 0
       \/ page = "slot" /\ PlaneInit

MCNext ==
    \/ focus = "queue" /\ Next
       /\ UNCHANGED <<focus, leases, runtime, axioms, policyVars, pageVars, planes>>
    \/ focus = "tree" /\ Tree!Next
       /\ UNCHANGED <<focus, vars, runtime, axioms, policyVars, pageVars, planes>>
    \/ focus = "limits" /\ Limits!Next
       /\ UNCHANGED <<focus, vars, runtime, axioms, policyVars, pageVars, planes>>
    \/ focus = "runtime" /\ Runtime!NexusNext
       /\ UNCHANGED <<focus, vars, leases, axioms, policyVars, pageVars, planes>>
    \/ focus = "axioms" /\ Axioms!Next
       /\ UNCHANGED <<focus, vars, leases, runtime, policyVars, pageVars, planes>>
    \/ focus = "reuse" /\ Reuse!Next
       /\ UNCHANGED <<focus, vars, leases, runtime, policyVars, pageVars, planes>>
    \/ focus = "guarded" /\ PolicyNext
       /\ UNCHANGED <<focus, vars, leases, runtime, axioms, pageVars, planes>>
    \/ focus = "pages" /\ PagesNext
       /\ UNCHANGED <<focus, vars, leases, runtime, axioms, policyVars, planes>>
    \/ focus = "control" /\ Lab!ControlNext /\ UNCHANGED <<focus, nexus>>
    \/ focus = "core" /\ Lab!CoreNext /\ UNCHANGED <<focus, nexus>>
    \/ focus = "ignition" /\ Lab!IgnitionNext /\ UNCHANGED <<focus, nexus>>
    \/ focus = "vm" /\ Lab!VmNext /\ UNCHANGED <<focus, nexus>>
    \/ focus = "work" /\ Plane!WorkNext /\ UNCHANGED <<focus, nexus>>
    \/ focus = "weave" /\ Plane!WeaveNext /\ UNCHANGED <<focus, nexus>>
    \/ focus = "causal" /\ Plane!CausalNext /\ UNCHANGED <<focus, nexus>>
    \/ focus = "predictive" /\ Plane!PredictiveNext /\ UNCHANGED <<focus, nexus>>
    \/ focus = "quiver" /\ Plane!QuiverNext /\ UNCHANGED <<focus, nexus>>
    \/ focus = "chronos" /\ Plane!ChronosNext /\ UNCHANGED <<focus, nexus>>
    \/ focus = "morpheus" /\ Plane!MorpheusNext /\ UNCHANGED <<focus, nexus>>
    \/ focus = "alchemy" /\ Plane!AlchemyNext /\ UNCHANGED <<focus, nexus>>

MCSpec == MCInit /\ [][MCNext]_all

\* lease_lattice.rs: see GrantsHonoured of LeaseLattice.
GrantsHonoured ==
    /\ focus = "limits" => Limits!GrantsHonoured
    /\ focus = "tree" => Tree!GrantsHonoured




\* axiom_manifold.rs: see StateIsCertified and CausalityIsKept of AxiomManifold.
ManifoldIsLawful ==
    /\ focus = "axioms" => Axioms!StateIsCertified /\ Axioms!CausalityIsKept
    /\ focus = "reuse" => Reuse!StateIsCertified /\ Reuse!CausalityIsKept


=============================================================================
