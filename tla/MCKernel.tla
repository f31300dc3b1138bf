------------------------------ MODULE MCKernel ------------------------------
(***************************************************************************)
(* The kernel's tables: processes, privilege domains, system-call gates,   *)
(* address spaces over the frame pool, device windows, and then the        *)
(* objects, allocators and schedulers around them.  They share no state,   *)
(* so each behaviour runs one of them.  Processes: two slots, with PIDs    *)
(* and generations that run out within the explored depth.  Domains: two   *)
(* slots that are reused once, two CPUs, three dispatches or entries each. *)
(* Gate: two CPUs, two records, generations exhausted after the fourth.    *)
(* Spaces: two slots, seven frames one of which is reserved, two installs  *)
(* of one of four images and a DMA owner that takes three frames.          *)
(* Windows: four slots, two records that are each used twice.              *)
(***************************************************************************)
EXTENDS Lifecycle, RingAuthority, TLC

CONSTANTS c1, c2, kernel, ra, rb, port, dom, none

VARIABLES focus,
          record, cpu,
          pool, runs, cell, space, active, job, handles, halted,
          occupied, entries, records, issued, windows,
          plane, past

Gate == INSTANCE SyscallGate WITH
    Cpus <- {"cpu0", "cpu1"}, Logical <- {"s0", "s1"}, Stacks <- {"s0", "s1", "p1"},
    Records <- 1 .. 2, MaxGen <- 4, None <- none

Seg(base, count, filled, writable, executable) ==
    [base |-> base, count |-> count, filled |-> filled,
     writable |-> writable, executable |-> executable]

Text == Seg(0, 1, 1, FALSE, TRUE)

\* One segment; a second with a zeroed tail; one writable and executable; no code.
SmallImages ==
    {<<Text>>, <<Text, Seg(1, 2, 1, TRUE, FALSE)>>, <<Text, Seg(1, 1, 1, TRUE, TRUE)>>,
     <<Seg(0, 1, 1, TRUE, FALSE)>>}

Installs == INSTANCE AddressSpace WITH
    FrameCount <- 7, Usable <- 0 .. 6, Withheld <- {0}, RunSizes <- {3}, Alignments <- {2},
    MaxRuns <- 1, None <- none, Spaces <- 0 .. 1, Images <- SmallImages, Fanout <- 4,
    Pages <- 0 .. 11, PageCapacity <- 5, OwnedCapacity <- 8, IndexModulus <- 4,
    StackPages <- <<4>>, ThermalPage <- 5, MaxInstalls <- 2,
    PlanePages <- <<[page |-> 8, frame |-> 100, writable |-> TRUE],
                    [page |-> 9, frame |-> 101, writable |-> FALSE]>>

\* An image whose third segment starts at a page index that does not fit the byte a mapping
\* keeps: five pages before it, of which no segment exceeds the limit of map_zeroed, where a
\* byte counts to four.
LongImage ==
    <<Seg(0, 3, 3, FALSE, TRUE), Seg(3, 2, 2, FALSE, FALSE), Seg(5, 1, 1, TRUE, FALSE)>>

Long == INSTANCE AddressSpace WITH
    FrameCount <- 14, Usable <- 0 .. 13, Withheld <- {0}, RunSizes <- {3}, Alignments <- {2},
    MaxRuns <- 1, None <- none, Spaces <- {0}, Images <- {LongImage}, Fanout <- 4,
    Pages <- 0 .. 11, PageCapacity <- 8, OwnedCapacity <- 12, IndexModulus <- 4,
    StackPages <- <<8>>, ThermalPage <- 9, PlanePages <- <<>>, MaxInstalls <- 1

Windows == INSTANCE MmioWindows WITH
    WindowSlots <- 4, WindowRecords <- 2, GenerationMax <- 2, PageUnits <- 2, Nowhere <- none,
    Devices <- {[start |-> 2, length |-> 2], [start |-> 5, length |-> 4], [start |-> 9, length |-> 1]}

Stores == INSTANCE KernelStores WITH
    \* ObjectTable.
    ObjectSlots <- 0 .. 1, Kinds <- {"Memory", "Device"}, Payloads <- {1, 2},
    RightSets <- {{"READ"}, {"READ", "WRITE"}}, MaxReferences <- 2, GenerationWrap <- 3,
    MaxMade <- 4,
    \* Laminar: Two zones, of three pages and of two, that do not start on a power of two.
    Zones <- {<<1, 3>>, <<4, 2>>}, Page <- 1, MaxOrder <- 3, Pooled <- 1, Classes <- 1,
    Sizes <- {1, 2},
    \* Mycelium.
    Pages <- 2, Pids <- {"a", "b"}, Radius <- 1, Threshold <- 2, MaxSpores <- 1,
    PulseTicks <- 1, MaxTips <- 2,
    \* Thermogenesis.
    ThermalAddresses <- {0, 4}, Size <- 4, DivideSize <- 4, MaxDivisions <- 1, Macrophages <- 2,
    Budget <- 2, ThermalThreads <- {1, 2}, MaxCharge <- 3, Amounts <- {1, 2}, MaxTicks <- 2,
    \* LinuxKpi.
    KpiThreads <- {1, 2}, KpiBlocks <- {1, 2, 3}, KpiSlots <- {1, 2},
    state <- plane

Task(pid, computation, period) == [pid |-> pid, computation |-> computation, period |-> period]

Cpu(hardware, numa, enabled) ==
    [hardware |-> hardware, numa |-> numa, enabled |-> enabled,
     kind |-> IF numa = 1 THEN "Efficiency" ELSE "Symmetric"]

Ram(base, length) == [base |-> base, length |-> length, kind |-> "Ram"]

Function(device, function) == [bus |-> 0, device |-> device, function |-> function]

\* Firmware that is right, and firmware with repeated, disabled, sparse or overlapping entries.
Tables ==
    [cpus : {<<Cpu(0, 0, TRUE)>>, <<Cpu(0, 0, FALSE)>>,
             <<Cpu(0, 1, TRUE), Cpu(1, 0, TRUE), Cpu(2, 1, TRUE)>>,
             <<Cpu(0, 0, TRUE), Cpu(1, 2, FALSE), Cpu(2, 1, TRUE), Cpu(3, 1, TRUE)>>,
             <<Cpu(0, 0, TRUE), Cpu(0, 0, TRUE)>>,
             <<Cpu(0, 0, TRUE), Cpu(1, 1, TRUE), Cpu(2, 2, TRUE)>>,
             <<Cpu(0, 0, TRUE), Cpu(1, 0, TRUE), Cpu(2, 0, TRUE), Cpu(3, 1, TRUE)>>},
     memory : {<<Ram(0, 2), Ram(2, 2)>>, <<Ram(0, 3), Ram(2, 2)>>, <<Ram(1, 0)>>, <<Ram(6, 2)>>},
     io : {<<Function(0, 1)>>, <<Function(0, 1), Function(0, 1)>>, <<Function(32, 0)>>}]

Sched == INSTANCE Schedulers WITH
    \* PhaseRing.
    Tasks <- <<"a", "b", "c">>, RingSlots <- 1 .. 2, MomentSlots <- 1 .. 3, Window <- 1,
    PhaseBins <- 2, WakeWeight <- 4, AgeLimit <- 2, MaxCredit <- 1, MaxTick <- 3,
    \* EdfScheduler: Sets that just fit, that just do not, and a task that cannot be admitted alone.
    TaskSet <- {Task(1, 1, 2), Task(2, 1, 3), Task(3, 2, 4), Task(4, 2, 5), Task(5, 4, 3),
                Task(6, 3, 5)},
    Slots <- 1 .. 3, UtilizationOne <- 16, Delays <- 0 .. 1, MaxTime <- 9,
    \* Hydra.
    HydraPids <- {1, 2}, Cores <- 0 .. 2, Masks <- {{0}, {1, 2}, {5}},
    NumaOf <- [c \in 0 .. 2 |-> IF c = 0 THEN 0 ELSE 1], GossipInterval <- 1,
    \* Eigenthread.
    EigenPids <- {1, 2, 3}, MaxEigenstates <- 3, GroundStateTopN <- 2, Strengths <- {64},
    MaxCoupling <- 128, CouplingDecay <- 63, RediagInterval <- 2,
    \* KairosTopology.
    FirmwareTables <- Tables, Threads <- {1, 2},
    Requests <- [kind : {"Native", "Driver", "Hypercall"}, required : {{}, {"ASYNC"}},
                 optional : {{}, {"ASYNC", "DRIVER"}}],
    NativeFeatures <- {"BASIC"}, DriverFeatures <- {"BASIC", "DRIVER"}, NativeBase <- {"BASIC"},
    MaximumCpus <- 4, MaximumRegions <- 2, MaximumDevices <- 2, MaximumDomains <- 3,
    AddressLimit <- 8, Totals <- 0 .. 9,
    state <- plane

\* CPUs and user roots of the registry are interchangeable.
Symmetry == Permutations({c1, c2}) \union Permutations({ra, rb})

gate == <<record, cpu>>

spaces == <<pool, runs, cell, space, active, job, handles, halted>>

mmio == <<occupied, entries, records, issued, windows>>

planes == <<plane, past>>

tables == <<vars, registry, gate, spaces, mmio>>

all == <<focus, tables, planes>>

MCInit ==
    /\ Init /\ RegistryInit /\ Gate!Init /\ Installs!Init /\ Windows!Init
    /\ \/ focus \in {"processes", "registry", "gate", "spaces", "windows"} /\ plane = 0 /\ past = 0
       \/ focus = "objects" /\ Stores!ObjectInit
       \/ focus = "laminar" /\ Stores!LaminarInit /\ past = 0
       \/ focus = "mycelium" /\ Stores!MyceliumInit
       \/ focus = "thermogenesis" /\ Stores!ThermalInit
       \/ focus = "heap" /\ Stores!KpiInit
       \/ focus = "ring" /\ Sched!RingInit
       \/ focus = "edf" /\ Sched!EdfInit
       \/ focus = "hydra" /\ Sched!HydraInit
       \/ focus = "eigen" /\ Sched!EigenInit
       \/ focus = "topology" /\ Sched!TopologyInit

MCNext ==
    \/ focus = "processes" /\ Next /\ UNCHANGED <<focus, registry, gate, spaces, mmio, planes>>
    \/ focus = "registry" /\ RegistryNext /\ UNCHANGED <<focus, vars, gate, spaces, mmio, planes>>
    \/ focus = "gate" /\ Gate!Next /\ UNCHANGED <<focus, vars, registry, spaces, mmio, planes>>
    \/ focus = "spaces" /\ Installs!Next /\ UNCHANGED <<focus, vars, registry, gate, mmio, planes>>
    \/ focus = "windows" /\ Windows!Next /\ UNCHANGED <<focus, vars, registry, gate, spaces, planes>>
    \/ focus = "objects" /\ Stores!ObjectNext /\ UNCHANGED <<focus, tables>>
    \/ focus = "laminar" /\ Stores!LaminarNext /\ UNCHANGED <<focus, tables, past>>
    \/ focus = "mycelium" /\ Stores!MyceliumNext /\ UNCHANGED <<focus, tables>>
    \/ focus = "thermogenesis" /\ Stores!ThermalNext /\ UNCHANGED <<focus, tables>>
    \/ focus = "heap" /\ Stores!KpiNext /\ UNCHANGED <<focus, tables>>
    \/ focus = "ring" /\ Sched!RingNext /\ UNCHANGED <<focus, tables>>
    \/ focus = "edf" /\ Sched!EdfNext /\ UNCHANGED <<focus, tables>>
    \/ focus = "hydra" /\ Sched!HydraNext /\ UNCHANGED <<focus, tables>>
    \/ focus = "eigen" /\ Sched!EigenNext /\ UNCHANGED <<focus, tables>>
    \/ focus = "topology" /\ Sched!TopologyNext /\ UNCHANGED <<focus, tables>>

MCSpec == MCInit /\ [][MCNext]_all

\* The process table alone, with a history: the handles that reap_child has ended.
HandlesInit ==
    /\ Init /\ RegistryInit /\ Gate!Init /\ Installs!Init /\ Windows!Init
    /\ focus = "processes" /\ plane = 0 /\ past = {}

\* A handle is reaped when the slot it names is emptied.
HandlesNext ==
    /\ DispatchNext /\ UNCHANGED <<focus, registry, gate, spaces, mmio, plane>>
    /\ past' = past \cup {HandleOf(i) : i \in
           {j \in Slots : slots[j].occupied /\ ~slots'[j].occupied}}

HandlesSpec == HandlesInit /\ [][HandlesNext]_all

\* One install of the long image.
LongInit ==
    /\ Init /\ RegistryInit /\ Gate!Init /\ Long!Init /\ Windows!Init
    /\ focus = "long" /\ plane = 0 /\ past = 0

LongNext == Long!Next /\ UNCHANGED <<focus, vars, registry, gate, mmio, planes>>

LongSpec == LongInit /\ [][LongNext]_all

\* A reaped handle never becomes valid again: no later process carries the
\* same PID and generation (reap_child's comment, and the test
\* execution_identity_cannot_alias_a_reused_pid_or_wrapped_generation).
ReapedHandleStaysDead == \A i \in Slots : slots[i].occupied => HandleOf(i) \notin past

\* process/install.rs: ImageSealed of AddressSpace for an image of more pages than the
\* byte a mapping keeps its page index in can count.
LongImageSealed == Long!ImageSealed

\* frame.rs and process/x86_64.rs: see LedgerExact of AddressSpace.
LedgerExact == focus = "spaces" => Installs!LedgerExact

\* process/install.rs: see ImageSealed of AddressSpace.
ImageSealed == focus = "spaces" => Installs!ImageSealed

\* cpu_local.rs, syscall.S and mmio.rs: what an interrupted path will use is in place
\* whenever it can be entered.  See GateReady of SyscallGate for the stacks of a system
\* call and WindowsStayMapped of MmioWindows for the windows that handles name.
EntryPathsAreReady ==
    /\ focus = "gate" => Gate!GateReady
    /\ focus = "windows" => Windows!WindowsStayMapped


=============================================================================
