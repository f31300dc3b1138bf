------------------------------- MODULE MCDma --------------------------------
(***************************************************************************)
(* What a device may reach and who drives it.  Three layers of the VT-d    *)
(* backend: VtdDomain calls the tables under the engine the kernel has,    *)
(* whose failures stay; Slpt calls the same tables under an engine that    *)
(* recovers; VtdEngine is the engine.  The Hermes transport and the leases *)
(* its platform hands out: the transport sees a lease only as a window or  *)
(* a buffer that works until it fails.  The Charybdis firewall.  And what  *)
(* a driver is chosen by and loaded from.  They share no state here, so    *)
(* each behaviour runs one of them.                                        *)
(*                                                                         *)
(* Domain: eight pages of addresses, the first of them reserved; a         *)
(* two-page request that crosses tables, and two one-page requests, one of *)
(* which asks for the reserved page.  Tables: three levels of two entries, *)
(* two addresses under one leaf table and one under another, frames for    *)
(* one whole path and a half.  Engine: one root table of the kernel's, and *)
(* the one firmware left behind.                                           *)
(***************************************************************************)
EXTENDS VtdDomain

CONSTANTS
    SlptFrames,     \* frames of the tables driven on their own
    SlptPages       \* pages mapped by them

VARIABLES focus, slpt, engine, owned, job, hw, cache, version, started,
          phase, rt, reg, ring, evring, clock, issued, spent, seen, delivered, posted, corrupt,
          led, svc, line, backend, plane, past

MCAperture == [start |-> 0, end |-> 8]

MCReserved == {[start |-> 0, end |-> 1]}

MCRequests == {[start |-> 3, page |-> 2, length |-> 2, align |-> 2],
               [start |-> 1, page |-> 5, length |-> 1, align |-> 1],
               [start |-> 0, page |-> 6, length |-> 1, align |-> 1]}

Alone == INSTANCE Slpt WITH
    Frames <- SlptFrames, Pages <- SlptPages, Slots <- 3, Sticky <- FALSE,
    Used <- {<<0, 0, 0>>, <<0, 0, 1>>, <<0, 1, 0>>}

Unit == INSTANCE VtdEngine WITH
    Roots <- {"kernel"}, FirmwareRoot <- "firmware", None <- "none",
    RequiresFlush <- TRUE, MaxOperations <- 4

Transport == INSTANCE HermesTransport WITH
    Curve <- [completions |-> 3, admissions |-> 3, window |-> 1, latency |-> 0, backlog |-> 3],
    Retained <- 1, Depth <- 4, EventDepth <- 2, Modulus <- 8, PendingSlots <- 3, IdMax <- 3,
    MaxClock <- 3, Slacks <- {3}, Opcodes <- {1}, MaxEvents <- 3, MaxReservations <- 5

Leases == INSTANCE HermesLeases WITH
    Frames <- 3, IovaPages <- 3, DmaSlots <- 2, Bars <- {0}, Sizes <- {1, 2}, GenerationMax <- 3

Intent(address, physical, length, expires, access, quorum) ==
    [domain |-> 1, device |-> 1, device_address |-> address, physical_address |-> physical,
     length |-> length, expires_at |-> expires, access |-> {access}, witness_quorum |-> quorum,
     policy_epoch |-> 1]

HostFeatures == {"vendor", "subsystem", "msix", "bars", "resources", "isolated", "firmware"}

HostStrategies == {"hermes", "amd", "intel", "virtio", "svga", "firmware", "quarantine"}

\* Models that favour some of three strategies, one of which weighs a feature.
HostModels ==
    {[bias |-> [s \in HostStrategies |-> IF s \in favoured THEN 40 ELSE 0],
      weight |-> [s \in HostStrategies |->
                     [f \in HostFeatures |-> IF f = "subsystem" /\ s = "hermes" THEN 1 ELSE 0]],
      center |-> [f \in HostFeatures |-> 10], scale |-> [f \in HostFeatures |-> 64],
      minimum |-> [s \in HostStrategies |-> 2]] :
     favoured \in {{"hermes"}, {"quarantine"}, {"hermes", "firmware"}}}

Choice == INSTANCE DriverChoice WITH
    \* Charybdis: An aperture of three bytes at a time, and intents that do not all fit.
    Apertures <- {[id |-> 1, policy_epoch |-> 1, domain |-> 1, devices |-> {1},
                   allowed_access |-> {"r", "w"}, maximum_mapping |-> 2, maximum_total |-> 3,
                   device_start |-> 1, device_end |-> 6, physical_start |-> 1, physical_end |-> 6]},
    ApertureSlots <- {0},
    Intents <- {Intent(1, 1, 2, 2, "r", 2), Intent(2, 3, 2, 1, "w", 1), Intent(4, 4, 1, 2, "w", 1)},
    FirewallSlots <- 0 .. 1, Witnesses <- {1, 2}, Ticks <- 0 .. 2, GenerationMax <- 9, MaxPrepares <- 3,
    \* DisplayEvidence.
    CensusSlots <- {0, 1}, CensusFunctions <- {0, 1}, CensusCapacity <- 2, Bars <- 3, Legacy <- {4, 5},
    Extended <- {8, 9}, Ids <- {1, 2}, MaxHops <- 2, MaxTick <- 3, MaxAttempts <- 2,
    MaxEvents <- 6,
    \* GpuPortability.
    PortabilityVendors <- {"nvidia", "virtio", "any"}, Lengths <- {0, 1},
    Candidates <- {"HermesNvidia", "VirtioGpu", "FirmwareFramebuffer", "Quarantine"},
    \* DriverNetHost.
    Models <- HostModels, HostVendors <- {"nvidia", "bochs"},
    Barses <- {0 :> "none" @@ 1 :> "io", 0 :> "null" @@ 1 :> "io", 0 :> "mmio" @@ 1 :> "io",
               0 :> "short" @@ 1 :> "mmio"},
    Failures <- {{}, {"subsystem"}, {"bars"}, {"command"}, {"capabilities"}},
    MinimumConfidence <- 16, Full <- 64, Samples <- {0, 1, 3}, Ones <- 3, Octets <- {0, 1},
    MaxDevices <- 2, Schedule <- 3,
    \* FirmwareScanout.
    Evidence <- {[address |-> 4, length |-> l, width |-> w, height |-> 2, pitch |-> p,
                  bytes |-> 2, retained |-> TRUE] : l \in {6, 12}, w \in {1, 2}, p \in {2, 5, 6}},
    ScanoutCapacity <- 2, SignatureBytes <- 7, SignatureRows <- 3, Channels <- {0, 7, 8, 100, 255},
    MaxHolders <- 2,
    \* ObjectLoader.
    FileLength <- 8, HeaderEnd <- 2, TableAt <- 7, Page <- 2, MaximumImage <- 8,
    Offsets <- {2, 4}, Sizes <- {1, 3}, Alignments <- {1, 4}, MaxSections <- 2, MaxPatches <- 2,
    state <- plane

unit == <<engine, owned, job, hw, cache, version, started>>

transport ==
    <<phase, rt, reg, ring, evring, clock, issued, spent, seen, delivered, posted, corrupt>>

leases == <<led, svc, line, backend>>

planes == <<plane, past>>

dma == <<vars, slpt, unit, transport, leases>>

all == <<focus, dma, planes>>

PlaneInit ==
    \/ focus \in {"domain", "tables", "transport", "leases"} /\ plane = 0 /\ past = 0
    \/ focus = "charybdis" /\ Choice!FirewallInit
    \/ focus = "census" /\ Choice!CensusInit
    \/ focus = "portability" /\ Choice!PortabilityInit
    \/ focus = "host" /\ Choice!HostInit
    \/ focus = "scanout" /\ Choice!ScanoutInit
    \/ focus = "loader" /\ Choice!LoaderInit

\* Which part a behaviour runs; the state of the unit at the start varies only in its own.
MCInit ==
    /\ Init /\ Alone!Init /\ Unit!Init /\ Transport!Init /\ Leases!Init
    /\ \/ focus = "engine" /\ plane = 0 /\ past = 0
       \/ engine = "Disabled" /\ cache.ctx = {} /\ PlaneInit

\* The event ring wraps or the command ring fills, not both in one behaviour.
TransportBound == posted' <= 2 \/ Len(spent') <= 3

MCNext ==
    \/ focus = "domain" /\ Next /\ UNCHANGED <<focus, slpt, unit, transport, leases, planes>>
    \/ focus = "tables" /\ Alone!Next /\ UNCHANGED <<focus, vars, unit, transport, leases, planes>>
    \/ focus = "engine" /\ Unit!Next /\ UNCHANGED <<focus, vars, slpt, transport, leases, planes>>
    \/ focus = "transport" /\ Transport!Next /\ TransportBound
       /\ UNCHANGED <<focus, vars, slpt, unit, leases, planes>>
    \/ focus = "leases" /\ Leases!Next /\ UNCHANGED <<focus, vars, slpt, unit, transport, planes>>
    \/ focus = "charybdis" /\ Choice!FirewallNext /\ UNCHANGED <<focus, dma>>
    \/ focus = "census" /\ Choice!CensusNext /\ UNCHANGED <<focus, dma>>
    \/ focus = "portability" /\ Choice!PortabilityNext /\ UNCHANGED <<focus, dma>>
    \/ focus = "host" /\ Choice!HostNext /\ UNCHANGED <<focus, dma>>
    \/ focus = "scanout" /\ Choice!ScanoutNext /\ UNCHANGED <<focus, dma>>
    \/ focus = "loader" /\ Choice!LoaderNext /\ UNCHANGED <<focus, dma>>

MCSpec == MCInit /\ [][MCNext]_all

\* vtd_backend.rs: see ReachableIsHeld, DebtKeepsItsPath and FirstFitIsLowest of VtdDomain.
AddressesAreHeld ==
    focus = "domain" => ReachableIsHeld /\ DebtKeepsItsPath /\ FirstFitIsLowest

\* vtd_slpt.rs and vtd.rs: see TablesOwned of Slpt and CachesAgree of VtdEngine.
TablesAgree ==
    /\ focus = "tables" => Alone!TablesOwned
    /\ focus = "engine" => Unit!CachesAgree

\* hermes_gsp.rs: see SettledOnce, RepliesAreAnswers and CommandsArrive of HermesTransport.
TransportIsExact ==
    focus = "transport" =>
        Transport!SettledOnce /\ Transport!RepliesAreAnswers /\ Transport!CommandsArrive

\* What a device may reach is held for it.  Frames of Hermes stay with their record through
\* allocate, release and reclaim_record (FramesHeld of HermesLeases); a mapping of the Charybdis
\* firewall is reserved once, named by its ticket, and reaches a device only by its witnesses
\* (ReservationsExact, TicketsAreExact and ReachIsWitnessed of Charybdis).
FramesHeld ==
    /\ focus = "leases" => Leases!FramesHeld
    /\ focus = "charybdis" =>
          Choice!ReservationsExact /\ Choice!TicketsAreExact /\ Choice!ReachIsWitnessed

=============================================================================
