------------------------------- MODULE MCXhci -------------------------------
(***************************************************************************)
(* The boot sequence.  Its first half reads what the loader and the        *)
(* firmware left (BootTags, AcpiTables), takes the memory map              *)
(* (BootMemory), routes interrupts (InterruptRouting) and goes online in a *)
(* fixed order (BootOrder).  In its device half transactions are made on   *)
(* an xHCI function: the probe (XhciProbe, XhciProtocols), the             *)
(* configuration calls of hw/pci.rs, the takeover of xhci_takeover.rs, the *)
(* DMA epoch of main.rs and the commands on its ring (XhciCommandRing);    *)
(* around them the claims on all functions are settled (DeviceBinding) and *)
(* the hosted driver is installed (DriverHosting).  The parts share no     *)
(* state, so each behaviour runs one of them.                              *)
(***************************************************************************)
EXTENDS XhciDmaEpoch

VARIABLES focus, cmd, bar, job, token, reset, phase, scan, owner, clock, lease, hw, seen,
          gpus, gpu, ranked, stage, tx, attempts, domains, engaged, retained, results,
          primary, owed, boot, todo, census, xhci, plane, past

Pci == INSTANCE PciConfig WITH Bars <- 3, Firmware <- {"io", "mem", "bm", "other"}

Takeover == INSTANCE XhciTakeover WITH MaximumPorts <- 2, CountMax <- 2, Durations <- {1, 3}

Bindings == INSTANCE DeviceBinding
               WITH Displays <- <<"d1", "d2">>, MaximumGpus <- 2, LiveDomains <- TRUE,
                    Hosts <- {"h1"}, Others <- {"o1"},
                    MaximumControllers <- 2, MaximumDisplays <- 2

\* The brokers Boulder installs: the isolation broker transfers no domain, so no native
\* driver begins.
Contained == INSTANCE DeviceBinding
               WITH Displays <- <<"d1", "d2">>, MaximumGpus <- 3, LiveDomains <- FALSE,
                    Hosts <- {"h1", "h2"}, Others <- {"o1"},
                    MaximumControllers <- 2, MaximumDisplays <- 2

Span(start, end) == [start |-> start, end |-> end]

Region(start, end, kind) == [start |-> start, end |-> end, kind |-> kind]

\* Maps that touch, overlap or split pages, and two with nothing of use.
MemoryMaps ==
    {<<Region(0, 1, "usable"), Region(2, 19, "usable")>>,
     <<Region(2, 11, "usable"), Region(11, 12, "bad"), Region(12, 19, "usable")>>,
     <<Region(2, 17, "usable"), Region(17, 17, "usable"), Region(17, 18, "bad"),
       Region(18, 30, "bad")>>,
     <<Region(2, 2, "usable")>>,
     <<Region(0, 2, "usable"), Region(2, 9, "usable"), Region(9, 15, "usable"),
       Region(15, 17, "usable")>>}

Entry(table, intact) == [table |-> table, intact |-> intact]

Override(source, gsi) == [source |-> source, gsi |-> gsi]

IoApic(address, base, count) == [address |-> address, base |-> base, count |-> count]

Early == INSTANCE BootPath WITH
    \* BootMemory.
    PageSize <- 2, IdentityEnd <- 20, LowEnd <- 2, KernelEnds <- {4, 5},
    Infos <- {Span(5, 6), Span(6, 8)},
    Modules <- {Span(8, 10), Span(7, 9), Span(9, 11), Span(9, 12)},
    Framebuffers <- {{}, {Span(19, 22)}, {Span(24, 26)}}, Maps <- MemoryMaps,
    MaximumRegions <- 3, TableCapacity <- 8, MinimumHeap <- 2, MaximumHeap <- 4,
    BitmapSize <- 1, PushBytes <- 2,
    \* BootTags.
    Totals <- {1, 3, 4, 8, 10, 12, 20}, MaximumTotal <- 14, Sizes <- {0, 2, 4, 6, 7, 8, 10},
    EntrySizes <- {0, 3}, EntryMinimum <- 3, DirectColor <- 10,
    \* AcpiTables.
    Roots <- {<<>>, <<Entry("madt", TRUE), Entry("dmar", TRUE)>>,
              <<Entry("other", TRUE), Entry("madt", TRUE)>>,
              <<Entry("madt", TRUE), Entry("unmapped", TRUE), Entry("dmar", TRUE)>>,
              <<Entry("dmar", FALSE), Entry("madt", FALSE)>>,
              <<Entry("dmar", FALSE), Entry("madt", TRUE)>>},
    TableLengths <- {4, 5, 12}, EntryLengths <- {0, 2, 3, 4, 6}, ApicIds <- {1, 2},
    MaximumProcessors <- 2, MaximumIoApics <- 1, MaximumUnits <- 2, MaximumEndpoints <- 2,
    Segments <- {0}, Devices <- {1, 2},
    \* InterruptRouting.
    Irqs <- 0 .. 3, Cascade <- 2, Secondary <- {3},
    Overrides <- {<<>>, <<Override(0, 2)>>, <<Override(0, 2), Override(3, 5), Override(3, 3)>>},
    ControllerLists <- {<<IoApic(1, 0, 4), IoApic(2, 4, 4)>>, <<IoApic(1, 0, 2)>>,
                        <<IoApic(0, 0, 8)>>},
    MaxRegistrations <- 2,
    \* BootOrder.
    StackBases <- {0, 4, 6, 8, 12}, StackBytes <- 4, StackAlignment <- 2, Canonical <- 0 .. 15,
    MaxHits <- 3,
    state <- plane

Speed(id, type) == [id |-> id, type |-> type, lane |-> 0]

Usb == INSTANCE XhciController WITH
    \* XhciCommandRing.
    LinkIndex <- 2, EventCapacity <- 3, Codes <- {1, 2}, MaxCommands <- 5, MaxPortEvents <- 1,
    \* XhciProtocols.
    Aperture <- 14, MinimumOffset <- 2, MaximumHops <- 3, MaximumProtocols <- 2,
    MaximumPorts <- 3, Firsts <- {0, 1, 2}, Counts <- {1, 2, 3}, ProtocolDisplacements <- {0, 4, 5},
    SpeedTables <- {<<>>, <<Speed(1, 2), Speed(2, 3)>>, <<Speed(1, 3)>>},
    \* XhciProbe.
    Controllers <- <<"a", "b">>, CapabilityDwords <- 2, MaximumOffset <- 7, MaximumHeaders <- 2,
    Offsets <- {1, 4}, ProbeDisplacements <- {0, 1, 2}, Apertures <- {5, 7}, RuntimeDwords <- 2,
    Capacity <- 2,
    \* DriverHosting.
    Services <- {1, 2}, Callbacks <- <<{"a"}, {"b", "c"}>>, QueueSize <- 2, MaxEvents <- 4,
    MaxProbes <- 2,
    state <- plane

pci == <<cmd, bar, job, token, reset>>
takeover == <<phase, scan, owner, clock, lease, hw, seen>>
epoch == vars
devices == <<gpus, gpu, ranked, stage, tx, attempts, domains, engaged, retained, results,
             primary, owed, boot, todo, census, xhci>>
planes == <<plane, past>>
all == <<focus, pci, takeover, epoch, devices, planes>>

PlaneInit ==
    \/ focus \in {"pci", "epoch"} /\ plane = 0 /\ past = 0
    \/ focus = "memory" /\ Early!MemoryInit
    \/ focus = "tags" /\ Early!TagInit
    \/ focus = "acpi" /\ Early!AcpiInit
    \/ focus = "routing" /\ Early!RoutingInit
    \/ focus = "order" /\ Early!OrderInit
    \/ focus = "ring" /\ Usb!RingInit
    \/ focus = "protocols" /\ Usb!ProtocolInit
    \/ focus = "probe" /\ Usb!ProbeInit
    \/ focus = "hosting" /\ Usb!HostingInit

Settled == ~hw.legacy /\ ~hw.run /\ ~hw.notReady /\ hw.resetting = {}

NoDisplays == gpus = Bindings!FingerprintInventory("none", 0, {})

\* Which part a behaviour runs; the controller and the displays found vary only in theirs.
MCInit ==
    /\ Init /\ Pci!Init /\ Takeover!Init /\ Bindings!Init
    /\ \/ focus = "takeover" /\ NoDisplays /\ plane = 0 /\ past = 0
       \/ focus = "devices" /\ Settled /\ plane = 0 /\ past = 0
       \/ NoDisplays /\ Settled /\ PlaneInit

InPci(action) ==
    focus = "pci" /\ action /\ UNCHANGED <<focus, takeover, epoch, devices, planes>>

InTakeover(action) ==
    focus = "takeover" /\ action /\ UNCHANGED <<focus, pci, epoch, devices, planes>>

InEpoch(action) ==
    focus = "epoch" /\ action /\ UNCHANGED <<focus, pci, takeover, devices, planes>>

InDevices(action) ==
    focus = "devices" /\ action /\ UNCHANGED <<focus, pci, takeover, epoch, planes>>

InPlane(name, action) ==
    focus = name /\ action /\ UNCHANGED <<focus, pci, takeover, epoch, devices>>

MCNext ==
    \/ InPci(Pci!Next) \/ InTakeover(Takeover!Next) \/ InEpoch(Next) \/ InDevices(Bindings!Next)
    \/ InPlane("memory", Early!MemoryNext)
    \/ InPlane("tags", Early!TagNext)
    \/ InPlane("acpi", Early!AcpiNext)
    \/ InPlane("routing", Early!RoutingNext)
    \/ InPlane("order", Early!OrderNext)
    \/ InPlane("ring", Usb!RingNext)
    \/ InPlane("protocols", Usb!ProtocolNext)
    \/ InPlane("probe", Usb!ProbeNext)
    \/ InPlane("hosting", Usb!HostingNext)

\* The fairness of the parts: the boot processor keeps executing.
MCSpec ==
    /\ MCInit /\ [][MCNext]_all
    /\ WF_all(InPci(Pci!Call))
    /\ WF_all(InTakeover(Takeover!MachineStep)) /\ WF_all(InTakeover(Takeover!MeasureAperture))
    /\ WF_all(InTakeover(Takeover!Finish)) /\ WF_all(InTakeover(Takeover!TimerTick))
    /\ WF_all(InEpoch(Boot)) /\ WF_all(InDevices(Bindings!Next))
    /\ WF_all(InPlane("order", Early!Boot))

\* The device half of the boot alone, with the brokers Boulder installs.
ContainedInit ==
    /\ Init /\ Pci!Init /\ Takeover!Init /\ Contained!Init
    /\ focus = "contained" /\ Settled /\ plane = 0 /\ past = 0

ContainedNext == Contained!Next /\ UNCHANGED <<focus, pci, takeover, epoch, planes>>

ContainedSpec == ContainedInit /\ [][ContainedNext]_all

\* main.rs: see ContainedClaimsReconcile of DeviceBinding.
ContainedClaimsReconcile == Contained!ContainedClaimsReconcile

\* driver_net: see FirmwareRollsBack of DeviceBinding.
FirmwareRollsBack == Contained!FirmwareRollsBack

\* hw/pci.rs: see ConfigurationIsQuiet of PciConfig.
ConfigurationIsQuiet == focus = "pci" => Pci!ConfigurationIsQuiet

\* The controller is probed, taken over and commanded as its registers allow: see
\* TakeoverIsOrdered and DeadlineHonest of XhciTakeover, ProbesAreVindicated of XhciProbe,
\* PortsAreDivided of XhciProtocols and CompletionsAreExact of XhciCommandRing.
ControllersAreTakenRight ==
    /\ focus = "takeover" => Takeover!TakeoverIsOrdered /\ Takeover!DeadlineHonest
    /\ focus = "probe" => Usb!ProbesAreVindicated
    /\ focus = "protocols" => Usb!PortsAreDivided
    /\ focus = "ring" => Usb!CompletionsAreExact


\* DriverNet: see LeasesAreExact there.
LeasesAreExact == focus = "devices" => Bindings!LeasesAreExact

\* The boot sequence of main.rs: see BindingsAgree of DeviceBinding.
BindingsAgree == Bindings!BindingsAgree

\* A configuration call returns, a takeover ends ready or failed, and an epoch
\* completes or the machine stops, whatever the hardware does or fails to do;
\* the device half of the boot reaches PID 1 or stops, and the boot path as a
\* whole reaches PID 1 or halts.
TransactionsEnd ==
    /\ Pci!CallsReturn
    /\ focus = "takeover" => Takeover!Terminates
    /\ focus = "epoch" => EpochEnds
    /\ focus = "devices" => <>(boot \in {"pid1", "halted", "diverged"})
    /\ <>(focus = "order" => Early!Ended)
=============================================================================
