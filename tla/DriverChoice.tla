---------------------------- MODULE DriverChoice ----------------------------
(***************************************************************************)
(* What a driver is chosen by, loaded from and confined to: the display    *)
(* census, the portability matrix, the DriverNet host, the firmware        *)
(* scanout, the object loader and the Charybdis firewall.  The parts       *)
(* share no state; a behaviour runs one of them.                           *)
(***************************************************************************)
EXTENDS Integers, Sequences, SequencesExt, FiniteSets, FiniteSetsExt, TLC

CONSTANTS
    \* DisplayEvidence
    CensusSlots, CensusFunctions, \* 0..m each: device numbers, and functions of one
    CensusCapacity,     \* N of DisplayFunctionInventory
    Bars,               \* base address registers of a function
    Legacy, Extended,   \* dwords that may hold a capability, in either list; 0 ends a list
    Ids,                \* capability ids
    MaxHops,            \* MAXIMUM_CAPABILITY_HOPS, MAXIMUM_EXTENDED_HOPS
    MaxTick, MaxAttempts, MaxEvents,  \* bounds on the clock, attempts and events
    \* GpuPortability
    PortabilityVendors, \* vendor identifiers; "none" is 0 and "any" 0xffff
    Lengths,        \* sizes of the first base address register, in pages; 0 is unknown
    Candidates,     \* strategies the list of candidates is made of
    \* DriverNetHost
    Models,             \* [bias, weight, center, scale, minimum]: WEIGHTS, BIAS, ...
    HostVendors,        \* vendor ids of the functions looked at
    Barses,             \* BAR kinds by index
    Failures,           \* sets of configuration reads that fail together
    MinimumConfidence,  \* OraclePolicy.minimum_confidence_q16
    Full,               \* u16::MAX as a confidence
    Samples,            \* words a register may show
    Ones,               \* u32::MAX, what an absent device shows
    Octets,             \* byte values of a measured device
    MaxDevices,         \* inventory lengths looked at
    Schedule,           \* number of derived secrets, the first one Black Lab's
    \* FirmwareScanout
    Evidence,       \* framebuffers offered: address, length, width, height, pitch, bytes, retained
    ScanoutCapacity, \* MAXIMUM_FIRMWARE_DISPLAYS
    SignatureBytes, \* MAXIMUM_BOOT_SIGNATURE_BYTES
    SignatureRows,  \* MAXIMUM_BOOT_SIGNATURE_HEIGHT
    Channels,       \* channel values of the colours drawn, 0..255
    MaxHolders,     \* bound on references
    \* ObjectLoader
    FileLength,     \* bytes of the file
    HeaderEnd,      \* the ELF header is 0..HeaderEnd-1
    TableAt,        \* the section table is TableAt..FileLength-1
    Page,           \* PAGE_ALIGNMENT
    MaximumImage,   \* MAXIMUM_IMAGE_SIZE
    Offsets,        \* file offsets sections name
    Sizes,          \* section sizes
    Alignments,     \* section alignments
    MaxSections,    \* bound on the sections of a file
    MaxPatches,     \* bound on relocations
    \* Charybdis
    Apertures,      \* apertures a policy may install
    ApertureSlots,
    Intents,        \* mappings a driver may ask for
    FirewallSlots,  \* mapping records
    Witnesses,
    Ticks,          \* values of now_tick
    GenerationMax,  \* 65535 in the code
    MaxPrepares     \* bound on calls of prepare, below GenerationMax

VARIABLES
    state,      \* of the part a behaviour runs
    past        \* history the properties refer to

vars == <<state, past>>

-----------------------------------------------------------------------------
(***************************************************************************)
(* Part DisplayEvidence.                                                   *)
(* What drivernet knows of the display functions, and whom it tells:       *)
(*   inventory  inventory.rs, the display functions found on a bus;        *)
(*   device     fingerprint.rs, one function's base addresses and          *)
(*              capability lists, and the gate of model.rs on them;        *)
(*   events     mod.rs, telemetry.rs and blacklab_observer.rs, the events  *)
(*              of a resolution on their way to the ledger and the mesh.   *)
(* A behaviour follows one of the three.  What a configuration read        *)
(* answers is chosen when it is made, so that every device is covered.     *)
(***************************************************************************)
Addresses == CensusSlots \X CensusFunctions
Answers == {"absent", "fault", "other", "display"}

CensusInit ==
    \/ \E bus \in [Addresses -> Answers], multi \in SUBSET CensusSlots, imported \in SUBSET {<<0, 0>>, <<1, 1>>} :
        /\ \A a \in imported : bus[a] = "display"
        /\ state = [part |-> "inventory", bus |-> bus, multi |-> multi, found |-> <<>>, overflowed |-> FALSE,
                    faults |-> 0, at |-> <<0, 0>>, done |-> FALSE, legacy |-> imported]
        /\ past = {}
    \/ /\ \E isolated, wide \in BOOLEAN :
            state = [part |-> "device", stage |-> "bars", bar |-> 1, bars |-> [b \in 1..Bars |-> "none"],
                     pointer |-> 0, visited |-> {}, hops |-> 0, list |-> "legacy", caps |-> {},
                     incomplete |-> FALSE, isolated |-> isolated, wide |-> wide]
       /\ past = [failed |-> FALSE, upper |-> {}, ids |-> {}]
    \/ /\ state = [part |-> "events", clock |-> 1, stage |-> "fingerprint", attempts |-> <<>>, mesh |-> <<>>,
                   ledger |-> <<>>, fault |-> FALSE]
       /\ past = <<>>

-----------------------------------------------------------------------------
(* The inventory *)

\* insert: a known address is left alone, a full inventory remembers that it overflowed.
Insert(s, a) ==
    IF a \in ToSet(s.found) THEN s
    ELSE IF Len(s.found) = CensusCapacity THEN [s EXCEPT !.overflowed = TRUE]
    ELSE [s EXCEPT !.found = Append(@, a)]

\* import_legacy: display functions another scan found, and whether that scan overflowed.
ImportLegacy(overflowed) ==
    /\ state.part = "inventory" /\ state.legacy # {}
    /\ \E order \in SetToSeqs(state.legacy) :
        LET all == FoldSeq(LAMBDA a, s : Insert(s, a), state, order)
        IN  state' = [all EXCEPT !.legacy = {}, !.overflowed = @ \/ overflowed]
    /\ UNCHANGED past

\* The next address: function zero decides whether its siblings are looked at.
CensusSuccessor(present) ==
    LET slot == state.at[1]  last == slot + 1 \notin CensusSlots
        sibling == state.at[2] + 1 \in CensusFunctions /\ (IF state.at[2] = 0 THEN present /\ slot \in state.multi ELSE TRUE)
    IN  IF sibling THEN [at |-> <<slot, state.at[2] + 1>>, done |-> FALSE]
        ELSE [at |-> IF last THEN state.at ELSE <<slot + 1, 0>>, done |-> last]

\* discover: read_function at one address; a fault is counted and the function passed over.
Discover ==
    /\ state.part = "inventory" /\ ~state.done
    /\ LET answer == state.bus[state.at]
           next == CensusSuccessor(answer \in {"other", "display"})
           listed == IF answer = "display" THEN Insert(state, state.at) ELSE state
       IN  /\ state' = [listed EXCEPT !.faults = IF answer = "fault" THEN @ + 1 ELSE @,
                                      !.at = next.at, !.done = next.done]
           /\ past' = past \cup {state.at}

-----------------------------------------------------------------------------
(* One function *)

\* A 64-bit register takes two places.
BarWidth(low) == IF low = "mem64" THEN 2 ELSE 1

\* read_bar_evidence, one register: a failed read loses them all.
ReadBar(low) ==
    /\ state.part = "device" /\ state.stage = "bars"
    /\ low = "mem64" => state.bar < Bars
    /\ IF low = "fault"
       THEN /\ state' = [state EXCEPT !.bars = [b \in 1..Bars |-> "none"], !.incomplete = TRUE, !.stage = "status"]
            /\ past' = [past EXCEPT !.failed = TRUE]
       ELSE LET next == state.bar + BarWidth(low) IN
            /\ state' = [state EXCEPT !.bars[state.bar] = low, !.bar = next,
                                      !.stage = IF next > Bars THEN "status" ELSE "bars"]
            /\ past' = IF low = "mem64" THEN [past EXCEPT !.upper = @ \cup {state.bar + 1}] ELSE past

\* A list that fails loses all the flags and marks the evidence incomplete.
Lost(s) == [s EXCEPT !.stage = "done", !.caps = {}, !.incomplete = TRUE]

\* read_capability_flags: the head of the list, if the status says there is one.
ListHead(pointer) ==
    /\ state.part = "device" /\ state.stage = "status"
    /\ state' = [state EXCEPT !.stage = "walk", !.pointer = pointer]
    /\ UNCHANGED past

\* One hop: id and next of the capability at the pointer; or the end of a list, after which the
\* extended list begins if the configuration space reaches it.
Hop(id, next, fails) ==
    LET p == state.pointer
        all == IF state.list = "legacy" THEN Legacy ELSE Extended
        bad == p \notin all \/ state.hops >= MaxHops \/ p \in state.visited \/ fails
    IN
    /\ state.part = "device" /\ state.stage = "walk"
    /\ IF p = 0
       THEN /\ state' = IF state.list = "legacy" /\ state.wide
                        THEN [state EXCEPT !.list = "extended", !.visited = {}, !.hops = 0,
                                           !.pointer = CHOOSE q \in Extended : \A r \in Extended : q <= r]
                        ELSE [state EXCEPT !.stage = "done"]
            /\ UNCHANGED past
       ELSE IF bad
       THEN /\ state' = Lost(state)
            /\ past' = [past EXCEPT !.failed = TRUE]
       ELSE /\ state' = [state EXCEPT !.caps = @ \cup {<<state.list, id>>}, !.visited = @ \cup {p},
                                      !.hops = @ + 1, !.pointer = next]
            /\ past' = [past EXCEPT !.ids = @ \cup {<<state.list, id>>}]

\* gate_strategy, for a native driver of the function's vendor.
CensusNative ==
    /\ state.isolated /\ ~state.incomplete
    /\ \E b \in 1..Bars : state.bars[b] \in {"mem32", "mem64"}

-----------------------------------------------------------------------------
(* Events *)

\* The observer: the ledger first, then the mesh, which refuses a tick before its last; after
\* a refusal nothing more is told to either.
Observe(s, event) ==
    IF s.fault THEN s
    ELSE IF s.mesh # <<>> /\ event.tick < Last(s.mesh).tick
    THEN [s EXCEPT !.ledger = Append(@, event), !.fault = TRUE]
    ELSE [s EXCEPT !.ledger = Append(@, event), !.mesh = Append(@, event)]

Event(kind, tick) == [kind |-> kind, tick |-> tick]

\* resolve_all: the fingerprint and the oracle's decision are observed as they are made.
Announce ==
    /\ state.part = "events" /\ state.stage \in {"fingerprint", "decision"}
    /\ Len(past) < MaxEvents
    /\ \E tick \in state.clock .. MaxTick :
        LET e == Event(state.stage, tick) IN
        /\ state' = [Observe(state, e) EXCEPT !.clock = tick,
                                              !.stage = IF state.stage = "decision" THEN "attempts" ELSE "decision"]
        /\ past' = Append(past, e)

\* The dispatcher works through the candidates, noting when each attempt ended.
Attempt ==
    /\ state.part = "events" /\ state.stage = "attempts" /\ Len(state.attempts) < MaxAttempts
    /\ \E tick \in state.clock .. MaxTick :
        state' = [state EXCEPT !.clock = tick, !.attempts = Append(@, tick)]
    /\ UNCHANGED past

\* The lease is dated when it was committed, as the attempt that committed it.
CommittedTick(s) == Last(s.attempts)

\* resolution_events: the attempts and the outcome, told after the resolution ended.
Report ==
    /\ state.part = "events" /\ state.stage = "attempts" /\ state.attempts # <<>>
    /\ LET told == [i \in DOMAIN state.attempts |-> Event("attempt", state.attempts[i])]
                       \o <<Event("commit", CommittedTick(state))>>
       IN  /\ state' = [FoldLeft(Observe, state, told) EXCEPT !.stage = "fingerprint", !.attempts = <<>>]
           /\ past' = past \o told

\* A resolution that failed is told with the tick of that moment.
ReportFailure ==
    /\ state.part = "events" /\ state.stage = "attempts"
    /\ \E tick \in state.clock .. MaxTick :
        LET e == Event("quarantine", tick) IN
        /\ state' = [Observe(state, e) EXCEPT !.clock = tick, !.stage = "fingerprint", !.attempts = <<>>]
        /\ past' = Append(past, e)

CensusNext ==
    \/ \E overflowed \in BOOLEAN : ImportLegacy(overflowed)
    \/ Discover
    \/ \E low \in {"none", "io", "mem32", "mem64", "fault"} : ReadBar(low)
    \/ \E pointer \in Legacy \cup {0, 1} : ListHead(pointer)
    \/ \E id \in Ids, next \in Legacy \cup Extended \cup {0}, fails \in BOOLEAN : Hop(id, next, fails)
    \/ Announce \/ Attempt \/ Report \/ ReportFailure

CensusSpec == CensusInit /\ [][CensusNext]_vars

-----------------------------------------------------------------------------
\* What the bus offered: the display functions behind a readable function zero, and only those of
\* its siblings that a multifunction header announces.
Offered ==
    {a \in Addresses : /\ state.bus[a] = "display"
                       /\ a[2] # 0 => a[1] \in state.multi /\ state.bus[<<a[1], 0>>] \in {"other", "display"}}

\* A scan that ended has listed every display function the bus offers exactly once, unless it says
\* it overflowed, and counts every read that failed; a function's registers and capabilities are
\* what the device answered, never the upper half of a register, and evidence that is lacking is
\* marked and admits no native driver; and while the clock does not go back every event a
\* resolution produces reaches the ledger and the mesh, in order, and none is refused.
EvidenceIsHonest ==
    CASE state.part = "inventory" ->
            /\ Cardinality(ToSet(state.found)) = Len(state.found)
            /\ state.done /\ state.legacy = {} /\ ~state.overflowed => Offered \subseteq ToSet(state.found)
            /\ state.faults = Cardinality({a \in past : state.bus[a] = "fault"})
      [] state.part = "device" ->
            /\ \A b \in past.upper : state.bars[b] = "none"
            /\ past.failed => state.incomplete /\ ~CensusNative
            /\ state.stage = "done" => state.caps = past.ids \/ (state.caps = {} /\ state.incomplete)
      [] OTHER -> ~state.fault /\ state.ledger = past /\ state.mesh = past

-----------------------------------------------------------------------------
(***************************************************************************)
(* Part GpuPortability.                                                    *)
(* drivers/gpu_portability.rs over driver-abi/gpu.rs: which driver         *)
(* strategies a display device's evidence proves compatible, and the one   *)
(* chosen among a list of candidates.  Identifiers are vendors' names; the *)
(* masks no manifest of the repository sets (device, subclass, revision,   *)
(* architecture, features) accept everything and are left out.             *)
(***************************************************************************)
PortabilityStrategies == {"HermesNvidia", "AmdDisplay", "IntelDisplay", "VirtioGpu", "VirtualSvga",
                          "FirmwareFramebuffer", "Quarantine"}
Topology == {"iommu_isolated", "virtual_machine", "firmware_surface"}

\* What fingerprinting found: the framebuffer flag and a usable framebuffer go together.
Fingerprints ==
    [vendor : PortabilityVendors, display : BOOLEAN, bar : {"absent", "io", "memory"}, length : Lengths,
     topology : SUBSET (Topology \ {"firmware_surface"}), framebuffer : BOOLEAN]

\* portable_evidence.
PortableEvidence(f) ==
    [vendor |-> f.vendor, display |-> f.display, bar |-> f.bar, length |-> f.length,
     topology |-> f.topology \cup (IF f.framebuffer THEN {"firmware_surface"} ELSE {}),
     surface |-> f.framebuffer]

\* native_manifest, paravirtual_manifest, firmware_manifest.
NativeManifest(vendor, priority) ==
    [vendor |-> vendor, display |-> TRUE, bars |-> TRUE, topology |-> {"iommu_isolated"}, firmware |-> FALSE,
     priority |-> priority]
ParavirtualManifest(vendor, priority) ==
    [NativeManifest(vendor, priority) EXCEPT !.topology = {"virtual_machine"}]
FirmwareManifest ==
    [vendor |-> "any", display |-> FALSE, bars |-> FALSE, topology |-> {"firmware_surface"}, firmware |-> TRUE,
     priority |-> 1000]

\* manifest_for, as a set: quarantine has none.
ManifestFor(strategy) ==
    CASE strategy = "HermesNvidia" -> {NativeManifest("nvidia", 2000)}
      [] strategy = "AmdDisplay" -> {NativeManifest("amd", 1800)}
      [] strategy = "IntelDisplay" -> {NativeManifest("intel", 1800)}
      [] strategy = "VirtioGpu" -> {ParavirtualManifest("virtio", 2500)}
      [] strategy = "VirtualSvga" -> {ParavirtualManifest("vmware", 2000)}
      [] strategy = "FirmwareFramebuffer" -> {FirmwareManifest}
      [] OTHER -> {}

\* GpuDeviceEvidence::valid: a register that is present has a length, one that is absent has none.
PortabilityValidEvidence(e) ==
    /\ ("firmware_surface" \in e.topology) = e.surface
    /\ (e.bar = "absent") = (e.length = 0)
    /\ e.vendor # "none" /\ (e.vendor # "any" \/ e.surface)

\* The obligations of a manifest, and those the evidence meets.
Obligations == {"abi", "identity", "class", "revision", "architecture", "topology", "features", "bars", "firmware"}

\* evaluate_compatibility.
Met(m, e) ==
    {o \in Obligations :
        CASE o = "identity" -> m.vendor \in {"any", e.vendor}
          [] o = "class" -> m.display => e.display
          [] o = "topology" -> m.topology \subseteq e.topology
          [] o = "bars" -> m.bars => e.bar = "memory" /\ e.length >= 1
          [] o = "firmware" -> m.firmware => e.surface
          [] OTHER -> TRUE}
Accepted(m, e) == PortabilityValidEvidence(e) /\ Met(m, e) = Obligations
PortabilityScore(m, e) == 6000 * Cardinality(Met(m, e)) + m.priority

\* prove: the score of a strategy that is compatible, as a set of at most one.
Prove(strategy, f) ==
    LET e == PortableEvidence(f) IN
    {PortabilityScore(m, e) : m \in {n \in ManifestFor(strategy) : Accepted(n, e)}}

PortabilityInit ==
    /\ state \in [fingerprint : Fingerprints, winner : {<<>>}, tied : {FALSE}, result : {"none"}]
    /\ past = [tried |-> {}, again |-> {}]

\* The cases of the loop: a better candidate starts afresh, an equal one ties.
Better(strategy, score) == [state EXCEPT !.winner = <<strategy, score>>, !.tied = FALSE]

\* choose, one candidate of the list.
Consider(strategy) ==
    /\ state.result = "none"
    /\ past' = [tried |-> past.tried \cup {strategy}, again |-> past.again \cup ({strategy} \cap past.tried)]
    /\ LET scores == Prove(strategy, state.fingerprint) IN
       \/ /\ scores = {}
          /\ UNCHANGED state
       \/ \E score \in scores :
          state' = IF state.winner = <<>> \/ score > state.winner[2] THEN Better(strategy, score)
                   ELSE [state EXCEPT !.tied = @ \/ score = state.winner[2]]

Finish ==
    /\ state.result = "none" /\ past.tried # {}
    /\ state' = [state EXCEPT !.result = IF state.tied THEN "ambiguous"
                                         ELSE IF state.winner = <<>> THEN "unsupported" ELSE state.winner[1]]
    /\ UNCHANGED past

PortabilityNext == (\E s \in Candidates : Consider(s)) \/ Finish

PortabilitySpec == PortabilityInit /\ [][PortabilityNext]_vars

-----------------------------------------------------------------------------

\* The strategy chosen is compatible with the device and scores above every other candidate;
\* the choice is ambiguous
\* only when the best candidate was listed twice; a native driver is chosen only for its own
\* vendor's isolated device with a memory register, and a paravirtual one only in a machine
\* that is virtual.
ChoiceIsSole ==
    LET f == state.fingerprint  r == state.result
        proved == {s \in past.tried : Prove(s, f) # {}}
    IN
    /\ r \in PortabilityStrategies =>
        /\ r \in proved
        /\ \A s \in proved \ {r} : \A a \in Prove(s, f), b \in Prove(r, f) : a < b
        /\ r \in {"HermesNvidia", "AmdDisplay", "IntelDisplay"} => "iommu_isolated" \in f.topology /\ f.bar = "memory"
        /\ r \in {"VirtioGpu", "VirtualSvga"} => "virtual_machine" \in f.topology /\ f.bar = "memory"
    /\ r = "ambiguous" =>
        \E s \in past.again \cap proved : \A t \in proved : \A a \in Prove(t, f), b \in Prove(s, f) : a <= b
    /\ r = "unsupported" => proved = {}

-----------------------------------------------------------------------------
(***************************************************************************)
(* Part DriverNetHost.                                                     *)
(* kernel/boulder/src/drivernet_host.rs and drivers/drivernet: what stands *)
(* around the dispatcher of module DriverNet.  Part "domains" derives the  *)
(* secrets of a boot from what it measured; part "oracle" fingerprints a   *)
(* display function and ranks the strategies for it with the numbers of    *)
(* the compiled model; part "brokers" runs the probe program of one shim   *)
(* against the broker of its strategy.                                     *)
(*                                                                         *)
(* Of the 24 features seven stand for the others: one of each way of being *)
(* encoded, known or unknown.  The compiled weights are a constant.  Roots *)
(* and seals are left out, a hash is an injective sequence.                *)
(***************************************************************************)
StrategyOrder == <<"hermes", "amd", "intel", "virtio", "svga", "firmware", "quarantine">>
HostStrategies == ToSet(StrategyOrder)
HostNative == {"hermes", "amd", "intel", "virtio", "svga"}
StrategyIndex(s) == CHOOSE i \in DOMAIN StrategyOrder : StrategyOrder[i] = s

\* PciFunctionRecord and TopologyEvidence: what discovery knows of a function.
HostFunctions ==
    [vendor : HostVendors, bars : Barses, list : BOOLEAN, usable : BOOLEAN,
     topology : SUBSET {"isolated", "virtual"}]

Unread == 65535

(* Fingerprints *)

\* fingerprint_device: a configuration read that failed leaves a default value
\* and the flag; the capability list is walked only if the status showed one.
FingerprintDevice(f, failing, overflowed) ==
    LET walked == f.list /\ "command" \notin failing
        failed == IF walked THEN failing ELSE failing \ {"capabilities"}
    IN  [vendor    |-> f.vendor,
         subsystem |-> IF "subsystem" \in failed THEN Unread ELSE 1,
         bars      |-> IF "bars" \in failed THEN [i \in DOMAIN f.bars |-> "none"] ELSE f.bars,
         msix      |-> walked /\ "capabilities" \notin failed,
         usable    |-> f.usable,
         flags     |-> f.topology
                       \cup (IF f.usable THEN {"framebuffer"} ELSE {})
                       \cup (IF overflowed THEN {"overflow"} ELSE {})
                       \cup (IF failed # {} THEN {"incomplete"} ELSE {})]

\* BarEvidence::is_mmio; "null" decodes to address 0, "short" declares < 4 bytes.
IsMmio(kind) == kind \in {"mmio", "null", "short"}
HasMmio(fp) == \E i \in DOMAIN fp.bars : IsMmio(fp.bars[i])
Present(fp) == {i \in DOMAIN fp.bars : fp.bars[i] # "none"}

\* total_declared_resources, in the 1 to 15 MiB tier for every long BAR.
TotalDeclared(fp) == Cardinality({i \in DOMAIN fp.bars : fp.bars[i] \in {"mmio", "null"}})

(* The oracle *)

VendorBucket(v) ==
    CASE v = "nvidia" -> 256 [] v = "amd" -> 224 [] v = "intel" -> 192 [] v = "virtio" -> 160
      [] v = "bochs" -> 112 [] OTHER -> 64

BoolFeature(b) == IF b THEN 256 ELSE 0

\* encode_features before normalize: a value and whether it is known.
Features(fp) ==
    [vendor    |-> [value |-> VendorBucket(fp.vendor), known |-> TRUE],
     subsystem |-> [value |-> (fp.subsystem * 255) \div Unread, known |-> fp.subsystem # Unread],
     msix      |-> [value |-> BoolFeature(fp.msix), known |-> TRUE],
     bars      |-> [value |-> Cardinality(Present(fp)) * 42, known |-> TRUE],
     resources |-> [value |-> IF TotalDeclared(fp) = 0 THEN 0 ELSE 32,
                    known |-> TotalDeclared(fp) # 0],
     isolated  |-> [value |-> BoolFeature("isolated" \in fp.flags), known |-> TRUE],
     firmware  |-> [value |-> BoolFeature(fp.usable), known |-> TRUE]]

FeatureQ == 256
Clamp(x, low, high) == IF x < low THEN low ELSE IF x > high THEN high ELSE x

\* i32 division truncates towards zero.
Quotient(a, b) == IF a >= 0 THEN a \div b ELSE -((-a) \div b)

Normalized(m, f, value) ==
    Clamp(Quotient((value - m.center[f]) * FeatureQ, m.scale[f]), -32768, 32767)

\* score_strategy: a feature not in known_mask is passed over.
Counts(features, f) == features[f].known

HostScore(m, s, fp) ==
    LET features == Features(fp)
    IN  m.bias[s] + MapThenSumSet(
            LAMBDA f : Normalized(m, f, features[f].value) * m.weight[s][f],
            {f \in DOMAIN features : Counts(features, f)})

VendorOf == [hermes |-> {"nvidia"}, amd |-> {"amd"}, intel |-> {"intel"},
             virtio |-> {"virtio"}, svga |-> {"vmware", "redhat", "bochs"}]


\* gate_strategy under OraclePolicy::BLACK_LAB.
Gate(s, fp) ==
    \/ s \notin HostNative /\ (s = "firmware" => fp.usable)
    \/ /\ s \in HostNative
       /\ fp.flags \cap {"overflow", "incomplete"} = {} /\ "isolated" \in fp.flags
       /\ fp.vendor \in VendorOf[s]
       /\ s # "svga" => HasMmio(fp)

\* The order of sort_unstable_by: admissible, score, index.
Before(scores, fp, a, b) ==
    IF Gate(a, fp) # Gate(b, fp) THEN Gate(a, fp)
    ELSE IF scores[a] # scores[b] THEN scores[a] > scores[b] ELSE StrategyIndex(a) < StrategyIndex(b)

Sorted(scores, fp) ==
    LET ahead == [s \in HostStrategies |-> Cardinality({t \in HostStrategies : Before(scores, fp, t, s)})]
    IN  [i \in DOMAIN StrategyOrder |-> CHOOSE s \in HostStrategies : ahead[s] = i - 1]

Position(ranked, s) == CHOOSE i \in DOMAIN ranked : ranked[i] = s

\* ranked[i ..= j].rotate_right(1)
RotateRight(ranked, i, j) ==
    [k \in DOMAIN ranked |->
        IF k < i \/ k > j THEN ranked[k] ELSE IF k = i THEN ranked[j] ELSE ranked[k - 1]]

OrderTerminalFallbacks(fp, ranked) ==
    LET f == Position(ranked, "firmware")
        q == Position(ranked, "quarantine")
    IN  IF fp.usable /\ q < f THEN RotateRight(ranked, q, f) ELSE ranked

PromoteSafeFallback(fp, ranked) ==
    RotateRight(ranked, 1, Position(ranked, IF fp.usable THEN "firmware" ELSE "quarantine"))

\* confidence_from_margin; the only admissible candidate has no margin to show.
Confidence(m, scores, fp, ranked) ==
    LET admissible == SelectSeq(ranked, LAMBDA s : Gate(s, fp))
        margin == scores[admissible[1]] - scores[admissible[2]]
    IN  IF Len(admissible) = 1 THEN Full
        ELSE IF margin <= 0 THEN 0
        ELSE Clamp((margin * Full) \div (Max({m.minimum[ranked[1]], 1}) * 8), 0, Full)

\* CompatibilityOracle::classify
Classify(m, fp) ==
    LET scores == [s \in HostStrategies |-> HostScore(m, s, fp)]
        ordered == OrderTerminalFallbacks(fp, Sorted(scores, fp))
        confidence == Confidence(m, scores, fp, ordered)
    IN  [confidence |-> confidence,
         ranked |-> IF confidence < MinimumConfidence THEN PromoteSafeFallback(fp, ordered)
                    ELSE ordered]

OracleInit ==
    state \in [part : {"oracle"}, function : HostFunctions, failing : Failures,
               overflowed : BOOLEAN, model : Models, decision : {<<>>}]

Ranks ==
    /\ state.part = "oracle" /\ state.decision = <<>>
    /\ LET fp == FingerprintDevice(state.function, state.failing, state.overflowed)
       IN  state' = [state EXCEPT !.decision = <<fp, Classify(state.model, fp)>>]
    /\ UNCHANGED past

(* The shims' probe programs *)

Probe(semantic, evidence, retries) == [semantic |-> semantic, evidence |-> evidence,
                                       retries |-> retries]

Identity == Probe("ValidateIdentity", "identity", 0)
Iommu == Probe("VerifyIommuIsolation", "iommu", 0)
MapBar == Probe("MapControlBarReadOnly", "mmio", 0)

HermesProgram ==
    <<Identity, Iommu, MapBar, Probe("SampleVendorSignature", "mmio", 2),
      Probe("VerifyResetMechanism", "reset", 1), Probe("VerifyTransportPersonality", "transport", 1),
      Probe("VerifyCommandRingGeometry", "ring", 0), Probe("EstablishHealthBaseline", "health", 1)>>

AmdProgram ==
    <<Identity, Iommu, MapBar, Probe("VerifyDisplayEngine", "engine", 2),
      Probe("VerifyResetMechanism", "reset", 1), Probe("EstablishHealthBaseline", "health", 1)>>

IntelProgram ==
    <<Identity, Iommu, MapBar, Probe("VerifyDisplayEngine", "engine", 2),
      Probe("VerifyResetMechanism", "reset", 1), Probe("EstablishHealthBaseline", "health", 1)>>

VirtioProgram ==
    <<Identity, Iommu, Probe("VerifyParavirtualCapability", "transport", 1),
      Probe("VerifyCommandRingGeometry", "ring", 0), Probe("EstablishHealthBaseline", "health", 1)>>

SvgaProgram ==
    <<Identity, Probe("VerifyParavirtualCapability", "transport", 1),
      Probe("VerifyDisplayEngine", "engine", 1), Probe("EstablishHealthBaseline", "health", 1)>>

FirmwareProgram ==
    <<Probe("VerifyFirmwareLease", "lease", 0), Probe("EstablishHealthBaseline", "health", 0)>>

QuarantineProgram == <<Probe("EstablishHealthBaseline", "health", 0)>>

\* ShimRegistry::black_lab, by strategy.
Program ==
    [hermes |-> HermesProgram, amd |-> AmdProgram, intel |-> IntelProgram,
     virtio |-> VirtioProgram, svga |-> SvgaProgram, firmware |-> FirmwareProgram,
     quarantine |-> QuarantineProgram]

\* required_evidence of each descriptor: all that its program gathers.
RequiredEvidence(s) == {Program[s][i].evidence : i \in DOMAIN Program[s]}

\* required_topology and the vendor gate of the descriptors.
GateVendor(s) == IF s \in {"hermes", "amd", "intel", "virtio"} THEN VendorOf[s] ELSE HostVendors

RequiredTopology(s) ==
    CASE s \in {"hermes", "amd", "intel"} -> {"isolated"}
      [] s \in {"virtio", "svga"} -> {"virtual"}
      [] s = "firmware" -> {"framebuffer"}
      [] OTHER -> {}

\* ShimDescriptor::accepts; the confidence was tested by the dispatcher.
Accepts(s, fp) == fp.vendor \in GateVendor(s) /\ RequiredTopology(s) \subseteq fp.flags

NoBar == 99
NoTx == [bar |-> NoBar, sample |-> 0]

BrokersInit ==
    \E f \in HostFunctions, s \in HostStrategies :
        LET fp == FingerprintDevice(f, {}, FALSE)
        IN  /\ Gate(s, fp) /\ Accepts(s, fp)
            /\ state = [part |-> "brokers", strategy |-> s, fp |-> fp, stage |-> "begin",
                        step |-> 1, tries |-> 0, bar |-> NoBar, window |-> FALSE, words |-> <<>>,
                        tx |-> NoTx, evidence |-> {}, outcome |-> "none"]

Step == Program[state.strategy][state.step]

Rejected(s) == [s EXCEPT !.stage = "done", !.outcome = "ActivationRejected"]

\* BoulderNativeHost::begin: there is a portability proof, or the candidate is
\* inadmissible.  A token that happens to be 0 is rejected by the platform.
NativeBegun(s) == {Rejected(s), [s EXCEPT !.stage = "probe"]}

\* FirmwareFramebufferBroker::begin: the scanout is inspected.
FirmwareBegun(s) == {Rejected(s), [s EXCEPT !.stage = "probe"]}

\* QuarantineBroker::begin
QuarantineBegun(s) == {[s EXCEPT !.stage = "probe"]}

Begin ==
    /\ state.part = "brokers" /\ state.stage = "begin"
    /\ state' \in CASE state.strategy \in HostNative -> NativeBegun(state)
                    [] state.strategy = "firmware" -> FirmwareBegun(state)
                    [] OTHER -> QuarantineBegun(state)
    /\ UNCHANGED past

\* A BackendFault of the current step: retried while it may be.
Faulted(s, retryable) ==
    IF retryable /\ s.tries < Program[s.strategy][s.step].retries
    THEN [s EXCEPT !.stage = "probe", !.tries = @ + 1]
    ELSE [s EXCEPT !.stage = "rollback"]

\* run_probe_program takes an observation, and try_candidate what follows the
\* last one: the evidence the descriptor requires, then the activation.
Observed(s, evidence) ==
    LET gathered == s.evidence \cup {evidence}
        last == s.step = Len(Program[s.strategy])
    IN  [s EXCEPT !.evidence = gathered, !.tries = 0,
                  !.step = IF last THEN @ ELSE @ + 1,
                  !.stage = IF ~last THEN "probe"
                            ELSE IF RequiredEvidence(s.strategy) \subseteq gathered THEN "activate"
                            ELSE "rollback"]

\* probe of the firmware and of the quarantine broker.
FirmwareAnswers(s, semantic) ==
    s = "firmware" /\ semantic \in {"VerifyFirmwareLease", "EstablishHealthBaseline"}
QuarantineAnswers(s, semantic) == s = "quarantine" /\ semantic = "EstablishHealthBaseline"

\* The steps a broker answers without touching the device.
Provable(s, semantic) ==
    \/ s \in HostNative /\ semantic \in {"ValidateIdentity", "VerifyIommuIsolation"}
    \/ s \in {"virtio", "svga"} /\ semantic = "VerifyParavirtualCapability"
    \/ FirmwareAnswers(s, semantic) \/ QuarantineAnswers(s, semantic)

\* What VerifyIommuIsolation and ValidateIdentity test of the fingerprint.
ProofHolds(s, semantic, fp) ==
    /\ semantic = "VerifyIommuIsolation" => "isolated" \in fp.flags
    /\ semantic = "ValidateIdentity" => fp.vendor \in GateVendor(s)

Sampling == {"MapControlBarReadOnly", "SampleVendorSignature", "EstablishHealthBaseline"}
ReadsDevice(s, semantic) == s \in HostNative /\ semantic \in Sampling

\* probe of the three brokers for a step that reads no register.  Any step may
\* be found to have passed its deadline.
ProbeStep ==
    /\ state.part = "brokers" /\ state.stage = "probe"
    /\ ~ReadsDevice(state.strategy, Step.semantic)
    /\ LET proved == /\ Provable(state.strategy, Step.semantic)
                     /\ ProofHolds(state.strategy, Step.semantic, state.fp)
       IN  \/ proved /\ state' = Observed(state, Step.evidence)
           \/ ~proved /\ state' = Faulted(state, FALSE)
           \/ state' = [state EXCEPT !.stage = "rollback"]
    /\ UNCHANGED past

\* sample_bar: the preferred BAR if it can be sampled, else the first that can.
Sampleable(fp, i) == i \in DOMAIN fp.bars /\ fp.bars[i] \in {"mmio", "null"}
Selected(fp, preferred) ==
    IF Sampleable(fp, preferred) THEN {preferred}
    ELSE LET able == {i \in DOMAIN fp.bars : Sampleable(fp, i)}
         IN  IF able = {} THEN {} ELSE {Min(able)}

Preferred == IF Step.semantic = "MapControlBarReadOnly" THEN 0 ELSE state.tx.bar

\* sample_bar up to MmioWindow::map.
MapWindow ==
    /\ state.part = "brokers" /\ state.stage = "probe"
    /\ ReadsDevice(state.strategy, Step.semantic)
    /\ LET bars == Selected(state.fp, Preferred)
       IN  \/ /\ bars = {} \/ \E i \in bars : state.fp.bars[i] = "null"
              /\ state' = Faulted(state, FALSE)
           \/ \E i \in bars :
                /\ state.fp.bars[i] # "null"
                /\ \/ state' = [state EXCEPT !.stage = "mapped", !.bar = i, !.window = TRUE]
                   \/ state' = Faulted(state, TRUE)
    /\ UNCHANGED past

\* Both reads; their results are kept until the window is closed.
ReadsKept(s, words) == [s EXCEPT !.stage = "read", !.words = words]

ReadWindow ==
    /\ state.part = "brokers" /\ state.stage = "mapped"
    /\ \E first, second \in Samples : state' = ReadsKept(state, <<first, second>>)
    /\ UNCHANGED past

\* SampleVendorSignature: compared with the sample of the mapping, unless that was 0.
SignatureAgrees(tx, sample) == tx.sample = 0 \/ tx.sample = sample

\* window.close, the judgement of the two words, and the step's use of the sample.
CloseWindow ==
    /\ state.part = "brokers" /\ state.stage = "read"
    /\ \E closed \in BOOLEAN :
        LET shut   == [state EXCEPT !.window = FALSE, !.words = <<>>, !.bar = NoBar]
            sample == state.words[1]
            stable == closed /\ sample = state.words[2] /\ sample # Ones
            tx     == [bar |-> state.bar, sample |-> sample]
        IN  \/ ~stable /\ state' = Faulted(shut, TRUE) /\ past' = past
            \/ /\ stable /\ Step.semantic # "SampleVendorSignature"
               /\ LET maps == Step.semantic = "MapControlBarReadOnly"
                  IN  /\ state' = Observed(IF maps THEN [shut EXCEPT !.tx = tx] ELSE shut,
                                           Step.evidence)
                      /\ past' = IF maps THEN Append(past, tx) ELSE past
            \/ /\ stable /\ Step.semantic = "SampleVendorSignature"
               /\ IF SignatureAgrees(state.tx, sample)
                  THEN /\ state' = Observed([shut EXCEPT !.tx.sample = sample], "mmio")
                       /\ past' = Append(past, tx)
                  ELSE state' = Faulted(shut, TRUE) /\ past' = past

\* BoulderNativeHost::activate; its health and commit refuse as well.
NativeActivated(s) == [s EXCEPT !.stage = "rollback"]

\* activate and health of the firmware broker, and of the quarantine broker.
FirmwareActivated(s) == [s EXCEPT !.stage = "commit"]
QuarantineActivated(s) == [s EXCEPT !.stage = "commit"]

Activate ==
    /\ state.part = "brokers" /\ state.stage = "activate"
    /\ state' = CASE state.strategy \in HostNative -> NativeActivated(state)
                  [] state.strategy = "firmware" -> FirmwareActivated(state)
                  [] OTHER -> QuarantineActivated(state)
    /\ UNCHANGED past

\* commit: retaining the scanout may fail.
HostCommit ==
    /\ state.part = "brokers" /\ state.stage = "commit"
    /\ \/ state' = [state EXCEPT !.stage = "done", !.outcome = "Committed"]
       \/ state.strategy = "firmware" /\ state' = [state EXCEPT !.stage = "rollback"]
    /\ UNCHANGED past

\* rollback of the native host, and of the quarantine broker: the token is not
\* 0, so neither fails.
NativeUndone(s) == [s EXCEPT !.tx = NoTx]
QuarantineUndone(s) == [s EXCEPT !.tx = NoTx]

\* rollback_record; the firmware broker has nothing to undo before its commit.
Rollback ==
    /\ state.part = "brokers" /\ state.stage = "rollback"
    /\ LET undone == CASE state.strategy \in HostNative -> NativeUndone(state)
                       [] state.strategy = "quarantine" -> QuarantineUndone(state)
                       [] OTHER -> state
       IN  state' = [undone EXCEPT !.stage = "done", !.outcome = "RolledBack"]
    /\ UNCHANGED past

(* The domains of a boot *)

Devices == Octets \X Octets
Framebuffers == {<<>>} \cup Octets \X Octets

\* PciInventory and the boot framebuffer, as derive_gpu_boot_domains is given them.
Measurements == [devices : UNION {[1 .. n -> Devices] : n \in 0 .. MaxDevices},
                 framebuffer : Framebuffers]

\* The transcript: the number of devices, each device, the framebuffer or its absence.
Transcript(m) ==
    <<Len(m.devices)>> \o FlattenSeq(m.devices)
    \o (IF m.framebuffer = <<>> THEN <<0>> ELSE <<1>> \o m.framebuffer)

\* The test of the schedule: no value 0, no two equal.
ScheduleDistinct(values) ==
    \A i \in DOMAIN values : values[i] # 0 /\ \A j \in DOMAIN values : i < j => values[i] # values[j]

\* DriverNetSecrets::valid, of the secrets after Black Lab's first one.
SecretsValid(secrets) ==
    \A i, j \in DOMAIN secrets : secrets[i] # 0 /\ (i # j => secrets[i] # secrets[j])

TranscriptsInit == state \in [part : {"transcripts"}, boots : Measurements \X Measurements]

DomainsInit ==
    state \in [part : {"domains"}, empty : BOOLEAN, overflowed : BOOLEAN,
               result : {"none"}, values : {<<>>}]

\* DriverNet::new_measured, of a schedule that was accepted.
NewMeasured(values) == IF SecretsValid(Tail(values)) THEN "derived" ELSE "InvalidSecrets"

\* derive_gpu_boot_domains after its transcript.  What HKDF expands to is any
\* sequence of words.
Derive ==
    /\ state.part = "domains" /\ state.result = "none"
    /\ \/ state.empty /\ state' = [state EXCEPT !.result = "EmptyMeasurement"]
       \/ ~state.empty /\ state.overflowed
          /\ state' = [state EXCEPT !.result = "IncompleteInventory"]
       \/ ~state.empty /\ ~state.overflowed
          /\ \E values \in [1 .. Schedule -> 0 .. Schedule] :
                state' = [state EXCEPT !.values = values,
                            !.result = IF ~ScheduleDistinct(values) THEN "InvalidSchedule"
                                       ELSE NewMeasured(values)]
    /\ UNCHANGED past

HostInit == past = <<>> /\ (OracleInit \/ BrokersInit \/ TranscriptsInit \/ DomainsInit)

HostNext == Ranks \/ Begin \/ ProbeStep \/ MapWindow \/ ReadWindow \/ CloseWindow \/ Activate
            \/ HostCommit \/ Rollback \/ Derive

HostSpec == HostInit /\ [][HostNext]_vars

-----------------------------------------------------------------------------
\* drivers/drivernet/model.rs, classify: whatever the weights are, a native
\* driver heads the ranking only for a function of its vendor that is isolated,
\* fully read and from a complete inventory, and then with a score above that of
\* the firmware display it would displace; what cannot be used never stands
\* before what can, and a usable firmware display stands before quarantine.  A
\* read that failed moves no score: the subsystem id it left behind counts for
\* nothing.
RankingIsCareful ==
    state.part = "oracle" /\ state.decision # <<>> =>
        LET fp     == state.decision[1]
            ranked == state.decision[2].ranked
            best   == ranked[1]
        IN  /\ ToSet(ranked) = HostStrategies
            /\ best \in HostNative =>
                /\ state.failing \subseteq {"capabilities"} /\ ~state.overflowed
                /\ state.failing # {} => ~state.function.list
                /\ "isolated" \in state.function.topology
                /\ fp.vendor \in VendorOf[best]
                /\ fp.usable => HostScore(state.model, best, fp) > HostScore(state.model, "firmware", fp)
            /\ \A i, j \in DOMAIN ranked : i < j /\ Gate(ranked[j], fp) => Gate(ranked[i], fp)
            /\ fp.usable => Position(ranked, "firmware") < Position(ranked, "quarantine")
            /\ "subsystem" \in state.failing =>
                \A s \in HostStrategies :
                    HostScore(state.model, s, fp) =
                    HostScore([state.model EXCEPT !.weight[s]["subsystem"] = 0], s, fp)

\* drivernet_host.rs, BoulderNativeHost: however the device answers, a window
\* into a BAR is open only inside sample_bar; no evidence of a reset path, a
\* display engine or a command ring is ever produced, so no native strategy comes
\* to its activation; and the samples that were taken as evidence of one decoding
\* BAR were of one BAR and, unless the first was 0, of one value.
ProbesAreHonest ==
    state.part = "brokers" =>
        /\ state.window <=> state.stage \in {"mapped", "read"}
        /\ state.evidence \cap {"reset", "engine", "ring"} = {}
        /\ "transport" \in state.evidence => state.strategy \in {"virtio", "svga"}
        /\ (state.stage \in {"activate", "commit"} \/ state.outcome = "Committed")
            => /\ state.strategy \notin HostNative
               /\ RequiredEvidence(state.strategy) \subseteq state.evidence
        /\ \A i, j \in DOMAIN past :
            /\ past[i].bar = past[j].bar /\ past[i].sample # Ones
            /\ past[1].sample # 0 => past[i].sample = past[j].sample
        /\ state.outcome = "RolledBack" => state.tx = NoTx

\* drivernet_host.rs, derive_gpu_boot_domains: two boots that measured different
\* hardware have different transcripts, and a schedule that is handed out has no
\* two equal secrets, so that DriverNet never refuses it.
DomainsAreApart ==
    /\ state.part = "transcripts" =>
        (Transcript(state.boots[1]) = Transcript(state.boots[2]) =>
            state.boots[1] = state.boots[2])
    /\ state.part = "domains" =>
        /\ state.result # "InvalidSecrets"
        /\ state.result = "derived" =>
            Cardinality(ToSet(state.values)) = Schedule /\ 0 \notin ToSet(state.values)

HostIsHonest == RankingIsCareful /\ ProbesAreHonest /\ DomainsAreApart

-----------------------------------------------------------------------------
(***************************************************************************)
(* Part FirmwareScanout.                                                   *)
(* drivers/firmware_display.rs: the framebuffers the firmware left, as     *)
(* objects with reference counts, spans of them mapped for a while, and    *)
(* the boot signature drawn through such a span while other holders may    *)
(* release the object.  Pixels are packed and unpacked by what the formats *)
(* do to a colour; the device memory keeps what is written (external).     *)
(***************************************************************************)
NoDraw == [at |-> "idle", object |-> 0, length |-> 0, pixel |-> <<0, 0>>, rows |-> 0]

ScanoutInit ==
    /\ state = [slots |-> <<>>, draw |-> NoDraw, mapped |-> 0, result |-> "none"]
    /\ past = {}

Least(a, b) == IF a < b THEN a ELSE b

\* validate_evidence: rows do not overlap and all of them lie in the framebuffer.
ScanoutValidEvidence(e) ==
    /\ e.retained /\ e.width > 0 /\ e.height > 0 /\ e.pitch > 0 /\ e.length > 0
    /\ e.pitch >= e.width * e.bytes /\ e.pitch % e.bytes = 0 /\ e.address % e.bytes = 0
    /\ e.length >= e.pitch * e.height

\* inspect: the object of a known framebuffer again, or a new one while there is room.
Inspect(e) ==
    /\ ScanoutValidEvidence(e)
    /\ ~\E i \in DOMAIN state.slots : state.slots[i].evidence = e
    /\ Len(state.slots) < ScanoutCapacity
    /\ state' = [state EXCEPT !.slots = Append(@, [evidence |-> e, count |-> 0])]
    /\ UNCHANGED past

Retain(i) ==
    /\ i \in DOMAIN state.slots /\ state.slots[i].count < MaxHolders
    /\ state' = [state EXCEPT !.slots[i].count = @ + 1]
    /\ UNCHANGED past

\* release refuses an object nobody holds.
Release(i) ==
    /\ i \in DOMAIN state.slots /\ state.slots[i].count > 0
    /\ state' = [state EXCEPT !.slots[i].count = @ - 1]
    /\ UNCHANGED past

\* The stripe drawn: as many rows as the largest mapping holds.
StripeHeight(e) == Least(Least(SignatureBytes \div e.pitch, e.height), SignatureRows)

\* render_boot_signature looks at the object ...
Look(i) ==
    /\ state.draw.at = "idle" /\ i \in DOMAIN state.slots /\ state.slots[i].count > 0
    /\ LET e == state.slots[i].evidence  rows == StripeHeight(e) IN
       /\ rows > 0
       /\ state' = [state EXCEPT !.result = "none",
                                 !.draw = [at |-> "map", object |-> i, length |-> e.pitch * rows,
                                           pixel |-> <<0, 0>>, rows |-> rows]]
    /\ past' = {}

\* ... and maps its stripe, looking again (map_span).
Map ==
    LET d == state.draw IN
    /\ d.at = "map"
    /\ LET s == state.slots[d.object] IN
       state' = IF s.count > 0 /\ d.length <= s.evidence.length
                THEN [state EXCEPT !.mapped = @ + 1, !.draw.at = "draw"]
                ELSE [state EXCEPT !.draw = NoDraw, !.result = "failed"]
    /\ UNCHANGED past

\* pixel_location.
Offset(e, x, y) == y * e.pitch + x * e.bytes

\* An error of a pixel still goes through the close.
Failed == [state EXCEPT !.draw.at = "close", !.result = "failed"]

\* write_pixel, and read_pixel of the pixels verified: the object is looked at each time.
Pixel ==
    LET d == state.draw  x == d.pixel[1]  y == d.pixel[2]
        s == state.slots[d.object]  e == s.evidence
        last == x + 1 = e.width /\ y + 1 = d.rows
    IN
    /\ d.at = "draw"
    /\ IF s.count = 0 \/ Offset(e, x, y) + e.bytes > d.length
       THEN /\ state' = Failed
            /\ UNCHANGED past
       ELSE /\ state' = IF last THEN [state EXCEPT !.draw.at = "close", !.result = "drawn"]
                        ELSE [state EXCEPT !.draw.pixel = IF x + 1 = e.width THEN <<0, y + 1>> ELSE <<x + 1, y>>]
            /\ past' = past \cup {<<x, y, Offset(e, x, y), e.bytes>>}

\* close: the mapping is released whatever the drawing gave; if that fails, so does the drawing.
Close(ok) ==
    /\ state.draw.at = "close"
    /\ state' = [state EXCEPT !.mapped = @ - 1, !.draw = NoDraw,
                              !.result = IF ok THEN @ ELSE "failed"]
    /\ UNCHANGED past

ScanoutNext ==
    \/ \E e \in Evidence : Inspect(e)
    \/ \E i \in 1..ScanoutCapacity : Retain(i) \/ Release(i) \/ Look(i)
    \/ Map \/ Pixel
    \/ \E ok \in BOOLEAN : Close(ok)

ScanoutSpec == ScanoutInit /\ [][ScanoutNext]_vars

-----------------------------------------------------------------------------
(* Colours *)

Colours == [red : Channels, green : Channels, blue : Channels]

\* expand_5, expand_6: the high bits are repeated below.
Expand5(v) == LET w == v % 32 IN w * 8 + w \div 4
Expand6(v) == LET w == v % 64 IN w * 4 + w \div 16

\* write_pixel of RGB565 ...
Pack565(c) == (c.red \div 8) * 2048 + (c.green \div 4) * 32 + c.blue \div 8

\* ... and read_pixel: each field is cut out of the word.
Unpack565(v) == [red |-> Expand5((v \div 2048) % 256), green |-> Expand6((v \div 32) % 256), blue |-> Expand5(v % 256)]

\* XRGB8888 and XBGR8888.
Pack888(c, swapped) ==
    IF swapped THEN c.blue * 65536 + c.green * 256 + c.red ELSE c.red * 65536 + c.green * 256 + c.blue
Unpack888(v, swapped) ==
    LET high == (v \div 65536) % 256  low == v % 256 IN
    [red |-> IF swapped THEN low ELSE high, green |-> (v \div 256) % 256, blue |-> IF swapped THEN high ELSE low]

\* normalize_color: what a format keeps of a colour.
Normalize565(c) == [red |-> Expand5(c.red \div 8), green |-> Expand6(c.green \div 4), blue |-> Expand5(c.blue \div 8)]

\* A pixel drawn never reaches outside the stripe that is mapped, inside the framebuffer, and no
\* two pixels share a byte; a mapping exists exactly while one drawing is between its map and its
\* close, a stripe reported drawn has all its pixels, and a colour reads back as the format keeps it.
PixelsStayInside ==
    /\ LET d == state.draw IN d.object # 0 =>
        /\ d.length <= SignatureBytes /\ d.length <= state.slots[d.object].evidence.length
        /\ \A p \in past : p[3] + p[4] <= d.length
    /\ \A p, q \in past : p # q => p[3] + p[4] <= q[3] \/ q[3] + q[4] <= p[3]
    /\ state.mapped = IF state.draw.at \in {"draw", "close"} THEN 1 ELSE 0
    /\ state.result = "drawn" /\ state.draw.at = "close" =>
        LET d == state.draw  e == state.slots[d.object].evidence IN
        \A x \in 0..e.width-1, y \in 0..d.rows-1 : \E p \in past : p[1] = x /\ p[2] = y
    /\ \A c \in Colours :
        /\ Unpack565(Pack565(c)) = Normalize565(c)
        /\ \A swapped \in BOOLEAN : Unpack888(Pack888(c, swapped), swapped) = c

-----------------------------------------------------------------------------
(***************************************************************************)
(* Part ObjectLoader.                                                      *)
(* Loading object code: the relocatable objects of module/foreign_elf.rs   *)
(* (parsed by elf.rs, planned, then committed into an image in one go),    *)
(* the executables of module/loader.rs, the PE images of pe_loader.rs and  *)
(* the patch batches of relocator.rs.  Addresses, sizes and the page are   *)
(* scaled down; names, symbol bindings and header constants are left out:  *)
(* a check on them passes or refuses, and a refusal keeps nothing.         *)
(***************************************************************************)
Flags == {{}, {"w"}, {"x"}, {"w", "x"}}

Fresh(format) == [format |-> format, at |-> "sections", placed |-> <<>>, size |-> 0, patches |-> {}]

LoaderInit ==
    /\ state \in {Fresh(f) : f \in {"object", "segments", "portable"}}
    /\ past = <<>>

Overlap(from1, to1, from2, to2) == from1 < to2 /\ from2 < to1

AlignUp(value, alignment) == ((value + alignment - 1) \div alignment) * alignment

Larger(a, b) == IF a > b THEN a ELSE b

\* What a placement copies from the file.
FileRange(p) == p.file .. (p.file + p.bytes - 1)

\* What a placement covers of the image.
Covers(p) == p.at .. (p.at + p.memory - 1)

\* validate_file_layout: inside the file, clear of the header, the table and the earlier sections.
FileLayout(offset, bytes) ==
    bytes > 0 => /\ offset + bytes <= FileLength
                 /\ ~Overlap(offset, offset + bytes, 0, HeaderEnd)
                 /\ ~Overlap(offset, offset + bytes, TableAt, FileLength)
                 /\ \A i \in DOMAIN state.placed :
                        LET p == state.placed[i] IN
                        p.bytes > 0 => ~Overlap(offset, offset + bytes, p.file, p.file + p.bytes)

\* plan_allocated_sections: a section starts at a page or at its larger alignment.
SectionStart(alignment) == AlignUp(state.size, Larger(alignment, Page))

\* One allocated section of a relocatable object (validate_section_kinds, plan_allocated_sections).
ObjectSection(kind, flags, offset, size, alignment) ==
    LET bytes == IF kind = "nobits" THEN 0 ELSE size
        start == SectionStart(alignment) IN
    /\ state.format = "object" /\ state.at = "sections" /\ Len(state.placed) < MaxSections
    /\ size > 0 /\ flags # {"w", "x"} /\ FileLayout(offset, bytes)
    /\ Larger(alignment, Page) <= MaximumImage /\ start + size <= MaximumImage
    /\ state' = [state EXCEPT !.size = start + size,
                              !.placed = Append(@, [at |-> start, memory |-> size, file |-> offset,
                                                    bytes |-> bytes, flags |-> flags])]
    /\ UNCHANGED past

\* ranges_overlap, sections_overlap: an image range no earlier segment has.
ClearOfOthers(at, size) ==
    \A i \in DOMAIN state.placed : ~Overlap(at, at + size, state.placed[i].at, state.placed[i].at + state.placed[i].memory)

\* One PT_LOAD segment of an executable (LoadPlan::parse); it is placed where it asks to be.
LoadSegment(flags, offset, bytes, at, size, alignment) ==
    /\ state.format = "segments" /\ state.at = "sections" /\ Len(state.placed) < MaxSections
    /\ size > 0 /\ flags # {"w", "x"} /\ bytes <= size /\ offset + bytes <= FileLength
    /\ alignment > 1 => offset % alignment = at % alignment
    /\ ClearOfOthers(at, size)
    /\ state' = [state EXCEPT !.size = Larger(@, at + size),
                              !.placed = Append(@, [at |-> at, memory |-> size, file |-> offset,
                                                    bytes |-> bytes, flags |-> flags])]
    /\ UNCHANGED past

\* One section of a PE image (PeLoadPlan::parse): the larger of the two sizes is reserved.
PeSection(flags, offset, bytes, at, size, alignment) ==
    LET reserved == Larger(size, bytes) IN
    /\ state.format = "portable" /\ state.at = "sections" /\ Len(state.placed) < MaxSections
    /\ flags # {"w", "x"} /\ at % alignment = 0 /\ offset + bytes <= FileLength
    /\ at + reserved <= MaximumImage /\ ClearOfOthers(at, reserved)
    /\ state' = [state EXCEPT !.size = Larger(@, at + reserved),
                              !.placed = Append(@, [at |-> at, memory |-> reserved, file |-> offset,
                                                    bytes |-> bytes, flags |-> flags])]
    /\ UNCHANGED past

\* The plan stands: something executable, and an entry symbol inside it (resolve_entry_symbol).
Plan(entry) ==
    /\ state.at = "sections" /\ entry \in DOMAIN state.placed
    /\ "x" \in state.placed[entry].flags
    /\ AlignUp(state.size, Page) <= MaximumImage
    /\ state' = [state EXCEPT !.at = "planned", !.size = AlignUp(@, Page)]
    /\ UNCHANGED past

\* prepare_patch: the patch lies in its target section.
PatchFits(target, offset, width) == offset + width <= target.memory

\* One relocation of an object is evaluated; an absolute one is twice as wide as a relative one.
\* Patches that overlap refuse the plan (prepare_relocations).
PreparePatch(i, offset, width) ==
    LET target == state.placed[i] IN
    /\ state.at = "planned" /\ state.format = "object" /\ Cardinality(state.patches) < MaxPatches
    /\ PatchFits(target, offset, width)
    /\ LET patch == [at |-> target.at + offset, width |-> width, section |-> i] IN
       /\ \A p \in state.patches : ~Overlap(patch.at, patch.at + width, p.at, p.at + p.width)
       /\ state' = [state EXCEPT !.patches = @ \cup {patch}]
    /\ UNCHANGED past

\* The plan is dropped before it is committed: a later relocation was refused.
Refuse ==
    /\ state.at = "planned"
    /\ state' = [Fresh(state.format) EXCEPT !.at = "done"]
    /\ UNCHANGED past

\* The image after the copies and patches: which placement or patch wrote each byte last.
Written(i) ==
    LET patched == {p \in state.patches : i \in p.at .. (p.at + p.width - 1)}
        copied == {j \in DOMAIN state.placed : i \in state.placed[j].at .. (state.placed[j].at + state.placed[j].bytes - 1)} IN
    [by |-> IF patched # {} THEN "patch" ELSE IF copied # {} THEN "file" ELSE "zero",
     writers |-> Cardinality(patched) + (IF patched = {} THEN Cardinality(copied) ELSE 0)]

\* commit: the image is cleared, the sections copied, the patches written.
LoaderCommit ==
    /\ state.at = "planned"
    /\ state' = [state EXCEPT !.at = "done"]
    /\ past' = [i \in 0..(state.size - 1) |-> Written(i)]

LoaderNext ==
    \/ Refuse \/ LoaderCommit
    \/ \E flags \in Flags, offset \in Offsets, size \in Sizes, alignment \in Alignments :
        \/ \E kind \in {"bits", "nobits"} : ObjectSection(kind, flags, offset, size, alignment)
        \/ \E bytes \in Sizes \cup {0}, at \in 0..2 :
            \/ LoadSegment(flags, offset, bytes, at, size, alignment)
            \/ PeSection(flags, offset, bytes, at, size, alignment)
    \/ \E entry \in 1..MaxSections : Plan(entry)
    \/ \E i \in DOMAIN state.placed, offset \in 0..3, width \in {1, 2} : PreparePatch(i, offset, width)

LoaderSpec == LoaderInit /\ [][LoaderNext]_vars

-----------------------------------------------------------------------------
\* Loading is exact.  No byte is placed twice; nothing is read from the header or the section
\* table of an object; the pages of an object's executable sections hold nothing writable; a patch
\* changes bytes of its own section only; and after the commit each byte was written at most
\* once by a section and at most once by a patch, so the order of the copies does not matter.
LoadingIsExact ==
    /\ \A i, j \in DOMAIN state.placed : i # j => Covers(state.placed[i]) \cap Covers(state.placed[j]) = {}
    /\ \A i \in DOMAIN state.placed : FileRange(state.placed[i]) \subseteq 0..(FileLength - 1)
    /\ state.format = "object" =>
        \A i, j \in DOMAIN state.placed :
            "x" \in state.placed[i].flags /\ "w" \in state.placed[j].flags =>
                {b \div Page : b \in Covers(state.placed[i])} \cap {b \div Page : b \in Covers(state.placed[j])} = {}
    /\ \A p \in state.patches : p.at .. (p.at + p.width - 1) \subseteq Covers(state.placed[p.section])
    /\ \A i \in DOMAIN past : past[i].writers <= 1

-----------------------------------------------------------------------------
(***************************************************************************)
(* Part Charybdis.                                                         *)
(* The DMA firewall of charybdis_dma_firewall.rs.  A driver prepares a     *)
(* mapping inside an aperture, witnesses vote, commit hands it to the      *)
(* backend with the lock released, revoke takes it back the same way.      *)
(* Addresses and lengths are in pages; the masked comparison of a device   *)
(* is the set of devices it accepts.  Tags are left out: a ticket is only  *)
(* its slot and generation, so nothing rests on tags being distinct.       *)
(* Saturating totals are statistics and are left out.                      *)
(***************************************************************************)
NoAperture == [occupied |-> FALSE]

Cleared(generation) == [phase |-> "Empty", generation |-> generation]

FirewallInit ==
    /\ state = [apertures |-> [a \in ApertureSlots |-> NoAperture],
                mappings |-> [s \in FirewallSlots |-> Cleared(1)],
                results |-> [s \in FirewallSlots |-> "none"]]
    /\ past = [reach |-> {}, issued |-> <<>>, pardoned |-> {}]

Occupied == {a \in ApertureSlots : state.apertures[a].occupied}

Mapped == {s \in FirewallSlots : state.mappings[s].phase # "Empty"}

End(start, length) == start + length

RangesOverlap(i, j) ==
    i.device_address < End(j.device_address, j.length) /\ j.device_address < End(i.device_address, i.length)

ValidateIntent(i, now) == i.length > 0 /\ i.expires_at > now /\ i.access # {} /\ i.witness_quorum > 0

ApertureMatches(a, i) ==
    /\ a.policy_epoch = i.policy_epoch
    /\ a.domain = i.domain
    /\ i.device \in a.devices
    /\ i.access \subseteq a.allowed_access
    /\ i.length <= a.maximum_mapping
    /\ a.device_start <= i.device_address /\ End(i.device_address, i.length) <= a.device_end
    /\ a.physical_start <= i.physical_address /\ End(i.physical_address, i.length) <= a.physical_end

WithinQuota(record, length) == record.reserved + length <= record.aperture.maximum_total

FirewallSuccessor(generation) == IF generation = GenerationMax THEN 1 ELSE generation + 1

Ticket(s) == [slot |-> s, generation |-> state.mappings[s].generation]

\* validate_ticket, for tickets that were issued.
ValidTicket(t) ==
    /\ t \in DOMAIN past.issued
    /\ t.slot \in Mapped
    /\ state.mappings[t.slot].generation = t.generation

InstallAperture(a) ==
    /\ \A b \in Occupied : state.apertures[b].aperture.id # a.id
    /\ \E b \in ApertureSlots \ Occupied :
          /\ \A c \in ApertureSlots \ Occupied : b <= c
          /\ state' = [state EXCEPT !.apertures[b] = [occupied |-> TRUE, aperture |-> a, reserved |-> 0]]
    /\ UNCHANGED past

RemoveAperture(b) ==
    /\ b \in Occupied
    /\ state.apertures[b].reserved = 0
    /\ state' = [state EXCEPT !.apertures[b] = NoAperture]
    /\ UNCHANGED past

Prepare(i, now) ==
    LET matching == {a \in Occupied : ApertureMatches(state.apertures[a].aperture, i)}
        free == FirewallSlots \ Mapped IN
    /\ Cardinality(DOMAIN past.issued) < MaxPrepares
    /\ ValidateIntent(i, now)
    /\ Cardinality(matching) = 1
    /\ \A s \in Mapped :
          LET held == state.mappings[s].intent IN
          ~(held.domain = i.domain /\ held.device = i.device /\ RangesOverlap(held, i))
    /\ free # {}
    /\ \E a \in matching :
          LET s == Min(free)
              generation == FirewallSuccessor(state.mappings[s].generation) IN
          /\ WithinQuota(state.apertures[a], i.length)
          /\ state' = [state EXCEPT
                 !.mappings[s] = [phase |-> "Prepared", generation |-> generation,
                                  aperture |-> a, intent |-> i, witnesses |-> {}],
                 !.apertures[a].reserved = @ + i.length]
          /\ past' = [past EXCEPT !.issued =
                 [t \in {[slot |-> s, generation |-> generation]} |-> i] @@ @]

Witness(t, w) ==
    /\ ValidTicket(t)
    /\ state.mappings[t.slot].phase = "Prepared"
    /\ state' = [state EXCEPT !.mappings[t.slot].witnesses = @ \union {w}]
    /\ UNCHANGED past

\* release_reservation and clear_preserving_generation.
Released(s) ==
    [state EXCEPT
        !.apertures[state.mappings[s].aperture].reserved = @ - state.mappings[s].intent.length,
        !.mappings[s] = Cleared(state.mappings[s].generation),
        !.results[s] = "none"]

QuorumReached(record) == Cardinality(record.witnesses) >= record.intent.witness_quorum

\* The first critical section of commit.
CommitBegin(t, now) ==
    /\ ValidTicket(t)
    /\ state.mappings[t.slot].phase = "Prepared"
    /\ IF now >= state.mappings[t.slot].intent.expires_at
       THEN state' = Released(t.slot)
       ELSE /\ QuorumReached(state.mappings[t.slot])
            /\ state' = [state EXCEPT !.mappings[t.slot].phase = "Mapping"]
    /\ UNCHANGED past

\* backend.map, with the lock released; a zero cookie or an error maps nothing.
BackendMap(s, result) ==
    /\ state.mappings[s].phase = "Mapping" /\ state.results[s] = "none"
    /\ state' = [state EXCEPT !.results[s] = result]
    /\ past' = IF result = "ok" THEN [past EXCEPT !.reach = @ \union {state.mappings[s].intent}] ELSE past

\* The second critical section of commit.
CommitEnd(t) ==
    /\ ValidTicket(t)
    /\ state.mappings[t.slot].phase = "Mapping" /\ state.results[t.slot] # "none"
    /\ state' = IF state.results[t.slot] = "ok"
                THEN [state EXCEPT !.mappings[t.slot].phase = "Active", !.results[t.slot] = "none"]
                ELSE Released(t.slot)
    /\ UNCHANGED past

RevokeBegin(t) ==
    /\ ValidTicket(t)
    /\ state.mappings[t.slot].phase = "Active"
    /\ state' = [state EXCEPT !.mappings[t.slot].phase = "Revoking"]
    /\ UNCHANGED past

\* backend.unmap; what it left in place after an error is not known, so it is taken to be all of it.
BackendUnmap(s, result) ==
    /\ state.mappings[s].phase = "Revoking" /\ state.results[s] = "none"
    /\ state' = [state EXCEPT !.results[s] = result]
    /\ past' = IF result = "ok" THEN [past EXCEPT !.reach = @ \ {state.mappings[s].intent}] ELSE past

RevokeEnd(t) ==
    /\ ValidTicket(t)
    /\ state.mappings[t.slot].phase = "Revoking" /\ state.results[t.slot] # "none"
    /\ state' = IF state.results[t.slot] = "ok"
                THEN Released(t.slot)
                ELSE [state EXCEPT !.mappings[t.slot].phase = "Poisoned", !.results[t.slot] = "none"]
    /\ UNCHANGED past

AbortPrepared(t) ==
    /\ ValidTicket(t)
    /\ state.mappings[t.slot].phase = "Prepared"
    /\ state' = Released(t.slot)
    /\ UNCHANGED past

ExpireOne(now) ==
    LET expired == {s \in Mapped : state.mappings[s].phase = "Prepared"
                                   /\ now >= state.mappings[s].intent.expires_at} IN
    /\ expired # {}
    /\ state' = Released(Min(expired))
    /\ UNCHANGED past

AcknowledgePoison(t) ==
    /\ ValidTicket(t)
    /\ state.mappings[t.slot].phase = "Poisoned"
    /\ state' = Released(t.slot)
    /\ past' = [past EXCEPT !.pardoned = @ \union {state.mappings[t.slot].intent}]

FirewallNext ==
    \/ \E a \in Apertures : InstallAperture(a)
    \/ \E b \in ApertureSlots : RemoveAperture(b)
    \/ \E i \in Intents, now \in Ticks : Prepare(i, now)
    \/ \E now \in Ticks : ExpireOne(now)
    \/ \E s \in FirewallSlots, result \in {"ok", "error"} : BackendMap(s, result) \/ BackendUnmap(s, result)
    \/ \E t \in DOMAIN past.issued :
          \/ \E w \in Witnesses : Witness(t, w)
          \/ \E now \in Ticks : CommitBegin(t, now)
          \/ CommitEnd(t) \/ RevokeBegin(t) \/ RevokeEnd(t)
          \/ AbortPrepared(t) \/ AcknowledgePoison(t)

FirewallSpec == FirewallInit /\ [][FirewallNext]_vars

-----------------------------------------------------------------------------
\* prepare, release_reservation, remove_aperture: an aperture has reserved exactly the pages of the
\* mappings made through it, never more than its quota, and no mapping has lost its aperture.
ReservationsExact ==
    /\ \A s \in Mapped : state.mappings[s].aperture \in Occupied
    /\ \A a \in Occupied :
          LET through == {s \in Mapped : state.mappings[s].aperture = a} IN
          /\ state.apertures[a].reserved
                = MapThenSumSet(LAMBDA s : state.mappings[s].intent.length, through)
          /\ state.apertures[a].reserved <= state.apertures[a].aperture.maximum_total

\* validate_ticket: a ticket that is accepted names the mapping it was issued for, however often
\* its slot was reused.
TicketsAreExact ==
    \A t \in DOMAIN past.issued :
        ValidTicket(t) => state.mappings[t.slot].intent = past.issued[t]

\* commit, revoke, acknowledge_poison: whatever the backend translates is held by a record that a
\* quorum voted for, inside its aperture, and disjoint from every other record of the device,
\* unless an operator acknowledged that it could not be unmapped.
ReachIsWitnessed ==
    /\ \A i \in past.reach \ past.pardoned :
          \E s \in Mapped :
              /\ state.mappings[s].intent = i
              /\ state.mappings[s].phase \in {"Mapping", "Active", "Revoking", "Poisoned"}
              /\ Cardinality(state.mappings[s].witnesses) >= i.witness_quorum
              /\ ApertureMatches(state.apertures[state.mappings[s].aperture].aperture, i)
    /\ \A s, r \in Mapped :
          LET i == state.mappings[s].intent
              j == state.mappings[r].intent IN
          s # r /\ i.domain = j.domain /\ i.device = j.device => ~RangesOverlap(i, j)

=============================================================================
