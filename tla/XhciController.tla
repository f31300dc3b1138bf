--------------------------- MODULE XhciController ---------------------------
(***************************************************************************)
(* The xHCI driver around the takeover: the probe of every controller,     *)
(* the protocols of its ports, the commands on its ring, and the hosting   *)
(* of the driver.  The parts share no state; a behaviour runs one of       *)
(* them.                                                                   *)
(***************************************************************************)
EXTENDS Integers, Sequences, FiniteSets

CONSTANTS
    \* XhciProbe
    Controllers,        \* claimed functions, in the order of the claim loop
    CapabilityDwords,   \* CAPABILITY_BYTES
    MaximumOffset,      \* MAXIMUM_BOOTSTRAP_OFFSET
    MaximumHeaders,     \* MAXIMUM_BOOTSTRAP_EXTENDED_HEADERS
    Offsets,            \* offsets the capability registers may hold
    ProbeDisplacements, \* distances to the next header
    Apertures,          \* lengths BAR 0 may turn out to have
    RuntimeDwords,      \* registers of the runtime window the retention check asks for
    Capacity,           \* MAXIMUM_XHCI_CONTROLLERS
    \* XhciProtocols
    Aperture,           \* dwords of BAR 0
    MinimumOffset,      \* EXTENDED_CAPABILITY_MINIMUM_OFFSET, in dwords
    MaximumHops,        \* MAXIMUM_EXTENDED_CAPABILITY_HOPS
    MaximumProtocols,   \* MAXIMUM_SUPPORTED_PROTOCOLS
    MaximumPorts,       \* ports the controller reported
    Firsts, Counts, ProtocolDisplacements, \* what a capability may say of its ports and of the next one
    SpeedTables,        \* sequences of [id, type, lane] it may carry
    \* XhciCommandRing
    LinkIndex,          \* COMMAND_LINK_INDEX: the link TRB closes the command ring
    EventCapacity,      \* EVENT_CAPACITY
    Codes,              \* completion codes the controller may post
    MaxCommands,        \* bound on the commands submitted
    MaxPortEvents,      \* bound on the port events
    \* DriverHosting
    Services,       \* services a kernel may offer
    Callbacks,      \* the callbacks of a service
    QueueSize,      \* REFLECTOR_QUEUE_SIZE
    MaxEvents,      \* bound on reflected interrupts
    MaxProbes       \* bound on probes

VARIABLES
    state,      \* of the part a behaviour runs
    past        \* history the properties refer to

vars == <<state, past>>

-----------------------------------------------------------------------------
(***************************************************************************)
(* Part XhciProbe.                                                         *)
(* From a claimed PCI function to a retained xHCI controller               *)
(* (drivers/xhci.rs): the probe that reads the capability registers and    *)
(* walks the headers before BAR 0 has been measured, the activation that   *)
(* measures it and decodes the protocols, the evidence that is lent to the *)
(* DMA epoch and taken back, and the census that is published once.  The   *)
(* controller answers as it likes and its PCI configuration may have       *)
(* changed since the device census.  Offsets are in dwords.                *)
(***************************************************************************)
NoController == [at |-> "claimed"]

ProbeInit ==
    /\ state = [next |-> 1, hand |-> NoController, census |-> <<>>, published |-> {}]
    /\ past = {}

\* The claim loop goes on with the next function.
Dropped == [state EXCEPT !.next = @ + 1, !.hand = NoController]

ValidBootstrapOffset(offset) == offset >= CapabilityDwords /\ offset <= MaximumOffset

\* decode_snapshot: the doorbells and the runtime registers lie behind the capability registers.
ValidSnapshot(s) ==
    /\ s.length >= CapabilityDwords
    /\ s.doorbell >= s.length /\ s.runtime >= s.length

\* probe_bootstrap up to the walk; same: the configuration is that of the evidence.
ProbeController(same, s) ==
    /\ state.next <= Len(Controllers) /\ state.hand.at = "claimed"
    /\ IF same /\ ValidSnapshot(s)
       THEN state' = [state EXCEPT !.hand = [at |-> "walk", address |-> Controllers[state.next], snapshot |-> s,
                                             offset |-> s.extended, journal |-> {}, legacy |-> 0]]
       ELSE state' = Dropped
    /\ UNCHANGED past

\* The second dword of a legacy capability is not the next header.
RoomForLegacy(legacy, displacement) == legacy /\ displacement # 0 => displacement >= 2

\* discover_bootstrap_capabilities: the walk stops at the legacy capability.
WalkHeader(legacy, displacement) ==
    LET h == state.hand
        o == h.offset
        next == IF displacement = 0 THEN 0 ELSE o + displacement IN
    /\ h.at = "walk" /\ o # 0
    /\ past' = past \cup (IF ValidBootstrapOffset(o) THEN {o} ELSE {})
    /\ IF /\ ValidBootstrapOffset(o) /\ Cardinality(h.journal) < MaximumHeaders
          /\ next # 0 => ValidBootstrapOffset(next)
          /\ RoomForLegacy(legacy, displacement)
       THEN state' = [state EXCEPT !.hand = [h EXCEPT
                !.journal = @ \cup {[offset |-> o, length |-> IF legacy THEN 2 ELSE 1]},
                !.legacy = IF legacy THEN o ELSE 0,
                !.offset = IF legacy THEN 0 ELSE next]]
       ELSE state' = Dropped

Insert(record) == [Dropped EXCEPT !.census = Append(@, record)]

\* Census::insert refuses a full census, and the boot stops.
MayInsert == Len(state.census) < Capacity

\* The takeover ends before BAR 0 is measured: in debt when it wrote something.
TakeoverFails(mutated) ==
    /\ state.hand.at = "walk" /\ state.hand.offset = 0 /\ MayInsert
    /\ state' = Insert([at |-> IF mutated THEN "debt" ELSE "contained", address |-> state.hand.address,
                        snapshot |-> state.hand.snapshot, journal |-> state.hand.journal, aperture |-> 0])
    /\ UNCHANGED past

Inside(aperture, offset, length) == offset + length <= aperture

\* validate_retained_controller: all that was read before is inside what was measured.
Retainable(s, journal, aperture) ==
    /\ Inside(aperture, 0, CapabilityDwords)
    /\ Inside(aperture, s.doorbell, 1) /\ Inside(aperture, s.runtime, RuntimeDwords)
    /\ \A r \in journal : Inside(aperture, r.offset, r.length)

\* activate_reset_ready from the measurement on; decoded: the protocol map was accepted.
Activate(aperture, decoded) ==
    LET h == state.hand IN
    /\ h.at = "walk" /\ h.offset = 0 /\ MayInsert
    /\ IF decoded /\ Retainable(h.snapshot, h.journal, aperture)
       THEN state' = [state EXCEPT !.hand = [at |-> "ready", address |-> h.address, snapshot |-> h.snapshot,
                                             journal |-> h.journal, aperture |-> aperture]]
       ELSE state' = Insert([at |-> "debt", address |-> h.address, snapshot |-> h.snapshot,
                             journal |-> h.journal, aperture |-> aperture])
    /\ UNCHANGED past

\* runtime_evidence and into_runtime_seed lend the parts to the DMA epoch.
Lend ==
    /\ state.hand.at = "ready"
    /\ state' = [state EXCEPT !.hand.at = "lent"]
    /\ UNCHANGED past

\* restore_runtime_parts: the evidence is computed again and the retention checked again.
Restore ==
    LET h == state.hand IN
    /\ h.at = "lent" /\ Retainable(h.snapshot, h.journal, h.aperture)
    /\ state' = [state EXCEPT !.hand.at = "restored"]
    /\ UNCHANGED past

\* insert_reset_ready, with the survey of the epoch or without.
Retain ==
    /\ state.hand.at \in {"ready", "restored"} /\ MayInsert
    /\ state' = Insert([state.hand EXCEPT !.at = "ready"])
    /\ UNCHANGED past

\* publish_boot_xhci, once.
ProbePublish ==
    /\ state.next > Len(Controllers) /\ state.published = {}
    /\ state' = [state EXCEPT !.published = {state.census}]
    /\ UNCHANGED past

Snapshots == [length : {CapabilityDwords - 1, CapabilityDwords}, doorbell : Offsets, runtime : Offsets, extended : Offsets \cup {0}]

ProbeNext ==
    \/ \E same \in BOOLEAN, s \in Snapshots : ProbeController(same, s)
    \/ \E legacy \in BOOLEAN, d \in ProbeDisplacements : WalkHeader(legacy, d)
    \/ \E mutated \in BOOLEAN : TakeoverFails(mutated)
    \/ \E aperture \in Apertures, decoded \in BOOLEAN : Activate(aperture, decoded)
    \/ Lend \/ Restore \/ Retain \/ ProbePublish

ProbeSpec == ProbeInit /\ [][ProbeNext]_vars

-----------------------------------------------------------------------------
\* The probe reads headers it cannot yet bound.  Those reads never leave the bootstrap
\* window; a controller retained as ready had all of them inside the aperture measured
\* later, with its capability records apart from each other; and the census names every
\* controller once.
ProbesAreVindicated ==
    /\ \A o \in past : o <= MaximumOffset
    /\ \A i \in DOMAIN state.census :
        LET c == state.census[i] IN
        /\ \A j \in DOMAIN state.census : i # j => state.census[j].address # c.address
        /\ c.at = "ready" =>
             /\ \A r \in c.journal : r.offset + r.length <= c.aperture
             /\ \A r, q \in c.journal : r.offset < q.offset => r.offset + r.length <= q.offset
             /\ c.snapshot.runtime + RuntimeDwords <= c.aperture

-----------------------------------------------------------------------------
(***************************************************************************)
(* Part XhciProtocols.                                                     *)
(* The walk over a controller's extended capabilities that finds its       *)
(* Supported Protocol records (drivers/xhci_protocol.rs): which ports are  *)
(* USB 2 and which USB 3.  The controller answers every read as it likes,  *)
(* so each step meets any capability: offsets are in dwords, and a name,   *)
(* a revision or a reserved field is right or wrong.                       *)
(***************************************************************************)
FixedDwords == 4

ProtocolInit ==
    /\ \E offset \in 0..Aperture :
        state = [result |-> "walking", offset |-> offset, visited |-> {}, protocols |-> <<>>, covered |-> {}]
    /\ past = {}

\* ensure_range and validate_capability_offset.
EnsureRange(offset, dwords) == dwords > 0 /\ offset + dwords <= Aperture

ValidOffset(offset) == offset >= MinimumOffset /\ EnsureRange(offset, 1)

\* relative_next: 0 ends the chain; offsets only grow, so the chain cannot turn back.
ValidNext(offset, displacement) == displacement = 0 \/ ValidOffset(offset + displacement)

Following(offset, displacement) == IF displacement = 0 THEN 0 ELSE offset + displacement

\* Every speed has an id of its own, and a receive speed stands before its transmit twin.
ValidSpeeds(speeds) ==
    LET Paired(i) == /\ i + 1 \in DOMAIN speeds
                     /\ speeds[i + 1].type = 3 /\ speeds[i + 1].lane = speeds[i].lane
        starts[i \in 0..Len(speeds)] ==     \* positions at which the pairing loop looks
            IF i = 0 THEN {1}
            ELSE IF i \in starts[i - 1] THEN starts[i - 1] \cup {IF speeds[i].type = 2 THEN i + 2 ELSE i + 1}
            ELSE starts[i - 1] IN
    /\ \A i \in DOMAIN speeds : speeds[i].id # 0 /\ speeds[i].type # 1
    /\ \A i, j \in DOMAIN speeds : i # j => speeds[i].id # speeds[j].id
    /\ \A i \in DOMAIN speeds \cap starts[Len(speeds)] :
          speeds[i].type # 3 /\ (speeds[i].type = 2 => Paired(i))

Ports(first, count) == first..first+count-1

ValidPorts(first, count) == first # 0 /\ count # 0 /\ first + count - 1 <= MaximumPorts

Body(p) == p.offset..p.offset+FixedDwords+Len(p.speeds)-1

\* The body lies in the aperture and ends before the next capability.
BodyFits(p, displacement) ==
    /\ EnsureRange(p.offset, FixedDwords + Len(p.speeds))
    /\ displacement # 0 => p.offset + displacement >= p.offset + FixedDwords + Len(p.speeds)

CoverageIsNew(p) == Ports(p.first, p.count) \cap state.covered = {}

Refuse == state' = [state EXCEPT !.result = "refused"]

\* A capability of another kind is counted and passed.
PassOther(displacement) ==
    LET o == state.offset IN
    /\ state.result = "walking" /\ o # 0
    /\ IF ValidOffset(o) /\ o \notin state.visited /\ Cardinality(state.visited) < MaximumHops
          /\ ValidNext(o, displacement)
       THEN state' = [state EXCEPT !.offset = Following(o, displacement), !.visited = @ \cup {o}]
       ELSE Refuse
    /\ past' = IF ValidOffset(o) THEN past \cup {o} ELSE past

\* read_supported_protocol and validate_protocol_coverage; well: name and revision are known ones.
ReadProtocol(displacement, well, first, count, speeds) ==
    LET o == state.offset
        p == [offset |-> o, first |-> first, count |-> count, speeds |-> speeds]
        reached == ValidOffset(o) /\ o \notin state.visited /\ Cardinality(state.visited) < MaximumHops
        readable == /\ reached /\ ValidNext(o, displacement)
                    /\ Len(state.protocols) < MaximumProtocols /\ EnsureRange(o, FixedDwords)
        shaped == readable /\ well /\ ValidPorts(first, count) /\ BodyFits(p, displacement) IN
    /\ state.result = "walking" /\ o # 0
    /\ IF shaped /\ ValidSpeeds(speeds) /\ CoverageIsNew(p)
       THEN state' = [state EXCEPT !.offset = Following(o, displacement), !.visited = @ \cup {o},
                                   !.protocols = Append(@, p), !.covered = @ \cup Ports(first, count)]
       ELSE Refuse
    /\ past' = past \cup (IF shaped THEN Body(p)
                          ELSE IF readable THEN o..o+FixedDwords-1
                          ELSE IF reached THEN {o} ELSE {})

\* The chain ended: some protocol must begin at port one.
Finish ==
    /\ state.result = "walking" /\ state.offset = 0
    /\ state' = [state EXCEPT !.result =
            IF \E i \in DOMAIN state.protocols : state.protocols[i].first = 1 THEN "accepted" ELSE "refused"]
    /\ UNCHANGED past

ProtocolNext ==
    \/ Finish
    \/ \E d \in ProtocolDisplacements :
         \/ PassOther(d)
         \/ \E well \in BOOLEAN, first \in Firsts, count \in Counts, speeds \in SpeedTables :
              ReadProtocol(d, well, first, count, speeds)

ProtocolSpec == ProtocolInit /\ [][ProtocolNext]_vars

-----------------------------------------------------------------------------
\* Whatever the controller answers, nothing outside the aperture is read, and the map
\* accepted gives every port to one protocol at most, starts at port one, and read no
\* dword as part of two records.
PortsAreDivided ==
    /\ past \subseteq 0..Aperture-1
    /\ state.result = "accepted" =>
        /\ \E i \in DOMAIN state.protocols : 1 \in Ports(state.protocols[i].first, state.protocols[i].count)
        /\ \A i, j \in DOMAIN state.protocols : i # j =>
             LET p == state.protocols[i]
                 q == state.protocols[j] IN
             Ports(p.first, p.count) \cap Ports(q.first, q.count) = {} /\ Body(p) \cap Body(q) = {}

-----------------------------------------------------------------------------
(***************************************************************************)
(* Part XhciCommandRing.                                                   *)
(* The command and event rings of a running xHCI controller                *)
(* (drivers/xhci_ring.rs) and the session calls that ring the doorbell and *)
(* move the dequeue pointer (drivers/xhci_runtime.rs).  The driver writes  *)
(* a TRB in three stores, the cycle bit last, and reads one byte by byte;  *)
(* the controller follows the rings in its own time, and may also post a   *)
(* port event.  A store or a register write may fail, which ends the call. *)
(***************************************************************************)
Zero == [type |-> "none", parameter |-> 0, code |-> 0, cycle |-> 0]

LinkTrb(cycle) == [Zero EXCEPT !.type = "link", !.cycle = cycle]

Toggle(cycle) == 1 - cycle

\* The device address of a command TRB, which is never zero.
Address(index) == index + 1

\* initialize_inner: both rings are zeroed and the link is published with the first cycle.
RingInit ==
    /\ state = [command |-> [i \in 0..LinkIndex |-> IF i = LinkIndex THEN LinkTrb(1) ELSE Zero],
                event |-> [i \in 0..EventCapacity-1 |-> Zero],
                producer |-> 0, producer_cycle |-> 1, event_index |-> 0, event_cycle |-> 1,
                next_sequence |-> 1, outstanding |-> {}, lost |-> FALSE, call |-> [pc |-> "idle"],
                hc |-> [rung |-> FALSE, at |-> 0, cycle |-> 1, event |-> 0, event_cycle |-> 1,
                        ports |-> 0]]
    /\ past = [run |-> <<>>, reported |-> <<>>]

Goto(pc) == [state EXCEPT !.call.pc = pc]

\* A store or register write that fails ends the call with an error; when it was the
\* doorbell, the command stays outstanding and its receipt is gone.
Fails ==
    /\ state.call.pc \in {"link", "commitLink", "trb", "commit", "doorbell"}
    /\ state' = [Goto("idle") EXCEPT !.lost = state.call.pc = "doorbell"]
    /\ UNCHANGED past

\* submit_no_op up to its first store; a busy ring refuses.
SubmitNoOp ==
    /\ state.call.pc = "idle" /\ state.outstanding = {} /\ state.next_sequence <= MaxCommands
    /\ state' = Goto(IF state.producer + 1 = LinkIndex THEN "link" ELSE "trb")
    /\ UNCHANGED past

\* publish_trb first makes the TRB invisible: its cycle bit is the other one.
Invisible(i, trb) == [state.command EXCEPT ![i] = [trb EXCEPT !.cycle = Toggle(trb.cycle)]]

WriteLink ==
    /\ state.call.pc = "link"
    /\ state' = [Goto("commitLink") EXCEPT !.command = Invisible(LinkIndex, LinkTrb(state.producer_cycle))]
    /\ UNCHANGED past

CommitLink ==
    /\ state.call.pc = "commitLink"
    /\ state' = [Goto("trb") EXCEPT !.command[LinkIndex] = LinkTrb(state.producer_cycle)]
    /\ UNCHANGED past

NoOp == [Zero EXCEPT !.type = "noop", !.cycle = state.producer_cycle]

WriteTrb ==
    /\ state.call.pc = "trb"
    /\ state' = [Goto("commit") EXCEPT !.command = Invisible(state.producer, NoOp)]
    /\ UNCHANGED past

\* The producer skips the link and turns its cycle over.
Stepped(index, cycle) ==
    IF index + 1 = LinkIndex THEN [index |-> 0, cycle |-> Toggle(cycle)] ELSE [index |-> index + 1, cycle |-> cycle]

\* The cycle bit is committed last; the command is outstanding from here on.
CommitTrb ==
    LET to == Stepped(state.producer, state.producer_cycle) IN
    /\ state.call.pc = "commit"
    /\ state' = [Goto("doorbell") EXCEPT
            !.command[state.producer] = NoOp,
            !.outstanding = {[sequence |-> state.next_sequence, address |-> Address(state.producer)]},
            !.next_sequence = @ + 1, !.producer = to.index, !.producer_cycle = to.cycle]
    /\ UNCHANGED past

RingDoorbell ==
    /\ state.call.pc = "doorbell"
    /\ state' = [Goto("idle") EXCEPT !.hc.rung = TRUE]
    /\ UNCHANGED past

\* poll_no_op_completion copies the event from its first byte to its last; the
\* control word comes last.
PollParameter ==
    /\ state.call.pc = "idle" /\ state.outstanding # {} /\ ~state.lost
    /\ state' = [state EXCEPT !.call = [pc |-> "status", parameter |-> state.event[state.event_index].parameter]]
    /\ UNCHANGED past

PollStatus ==
    /\ state.call.pc = "status"
    /\ state' = [state EXCEPT !.call = [pc |-> "control", parameter |-> @.parameter,
                                        code |-> state.event[state.event_index].code]]
    /\ UNCHANGED past

\* The event is a completion and points at the outstanding command.
Accepted(parameter, control, command) == control.type = "completion" /\ parameter = command.address

\* An event of this lap is consumed when it answers the command, else the poll reports
\* an error and leaves it.  The session then moves the dequeue pointer.
PollControl ==
    /\ state.call.pc = "control"
    /\ \E command \in state.outstanding :
        LET control == state.event[state.event_index]
            last == state.event_index + 1 = EventCapacity IN
        IF control.cycle = state.event_cycle /\ Accepted(state.call.parameter, control, command)
        THEN /\ state' = [state EXCEPT !.call = [pc |-> "idle"], !.outstanding = {},
                    !.event_index = IF last THEN 0 ELSE @ + 1,
                    !.event_cycle = IF last THEN Toggle(@) ELSE @]
             /\ past' = [past EXCEPT !.reported = Append(@, state.call.code)]
        ELSE /\ state' = [state EXCEPT !.call = [pc |-> "idle"]]
             /\ UNCHANGED past

-----------------------------------------------------------------------------
\* The controller.

Posted(trb) ==
    LET last == state.hc.event + 1 = EventCapacity IN
    [state EXCEPT !.event[state.hc.event] = trb,
                  !.hc.event = IF last THEN 0 ELSE @ + 1,
                  !.hc.event_cycle = IF last THEN Toggle(@) ELSE @]

FollowLink ==
    LET trb == state.command[state.hc.at] IN
    /\ state.hc.rung /\ trb.cycle = state.hc.cycle /\ trb.type = "link"
    /\ state' = [state EXCEPT !.hc.at = 0, !.hc.cycle = Toggle(@)]
    /\ UNCHANGED past

RunCommand(code) ==
    LET trb == state.command[state.hc.at] IN
    /\ state.hc.rung /\ trb.cycle = state.hc.cycle /\ trb.type = "noop"
    /\ state' = [Posted([type |-> "completion", parameter |-> Address(state.hc.at), code |-> code,
                         cycle |-> state.hc.event_cycle]) EXCEPT !.hc.at = @ + 1]
    /\ past' = [past EXCEPT !.run = Append(@, code)]

\* A TRB of the other cycle ends the work the doorbell asked for.
Rest ==
    /\ state.hc.rung /\ state.command[state.hc.at].cycle # state.hc.cycle
    /\ state' = [state EXCEPT !.hc.rung = FALSE]
    /\ UNCHANGED past

PortEvent ==
    /\ state.hc.ports < MaxPortEvents
    /\ state' = [Posted([Zero EXCEPT !.type = "port", !.cycle = state.hc.event_cycle]) EXCEPT !.hc.ports = @ + 1]
    /\ UNCHANGED past

RingNext ==
    \/ SubmitNoOp \/ WriteLink \/ CommitLink \/ WriteTrb \/ CommitTrb \/ RingDoorbell \/ Fails
    \/ PollParameter \/ PollStatus \/ PollControl
    \/ FollowLink \/ Rest \/ PortEvent
    \/ \E code \in Codes : RunCommand(code)

RingSpec == RingInit /\ [][RingNext]_vars

-----------------------------------------------------------------------------
\* The rings under the stores, the copies and the controller's steps in any order.  The
\* controller runs no TRB twice and none that was not committed, a controller at rest
\* that was rung has run them all, and a completion reported carries the code posted for
\* that very command, also when the event arrives while it is being copied.
CompletionsAreExact ==
    LET committed == state.next_sequence - 1 IN
    /\ Len(past.run) <= committed
    /\ ~state.hc.rung /\ state.call.pc # "doorbell" /\ ~state.lost => Len(past.run) = committed
    /\ Len(past.reported) <= Len(past.run)
    /\ \A n \in DOMAIN past.reported : past.reported[n] = past.run[n]

-----------------------------------------------------------------------------
(***************************************************************************)
(* Part DriverHosting.                                                     *)
(* How the kernel hosts C drivers: the table of services (shim/host.rs,    *)
(* services.rs), the driver's descriptor, probe and remove                 *)
(* (shim/module.rs), the wrapped device callbacks                          *)
(* (polymorphic_vtable.rs), the executable thunks (mirage/jit_linker.rs)   *)
(* and the interrupt handoff to an enclave CPU (mirage/irq_reflector.rs).  *)
(* A behaviour follows one of the three.                                   *)
(***************************************************************************)
HostingInit ==
    \/ /\ \E offered \in SUBSET Services :
            state = [part |-> "driver", offered |-> offered, api |-> {}, required |-> {},
                     loaded |-> FALSE, instances |-> <<>>]
       /\ past = <<>>
    \/ /\ state = [part |-> "thunk", page |-> "none", used |-> 0, owner |-> "none", active |-> FALSE]
       /\ past = [released |-> 0, sealed |-> FALSE]
    \/ /\ state = [part |-> "reflector", head |-> 0, tail |-> 0, buffer |-> [i \in 0..QueueSize-1 |-> 0],
                   producer |-> <<>>, consumer |-> <<>>, sent |-> 0]
       /\ past = <<>>

\* DriverHost::new installs all the callbacks of a service.
Installed(service) == Callbacks[service]

\* The table: capabilities advertised, callbacks present.
HostApi(offered) == [capabilities |-> offered, callbacks |-> UNION {Installed(s) : s \in offered}]

\* validate_kernel_api: a capability is advertised exactly when all its callbacks are there.
Consistent(api) ==
    \A s \in Services :
        IF s \in api.capabilities THEN Callbacks[s] \subseteq api.callbacks
        ELSE Callbacks[s] \cap api.callbacks = {}

\* load_with_api: the entry publishes a descriptor; requirements are checked against the table.
Load(required) ==
    /\ state.part = "driver" /\ ~state.loaded
    /\ LET api == HostApi(state.offered) IN
       /\ Consistent(api) /\ required \subseteq api.capabilities
       /\ state' = [state EXCEPT !.loaded = TRUE, !.required = required, !.api = {api}]
    /\ UNCHANGED past

\* probe_with_api: an instance lives once the callback succeeded.
HostingProbe ==
    /\ state.part = "driver" /\ state.loaded /\ Len(state.instances) < MaxProbes
    /\ state' = [state EXCEPT !.instances = Append(@, TRUE)]
    /\ past' = Append(past, 0)

\* remove_with_api refuses an instance that is not live.
Removable(i) == state.instances[i]

\* remove_with_api: the instance dies when its callback succeeds; a failure leaves it live.
Remove(i, ok) ==
    /\ state.part = "driver" /\ i \in DOMAIN state.instances /\ Removable(i)
    /\ state' = [state EXCEPT !.instances[i] = IF ok THEN FALSE ELSE @]
    /\ past' = [past EXCEPT ![i] = IF ok THEN @ + 1 ELSE @]

\* ThunkPage::allocate: a mapping that is too small goes back at once.
ThunkAllocate(capacity) ==
    /\ state.part = "thunk" /\ state.page = "none" /\ past.released = 0
    /\ IF capacity >= 1
       THEN /\ state' = [state EXCEPT !.page = "writable", !.owner = "writable", !.active = TRUE]
            /\ UNCHANGED past
       ELSE /\ state' = [state EXCEPT !.page = "released"]
            /\ past' = [past EXCEPT !.released = @ + 1]

\* emit_same_abi_tail_thunk writes through the pointer a writable page has.
ThunkEmit ==
    /\ state.part = "thunk" /\ state.owner = "writable"
    /\ state' = [state EXCEPT !.used = 1]
    /\ UNCHANGED past

\* A finalize that fails drops the page, and the drop releases it.
DropWritable == [state EXCEPT !.owner = "none", !.page = "released", !.active = FALSE]

\* finalize: the backend seals the page; the writable handle is spent either way.
ThunkFinalize(outcome) ==
    /\ state.part = "thunk" /\ state.owner = "writable"
    /\ IF state.used # 0 /\ outcome = "sealed"
       THEN /\ state' = [state EXCEPT !.page = "executable", !.owner = "executable"]
            /\ past' = [past EXCEPT !.sealed = TRUE]
       ELSE /\ state' = DropWritable
            /\ past' = [past EXCEPT !.released = IF DropWritable.page = "released" THEN @ + 1 ELSE @]

\* release, then the drop: a page the backend did not take is offered once more.
ThunkRelease(ok, again) ==
    /\ state.part = "thunk" /\ state.owner = "executable" /\ state.active
    /\ state' = [state EXCEPT !.owner = "none", !.active = FALSE,
                              !.page = IF ok \/ again THEN "released" ELSE "leaked"]
    /\ past' = [past EXCEPT !.released = IF ok \/ again THEN @ + 1 ELSE @]

\* reflect_hardware_interrupt refuses when the queue is full.
Room(tail, head) == tail - head < QueueSize

\* The producer reads both indices and writes its slot ...
Reflect ==
    /\ state.part = "reflector" /\ state.producer = <<>> /\ state.sent < MaxEvents
    /\ Room(state.tail, state.head)
    /\ state' = [state EXCEPT !.sent = @ + 1, !.producer = <<state.tail>>,
                              !.buffer[state.tail % QueueSize] = state.sent + 1]
    /\ UNCHANGED past

\* ... and publishes it.
HostingPublish ==
    /\ state.part = "reflector" /\ state.producer # <<>>
    /\ state' = [state EXCEPT !.tail = state.producer[1] + 1, !.producer = <<>>]
    /\ UNCHANGED past

\* consume copies the event out ...
Consume ==
    /\ state.part = "reflector" /\ state.consumer = <<>> /\ state.head # state.tail
    /\ state' = [state EXCEPT !.consumer = <<state.buffer[state.head % QueueSize]>>]
    /\ UNCHANGED past

\* ... and gives the slot back.
Return ==
    /\ state.part = "reflector" /\ state.consumer # <<>>
    /\ state' = [state EXCEPT !.head = @ + 1, !.consumer = <<>>]
    /\ past' = Append(past, state.consumer[1])

HostingNext ==
    \/ \E required \in SUBSET Services : Load(required)
    \/ HostingProbe \/ ThunkEmit \/ Reflect \/ HostingPublish \/ Consume \/ Return
    \/ \E i \in 1..MaxProbes, ok \in BOOLEAN : Remove(i, ok)
    \/ \E capacity \in 0..1 : ThunkAllocate(capacity)
    \/ \E outcome \in {"sealed", "failed"} : ThunkFinalize(outcome)
    \/ \E ok, again \in BOOLEAN : ThunkRelease(ok, again)

HostingSpec == HostingInit /\ [][HostingNext]_vars

-----------------------------------------------------------------------------
\* A driver that was loaded finds every callback of the capabilities it required; an instance is
\* removed successfully at most once, and exactly when it is no longer live; a thunk page is never
\* written once sealed and is released exactly once when its handle ends, unless the backend
\* refuses twice; and reflected interrupts are consumed each once, in the order they came.
HostingIsExact ==
    CASE state.part = "driver" ->
            /\ \A s \in Services : Callbacks[s] # {} => Consistent(HostApi(state.offered))
            /\ state.loaded => \A a \in state.api : UNION {Callbacks[s] : s \in state.required} \subseteq a.callbacks
            /\ \A i \in DOMAIN past : past[i] = IF state.instances[i] THEN 0 ELSE 1
      [] state.part = "thunk" ->
            /\ past.sealed => state.owner # "writable"
            /\ past.released <= 1
            /\ state.owner = "none" /\ state.page # "none" =>
                past.released = IF state.page = "leaked" THEN 0 ELSE 1
      [] OTHER -> past = [i \in 1..Len(past) |-> i] /\ state.tail - state.head <= QueueSize

=============================================================================
