------------------------------ MODULE Desktop -------------------------------
(***************************************************************************)
(* The desktop: its portal, the surfaces, the focus and the frames of      *)
(* the Quantum desktop, and the input and scene of the Crest compositor.   *)
(* The parts share no state; a behaviour runs one of them.                 *)
(***************************************************************************)
EXTENDS Integers, Sequences, FiniteSets, TLC, SequencesExt, FiniteSetsExt

CONSTANTS
    \* DesktopPortal
    Sessions,       \* sessions, numbered from 1 in the order they are installed
    PortalRights,   \* the operations each session may ask for
    Requests,       \* Requests[i]: what the desktop may ask for by its i-th command;
                    \* the length bounds the commands submitted in all
    Publishers,     \* kernel threads that publish snapshots
    Plans,          \* plan roots the control plane produces
    PolicyEpochs,
    MaxSnapshots,   \* bound on snapshots
    \* QuantumScene
    SurfaceCapacity, \* N, slots of the scene
    Surfaces,       \* surfaces a node may show
    SurfaceRights,  \* rights a lease may carry
    Expiries,       \* expiry epochs asked for
    Positions,      \* where a node may be moved
    Depths,         \* z of a node
    Callers,        \* callers that look and commit
    MaxLeases,      \* bound on leases kept
    MaxEpoch,       \* bound on the epoch
    \* QuantumFocus
    FocusCapacity,  \* N, focus records
    Nodes,          \* scene nodes
    Classes,        \* input classes, each with its right
    Pointing,       \* classes whose events carry a position
    MaximumDepth,   \* MAXIMUM_MODAL_DEPTH
    RightSets,      \* sets of rights asked for
    Lifetimes,      \* expiry ticks asked for
    FocusMaxTick,   \* bound on the tick
    MaxGrants,      \* bound on grants made
    \* QuantumFrame
    Width, Height, TileSize,    \* the display mode and the compositor's tile
    Rectangles,                 \* rectangles [x, y, w, h] surfaces occupy
    Points,                     \* where the pointer may be
    FullConfidence,             \* u8::MAX
    Risks, FlagSets,            \* what a system snapshot may report
    MaxSequence, FrameMaxTick,  \* bounds: snapshots published, clock
    \* CrestInput
    Pointers,                   \* touch slots; slot 0 also serves the mouse
    Span,                       \* positions 0 .. Span
    TapMaxPixels, DragThreshold, TapMaxTicks, HoldTicks, QueueSize, InputMaxTick,
    Keys,                       \* key codes: a function to the modifier or "caps" or "none"
    MaxStrokes,                 \* bound: key strokes
    NamedActions,               \* actions with a number of their own, 0 .. NamedActions - 1
    Customs,                    \* numbers of custom actions
    Codes, MaxKeybinds, BufferSizes,
    \* CrestScene
    MaxInstructions, MaxStack, MaxNodes,
    Apps, Heats, Places,        \* application ids, heats and centres
    Tweens, Durations, MaxTweens, MaxTicks,
    Flippers, MaxFlips,
    Heights, SliceLimit,        \* display heights; lines in one slice
    PanelWidths, PanelHeight

VARIABLES
    state,      \* of the part a behaviour runs
    past        \* history the properties refer to

vars == <<state, past>>

-----------------------------------------------------------------------------
(***************************************************************************)
(* Part DesktopPortal.                                                     *)
(* The desktop session of Crest: the shared page with its three one-slot   *)
(* mailboxes (quantum_crest.rs), the kernel gateway that serves it         *)
(* (quantum_crest_gateway.rs), the client (quantum_portal.rs) and the      *)
(* platform behind the gateway (quantum_desktop_recovery.rs).              *)
(*                                                                         *)
(* A mailbox moves FREE, WRITING, READY, READING, FREE and its value is    *)
(* only touched by the thread that moved it, so a put and a take are one   *)
(* step each here.  Keyed roots are left out: no message is forged.        *)
(* A session and its generation are one number, its rights the operations *)
(* Rights allows.  The gateway serves one command at a time (its platform  *)
(* is borrowed exclusively) while kernel threads publish snapshots and     *)
(* rotate the session between any two of its critical sections.            *)
(***************************************************************************)
PortalNone == <<>>

Desktop == [scene |-> 0, present |-> 0, surface |-> 0, focus |-> 0, plan |-> 0, safe_mode |-> FALSE]

Gateway == [epoch |-> 1, snapshot |-> 0, session |-> 1, command |-> 0, plan |-> 0, frame |-> 0]

EmptyPage == [snapshot |-> PortalNone, command |-> PortalNone, reply |-> PortalNone]

Client == [snapshot |-> PortalNone, last |-> 0, next |-> 1, pending |-> 0]

PortalIdle == [pc |-> "idle"]

PortalInit ==
    /\ state = [gateway |-> Gateway, page |-> EmptyPage, client |-> Client, service |-> PortalIdle,
                desktop |-> Desktop, checkpoint |-> PortalNone,
                publishing |-> [p \in Publishers |-> PortalNone]]
    /\ past = [sent |-> 0, shown |-> <<>>, recoveries |-> 0, recovered |-> {}, acknowledged |-> {}, lost |-> {}]

TakenSnapshot(g) ==
    [sequence |-> g.snapshot, epoch |-> g.epoch, session |-> g.session, plan |-> g.plan]

PublishedState(g, epoch, plan) ==
    [g EXCEPT !.snapshot = @ + 1, !.epoch = IF epoch > @ THEN epoch ELSE @, !.plan = plan]

\* publish_blacklab up to the release of the lock: the snapshot is numbered and built.
PublishBegin(p, epoch, plan) ==
    /\ state.publishing[p] = PortalNone
    /\ state.gateway.snapshot < MaxSnapshots
    /\ LET g == PublishedState(state.gateway, epoch, plan) IN
         state' = [state EXCEPT !.gateway = g, !.publishing[p] = <<TakenSnapshot(g)>>]
    /\ UNCHANGED past

\* The snapshot reaches the page, or is dropped when the last one was not read yet.
PublishEnd(p) ==
    /\ state.publishing[p] # PortalNone
    /\ state' = [state EXCEPT !.publishing[p] = PortalNone,
                              !.page.snapshot = IF @ = PortalNone THEN state.publishing[p] ELSE @]
    /\ UNCHANGED past

RotateSession ==
    /\ state.gateway.session + 1 \in Sessions
    /\ state' = [state EXCEPT !.gateway.session = @ + 1, !.gateway.epoch = @ + 1,
                              !.gateway.command = 0, !.gateway.frame = 0]
    /\ UNCHANGED past

-----------------------------------------------------------------------------
\* The client.

SessionChanged(c, snapshot) == c.snapshot # PortalNone /\ c.snapshot[1].session # snapshot.session

PortalSynchronized(c, snapshot) ==
    [c EXCEPT !.pending = IF SessionChanged(c, snapshot) THEN 0 ELSE @,
              !.next = IF SessionChanged(c, snapshot) THEN 1 ELSE @,
              !.last = snapshot.sequence,
              !.snapshot = <<snapshot>>]

\* synchronize: a snapshot older than the last one is consumed and refused.
PortalSynchronize ==
    /\ state.page.snapshot # PortalNone
    /\ LET s == state.page.snapshot[1]
           accepted == s.sequence >= state.client.last IN
         state' = [state EXCEPT !.page.snapshot = PortalNone,
                                !.client = IF accepted THEN PortalSynchronized(@, s) ELSE @]
    /\ UNCHANGED past

\* base_command: the session, epoch and number a command carries.
BaseCommand(c, request) ==
    [sequence |-> c.next, epoch |-> c.snapshot[1].epoch, session |-> c.snapshot[1].session,
     request |-> request]

\* release_surface is the one request the client does not check against its rights.
RequireRight(c, op) == op = "release" \/ op \in PortalRights[c.snapshot[1].session]

\* The number is used up even when the command mailbox is still full.
Submitted(c, command) ==
    [c EXCEPT !.next = @ + 1,
              !.pending = IF state.page.command = PortalNone THEN command.sequence ELSE @]

Submit(request) ==
    LET c == state.client
        command == BaseCommand(c, request) IN
    /\ c.snapshot # PortalNone
    /\ c.pending = 0
    /\ RequireRight(c, request.op)
    /\ state' = [state EXCEPT !.client = Submitted(c, command),
                              !.page.command = IF @ = PortalNone THEN <<command>> ELSE @]
    /\ past' = [past EXCEPT !.sent = @ + 1]

ReplyAccepted(c, reply) ==
    /\ c.pending # 0
    /\ reply.sequence = c.pending
    /\ reply.snapshot >= c.last - 1

\* take_reply: the reply leaves the page even when it is refused.
TakeReply ==
    /\ state.page.reply # PortalNone
    /\ LET r == state.page.reply[1]
           accepted == ReplyAccepted(state.client, r) IN
         /\ state' = [state EXCEPT !.page.reply = PortalNone,
                                   !.client.pending = IF accepted THEN 0 ELSE @]
         /\ past' = [past EXCEPT !.lost = IF accepted THEN @ ELSE @ \cup {r.command}]

-----------------------------------------------------------------------------
\* The gateway: service_one, one critical section or platform call at a time.

\* service_one takes the command, execute_command reads the snapshot number.
TakeCommand ==
    /\ state.service = PortalIdle
    /\ state.page.command # PortalNone
    /\ state' = [state EXCEPT !.page.command = PortalNone,
                              !.service = [pc |-> "taken", command |-> state.page.command[1]]]
    /\ UNCHANGED past

ReadSnapshotSequence ==
    /\ state.service.pc = "taken"
    /\ state' = [state EXCEPT !.service = [pc |-> "read", command |-> state.service.command,
                                           snapshot |-> state.gateway.snapshot]]
    /\ UNCHANGED past

Valid(g, c) ==
    /\ c.epoch = g.epoch
    /\ c.session = g.session
    /\ c.sequence > g.command
    /\ c.request.op \in PortalRights[g.session]

\* validate_command; its deadline test fails like the others.
ValidateCommand ==
    LET c == state.service.command IN
    /\ state.service.pc = "read"
    /\ \E in_time \in BOOLEAN :
         IF in_time /\ Valid(state.gateway, c)
         THEN state' = [state EXCEPT !.gateway.command = c.sequence, !.service.pc = "valid"]
         ELSE state' = [state EXCEPT !.service.pc = "done"]
    /\ UNCHANGED past

\* The checks execute_present, execute_acknowledge and execute_recovery make under the lock.
GatewayAdmits(g, r) ==
    /\ r.op = "present" => r.value > g.frame
    /\ r.op \in {"acknowledge", "recover"} => r.value = g.plan

Check ==
    /\ state.service.pc = "valid"
    /\ state' = [state EXCEPT !.service.pc =
                    IF GatewayAdmits(state.gateway, state.service.command.request) THEN "admitted" ELSE "done"]
    /\ UNCHANGED past

PresentAllowed(d, r) == r.value > d.present /\ r.scene >= d.scene

Ran(r) ==
    LET d == state.desktop IN
    CASE r.op = "present" -> [d EXCEPT !.scene = r.scene, !.present = r.value]
      [] r.op = "acknowledge" -> [d EXCEPT !.plan = r.value]
      [] r.op = "checkpoint" -> [d EXCEPT !.scene = r.scene]
      [] r.op = "recover" -> [(IF state.checkpoint = PortalNone THEN d ELSE state.checkpoint[1])
                                EXCEPT !.safe_mode = r.scene >= 2]
      [] r.op = "focus" -> [d EXCEPT !.surface = r.object, !.focus = r.value]
      [] r.op = "release" /\ d.surface = r.object -> [d EXCEPT !.surface = 0, !.focus = @ + 1]
      [] OTHER -> d

PlatformAllows(d, r) ==
    /\ r.op = "present" => PresentAllowed(d, r)
    /\ r.op = "recover" => r.value = d.plan
    /\ r.op = "focus" => r.value >= d.focus

\* A call of the platform: refused, failed by a broker, or done.  A failed vault still
\* leaves the scene of a checkpoint in the desktop.
Platform ==
    LET c == state.service.command
        r == c.request IN
    /\ state.service.pc = "admitted"
    /\ \E done \in BOOLEAN :
         IF done /\ PlatformAllows(state.desktop, r)
         THEN /\ state' = [state EXCEPT !.service.pc = IF r.op = "present" THEN "shown" ELSE "done",
                                        !.desktop = Ran(r),
                                        !.checkpoint = IF r.op = "checkpoint" THEN <<Ran(r)>> ELSE @]
              /\ past' = [past EXCEPT
                   !.recoveries = IF r.op = "recover" THEN @ + 1 ELSE @,
                   !.recovered = IF r.op = "recover" THEN @ \cup {r.value} ELSE @,
                   !.acknowledged = IF r.op = "acknowledge" THEN @ \cup {r.value} ELSE @,
                   !.shown = IF r.op = "present"
                             THEN Append(@, [frame |-> r.value, session |-> state.gateway.session,
                                             recoveries |-> past.recoveries])
                             ELSE @]
         ELSE /\ state' = [state EXCEPT !.service.pc = "done",
                                        !.desktop = IF r.op = "checkpoint" THEN Ran(r) ELSE @]
              /\ UNCHANGED past

\* execute_present records the frame, in whatever session is current by now.
RecordFrame ==
    /\ state.service.pc = "shown"
    /\ state' = [state EXCEPT !.service.pc = "done",
                              !.gateway.frame = state.service.command.request.value]
    /\ UNCHANGED past

\* service_one publishes the reply; a full mailbox loses it.
PublishReply ==
    LET s == state.service
        reply == [sequence |-> s.command.sequence, snapshot |-> s.snapshot, command |-> s.command] IN
    /\ s.pc = "done"
    /\ state' = [state EXCEPT !.service = PortalIdle,
                              !.page.reply = IF @ = PortalNone THEN <<reply>> ELSE @]
    /\ past' = [past EXCEPT !.lost = IF state.page.reply = PortalNone THEN @ ELSE @ \cup {s.command}]

Askable == IF past.sent < Len(Requests) THEN Requests[past.sent + 1] ELSE {}

PortalNext ==
    \/ \E p \in Publishers, e \in PolicyEpochs, plan \in Plans : PublishBegin(p, e, plan)
    \/ \E p \in Publishers : PublishEnd(p)
    \/ RotateSession
    \/ PortalSynchronize
    \/ \E r \in Askable : Submit(r)
    \/ TakeReply
    \/ TakeCommand
    \/ ReadSnapshotSequence
    \/ ValidateCommand
    \/ Check
    \/ Platform
    \/ RecordFrame
    \/ PublishReply

PortalSpec == PortalInit /\ [][PortalNext]_vars

-----------------------------------------------------------------------------
\* Frames reach the display in increasing order, whatever is interleaved: a recovery puts
\* the platform's frame number back and a rotation the gateway's, and each is covered by
\* the other.  Only a rotation together with a recovery lets an old number show again.
FramesAdvance ==
    \A i, j \in 1..Len(past.shown) :
        i < j => LET a == past.shown[i]
                     b == past.shown[j] IN
                 a.frame < b.frame \/ (a.session # b.session /\ a.recoveries # b.recoveries)

\* A client waits only for a command that is in the page, being served, or answered in
\* the page, or whose reply was lost: dropped on a full mailbox, or refused by take_reply
\* because two snapshots were read meanwhile.  Nothing ends a wait of the last kind but a
\* new session.
WaitsAreFounded ==
    LET c == state.client
        founded == {state.page.command[i] : i \in DOMAIN state.page.command}
                   \cup {state.page.reply[i].command : i \in DOMAIN state.page.reply}
                   \cup (IF state.service = PortalIdle THEN {} ELSE {state.service.command})
                   \cup past.lost IN
    c.pending # 0 =>
        \E command \in founded : command.session = c.snapshot[1].session /\ command.sequence = c.pending

\* The platform recovers only for a plan some command acknowledged.
RecoveryIsAcknowledged == past.recovered \subseteq past.acknowledged

-----------------------------------------------------------------------------
(***************************************************************************)
(* Part QuantumScene.                                                      *)
(* userland/crest quantum_scene.rs: the slots of the scene, the leases on  *)
(* them, transactions that commit against an epoch, and the hit test.      *)
(* Callers act one after the other and keep what they got: a lease, the    *)
(* epoch at which they looked.  A token carries its slot and generation;   *)
(* the tag the code recomputes from the slot is a function of them and of  *)
(* what the slot was given at spawn, so it is modelled as that record.     *)
(***************************************************************************)
SurfaceSlots == 0..SurfaceCapacity-1
SurfaceEmpty == [occupied |-> FALSE, generation |-> 1, rights |-> {}, expires |-> 0, node |-> <<>>]

\* QuantumScene::new.
SurfaceInit ==
    /\ state = [epoch |-> 1, slots |-> [i \in SurfaceSlots |-> SurfaceEmpty], leases |-> {}, looked |-> [c \in Callers |-> 0]]
    /\ past = [seen |-> [c \in Callers |-> <<>>], committed |-> {}, issued |-> {}, born |-> [i \in SurfaceSlots |-> 0]]

Bumped(st) == [st EXCEPT !.epoch = @ + 1]
Tag(slot, index) == [slot |-> index, generation |-> slot.generation, surface |-> slot.node.surface, rights |-> slot.rights]
Lease(token, rights, expires) == [token |-> token, rights |-> rights, expires |-> expires]

\* spawn: the first slot that is free, a generation of its own, a surface nobody shows.
Spawn(surface, rights, expires, z) ==
    LET free == {i \in SurfaceSlots : ~state.slots[i].occupied} IN
    /\ rights # {} /\ expires > state.epoch + 1 /\ state.epoch < MaxEpoch
    /\ Cardinality(state.leases) < MaxLeases
    /\ \A i \in SurfaceSlots : state.slots[i].occupied => state.slots[i].node.surface # surface
    /\ free # {}
    /\ LET i == CHOOSE i \in free : \A j \in free : i <= j
           slot == [occupied |-> TRUE, generation |-> state.slots[i].generation + 1, rights |-> rights,
                    expires |-> expires, node |-> [surface |-> surface, at |-> 0, z |-> z, visible |-> TRUE]]
           lease == Lease(Tag(slot, i), rights, expires)
       IN
       /\ state' = [Bumped(state) EXCEPT !.slots[i] = slot, !.leases = @ \cup {lease}]
       /\ past' = [past EXCEPT !.issued = @ \cup {<<lease, state.epoch>>}, !.born[i] = state.epoch, !.committed = {}]

\* validate_token_in.
SurfaceValidToken(slots, token) ==
    /\ slots[token.slot].occupied /\ slots[token.slot].generation = token.generation
    /\ token = Tag(slots[token.slot], token.slot)

\* validate_lease.
ValidLease(lease, required) ==
    /\ SurfaceValidToken(state.slots, lease.token)
    /\ LET slot == state.slots[lease.token.slot] IN
       /\ lease.expires > state.epoch /\ lease.expires <= slot.expires
       /\ lease.rights \subseteq slot.rights
    /\ required \subseteq lease.rights

\* attenuate: fewer rights, and an expiry within that of the slot.
Within(parent, rights) == rights # {} /\ rights \subseteq parent.rights

Attenuate(parent, rights, expires) ==
    /\ ValidLease(parent, {}) /\ Cardinality(state.leases) < MaxLeases
    /\ Within(parent, rights)
    /\ expires <= state.slots[parent.token.slot].expires /\ expires > state.epoch
    /\ LET lease == Lease(parent.token, rights, expires) IN
       /\ state' = [state EXCEPT !.leases = @ \cup {lease}]
       /\ past' = [past EXCEPT !.issued = @ \cup {<<lease, past.born[parent.token.slot]>>},
                               !.committed = {}]

\* destroy: the slot is emptied and keeps its generation.
SurfaceEmptied(slot) == [SurfaceEmpty EXCEPT !.generation = slot.generation]

Destroy(lease) ==
    /\ ValidLease(lease, {"destroy"}) /\ state.epoch < MaxEpoch
    /\ LET i == lease.token.slot IN
       state' = [Bumped(state) EXCEPT !.slots[i] = SurfaceEmptied(@)]
    /\ past' = [past EXCEPT !.committed = {}]

\* A caller reads the epoch for the transaction it will build (SceneTransaction::new).
Look(c) ==
    /\ state.looked[c] # state.epoch
    /\ state' = [state EXCEPT !.looked[c] = state.epoch]
    /\ past' = [past EXCEPT !.seen[c] = state.slots, !.committed = {}]

\* apply_mutation with the validation of the node after it.
RequiredRight == [move |-> {"move"}, restack |-> {"move"}, resize |-> {"resize"}, hide |-> {"style"}]
Mutated(node, m) ==
    CASE m.kind = "move" -> [node EXCEPT !.at = m.value]
      [] m.kind = "restack" -> [node EXCEPT !.z = m.value]
      [] m.kind = "resize" -> node
      [] m.kind = "hide" -> [node EXCEPT !.visible = FALSE]
Applies(m) == m.kind = "resize" => m.value # 0

SurfaceKinds == {"move", "restack", "resize", "hide"}
Mutations == {[lease |-> l, kind |-> k, value |-> v] : l \in state.leases, k \in SurfaceKinds, v \in Positions}

MayCommit(c) == state.looked[c] = state.epoch

\* commit: every mutation is checked against its lease and staged; one that fails leaves everything.
Commit(c, mutations) ==
    LET ok == \A i \in 1..Len(mutations) :
                 ValidLease(mutations[i].lease, RequiredRight[mutations[i].kind]) /\ Applies(mutations[i])
        Stage(slots, m) == [slots EXCEPT ![m.lease.token.slot].node = Mutated(@, m)]
    IN
    /\ MayCommit(c) /\ state.epoch < MaxEpoch /\ ok
    /\ state' = [Bumped(state) EXCEPT !.slots = FoldLeft(Stage, state.slots, mutations)]
    /\ past' = [past EXCEPT !.committed = {<<c, state.slots>>}]

\* hit_test: the node in front, the first of equals.
Hits(x) == {i \in SurfaceSlots : /\ state.slots[i].occupied /\ state.slots[i].node.visible
                                 /\ state.slots[i].node.at = x /\ state.slots[i].expires > state.epoch}
SurfaceHitTest(x) ==
    {i \in Hits(x) : \A j \in Hits(x) :
        \/ state.slots[i].node.z > state.slots[j].node.z
        \/ state.slots[i].node.z = state.slots[j].node.z /\ i <= j}

SurfaceNext ==
    \/ \E s \in Surfaces, r \in SUBSET SurfaceRights, e \in Expiries, z \in Depths : Spawn(s, r, e, z)
    \/ \E l \in state.leases, r \in SUBSET SurfaceRights, e \in Expiries : Attenuate(l, r, e)
    \/ \E l \in state.leases : Destroy(l)
    \/ \E c \in Callers : Look(c)
    \/ \E c \in Callers, m \in Mutations : Commit(c, <<m>>)
    \/ \E c \in Callers, m, n \in Mutations : Commit(c, <<m, n>>)

SurfaceSpec == SurfaceInit /\ [][SurfaceNext]_vars

-----------------------------------------------------------------------------

\* A lease that is still honoured is honoured for the node it was issued for, however often its slot
\* was freed and filled since, by the same surface with the same rights too.  A transaction
\* commits onto exactly the scene its caller looked at: no change in between is lost.  No two nodes
\* show one surface, and a point belongs to at most one node, the one in front.
LeasesAreGood ==
    /\ \A p \in past.issued : ValidLease(p[1], {}) => past.born[p[1].token.slot] = p[2]
    /\ \A p \in past.committed : p[2] = past.seen[p[1]]
    /\ \A i, j \in SurfaceSlots : i # j /\ state.slots[i].occupied /\ state.slots[j].occupied =>
        state.slots[i].node.surface # state.slots[j].node.surface
    /\ \A x \in Positions : Cardinality(SurfaceHitTest(x)) = IF Hits(x) = {} THEN 0 ELSE 1

-----------------------------------------------------------------------------
(***************************************************************************)
(* Part QuantumFocus.                                                      *)
(* userland/crest quantum_focus.rs: grants of input focus, modal children, *)
(* the four active tokens, and the routing of an event to one of them.     *)
(* The scene (QuantumScene) is the node each lease shows, whether a grant  *)
(* may be made for it, and the node a pointer event hits.                  *)
(***************************************************************************)
FocusSlots == 0..FocusCapacity-1
Modal == "modal"
FocusNone == [slot |-> FocusCapacity, generation |-> 0]
FocusEmpty == [occupied |-> FALSE, generation |-> 1, rights |-> {}, expires |-> 0, node |-> 0, parent |-> FocusNone, depth |-> 0]

\* QuantumFocusLattice::new, over a scene whose nodes accept input.
FocusInit ==
    /\ state = [records |-> [i \in FocusSlots |-> FocusEmpty], active |-> [c \in Classes |-> FocusNone],
                eligible |-> Nodes, tick |-> 1, grants |-> {}, made |-> 0]
    /\ past = [above |-> [g \in {} |-> FocusNone], dead |-> {}, dispatch |-> {}]

Token(i, record) == [slot |-> i, generation |-> record.generation]
GrantOf(i, record) == [token |-> Token(i, record), expires |-> record.expires]

\* The scene changes: a node is frozen and goes behind the others, or comes back.
SceneChanges(n) ==
    /\ state' = [state EXCEPT !.eligible = IF n \in @ THEN @ \ {n} ELSE @ \cup {n}]
    /\ past' = [past EXCEPT !.dispatch = {}]

Free == {i \in FocusSlots : ~state.records[i].occupied}
First(set) == CHOOSE i \in set : \A j \in set : i <= j

\* grant: a node that takes input, the first free record, a generation of its own.
Granted(n, rights, expires, parent, depth) ==
    LET i == First(Free)
        record == [occupied |-> TRUE, generation |-> state.records[i].generation + 1, rights |-> rights,
                   expires |-> expires, node |-> n, parent |-> parent, depth |-> depth]
    IN
    /\ rights # {} /\ expires > state.tick /\ n \in state.eligible /\ Free # {} /\ state.made < MaxGrants
    /\ state' = [state EXCEPT !.records[i] = record, !.grants = @ \cup {GrantOf(i, record)}, !.made = @ + 1]
    /\ past' = [past EXCEPT !.dispatch = {},
                    !.above = [g \in DOMAIN @ \cup {Token(i, record)} |->
                                   IF g = Token(i, record) THEN parent ELSE @[g]]]

Grant(n, rights, expires) == Granted(n, rights, expires, FocusNone, 0)

\* validate_token and validate_grant; a tick of 0 leaves the expiry aside.
FocusValidToken(token, required, now) ==
    /\ token # FocusNone
    /\ LET record == state.records[token.slot] IN
       /\ record.occupied /\ record.generation = token.generation
       /\ now # 0 => record.expires > now
       /\ required \subseteq record.rights

\* modal_child: the child dies with its parent at the latest.
ChildExpiry(expires, parent) == IF expires < parent.expires THEN expires ELSE parent.expires

ModalChild(g, n, rights, expires) ==
    LET parent == state.records[g.token.slot] IN
    /\ FocusValidToken(g.token, {Modal}, state.tick)
    /\ parent.depth < MaximumDepth /\ rights \subseteq parent.rights
    /\ Granted(n, rights, ChildExpiry(expires, parent), g.token, parent.depth + 1)

\* validate_ancestry: every record up to the root is there with the generation it was chosen for.
Rooted(i) ==
    LET Up[n \in 0..MaximumDepth + 1, j \in FocusSlots] ==
            LET parent == state.records[j].parent IN
            IF parent = FocusNone THEN TRUE
            ELSE /\ n > 0
                 /\ state.records[parent.slot].occupied
                 /\ state.records[parent.slot].generation = parent.generation
                 /\ Up[n - 1, parent.slot]
    IN Up[MaximumDepth, i]

\* activate.
Activate(g, class) ==
    /\ FocusValidToken(g.token, {class}, state.tick) /\ Rooted(g.token.slot)
    /\ state' = [state EXCEPT !.active[class] = g.token]
    /\ past' = [past EXCEPT !.dispatch = {}]

\* route: a pointing event prefers the record of the node it hits.
Candidate(class) ==
    LET hit == {i \in FocusSlots : state.records[i].occupied /\ state.records[i].node = First(state.eligible)
                                   /\ state.records[i].expires > state.tick}
    IN IF class \in Pointing /\ state.eligible # {} /\ hit # {} /\ class \in state.records[First(hit)].rights
       THEN Token(First(hit), state.records[First(hit)]) ELSE state.active[class]

Route(class) ==
    LET token == Candidate(class) IN
    /\ FocusValidToken(token, {class}, state.tick) /\ Rooted(token.slot)
    /\ UNCHANGED state
    /\ past' = [past EXCEPT !.dispatch = {<<class, token, state.records[token.slot]>>}]

FocusEmptied(record) == [FocusEmpty EXCEPT !.generation = record.generation]

Cleared(active, token) == [c \in Classes |-> IF active[c] = token THEN FocusNone ELSE active[c]]

\* revoke: the children the grant has, then the grant; the children of those stay.
Revoke(g) ==
    LET Gone(i) == i = g.token.slot \/ (state.records[i].occupied /\ state.records[i].parent = g.token) IN
    /\ FocusValidToken(g.token, {}, 0)
    /\ state' = [state EXCEPT !.records = [i \in FocusSlots |-> IF Gone(i) THEN FocusEmptied(@[i]) ELSE @[i]],
                              !.active = Cleared(@, g.token)]
    /\ past' = [past EXCEPT !.dispatch = {},
                    !.dead = @ \cup {Token(i, state.records[i]) : i \in {j \in FocusSlots : Gone(j)}}]

\* expire, at a tick that moved on.
Expire ==
    LET Gone(i) == state.records[i].occupied /\ state.records[i].expires <= state.tick + 1
        tokens == {Token(i, state.records[i]) : i \in {j \in FocusSlots : Gone(j)}}
    IN
    /\ state.tick < FocusMaxTick
    /\ \E swept \in BOOLEAN :
        /\ state' = [state EXCEPT !.tick = @ + 1,
                        !.records = [i \in FocusSlots |-> IF swept /\ Gone(i) THEN FocusEmptied(@[i]) ELSE @[i]],
                        !.active = [c \in Classes |-> IF swept /\ @[c] \in tokens THEN FocusNone ELSE @[c]]]
        /\ past' = [past EXCEPT !.dispatch = {}, !.dead = @ \cup tokens]

FocusNext ==
    \/ \E n \in Nodes : SceneChanges(n)
    \/ \E n \in Nodes, r \in RightSets, e \in Lifetimes : Grant(n, r, e)
    \/ \E g \in state.grants, n \in Nodes, r \in RightSets, e \in Lifetimes : ModalChild(g, n, r, e)
    \/ \E g \in state.grants, c \in Classes : Activate(g, c)
    \/ \E c \in Classes : Route(c)
    \/ \E g \in state.grants : Revoke(g)
    \/ Expire

FocusSpec == FocusInit /\ [][FocusNext]_vars

-----------------------------------------------------------------------------

Chain(token) ==
    LET Up[n \in 0..MaximumDepth + 1] ==
            IF n = 0 THEN {token}
            ELSE Up[n - 1] \cup {past.above[t] : t \in Up[n - 1] \cap DOMAIN past.above}
    IN Up[MaximumDepth + 1] \ {FocusNone}

\* Input is dispatched only to a grant that was never revoked and has not expired, and neither was
\* any grant it hangs from: a dialog stops getting input with the window that opened it, though
\* revoke removes only the nearest children and the slots of the others are used again.  The
\* grant has the right of the class of the event, as has every grant above it.
InputFollowsGrants ==
    \A d \in past.dispatch :
        /\ Chain(d[2]) \cap past.dead = {}
        /\ d[1] \in d[3].rights
        /\ \A t \in Chain(d[2]) : d[1] \in state.records[t.slot].rights

-----------------------------------------------------------------------------
(***************************************************************************)
(* Part QuantumFrame.                                                      *)
(* The frame path of the Crest desktop (crest/src/quantum_desktop.rs) with  *)
(* the tile field that keeps the damage (quantum_tile_field.rs), the oracle *)
(* that plans a frame (quantum_frame_oracle.rs) and the compositor pipeline *)
(* that renders a schedule (compositor/pipeline.rs).                        *)
(*                                                                          *)
(* A tile's heat, the beam and the Hilbert order only order tiles of equal  *)
(* phase and confidence: which of them come first is left open.  The        *)
(* oracle's running averages decide whether a frame is predicted to miss    *)
(* its budget: that verdict is an input of a frame.                         *)
(***************************************************************************)
TilesWide == (Width + TileSize - 1) \div TileSize
TilesTall == (Height + TileSize - 1) \div TileSize
Tiles == (0 .. TilesWide - 1) \X (0 .. TilesTall - 1)

Least(a, b) == IF a < b THEN a ELSE b
Most(a, b) == IF a > b THEN a ELSE b

Dormant == [phase |-> "dormant", confidence |-> 0]

Rank == [dormant |-> 0, predicted |-> 1, dirty |-> 2, critical |-> 3]

Clip(r) ==
    [x0 |-> Most(r.x, 0), y0 |-> Most(r.y, 0),
     x1 |-> Least(r.x + r.w, Width), y1 |-> Least(r.y + r.h, Height)]

MarkedTiles(r) ==
    LET c == Clip(r) IN
    IF c.x0 >= c.x1 \/ c.y0 >= c.y1 THEN {}
    ELSE (c.x0 \div TileSize .. Least((c.x1 + TileSize - 1) \div TileSize, TilesWide) - 1)
         \X (c.y0 \div TileSize .. Least((c.y1 + TileSize - 1) \div TileSize, TilesTall) - 1)

MarkRectangle(field, r) ==
    [t \in Tiles |->
        IF t \notin MarkedTiles(r) THEN field[t]
        ELSE [phase |-> IF field[t].phase = "critical" THEN "critical" ELSE "dirty",
              confidence |-> FullConfidence]]

Gap(a, b) == IF a > b THEN a - b ELSE b - a

\* The wave a pointer event sends out: confidence falls with the distance in
\* tiles, and only a dormant tile changes its phase.
InjectWave(field, p, confidence, radius) ==
    LET cx == p.x \div TileSize
        cy == p.y \div TileSize
        Distance(t) == Gap(t[1], cx) + Gap(t[2], cy)
        At(t) == Most(confidence - (Distance(t) * FullConfidence) \div radius, 0)
    IN [t \in Tiles |->
           IF Distance(t) > radius \/ At(t) = 0 THEN field[t]
           ELSE [phase |-> IF field[t].phase = "dormant" THEN "predicted" ELSE field[t].phase,
                 confidence |-> Most(field[t].confidence, At(t))]]

PredictInput(field, p, predicted) ==
    IF predicted THEN InjectWave(field, p, (208 * FullConfidence) \div 255, 2)
                 ELSE InjectWave(field, p, (128 * FullConfidence) \div 255, 1)

EscalateBlacklab(field, risk) ==
    IF risk < 240 THEN field
    ELSE [t \in Tiles |->
            [phase |-> IF risk >= 680 THEN "critical"
                       ELSE IF field[t].phase = "dormant" THEN "predicted" ELSE field[t].phase,
             confidence |-> Most(field[t].confidence, Least((risk * FullConfidence) \div 1000, FullConfidence))]]

Candidates(field) == {t \in Tiles : field[t].phase # "dormant"}

FrameKey(s) == Rank[s.phase] * (FullConfidence + 1) + s.confidence

\* The schedules compile_schedule may produce for a budget: the candidates of
\* highest priority, ties broken by what the model leaves out.
Schedules(field, budget) ==
    {s \in SUBSET Candidates(field) :
        /\ Cardinality(s) = Least(budget, Cardinality(Candidates(field)))
        /\ \A t \in s, u \in Candidates(field) \ s : FrameKey(field[t]) >= FrameKey(field[u])}

InPhase(field, phase) == Cardinality({t \in Tiles : field[t].phase = phase})

CompleteFrame(field, done) ==
    [t \in Tiles |->
        IF t \in done THEN Dormant
        ELSE IF field[t].phase # "predicted" THEN field[t]
        ELSE IF field[t].confidence <= 1 THEN Dormant
        ELSE [field[t] EXCEPT !.confidence = @ - 1]]

\* The oracle's three lanes.  s is the snapshot, n the number of tiles
\* scheduled, critical and dirty counts of the field, late whether the frame is
\* predicted to take the budget or more.

Emergency == {"revoked", "recovery"}
Unsafe == Emergency \cup {"safe"}

AtRisk(s, late) == late \/ "at_risk" \in s.flags

LatencyLane(s, n, critical, dirty, late) ==
    [mode |-> IF s.flags \cap Emergency # {} THEN "emergency"
              ELSE IF AtRisk(s, late) THEN "predictive" ELSE "coherent",
     budget |-> IF AtRisk(s, late) THEN Least(Most(critical + dirty, 1), n) ELSE n,
     score |-> IF AtRisk(s, late) THEN 900 ELSE 600]

CoherenceLane(s, n, critical, deferred) ==
    [mode |-> IF s.flags \cap Unsafe # {} THEN "recovery"
              ELSE IF deferred = 0 THEN "coherent" ELSE "predictive",
     budget |-> IF s.flags \cap Unsafe # {} THEN Least(Most(critical, 1), n) ELSE n,
     score |-> IF s.flags \cap Unsafe # {} THEN 1000 ELSE 750]

Degraded(s) == s.flags \cap {"degraded", "quarantine"} # {}

ThermalBudget(s, n, critical) ==
    Least(Most((n * Most(1000 - s.risk, 100)) \div 1000, Most(critical, 1)), n)

ThermalLane(s, n, critical) ==
    [mode |-> IF s.risk >= 880 THEN "recovery"
              ELSE IF s.risk >= 680 THEN "emergency"
              ELSE IF Degraded(s) THEN "predictive" ELSE "coherent",
     budget |-> ThermalBudget(s, n, critical),
     score |-> s.risk + (IF Degraded(s) THEN 256 ELSE 0)]

ModeRank == [quiescent |-> 0, coherent |-> 1, predictive |-> 2, emergency |-> 3, recovery |-> 4]

MajorityMode(d) ==
    LET agreed == {i \in 1 .. 3 : \E j \in 1 .. 3 \ {i} : d[j].mode = d[i].mode}
        top == Max({d[i].score : i \in 1 .. 3})
    IN IF top >= 1000 THEN d[Max({i \in 1 .. 3 : d[i].score = top})].mode
       ELSE IF agreed # {} THEN d[Min(agreed)].mode
       ELSE (CHOOSE l \in {d[1], d[2], d[3]} :
               \A k \in 1 .. 3 : ModeRank[d[k].mode] <= ModeRank[l.mode]).mode

ConsensusBudget(d, n) == Least(Most(Min({d[i].budget : i \in 1 .. 3}), 1), n)

Decisions(s, field, n, late) ==
    <<LatencyLane(s, n, InPhase(field, "critical"), InPhase(field, "dirty"), late),
      CoherenceLane(s, n, InPhase(field, "critical"), Cardinality(Candidates(field)) - n),
      ThermalLane(s, n, InPhase(field, "critical"))>>

\* The desktop.  world is the snapshot the platform publishes, snapshot the
\* desktop's copy; command is the portal's one outstanding command.

Nothing == [must |-> {}, done |-> {}, flags |-> {}, mode |-> "none"]

FrameInit ==
    /\ state = [field |-> [t \in Tiles |-> Dormant], snapshot |-> {}, command |-> "none",
                pending |-> FALSE, lastTick |-> 0, tick |-> 1,
                world |-> [sequence |-> 1, risk |-> 0, flags |-> {}, total |-> Cardinality(Tiles)]]
    /\ past = [stale |-> {}, carried |-> {}, plan |-> Nothing]

\* The tiles a rectangle of pixels shows in: what the screen owes, said without
\* the division by the tile size.
Covered(r) ==
    {t \in Tiles : \E x \in r.x .. r.x + r.w - 1, y \in r.y .. r.y + r.h - 1 :
        /\ x \in 0 .. Width - 1 /\ y \in 0 .. Height - 1
        /\ x >= t[1] * TileSize /\ x < (t[1] + 1) * TileSize
        /\ y >= t[2] * TileSize /\ y < (t[2] + 1) * TileSize}

Owed(rs) == past' = [past EXCEPT !.stale = @ \cup UNION {Covered(r) : r \in rs}, !.plan = Nothing]

Keeps == past' = [past EXCEPT !.plan = Nothing]

Publish ==
    /\ state.world.sequence < MaxSequence
    /\ \E risk \in Risks, flags \in FlagSets, total \in {0, Cardinality(Tiles)} :
          state' = [state EXCEPT !.world = [sequence |-> @.sequence + 1, risk |-> risk,
                                            flags |-> flags, total |-> total]]
    /\ Keeps

Clock ==
    /\ state.tick < FrameMaxTick
    /\ state' = [state EXCEPT !.tick = @ + 1]
    /\ Keeps

\* The field after synchronize: a snapshot not seen before escalates the tiles.
FrameSynchronized ==
    IF \E s \in state.snapshot : s.sequence = state.world.sequence THEN state.field
    ELSE EscalateBlacklab(state.field, state.world.risk)

FrameSynchronize ==
    /\ state' = [state EXCEPT !.field = FrameSynchronized, !.snapshot = {state.world}]
    /\ Keeps

SpawnSurface ==
    \E r \in Rectangles :
        /\ state' = [state EXCEPT !.field = MarkRectangle(@, r)]
        /\ Owed({r})

\* The tiles absorb the commit before a missing snapshot is reported.
CommitScene ==
    \E before, after \in Rectangles :
        /\ state' = [state EXCEPT !.field = MarkRectangle(MarkRectangle(@, before), after)]
        /\ Owed({before, after})

DispatchInput ==
    \E p \in Points, predicted \in BOOLEAN :
        /\ state' = [state EXCEPT !.field = PredictInput(@, p, predicted)]
        /\ Keeps

PlanAllowed(s) == s.total # 0 /\ ~(state.lastTick # 0 /\ state.tick < state.lastTick)

SubmitFailed(field) == EscalateBlacklab(field, 1000)

\* One call of render_and_submit.  It may stop with nothing to draw, with a plan
\* refused or with a tile that fails to render; only a rendered frame completes
\* its tiles, and a present the portal refuses makes every tile critical again.
RenderAndSubmit ==
    LET s == state.world
        field == FrameSynchronized
        n == Cardinality(Candidates(field))
    IN
    /\ ~state.pending /\ state.command = "none"
    /\ \/ /\ n = 0 \/ ~PlanAllowed(s)
          /\ state' = [state EXCEPT !.field = field, !.snapshot = {s}]
          /\ Keeps
       \/ /\ n # 0 /\ PlanAllowed(s)
          /\ \E late, renders, submits \in BOOLEAN :
             LET d == Decisions(s, field, n, late)
                 budget == ConsensusBudget(d, n)
             IN \E schedule \in Schedules(field, budget) :
                  LET completed == CompleteFrame(field, schedule) IN
                  /\ state' = [state EXCEPT
                       !.snapshot = {s},
                       !.lastTick = state.tick,
                       !.field = IF ~renders THEN field
                                 ELSE IF submits THEN completed ELSE SubmitFailed(completed),
                       !.pending = renders /\ submits,
                       !.command = IF renders /\ submits THEN "present" ELSE "none"]
                  /\ past' = [stale |-> IF renders /\ submits THEN past.stale \ schedule ELSE past.stale,
                              carried |-> IF renders /\ submits THEN past.stale \cap schedule ELSE {},
                              plan |-> [must |-> {t \in Tiles : field[t].phase = "critical"},
                                        done |-> schedule, flags |-> s.flags, mode |-> MajorityMode(d)]]

\* A checkpoint, a recovery or a plan acknowledgement: the portal's other use.
RequestOther ==
    /\ state.command = "none"
    /\ state' = [state EXCEPT !.command = "other"]
    /\ Keeps

ReplyFailed ==
    /\ state.command # "none"
    /\ state' = [state EXCEPT !.command = "none", !.pending = FALSE,
                              !.field = EscalateBlacklab(@, 1000)]
    /\ past' = [stale |-> past.stale \cup past.carried, carried |-> {}, plan |-> Nothing]

\* The present tick a reply carries is the platform's: an observation dated
\* before the last one is refused, and the frame is no longer pending all the same.
ReplyOk ==
    /\ state.command # "none"
    /\ \E present \in {state.tick} \cup 1 .. FrameMaxTick :
          state' = [state EXCEPT !.command = "none", !.pending = FALSE,
                      !.lastTick = IF state.pending /\ present >= @ THEN present ELSE @]
    /\ past' = [past EXCEPT !.carried = {}, !.plan = Nothing]

EnterSafeMode ==
    /\ state.snapshot # {}
    /\ state' = [state EXCEPT !.field = EscalateBlacklab(@, 1000),
                              !.snapshot = {[s EXCEPT !.flags = @ \cup {"safe"}] : s \in state.snapshot}]
    /\ Keeps

FrameNext ==
    \/ Publish \/ Clock \/ FrameSynchronize \/ SpawnSurface \/ CommitScene \/ DispatchInput
    \/ RenderAndSubmit \/ RequestOther \/ ReplyFailed \/ ReplyOk \/ EnterSafeMode

FrameSpec == FrameInit /\ [][FrameNext]_vars

-----------------------------------------------------------------------------
(***************************************************************************)
(* A tile in which a surface appeared, moved or changed since its last      *)
(* successful frame stays dirty or critical until a frame that renders it   *)
(* is answered: a frame planned down to fewer tiles, a tile that fails to   *)
(* render, a present the portal refuses and a failed reply all keep it.  A  *)
(* planned frame renders every critical tile whatever its budget, and a     *)
(* snapshot with DMA revoked, recovery pending or safe mode is never planned *)
(* as an ordinary frame.                                                    *)
(***************************************************************************)
DamageReachesTheScreen ==
    /\ \A t \in past.stale : state.field[t].phase \in {"dirty", "critical"}
    /\ past.plan.must \subseteq past.plan.done
    /\ past.plan.flags \cap Unsafe # {} => past.plan.mode \in {"emergency", "recovery"}

-----------------------------------------------------------------------------
(***************************************************************************)
(* Part CrestInput.                                                        *)
(* What happens to an input event before a surface sees it: the filters and *)
(* the modifier state of crest/src/input.rs, the gesture recogniser of      *)
(* compositor/gesture.rs, and the settings with their key bindings and      *)
(* their saved form (compositor/settings.rs).  Positions are on one axis;   *)
(* whether a drag ends fast enough to be a swipe is left open.              *)
(***************************************************************************)
InputDistance(a, b) == IF a > b THEN a - b ELSE b - a

InputIdle == [at |-> "idle", x |-> 0, tick |-> 0]

\* GestureQueue::push: a full queue drops the event.
Pushed(queue, events) ==
    FoldLeft(LAMBDA q, e : IF Len(q) >= QueueSize THEN q ELSE Append(q, e), queue, events)

Event(kind, id) == [kind |-> kind, id |-> id]

\* What slot `id` becomes and which gestures it emits.
OnDown(s, id, x) ==
    [slot |-> [at |-> "pressed", x |-> x, tick |-> s.tick], events |-> <<>>]

OnMove(s, id, x) ==
    LET slot == s.slots[id] IN
    IF slot.at = "pressed" /\ InputDistance(slot.x, x) >= DragThreshold
    THEN [slot |-> [slot EXCEPT !.at = "dragging", !.tick = 0], events |-> <<Event("drag_begin", id)>>]
    ELSE IF slot.at = "dragging" THEN [slot |-> slot, events |-> <<Event("drag_update", id)>>]
    ELSE [slot |-> slot, events |-> <<>>]

OnUp(s, id, x, fast) ==
    LET slot == s.slots[id]
        tap == slot.at = "pressed" /\ InputDistance(slot.x, x) <= TapMaxPixels /\ s.tick - slot.tick <= TapMaxTicks
        drag == slot.at = "dragging"
    IN [slot |-> InputIdle,
        events |-> (IF tap THEN <<Event("tap", id)>> ELSE <<>>)
                   \o (IF drag THEN <<Event("drag_end", id)>> ELSE <<>>)
                   \o (IF drag /\ fast THEN <<Event("swipe", id)>> ELSE <<>>)]

\* PointerAbsIntegrator: a motion is clamped to the screen.
Clamp(x) == IF x < 0 THEN 0 ELSE IF x > Span THEN Span ELSE x

InputKinds(events) == {events[i].kind : i \in DOMAIN events}

TouchDown(id) ==
    \E x \in 0 .. Span :
        /\ ~past.down[id]
        /\ state' = [state EXCEPT !.slots[id] = OnDown(state, id, x).slot]
        /\ past' = [past EXCEPT !.down[id] = TRUE, !.seen[id] = {}]

TouchMove(id) ==
    \E x \in 0 .. Span :
        LET r == OnMove(state, id, x) IN
        /\ past.down[id]
        /\ state' = [state EXCEPT !.slots[id] = r.slot, !.queue = Pushed(@, r.events)]
        /\ past' = [past EXCEPT !.seen[id] = @ \cup InputKinds(r.events)]

TouchUp(id) ==
    \E x \in 0 .. Span, fast \in BOOLEAN :
        LET r == OnUp(state, id, x, fast) IN
        /\ past.down[id]
        /\ state' = [state EXCEPT !.slots[id] = r.slot, !.queue = Pushed(@, r.events)]
        /\ past' = [past EXCEPT !.down[id] = FALSE,
                                !.seen[id] = @ \cup InputKinds(r.events)]

\* The mouse: the integrator turns a motion or a button into an absolute
\* position with the buttons held, and the recogniser takes a held button for a
\* press and anything else for a move of slot 0.
Mouse ==
    \E d \in {-1, 0, 2}, button \in BOOLEAN :
        LET x == Clamp(state.x + d)
            r == IF button THEN OnDown(state, 0, x) ELSE OnMove(state, 0, x)
        IN /\ state' = [state EXCEPT !.x = x, !.button = button,
                                     !.slots[0] = r.slot, !.queue = Pushed(@, r.events)]
           /\ past' = [past EXCEPT !.down[0] = button]

AdvanceTick ==
    LET now == state.tick + 1
        held == {id \in Pointers \cup {0} : state.slots[id].at = "pressed" /\ now - state.slots[id].tick >= HoldTicks}
    IN /\ state.tick < InputMaxTick
       /\ state' = [state EXCEPT
                      !.tick = now,
                      !.slots = [id \in DOMAIN @ |-> IF id \in held THEN [@[id] EXCEPT !.at = "holding", !.tick = 0] ELSE @[id]],
                      !.queue = Pushed(@, SetToSeq({Event("hold", id) : id \in held}))]
       /\ past' = [past EXCEPT !.seen = [id \in DOMAIN @ |-> IF id \in held THEN @[id] \cup {"hold"} ELSE @[id]]]

Poll ==
    /\ state.queue # <<>>
    /\ state' = [state EXCEPT !.queue = Tail(@)]
    /\ UNCHANGED past

Updated(modifiers, code, pressed) ==
    LET m == Keys[code] IN
    IF m = "none" THEN modifiers
    ELSE IF m = "caps" THEN (IF ~pressed THEN modifiers
                             ELSE IF m \in modifiers THEN modifiers \ {m} ELSE modifiers \cup {m})
    ELSE IF pressed THEN modifiers \cup {m} ELSE modifiers \ {m}

Remapped(code) == IF code \in DOMAIN state.remap THEN state.remap[code] ELSE code

\* InputIntegrator::integrate: the modifiers follow the code before the remap.
InputKey ==
    \E code \in DOMAIN Keys :
        LET pressed == code \notin past.held IN
        /\ past.strokes < MaxStrokes
        /\ state' = [state EXCEPT !.modifiers = Updated(@, code, pressed), !.last = Remapped(code)]
        /\ past' = [held |-> IF pressed THEN past.held \cup {code} ELSE past.held \ {code},
                    strokes |-> past.strokes + 1,
                    caps |-> IF Keys[code] = "caps" /\ pressed THEN ~past.caps ELSE past.caps]

Actions == (0 .. NamedActions - 1) \X {"named"} \cup Customs \X {"custom"}

Bound(entries, action, code) ==
    LET same == {i \in DOMAIN entries : entries[i].action = action} IN
    IF same # {}
    THEN [entries EXCEPT ![CHOOSE i \in same : \A j \in same : i <= j] =
            [action |-> action, code |-> code, enabled |-> TRUE]]
    ELSE IF Len(entries) >= MaxKeybinds THEN entries
    ELSE Append(entries, [action |-> action, code |-> code, enabled |-> TRUE])

Lookup(entries, action) ==
    LET at == SelectSeq(entries, LAMBDA e : e.action = action /\ e.enabled) IN
    IF at = <<>> THEN {} ELSE {Head(at).code}

\* The byte an action is saved as, and the action a byte is read as.
ActionByte(a) == a[1]
ActionOf(b) == IF b < NamedActions THEN <<b, "named">> ELSE <<b, "custom">>

Serialize(store, size) ==
    IF Len(store.entries) > size THEN {}
    ELSE {[height |-> store.height, count |-> Len(store.entries),
           entries |-> [i \in DOMAIN store.entries |->
               [byte |-> ActionByte(store.entries[i].action), code |-> store.entries[i].code,
                enabled |-> store.entries[i].enabled]]]}

ClampHeight(h) == IF h < 16 THEN 16 ELSE IF h > 48 THEN 48 ELSE h

\* A file cut short ends the reading of key bindings where it ends.
Deserialize(file) ==
    [height |-> ClampHeight(file.height),
     entries |-> [i \in 1 .. Len(file.entries) |->
         [action |-> ActionOf(file.entries[i].byte), code |-> file.entries[i].code,
          enabled |-> file.entries[i].enabled]]]

SetPanelHeight ==
    \E h \in {0, 32, 255} :
        /\ state' = [state EXCEPT !.store.height = ClampHeight(h), !.dirty = @ \cup {"appearance"}]
        /\ past' = [past EXCEPT !.read = {}]

BindAction ==
    \E a \in Actions, c \in Codes :
        LET entries == Bound(state.store.entries, a, c) IN
        /\ state' = [state EXCEPT !.store.entries = entries,
                       !.dirty = IF c \in Lookup(entries, a) THEN @ \cup {"keybinds"} ELSE @]
        /\ past' = [past EXCEPT !.read = {}, !.wanted[a] = IF c \in Lookup(entries, a) \/ @ # {} THEN {c} ELSE @]

ClearDirty ==
    /\ state' = [state EXCEPT !.dirty = {}]
    /\ UNCHANGED past

Save ==
    \E size \in BufferSizes :
        LET file == Serialize(state.store, size) IN
        /\ file # {}
        /\ state' = [state EXCEPT !.file = file]
        /\ past' = [past EXCEPT !.saved = {state.store}, !.read = {}]

\* A damaged header changes nothing; a truncated file loses its last bindings.
Load ==
    \E file \in state.file, n \in 0 .. MaxKeybinds :
        /\ n <= file.count
        /\ state' = [state EXCEPT
              !.store = Deserialize([file EXCEPT !.entries = SubSeq(@, 1, n)]),
              !.dirty = {"appearance", "keybinds"}]
        /\ past' = [past EXCEPT !.read = {[from |-> s, count |-> n] : s \in past.saved},
              !.wanted = [a \in Actions |-> Lookup(state'.store.entries, a)]]

InputInit ==
    \/ /\ state = [part |-> "gesture", slots |-> [id \in Pointers \cup {0} |-> InputIdle], queue |-> <<>>,
                   tick |-> 0, x |-> 0, button |-> FALSE]
       /\ past = [down |-> [id \in Pointers \cup {0} |-> FALSE], seen |-> [id \in Pointers |-> {}]]
    \/ \E remap \in [{1} -> DOMAIN Keys] :
         /\ state = [part |-> "keys", modifiers |-> {}, remap |-> remap, last |-> 1]
         /\ past = [held |-> {}, strokes |-> 0, caps |-> FALSE]
    \/ /\ state = [part |-> "settings", store |-> [height |-> 32, entries |-> <<>>], file |-> {},
                   dirty |-> {"appearance", "keybinds"}]
       /\ past = [wanted |-> [a \in Actions |-> {}], saved |-> {}, read |-> {}]

GestureNext ==
    /\ state.part = "gesture"
    /\ \/ \E id \in Pointers : TouchDown(id)
       \/ \E id \in Pointers : TouchMove(id)
       \/ \E id \in Pointers : TouchUp(id)
       \/ Mouse
       \/ AdvanceTick
       \/ Poll

SettingsNext ==
    /\ state.part = "settings"
    /\ SetPanelHeight \/ BindAction \/ ClearDirty \/ Save \/ Load

InputNext == GestureNext \/ (state.part = "keys" /\ InputKey) \/ SettingsNext

InputSpec == InputInit /\ [][InputNext]_vars

-----------------------------------------------------------------------------
(***************************************************************************)
(* A touch gives at most one of a tap, a hold and a drag, and an update, an  *)
(* end or a swipe only of a drag that began.  A modifier is reported only    *)
(* while one of its keys is down, and Caps Lock follows the parity of its    *)
(* presses.  A key binding is found under the code last bound to its action, *)
(* and settings read back from a file are the ones saved, as far as the file *)
(* reaches, for every action with a number of its own.                       *)
(***************************************************************************)
InputIsWhole ==
    CASE state.part = "gesture" ->
           \A id \in Pointers :
              /\ Cardinality(past.seen[id] \cap {"tap", "hold", "drag_begin"}) <= 1
              /\ past.seen[id] \cap {"drag_update", "drag_end", "swipe"} # {} => "drag_begin" \in past.seen[id]
      [] state.part = "keys" ->
           /\ \A m \in state.modifiers \ {"caps"} : \E k \in past.held : Keys[k] = m
           /\ ("caps" \in state.modifiers) = past.caps
      [] OTHER ->
           /\ \A a \in Actions : Lookup(state.store.entries, a) = past.wanted[a]
           /\ \A r \in past.read :
                /\ state.store.height = r.from.height
                /\ \A i \in 1 .. r.count :
                     /\ state.store.entries[i].code = r.from.entries[i].code
                     /\ r.from.entries[i].action[2] = "named"
                          => state.store.entries[i].action = r.from.entries[i].action

-----------------------------------------------------------------------------
(***************************************************************************)
(* Part CrestScene.                                                        *)
(* Pieces of the Crest shell below the desktop, one part each:              *)
(*   sdf    an application's distance program, checked when it is built and *)
(*          run on a fixed stack at every pixel, and the table of the       *)
(*          applications that own a pixel (crest/src/obsidian.rs);          *)
(*   tween  the bank of running animations (compositor/tween.rs);           *)
(*   swap   the atomic swap chain, flipped by several tasks                 *)
(*          (compositor/swapchain.rs);                                      *)
(*   beam   the slice of lines rendered ahead of the beam (retinal_burn.rs) *)
(*          and the panel's layout and hit test (compositor/panel.rs).      *)
(***************************************************************************)
Less(a, b) == IF a > b THEN a - b ELSE 0    \* saturating_sub

\* Instructions: a shape pushes its distance, "flat" is a sphere without radius.
Shapes == {-1, 2}
Instructions == {[op |-> "shape", value |-> v] : v \in Shapes}
                \cup {[op |-> o, value |-> 0] : o \in {"union", "intersection", "subtract", "flat", "empty"}}

\* The depth SdfProgram::new tracks; -1 once the program is refused.
DepthAfter(depth, i) ==
    IF i.op = "shape" THEN (IF depth + 1 > MaxStack THEN -1 ELSE depth + 1)
    ELSE IF i.op \in {"union", "intersection", "subtract"} /\ depth >= 2 THEN depth - 1
    ELSE -1

Depth(program) == FoldLeft(LAMBDA d, i : IF d < 0 THEN d ELSE DepthAfter(d, i), 0, program)

Accepted(program) == program # <<>> /\ Len(program) <= MaxInstructions /\ Depth(program) = 1

Combined(op, left, right) ==
    CASE op = "union" -> Least(left, right)
      [] op = "intersection" -> -Least(-left, -right)
      [] OTHER -> -Least(-left, right)

\* One instruction of distance() on the fixed stack; ok is lost where the code
\* would index past the stack or return InvalidProgram.
RunStep(m, i) ==
    IF ~m.ok THEN m
    ELSE IF i.op = "shape"
    THEN [ok |-> m.depth < MaxStack, depth |-> m.depth + 1,
          stack |-> IF m.depth < MaxStack THEN [m.stack EXCEPT ![m.depth] = i.value] ELSE m.stack]
    ELSE IF i.op = "empty" \/ m.depth < 2 THEN [m EXCEPT !.ok = FALSE]
    ELSE [ok |-> TRUE, depth |-> m.depth - 1,
          stack |-> [m.stack EXCEPT ![m.depth - 2] = Combined(i.op, @, m.stack[m.depth - 1])]]

SceneDistance(program) ==
    FoldLeft(RunStep, [ok |-> TRUE, depth |-> 0, stack |-> [d \in 0 .. MaxStack - 1 |-> 0]], program)

Write ==
    \E i \in Instructions :
        /\ Len(state.program) < MaxInstructions /\ Depth(state.program) >= 0
        /\ state' = [state EXCEPT !.program = Append(@, i)]
        /\ UNCHANGED past

Assimilate ==
    \E app \in Apps, heat \in Heats, at \in Places :
        /\ Accepted(state.program)
        /\ \A n \in DOMAIN state.nodes : state.nodes[n].app # app
        /\ Len(state.nodes) < MaxNodes
        /\ state' = [state EXCEPT !.nodes = Append(@, [app |-> app, heat |-> heat, at |-> at]),
                                  !.program = <<>>]
        /\ UNCHANGED past

Score(node, x) == (node.heat * 256) \div (IF node.at = x THEN 1 ELSE (node.at - x) * (node.at - x))

\* The first of the nodes with the highest score.
Dominant(nodes, x) ==
    {n \in DOMAIN nodes : /\ \A k \in DOMAIN nodes : Score(nodes[k], x) <= Score(nodes[n], x)
                          /\ \A k \in 1 .. n - 1 : Score(nodes[k], x) < Score(nodes[n], x)}

NewTween(id, from, to, duration, spring) ==
    [id |-> id, from |-> from, to |-> to, duration |-> duration, elapsed |-> 0, active |-> TRUE,
     spring |-> spring, pos |-> from]

Current(t) == IF t.active THEN t.pos ELSE t.to

StartTween ==
    \E id \in Tweens, from, to \in {0, 4}, duration \in Durations, spring \in BOOLEAN :
        LET new == NewTween(id, from, to, duration, spring)
            same == {i \in DOMAIN state.bank : state.bank[i].id = id}
        IN /\ state.ticks < MaxTicks
           /\ same # {} \/ Len(state.bank) < MaxTweens
           /\ state' = [state EXCEPT
                !.bank = IF same # {} THEN [@ EXCEPT ![CHOOSE i \in same : TRUE] = new] ELSE Append(@, new)]
           /\ past' = [past EXCEPT !.goal[id] = {to}, !.shown[id] = {from}]

\* A tween's value after a tick; a spring moves by a step the model leaves open
\* and rests when it has settled.
Ticked(t, delta, step, settles) ==
    LET elapsed == t.elapsed + delta IN
    IF ~t.active THEN [tween |-> t, value |-> t.to]
    ELSE IF t.spring
    THEN [tween |-> [t EXCEPT !.elapsed = elapsed, !.active = ~settles, !.pos = IF settles THEN t.to ELSE step],
          value |-> IF settles THEN t.to ELSE step]
    ELSE IF elapsed >= t.duration
    THEN [tween |-> [t EXCEPT !.elapsed = elapsed, !.active = FALSE], value |-> t.to]
    ELSE [tween |-> [t EXCEPT !.elapsed = elapsed],
          value |-> t.from + ((t.to - t.from) * elapsed) \div t.duration]

TickAll ==
    \E delta \in {1, 2}, step \in {0, 3}, settles \in BOOLEAN :
        LET After(i) == Ticked(state.bank[i], delta, step, settles) IN
        /\ state.ticks < MaxTicks
        /\ state' = [state EXCEPT !.ticks = @ + 1, !.bank = [i \in DOMAIN @ |-> After(i).tween]]
        /\ past' = [past EXCEPT !.shown = [id \in Tweens |->
               IF \E i \in DOMAIN state.bank : state.bank[i].id = id
               THEN {After(i).value : i \in {k \in DOMAIN state.bank : state.bank[k].id = id}} ELSE @[id]]]

Kept(t) == t.active

Gc ==
    /\ state.bank # <<>>
    /\ state' = [state EXCEPT !.bank = SelectSeq(@, Kept)]
    /\ past' = [past EXCEPT
         !.goal = [id \in Tweens |-> IF \E i \in DOMAIN state.bank : state.bank[i].id = id /\ state.bank[i].active
                                     THEN @[id] ELSE {}]]

\* A flip is three atomic steps and the clearing of the buffer it took out.
Buffers == {"a", "b"}

FlipLoad(f) ==
    /\ state.at[f] = "idle" /\ state.flips < MaxFlips
    /\ state' = [state EXCEPT !.at[f] = "loaded", !.local[f] = state.back, !.flips = @ + 1]
    /\ past' = [past EXCEPT !.alone = @ /\ \A g \in Flippers : state.at[g] = "idle"]

FlipSwap(f) ==
    /\ state.at[f] = "loaded"
    /\ state' = [state EXCEPT !.at[f] = "swapped", !.front = state.local[f], !.local[f] = state.front]
    /\ UNCHANGED past

FlipStore(f) ==
    /\ state.at[f] = "swapped"
    /\ state' = [state EXCEPT !.at[f] = "stored", !.back = state.local[f]]
    /\ UNCHANGED past

Spaghettify(f) ==
    /\ state.at[f] = "stored"
    /\ state' = [state EXCEPT !.at[f] = "idle", !.ink[state.local[f]] = FALSE]
    /\ UNCHANGED past

Draw ==
    /\ \A f \in Flippers : state.at[f] = "idle"
    /\ state' = [state EXCEPT !.ink[state.back] = TRUE]
    /\ UNCHANGED past

Lines(height, beam, lead, requested) ==
    {(((beam + lead) % height) + k) % height : k \in 0 .. Least(Least(requested, SliceLimit), height) - 1}

Layout(width) ==
    LET settingsEnd == Less(width, 4) IN
    [launcher |-> 4 .. 4 + PanelHeight - 1,
     settings |-> Less(settingsEnd, PanelHeight) .. settingsEnd - 1]

SceneHitTest(width, x) ==
    IF x \in Layout(width).launcher THEN "launcher"
    ELSE IF x \in Layout(width).settings THEN "settings" ELSE "none"

Slice ==
    \E height \in Heights : \E beam, lead \in 0 .. height - 1, requested \in 1 .. 2 * SliceLimit :
        /\ state' = [state EXCEPT !.height = height, !.requested = requested,
                                  !.lines = Lines(height, beam, lead, requested)]
        /\ past' = [past EXCEPT !.first = (beam + lead) % height]

Touch ==
    \E width \in PanelWidths : \E x \in 0 .. width - 1 :
        /\ state' = [state EXCEPT !.hit = SceneHitTest(width, x)]
        /\ past' = [past EXCEPT !.touched = {[width |-> width, x |-> x]}]

SceneInit ==
    \/ state = [part |-> "sdf", program |-> <<>>, nodes |-> <<>>] /\ past = [none |-> 0]
    \/ /\ state = [part |-> "tween", bank |-> <<>>, ticks |-> 0]
       /\ past = [goal |-> [id \in Tweens |-> {}], shown |-> [id \in Tweens |-> {}]]
    \/ /\ state = [part |-> "swap", at |-> [f \in Flippers |-> "idle"], local |-> [f \in Flippers |-> "a"],
                   front |-> "a", back |-> "b", ink |-> [b \in Buffers |-> FALSE], flips |-> 0]
       /\ past = [alone |-> TRUE]
    \/ /\ state = [part |-> "beam", height |-> 1, requested |-> 1, lines |-> {0}, hit |-> "none"]
       /\ past = [first |-> 0, touched |-> {}]

SdfNext == state.part = "sdf" /\ (Write \/ Assimilate)

TweenNext == state.part = "tween" /\ (StartTween \/ TickAll \/ Gc)

SwapNext ==
    /\ state.part = "swap"
    /\ Draw \/ \E f \in Flippers : FlipLoad(f) \/ FlipSwap(f) \/ FlipStore(f) \/ Spaghettify(f)

BeamNext == state.part = "beam" /\ (Slice \/ Touch)

SceneNext == SdfNext \/ TweenNext \/ SwapNext \/ BeamNext

SceneSpec == SceneInit /\ [][SceneNext]_vars

-----------------------------------------------------------------------------
(***************************************************************************)
(* A distance program the builder accepts runs at every pixel on the fixed  *)
(* stack without an error and ends with one value, and a pixel with an      *)
(* application has exactly one owner.  A target has one animation, a        *)
(* finished one shows its end and a running one has time left and shows     *)
(* nothing beyond its two ends.  Flips that do not overlap keep the two buffers apart and show what was drawn, not   *)
(* the cleared buffer.  A slice renders as many different lines of the      *)
(* display as it may, from the beam's lead on.                              *)
(***************************************************************************)
SceneIsSound ==
    CASE state.part = "sdf" ->
           /\ Accepted(state.program) => LET m == SceneDistance(state.program) IN m.ok /\ m.depth = 1
           /\ \A x \in Places : Cardinality(Dominant(state.nodes, x)) = Least(Len(state.nodes), 1)
      [] state.part = "tween" ->
           /\ \A i, j \in DOMAIN state.bank : state.bank[i].id = state.bank[j].id => i = j
           /\ \A i \in DOMAIN state.bank :
                LET t == state.bank[i] IN
                /\ past.goal[t.id] = {t.to}
                /\ ~t.active => Current(t) = t.to /\ past.shown[t.id] = {t.to}
                /\ t.active /\ ~t.spring => \A v \in past.shown[t.id] :
                        (t.from <= v /\ v <= t.to) \/ (t.to <= v /\ v <= t.from)
                /\ t.active /\ ~t.spring => t.elapsed < t.duration
           /\ \A id \in Tweens : past.goal[id] # {} => \E i \in DOMAIN state.bank : state.bank[i].id = id
      [] state.part = "swap" ->
           past.alone /\ (\A f \in Flippers : state.at[f] = "idle") => state.front # state.back
      [] OTHER ->
           /\ state.lines \subseteq 0 .. state.height - 1
           /\ Cardinality(state.lines) = Least(Least(state.requested, SliceLimit), state.height)
           /\ past.first \in state.lines
           /\ \A t \in past.touched : state.hit = "settings" => t.x < t.width /\ t.x >= t.width - 4 - PanelHeight

=============================================================================
