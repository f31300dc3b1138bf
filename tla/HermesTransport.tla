--------------------------- MODULE HermesTransport ---------------------------
(***************************************************************************)
(* kernel/boulder/src/drivers/hermes_gsp.rs: the typed transport to a      *)
(* graphics processor.  The owner stages, ignites, submits commands, polls *)
(* events and expires requests; the device fetches commands and posts      *)
(* events in its own time, in any order, twice or never.  Every call takes *)
(* the transport exclusively, so a call is one step; what a register or    *)
(* DMA access may return is chosen by the step.                            *)
(***************************************************************************)
EXTENDS ServiceCalculus, FiniteSets

CONSTANTS
    Depth,          \* command_depth
    EventDepth,     \* event_depth
    Modulus,        \* 2^32 of the ring counters
    PendingSlots,   \* PENDING
    IdMax,          \* u32::MAX of epoch and sequence
    MaxClock,       \* bound on the clock
    Slacks,         \* deadlines asked for, as ticks from now
    Opcodes,        \* opcodes submitted
    MaxEvents,      \* bound on the events the device posts
    MaxReservations \* bound on the admissions tried

\* validate_profile and bind: what they establish before a transport exists.
ProfileValid ==
    /\ CurveValid
    /\ Depth \in {2, 4, 8} /\ EventDepth \in {2, 4, 8}
    /\ Modulus % Depth = 0 /\ Modulus % EventDepth = 0 /\ Modulus > Depth /\ Modulus > EventDepth
    /\ Curve.backlog < Depth /\ Curve.backlog <= PendingSlots

VARIABLES
    phase,          \* "profiled", "staged", "negotiating", "online", "dropped"
    rt,             \* Runtime: epoch, sequence, producer, consumer, poisoned, pending, service
    reg,            \* control registers: command producer/consumer, event producer/consumer
    ring,           \* command slots
    evring,         \* event slots
    clock,
    issued,         \* submissions that returned Ok: correlation -> [opcode, deadline]
    spent,          \* correlations allocated, in order
    seen,           \* commands the device fetched
    delivered,      \* replies handed to the owner
    posted,         \* events posted so far
    corrupt         \* ServiceReservationCorrupt or PendingCapacity was returned

vars == <<phase, rt, reg, ring, evring, clock, issued, spent, seen, delivered, posted, corrupt>>

device == <<evring, seen, posted>>
owner == <<issued, spent, delivered, corrupt>>

Blank == [epoch |-> 0, sequence |-> 0, opcode |-> 0]
NoEvent == [kind |-> "none", epoch |-> 0, corr |-> <<0, 0>>, opcode |-> 0]
Vacant == [live |-> FALSE]

Init ==
    /\ ProfileValid /\ phase = "profiled"
    /\ rt = [epoch |-> 1, sequence |-> 1, producer |-> 0, consumer |-> 0, poisoned |-> FALSE,
             pending |-> [n \in 1 .. PendingSlots |-> Vacant], service |-> NewController(0)]
    /\ reg = [producer |-> 0, consumer |-> 0, evproducer |-> 0, evconsumer |-> 0]
    /\ ring = [n \in 0 .. Depth - 1 |-> Blank]
    /\ evring = [n \in 0 .. EventDepth - 1 |-> NoEvent]
    /\ clock = 0 /\ issued = <<>> /\ spent = <<>> /\ seen = <<>>
    /\ delivered = <<>> /\ posted = 0 /\ corrupt = FALSE

Add(n, m) == (n + m) % Modulus
Sub(n, m) == (n - m) % Modulus

Live(r) == {n \in 1 .. PendingSlots : r.pending[n].live}

\* PendingTable::take_response and cancel look an entry up by correlation.
Matching(r, corr) == {n \in Live(r) : r.pending[n].corr = corr}

Poisoned(r) == [r EXCEPT !.poisoned = TRUE]

-----------------------------------------------------------------------------
(* Correlations                                                            *)

Exhausted(r) == r.epoch = 0 \/ r.sequence = 0

\* allocate_correlation: the last sequence of an epoch opens the next epoch,
\* and the last pair of all retires the space.
NextCorrelation(r) ==
    IF r.sequence # IdMax THEN [r EXCEPT !.sequence = @ + 1]
    ELSE IF r.epoch # IdMax THEN [r EXCEPT !.epoch = @ + 1, !.sequence = 1]
    ELSE [r EXCEPT !.sequence = 0]

-----------------------------------------------------------------------------
(* Wire                                                                    *)

\* The outcomes of send_wire: the new runtime, command ring and registers,
\* and whether the call succeeded.
Unsent(r) == [rt |-> r, ring |-> ring, reg |-> reg, ok |-> FALSE]

\* Mutant: a full ring is not noticed.
SendWireUnchecked(r, command) ==
    LET slot == r.producer % Depth
    IN {[rt |-> [r EXCEPT !.producer = Add(@, 1)], ring |-> [ring EXCEPT ![slot] = command],
         reg |-> [reg EXCEPT !.producer = Add(r.producer, 1)], ok |-> TRUE]}

\* send_wire: a register read, the encoder or the copy into the slot may fail
\* harmlessly; from publication on a failure poisons the transport, and the
\* producer register may have been written by then.  A consumer register that
\* makes no sense poisons it too.
SendWire(r, command) ==
    LET outstanding == Sub(r.producer, reg.consumer)
        slot == r.producer % Depth
        written == [ring EXCEPT ![slot] = command]
        rung == [reg EXCEPT !.producer = Add(r.producer, 1)]
    IN {Unsent(r), Unsent(Poisoned(r))}
       \cup (IF outstanding = Depth THEN {}
             ELSE {[rt |-> r, ring |-> written, reg |-> reg, ok |-> FALSE],
                   [rt |-> Poisoned(r), ring |-> written, reg |-> reg, ok |-> FALSE],
                   [rt |-> Poisoned(r), ring |-> written, reg |-> rung, ok |-> FALSE],
                   [rt |-> [r EXCEPT !.producer = Add(@, 1)],
                    ring |-> written, reg |-> rung, ok |-> TRUE]})

\* The outcomes of read_wire_event: nothing there, an access that failed, a
\* poisoning, or the event with the consumer acknowledged.
Quiet(r) == [rt |-> r, reg |-> reg, event |-> NoEvent]

ReadWireEvent(r) ==
    LET available == Sub(reg.evproducer, r.consumer)
        event == evring[r.consumer % EventDepth]
        acked == [reg EXCEPT !.evconsumer = Add(r.consumer, 1)]
    IN {Quiet(r), Quiet(Poisoned(r))}
       \cup (IF available = 0 THEN {}
             ELSE IF event.epoch # r.epoch THEN {Quiet(Poisoned(r))}
             ELSE {[rt |-> Poisoned(r), reg |-> acked, event |-> NoEvent],
                   [rt |-> [r EXCEPT !.consumer = Add(@, 1)], reg |-> acked, event |-> event]})

-----------------------------------------------------------------------------
(* Life of a transport                                                     *)

\* stage: the domain, the windows, the firmware and the two rings are leased
\* in this order; a failure drops what was leased (HermesLeases shows how).
Stage ==
    /\ phase = "profiled"
    /\ phase' \in {"staged", "dropped"}
    /\ UNCHANGED <<rt, reg, ring, clock, device, owner>>

Negotiation(r) == [epoch |-> r.epoch, sequence |-> r.sequence, opcode |-> 0]

\* ignite, up to the negotiation command: a boot stage, the readiness poll or
\* the send may fail, and the transport is dropped with its leases.
Ignite ==
    /\ phase = "staged"
    /\ \/ /\ phase' = "dropped" /\ UNCHANGED <<rt, reg, ring, owner>>
       \/ \E o \in SendWire(NextCorrelation(rt), Negotiation(rt)) :
            /\ rt' = o.rt /\ ring' = o.ring /\ reg' = o.reg
            /\ spent' = Append(spent, <<rt.epoch, rt.sequence>>)
            /\ phase' = IF o.ok THEN "negotiating" ELSE "dropped"
            /\ UNCHANGED <<issued, delivered, corrupt>>
    /\ UNCHANGED <<clock, device>>

\* The reply loop of ignite: the first event must be the negotiation's reply.
AwaitNegotiation ==
    /\ phase = "negotiating"
    /\ \/ /\ phase' = "dropped" /\ UNCHANGED <<rt, reg>>
       \/ \E o \in ReadWireEvent(rt) :
            /\ o.event # NoEvent
            /\ rt' = o.rt /\ reg' = o.reg
            /\ phase' \in IF o.event.kind = "reply" /\ o.event.corr = spent[1] /\ o.event.opcode = 0
                          THEN {"online", "dropped"} ELSE {"dropped"}
    /\ UNCHANGED <<ring, clock, device, owner>>

Usable == phase = "online" /\ ~rt.poisoned

Admitted(deadline) ==
    LET advanced == Advance(rt.service, clock) IN
    ~Refuses(advanced, clock, deadline, Cardinality(Live(rt)))

\* cancel and rollback after a failed send.
Withdraw(r, corr, cert) ==
    [r EXCEPT !.pending = [n \in 1 .. PendingSlots |->
                              IF n \in Matching(r, corr) THEN Vacant ELSE r.pending[n]],
              !.service = IF Fresh(@, cert) THEN Rollback(@, cert) ELSE @]

\* A refused admission still rolls the window and counts the rejection.
SubmitRefused(deadline) ==
    /\ Usable
    /\ ~Admitted(deadline)
    /\ rt' = [rt EXCEPT !.service = Advance(@, clock)]
    /\ UNCHANGED <<phase, reg, ring, clock, device, owner>>

\* submit, once admitted: correlation, pending entry, wire; each step that
\* fails takes back the ones before it.
SubmitAdmitted(opcode, deadline) ==
    /\ Usable
    /\ Admitted(deadline)
    /\ LET advanced == Advance(rt.service, clock)
           cert == Certificate(advanced, clock, Cardinality(Live(rt)))
           r == [rt EXCEPT !.service = Accept(advanced)]
           corr == <<rt.epoch, rt.sequence>>
           free == {n \in 1 .. PendingSlots : ~rt.pending[n].live}
           entry == [live |-> TRUE, corr |-> corr, opcode |-> opcode,
                     deadline |-> deadline, cert |-> cert]
       IN IF Exhausted(rt)
          THEN /\ rt' = Withdraw(r, <<0, 0>>, cert)
               /\ corrupt' = (corrupt \/ ~Fresh(r.service, cert))
               /\ UNCHANGED <<reg, ring, issued, spent, delivered>>
          ELSE IF free = {} \/ Matching(r, corr) # {}
          THEN /\ rt' = Withdraw(NextCorrelation(r), <<0, 0>>, cert)
               /\ corrupt' = TRUE
               /\ spent' = Append(spent, corr)
               /\ UNCHANGED <<reg, ring, issued, delivered>>
          ELSE LET n == CHOOSE k \in free : \A j \in free : k <= j IN
               \E o \in SendWire([NextCorrelation(r) EXCEPT !.pending[n] = entry],
                                 [epoch |-> corr[1], sequence |-> corr[2], opcode |-> opcode]) :
                 /\ rt' = IF o.ok THEN o.rt ELSE Withdraw(o.rt, corr, cert)
                 /\ ring' = o.ring /\ reg' = o.reg
                 /\ corrupt' = (corrupt \/ (~o.ok /\ ~Fresh(o.rt.service, cert)))
                 /\ spent' = Append(spent, corr)
                 /\ issued' = IF o.ok THEN Append(issued, [corr |-> corr, opcode |-> opcode,
                                                           deadline |-> deadline])
                              ELSE issued
                 /\ UNCHANGED delivered
    /\ UNCHANGED <<phase, clock, device>>

\* Deadlines that have not passed, as submit requires.
Submit(opcode, slack) ==
    /\ slack > 0 /\ rt.service.sequence < MaxReservations
    /\ SubmitRefused(clock + slack) \/ SubmitAdmitted(opcode, clock + slack)

\* Take a pending entry out of the table and settle its admission.
Settle(r, n) ==
    [r EXCEPT !.pending[n] = Vacant, !.service = Observe(@, r.pending[n].cert, clock)]

\* take_response
Answered(r, event) == Matching(r, event.corr)

\* poll_event: a fault settles the request it names and poisons; a reply must
\* name a live request, is dropped when it comes after the deadline, and must
\* carry the request's opcode.
PollEvent ==
    /\ Usable
    /\ \E o \in ReadWireEvent(rt) :
         /\ reg' = o.reg
         /\ IF o.event.kind \notin {"reply", "fault"} THEN rt' = o.rt /\ UNCHANGED delivered
            ELSE IF Answered(o.rt, o.event) = {}
            THEN rt' = Poisoned(o.rt) /\ UNCHANGED delivered
            ELSE LET n == CHOOSE k \in Answered(o.rt, o.event) : TRUE
                     request == o.rt.pending[n]
                     settled == Settle(o.rt, n)
                 IN IF o.event.kind = "fault"
                    THEN rt' = Poisoned(settled) /\ UNCHANGED delivered
                    ELSE IF clock >= request.deadline THEN rt' = settled /\ UNCHANGED delivered
                    ELSE IF request.opcode # o.event.opcode
                    THEN rt' = Poisoned(settled) /\ UNCHANGED delivered
                    ELSE /\ rt' = settled
                         /\ delivered' = Append(delivered, [corr |-> request.corr,
                                                            asked |-> o.event.corr,
                                                            opcode |-> o.event.opcode,
                                                            tick |-> clock])
    /\ UNCHANGED <<phase, ring, clock, device, issued, spent, corrupt>>

Overdue == {n \in Live(rt) : clock >= rt.pending[n].deadline}

\* expire_one settles the first overdue entry of the table.
ExpireOne ==
    /\ Usable
    /\ Overdue # {}
    /\ rt' = Settle(rt, CHOOSE k \in Overdue : \A j \in Overdue : k <= j)
    /\ UNCHANGED <<phase, reg, ring, clock, device, owner>>

-----------------------------------------------------------------------------
(* The device and the clock                                                *)

\* Once the transport is poisoned or dropped it never looks at the device again.
Running == phase # "dropped" /\ ~rt.poisoned

\* The device fetches the next command its producer register announces.
Fetch ==
    /\ Running
    /\ reg.consumer # reg.producer
    /\ seen' = Append(seen, ring[reg.consumer % Depth])
    /\ reg' = [reg EXCEPT !.consumer = Add(@, 1)]
    /\ UNCHANGED <<phase, rt, ring, evring, clock, owner, posted>>

\* It posts a reply or a fault for a command it fetched, again or for the
\* first time, or an event nobody asked for.
Post ==
    /\ Running
    /\ posted < MaxEvents
    /\ Sub(reg.evproducer, reg.evconsumer) < EventDepth
    /\ seen # <<>>
    /\ \E k \in 1 .. Len(seen), kind \in {"reply", "fault", "async"} :
       \E opcode \in IF kind = "reply" THEN Opcodes \cup {0} ELSE {0} :
         LET corr == IF kind = "async" THEN <<0, 0>> ELSE <<seen[k].epoch, seen[k].sequence>> IN
         evring' = [evring EXCEPT ![reg.evproducer % EventDepth] =
                       [kind |-> kind, epoch |-> seen[k].epoch, corr |-> corr, opcode |-> opcode]]
    /\ reg' = [reg EXCEPT !.evproducer = Add(@, 1)]
    /\ posted' = posted + 1
    /\ UNCHANGED <<phase, rt, ring, clock, owner, seen>>

Tick ==
    /\ phase = "online" /\ Running
    /\ clock < MaxClock
    /\ clock' = clock + 1
    /\ UNCHANGED <<phase, rt, reg, ring, device, owner>>

Next ==
    \/ Stage \/ Ignite \/ AwaitNegotiation
    \/ \E opcode \in Opcodes, slack \in Slacks : Submit(opcode, slack)
    \/ PollEvent \/ ExpireOne
    \/ Fetch \/ Post \/ Tick

Spec == Init /\ [][Next]_vars

-----------------------------------------------------------------------------
(* Properties                                                              *)

TypeOK ==
    /\ phase \in {"profiled", "staged", "negotiating", "online", "dropped"}
    /\ rt.epoch \in 1 .. IdMax /\ rt.sequence \in 0 .. IdMax
    /\ \A f \in DOMAIN reg : reg[f] \in 0 .. Modulus - 1
    /\ rt.producer \in 0 .. Modulus - 1 /\ rt.consumer \in 0 .. Modulus - 1

\* Every admission is settled exactly once: replies, faults and expiries take
\* it out of the table together with its observation, a request that was not
\* sent is rolled back (which never fails), so the controller has as many
\* unobserved admissions as the table has live entries; neither the backlog
\* nor the arrival envelope is ever exceeded.
SettledOnce ==
    /\ TypeOK
    /\ ~corrupt
    /\ rt.service.accepted = rt.service.observed + Cardinality(Live(rt))
    /\ Cardinality(Live(rt)) <= Curve.backlog
    /\ rt.service.admitted <= Curve.admissions
    /\ \A n, m \in Live(rt) :
          n # m => rt.pending[n].cert.sequence # rt.pending[m].cert.sequence

\* A reply the owner is given answers the command submitted under its
\* correlation, before that command's deadline and at most once, however the
\* device orders or repeats its replies and however requests expire meanwhile;
\* no correlation is ever used twice.
RepliesAreAnswers ==
    /\ \A k \in 1 .. Len(delivered) :
          /\ delivered[k].corr = delivered[k].asked
          /\ \E j \in 1 .. Len(issued) :
               /\ issued[j].corr = delivered[k].corr
               /\ issued[j].opcode = delivered[k].opcode
               /\ delivered[k].tick < issued[j].deadline
          /\ \A l \in 1 .. Len(delivered) : delivered[l].corr = delivered[k].corr => l = k
    /\ \A k, l \in 1 .. Len(spent) : spent[k] = spent[l] => k = l

\* Unless the transport is poisoned, the device sees the commands that were
\* submitted, each once and in order, and nothing of a submission that failed:
\* no slot is overwritten before the device has fetched it.
CommandsArrive ==
    ~rt.poisoned =>
        LET waiting == [k \in 1 .. Sub(reg.producer, reg.consumer) |->
                           ring[Add(reg.consumer, k - 1) % Depth]]
            sent == [k \in 1 .. Len(issued) |->
                        [epoch |-> issued[k].corr[1], sequence |-> issued[k].corr[2],
                         opcode |-> issued[k].opcode]]
            all == seen \o waiting
        IN phase = "online" => Tail(all) = sent
=============================================================================
