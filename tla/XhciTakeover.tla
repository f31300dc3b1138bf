---------------------------- MODULE XhciTakeover ----------------------------
(***************************************************************************)
(* kernel/boulder/src/drivers/xhci_takeover.rs driven by                   *)
(* activate_reset_ready (drivers/xhci.rs): taking a USB host controller    *)
(* from the firmware, halting it, measuring its BAR, resetting it.  Each   *)
(* wait is bounded by the one-shot deadline of interrupts/apic.rs, which   *)
(* is modelled down to the counts it programs.  The machine makes one      *)
(* batch of register accesses per step, and firmware, controller, ports    *)
(* and timer move between its steps.                                       *)
(***************************************************************************)
EXTENDS Integers

CONSTANTS
    MaximumPorts,   \* ports are scanned in the order 1 .. maximum_ports
    CountMax,       \* u32::MAX: the largest count one shot can be given
    Durations       \* deadline_ticks of the deadlines armed

VARIABLES
    phase,          \* TakeoverMachine.phase
    scan,           \* port the drain reads next, and usb2_cycle_saw_reset
    owner,          \* activate_reset_ready: aperture, mutated, result
    clock,          \* LocalApicDeadlineClock: active, generation, the counter
    lease,          \* the adapter's DeadlineLease: its generation, or 0
    hw,             \* the controller's registers
    seen            \* history: writes, resets, ticks since arm, timed out

vars == <<phase, scan, owner, clock, lease, hw, seen>>

Ports == 1 .. MaximumPorts

WaitPhases == {"AwaitLegacyHandoff", "AwaitInitialReady", "DrainUsb2Resets",
               "AwaitHalt", "AwaitReset", "AwaitPostResetReady"}

Terminal == {"ReadyHalted", "Faulted"}

Idle == [active |-> FALSE, generation |-> 0, remaining |-> 0, armed |-> 0, count |-> 0]

Init ==
    /\ \E legacy, run, notReady \in BOOLEAN, resetting \in SUBSET Ports :
         /\ hw = [legacy |-> legacy, bios |-> legacy, os |-> FALSE, smi |-> legacy,
                  run |-> run, halted |-> ~run, reset |-> FALSE,
                  notReady |-> notReady, error |-> FALSE, resetting |-> resetting]
         /\ phase = IF legacy THEN "ClaimLegacyOwnership" ELSE "ArmInitialReady"
    /\ scan = [port |-> 1, sawReset |-> FALSE]
    /\ owner = [aperture |-> FALSE, mutated |-> FALSE, result |-> "running"]
    /\ clock = Idle
    /\ lease = 0
    /\ seen = [written |-> FALSE, resets |-> 0, ticks |-> 0, asked |-> 0, timedOut |-> FALSE]

-----------------------------------------------------------------------------
(* The deadline                                                            *)

Smaller(a, b) == IF a <= b THEN a ELSE b

\* LocalApicDeadlineClock::arm through the adapter: refused while one is live.
Arm(from, to) ==
    /\ phase = from
    /\ IF lease # 0 \/ clock.active
       THEN phase' = "Faulted" /\ UNCHANGED <<clock, lease, seen>>
       ELSE \E ticks \in Durations :
              LET armed == Smaller(ticks, CountMax) IN
              /\ clock' = [active |-> TRUE, generation |-> clock.generation + 1,
                           remaining |-> ticks, armed |-> armed, count |-> armed]
              /\ lease' = clock.generation + 1
              /\ seen' = [seen EXCEPT !.ticks = 0, !.asked = ticks]
              /\ phase' = to
    /\ UNCHANGED <<scan, owner, hw>>

LeaseValid == clock.active /\ lease = clock.generation

\* advance_expired_chunk: the rest of a deadline wider than the counter is
\* programmed as a further one-shot.
Advance ==
    IF clock.remaining <= clock.armed
    THEN [state |-> "Expired", clock |-> [clock EXCEPT !.active = FALSE]]
    ELSE LET left == clock.remaining - clock.armed
             armed == Smaller(left, CountMax) IN
         [state |-> "Pending",
          clock |-> [clock EXCEPT !.remaining = left, !.armed = armed, !.count = armed]]

\* poll: what the wait does when its condition does not hold yet.
Poll(stay) ==
    IF ~LeaseValid
    THEN phase' = "Faulted" /\ UNCHANGED <<clock, lease, seen>>
    ELSE IF clock.count # 0
    THEN phase' = stay /\ UNCHANGED <<clock, lease, seen>>
    ELSE /\ clock' = Advance.clock
         /\ lease' = IF Advance.state = "Expired" THEN 0 ELSE lease
         /\ phase' = IF Advance.state = "Expired" THEN "Faulted" ELSE stay
         /\ seen' = IF Advance.state = "Expired" THEN [seen EXCEPT !.timedOut = TRUE] ELSE seen

\* cancel: the lease is taken whether or not the clock accepts it.
Cancel(next) ==
    /\ lease' = 0
    /\ clock' = IF LeaseValid THEN [clock EXCEPT !.active = FALSE, !.count = 0] ELSE clock
    /\ phase' = IF LeaseValid THEN next ELSE "Faulted"
    /\ UNCHANGED seen

\* One wait: reject a host controller error, leave when `done`, else poll.
Await(from, to, checked, done) ==
    /\ phase = from
    /\ IF checked /\ hw.error
       THEN phase' = "Faulted" /\ UNCHANGED <<clock, lease, seen>>
       ELSE IF done THEN Cancel(to) ELSE Poll(from)
    /\ UNCHANGED <<scan, owner, hw>>

-----------------------------------------------------------------------------
(* TakeoverMachine::step                                                   *)

\* A register write; the window may fail to close after the write was made.
Write(from, to, registers) ==
    /\ phase = from
    /\ hw' = registers
    /\ seen' = [seen EXCEPT !.written = TRUE, !.resets = @ + IF registers.reset THEN 1 ELSE 0]
    /\ phase' \in {to, "Faulted"}
    /\ owner' = [owner EXCEPT !.mutated = @ \/ from \in
                    {"ClaimLegacyOwnership", "RequestHalt", "RequestReset"}]
    /\ UNCHANGED <<scan, clock, lease>>

ClaimLegacyOwnership ==
    Write("ClaimLegacyOwnership", "ArmLegacyHandoff", [hw EXCEPT !.os = TRUE])

ArmLegacyHandoff == Arm("ArmLegacyHandoff", "AwaitLegacyHandoff")

AwaitLegacyHandoff ==
    Await("AwaitLegacyHandoff", "MaskLegacySmi", FALSE, ~hw.bios /\ hw.os)

MaskLegacySmi ==
    Write("MaskLegacySmi", "VerifyLegacySmiMasked", [hw EXCEPT !.smi = FALSE])

VerifyLegacySmiMasked ==
    /\ phase = "VerifyLegacySmiMasked"
    /\ phase' = IF hw.smi THEN "Faulted" ELSE "ArmInitialReady"
    /\ UNCHANGED <<scan, owner, clock, lease, hw, seen>>

ArmInitialReady == Arm("ArmInitialReady", "AwaitInitialReady")

AwaitInitialReady ==
    Await("AwaitInitialReady", "ArmUsb2ResetDrain", TRUE, ~hw.notReady)

ArmUsb2ResetDrain == Arm("ArmUsb2ResetDrain", "DrainUsb2Resets")

\* Mutant: only the last port of the cycle decides.
SawResetLast == scan.port \in hw.resetting

\* usb2_cycle_saw_reset after reading this port
SawReset == scan.sawReset \/ scan.port \in hw.resetting

\* Mutant: a cycle that saw a reset starts over without looking at the clock.
DrainUnpolled ==
    /\ phase = "DrainUsb2Resets"
    /\ IF scan.port # MaximumPorts
       THEN /\ scan' = [port |-> scan.port + 1, sawReset |-> SawReset]
            /\ UNCHANGED <<phase, clock, lease, seen>>
       ELSE /\ scan' = [port |-> 1, sawReset |-> FALSE]
            /\ IF SawReset THEN UNCHANGED <<phase, clock, lease, seen>> ELSE Cancel("RequestHalt")
    /\ UNCHANGED <<owner, hw>>

\* drain_one_usb2_port: one port per step; a whole cycle must see no reset.
DrainUsb2Resets ==
    /\ phase = "DrainUsb2Resets"
    /\ IF scan.port # MaximumPorts
       THEN /\ scan' = [port |-> scan.port + 1, sawReset |-> SawReset]
            /\ UNCHANGED <<phase, clock, lease, seen>>
       ELSE /\ scan' = [port |-> 1, sawReset |-> FALSE]
            /\ IF SawReset THEN Poll("DrainUsb2Resets") ELSE Cancel("RequestHalt")
    /\ UNCHANGED <<owner, hw>>

\* Refused while a reset is already under way.
RequestHalt ==
    IF hw.reset
    THEN /\ phase = "RequestHalt"
         /\ phase' = "Faulted"
         /\ owner' = [owner EXCEPT !.mutated = TRUE]
         /\ UNCHANGED <<scan, clock, lease, hw, seen>>
    ELSE Write("RequestHalt", "ArmHalt", [hw EXCEPT !.run = FALSE])

ArmHalt == Arm("ArmHalt", "AwaitHalt")

AwaitHalt == Await("AwaitHalt", "AwaitMeasuredAperture", TRUE, hw.halted)

RequestReset ==
    IF hw.error \/ hw.run \/ hw.reset \/ ~hw.halted \/ hw.notReady
    THEN /\ phase = "RequestReset"
         /\ phase' = "Faulted"
         /\ owner' = [owner EXCEPT !.mutated = TRUE]
         /\ UNCHANGED <<scan, clock, lease, hw, seen>>
    ELSE Write("RequestReset", "ArmReset", [hw EXCEPT !.reset = TRUE])

ArmReset == Arm("ArmReset", "AwaitReset")

AwaitReset == Await("AwaitReset", "ArmPostResetReady", FALSE, ~hw.reset)

ArmPostResetReady == Arm("ArmPostResetReady", "AwaitPostResetReady")

AwaitPostResetReady ==
    Await("AwaitPostResetReady", "VerifyReadyHalted", TRUE, ~hw.notReady)

VerifyReadyHalted ==
    /\ phase = "VerifyReadyHalted"
    /\ phase' = IF hw.run \/ hw.reset \/ hw.notReady \/ ~hw.halted \/ hw.error \/ ~owner.aperture
                THEN "Faulted" ELSE "ReadyHalted"
    /\ UNCHANGED <<scan, owner, clock, lease, hw, seen>>

\* A register access that fails before it has any effect.
RegisterFault ==
    /\ phase \notin Terminal \cup {"AwaitMeasuredAperture"}
    /\ owner.result = "running"
    /\ phase' = "Faulted"
    /\ owner' = [owner EXCEPT !.mutated = @ \/ phase \in
                    {"ClaimLegacyOwnership", "RequestHalt", "RequestReset"}]
    /\ UNCHANGED <<scan, clock, lease, hw, seen>>

\* measure_bar0_aperture and bind_measured_aperture; on an error the loop is
\* left with the phase as it is.
MeasureAperture ==
    /\ phase = "AwaitMeasuredAperture"
    /\ owner.result = "running"
    /\ \/ /\ phase' = "RequestReset"
          /\ owner' = [owner EXCEPT !.aperture = TRUE, !.mutated = TRUE]
       \/ /\ owner' = [owner EXCEPT !.mutated = TRUE, !.result = "abort"]
          /\ UNCHANGED phase
    /\ UNCHANGED <<scan, clock, lease, hw, seen>>

\* The loop's budget of MAXIMUM_TAKEOVER_STEPS runs out in some phase.
StepCapacity ==
    /\ owner.result = "running"
    /\ phase \in WaitPhases
    /\ owner' = [owner EXCEPT !.result = "abort"]
    /\ UNCHANGED <<phase, scan, clock, lease, hw, seen>>

\* Drop of ApicRelativeDeadline: a lease still held is cancelled.
DropDeadline ==
    /\ lease' = 0
    /\ clock' = IF LeaseValid THEN [clock EXCEPT !.active = FALSE, !.count = 0] ELSE clock

\* The transaction is over: the deadline is dropped and the result returned.
Finish ==
    /\ owner.result = "abort" \/ (owner.result = "running" /\ phase \in Terminal)
    /\ DropDeadline
    /\ owner' = [owner EXCEPT !.result = IF phase = "ReadyHalted" /\ owner.result = "running"
                                         THEN "ready" ELSE "failed"]
    /\ UNCHANGED <<phase, scan, hw, seen>>

MachineStep ==
    /\ owner.result = "running"
    /\ \/ ClaimLegacyOwnership \/ ArmLegacyHandoff \/ AwaitLegacyHandoff
       \/ MaskLegacySmi \/ VerifyLegacySmiMasked
       \/ ArmInitialReady \/ AwaitInitialReady
       \/ ArmUsb2ResetDrain \/ DrainUsb2Resets
       \/ RequestHalt \/ ArmHalt \/ AwaitHalt
       \/ RequestReset \/ ArmReset \/ AwaitReset
       \/ ArmPostResetReady \/ AwaitPostResetReady \/ VerifyReadyHalted

-----------------------------------------------------------------------------
(* The firmware, the controller, the ports and the timer                   *)

Device ==
    \/ hw.bios /\ hw.os /\ hw' = [hw EXCEPT !.bios = FALSE]
    \/ hw.notReady /\ ~hw.reset /\ hw' = [hw EXCEPT !.notReady = FALSE]
    \/ ~hw.run /\ ~hw.halted /\ hw' = [hw EXCEPT !.halted = TRUE]
    \/ \E p \in hw.resetting : hw' = [hw EXCEPT !.resetting = @ \ {p}]
    \/ ~hw.error /\ hw' = [hw EXCEPT !.error = TRUE]
    \/ \E p \in Ports \ hw.resetting :
          hw.bios /\ hw' = [hw EXCEPT !.resetting = @ \cup {p}]
    \/ /\ hw.reset
       /\ \E notReady \in BOOLEAN :
            hw' = [hw EXCEPT !.reset = FALSE, !.run = FALSE, !.halted = TRUE,
                             !.notReady = notReady, !.error = FALSE, !.resetting = {}]

Environment == Device /\ UNCHANGED <<phase, scan, owner, clock, lease, seen>>

TimerTick ==
    /\ clock.count > 0
    /\ clock' = [clock EXCEPT !.count = @ - 1]
    /\ seen' = [seen EXCEPT !.ticks = @ + 1]
    /\ UNCHANGED <<phase, scan, owner, lease, hw>>

Next ==
    \/ MachineStep \/ RegisterFault \/ MeasureAperture \/ StepCapacity \/ Finish
    \/ Environment \/ TimerTick

Fairness ==
    /\ WF_vars(MachineStep)
    /\ WF_vars(MeasureAperture)
    /\ WF_vars(Finish)
    /\ WF_vars(TimerTick)

Spec == Init /\ [][Next]_vars /\ Fairness

-----------------------------------------------------------------------------
\* Types of the machine, the adapter and the clock.
TypeOK ==
    /\ scan.port \in Ports
    /\ owner.result \in {"running", "abort", "ready", "failed"}
    /\ lease \in 0 .. clock.generation
    /\ clock.generation \in 0 .. 6
    /\ clock.count \in 0 .. clock.armed
    /\ clock.armed \in 0 .. CountMax

\* The SAFETY comment of activate_reset_ready: while the BAR is sized the
\* controller is the OS's, no port is in reset, Run/Stop is clear and the
\* controller is halted, whatever firmware and ports did between the steps.
\* "Reset authority does not exist before this succeeds": a reset is requested
\* once, under a bound aperture; a controller reported ready has been through
\* it; and a failure not marked as mutated left the controller untouched.
TakeoverIsOrdered ==
    /\ TypeOK
    /\ phase = "AwaitMeasuredAperture" =>
          ~hw.bios /\ ~hw.smi /\ hw.resetting = {} /\ ~hw.run /\ hw.halted
    /\ seen.resets > 0 => seen.resets = 1 /\ owner.aperture
    /\ phase = "ReadyHalted" =>
          seen.resets = 1 /\ ~hw.reset /\ ~hw.run /\ hw.halted /\ ~hw.notReady
    /\ seen.written => owner.mutated

\* A machine waits only under a live deadline and arms only a free clock; a
\* wait is given up only after its whole duration, also when the duration is
\* wider than the counter; and the clock is free for start_periodic however the
\* transaction ends.
DeadlineHonest ==
    /\ owner.result = "running" /\ phase \in WaitPhases => LeaseValid
    /\ owner.result = "running" /\ phase \notin WaitPhases \cup Terminal => ~clock.active
    /\ owner.result \in {"ready", "failed"} => ~clock.active
    /\ seen.timedOut => seen.ticks >= seen.asked

\* The transaction ends whatever the hardware does or fails to do.
Terminates == <>(owner.result \in {"ready", "failed"})
=============================================================================
