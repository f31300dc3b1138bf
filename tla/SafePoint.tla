----------------------------- MODULE SafePoint -----------------------------
(***************************************************************************)
(* The timer interrupt, the preemption mailbox and the system-call path    *)
(* that consumes it, composed with the process table of Lifecycle.         *)
(*                                                                         *)
(* The interrupt handler (interrupts/mod.rs vector 49, preemption.rs       *)
(* request_from_timer_irq) takes no lock: it samples the epoch mirror, the *)
(* current execution and the mirror again, then publishes a ticket into a  *)
(* single slot.  The kernel takes the ticket at its next system call and   *)
(* revalidates it under the table lock (syscalls.rs                        *)
(* boulder_syscall_dispatch).  Each load, store or compare-and-exchange of *)
(* shared memory is a step of its own; what runs under TABLE is one step,  *)
(* with the publication of the epoch mirror as a second one.               *)
(*                                                                         *)
(* irq.masked is fixed initially.  TRUE is the machine as it is: SYSCALL   *)
(* clears IF, so the handler starts only in user mode, in the idle HLT or  *)
(* during boot, and runs to completion.  FALSE drops that: the handler may *)
(* interleave with every kernel step, as the comments of lifecycle.rs      *)
(* allow ("a timer may interrupt code that already owns the lifecycle      *)
(* lock").                                                                 *)
(***************************************************************************)
EXTENDS Lifecycle

CONSTANTS
    MaxIrq      \* bound: how many timer interrupts are explored

ASSUME IrqAssumption == MaxIrq \in Nat

\* NoRegs also stands for the image of no process in UserMachine.
ASSUME ImageAssumption == NoRegs \notin Contexts

VARIABLES
    pc,         \* where the boot and system-call code is
    call,       \* the system call being served: its number and saved context
    ticket,     \* the ticket the system call has taken, or NoTicket
    frame,      \* the decision installed in the return frame
    mirror,     \* CURRENT_SCHEDULER_EPOCH
    box,        \* PreemptionMailbox
    irq,        \* the interrupt handler: its position, what it has loaded, and whether
                \* system calls run with interrupts disabled
    stats       \* the counters of preemption.rs

spVars == <<pc, call, ticket, frame, mirror, box, irq, stats>>

allVars == <<vars, spVars>>

-----------------------------------------------------------------------------

Numbers == {"yield", "exit", "other"}

NoTicket == [handle |-> PID0, epoch |-> 0]

NoCall == [number |-> "other", saved |-> EmptyContext]

\* ExecutionAuthority::decode.
Decodes(t) == t.handle # PID0 /\ t.epoch # 0

Count(counter) == [stats EXCEPT ![counter] = @ + 1]

Counters ==
    {"irq_requests", "published", "coalesced", "no_user_authority",
     "serviced", "stale", "superseded"}

\* The kernel code may take a step: with interrupts masked an interrupt
\* handler that has started first runs to completion.
KernelRuns == irq.masked => irq.pc = "off"

\* The kernel code stands at a label and may take its next step.
At(label) == pc = label /\ KernelRuns

\* The handler may start: IF is clear from system-call entry to return.
IrqMayStart == irq.masked => pc \in {"boot", "boot_mirror", "user", "idle"}

-----------------------------------------------------------------------------
(* The timer interrupt                                                     *)

IrqUnchanged == UNCHANGED <<vars, pc, call, ticket, frame, mirror>>

\* The interrupt is counted and epoch_before is loaded.
IrqStart ==
    /\ irq.pc = "off"
    /\ IrqMayStart
    /\ stats.irq_requests < MaxIrq
    /\ irq' = [irq EXCEPT !.pc = "handle", !.epoch = mirror]
    /\ stats' = Count("irq_requests")
    /\ UNCHANGED box
    /\ IrqUnchanged

NoUserAuthority ==
    /\ irq' = [irq EXCEPT !.pc = "off"]
    /\ stats' = Count("no_user_authority")

\* CURRENT_EXECUTION is loaded and decoded.
IrqLoadHandle ==
    /\ irq.pc = "handle"
    /\ \/ /\ current = PID0
          /\ NoUserAuthority
       \/ /\ current # PID0
          /\ irq' = [irq EXCEPT !.pc = "epoch_after", !.handle = current]
          /\ UNCHANGED stats
    /\ UNCHANGED box
    /\ IrqUnchanged

\* Mutant: one load of the epoch, after the handle, instead of two compared.
IrqLoadEpochOnce ==
    /\ irq.pc = "epoch_after"
    /\ irq' = [irq EXCEPT !.pc = "claim", !.epoch = mirror]
    /\ UNCHANGED <<box, stats>>
    /\ IrqUnchanged

\* epoch_after is loaded and compared.
IrqLoadEpochAfter ==
    /\ irq.pc = "epoch_after"
    /\ \/ /\ irq.epoch = 0 \/ irq.epoch # mirror
          /\ NoUserAuthority
       \/ /\ irq.epoch # 0 /\ irq.epoch = mirror
          /\ irq' = [irq EXCEPT !.pc = "claim"]
          /\ UNCHANGED stats
    /\ UNCHANGED box
    /\ IrqUnchanged

\* compare_exchange(EMPTY, CLAIMED).
IrqClaim ==
    /\ irq.pc = "claim"
    /\ \/ /\ box.state = "EMPTY"
          /\ box' = [box EXCEPT !.state = "CLAIMED"]
          /\ irq' = [irq EXCEPT !.pc = "identity"]
          /\ UNCHANGED stats
       \/ /\ box.state # "EMPTY"
          /\ irq' = [irq EXCEPT !.pc = "off"]
          /\ stats' = Count("coalesced")
          /\ UNCHANGED box
    /\ IrqUnchanged

IrqStoreIdentity ==
    /\ irq.pc = "identity"
    /\ box' = [box EXCEPT !.handle = irq.handle]
    /\ irq' = [irq EXCEPT !.pc = "epoch"]
    /\ UNCHANGED stats
    /\ IrqUnchanged

IrqStoreEpoch ==
    /\ irq.pc = "epoch"
    /\ box' = [box EXCEPT !.epoch = irq.epoch]
    /\ irq' = [irq EXCEPT !.pc = "pending"]
    /\ UNCHANGED stats
    /\ IrqUnchanged

IrqStorePending ==
    /\ irq.pc = "pending"
    /\ box' = [box EXCEPT !.state = "PENDING"]
    /\ irq' = [irq EXCEPT !.pc = "count"]
    /\ UNCHANGED stats
    /\ IrqUnchanged

IrqPublished ==
    /\ irq.pc = "count"
    /\ irq' = [irq EXCEPT !.pc = "off"]
    /\ stats' = Count("published")
    /\ UNCHANGED box
    /\ IrqUnchanged

\* The handler's steps once it has started.
IrqStep ==
    \/ IrqLoadHandle \/ IrqLoadEpochAfter \/ IrqClaim \/ IrqStoreIdentity
    \/ IrqStoreEpoch \/ IrqStorePending \/ IrqPublished

-----------------------------------------------------------------------------
(* Boot                                                                    *)

Boot(launch) ==
    /\ At("boot")
    /\ RegisterInit(launch)
    /\ UNCHANGED <<pc, call, ticket, frame, mirror, box, irq, stats>>

\* mark_running publishes the table first and the epoch mirror second.
BootRun(handle) ==
    /\ At("boot")
    /\ handle.pid = INIT_PID
    /\ MarkRunning(handle)
    /\ pc' = "boot_mirror"
    /\ UNCHANGED <<call, ticket, frame, mirror, box, irq, stats>>

\* The first entry to user mode, from the launch record.
BootEnterUser ==
    /\ At("boot_mirror")
    /\ mirror' = scheduler_epoch
    /\ \E i \in Slots :
         IsCaller(i) /\ frame' = Scheduled(i, slots[i].context, scheduler_epoch)
    /\ pc' = "user"
    /\ UNCHANGED <<vars, call, ticket, box, irq, stats>>

-----------------------------------------------------------------------------
(* boulder_syscall_dispatch                                                *)

\* The system call is entered with the user's registers in the frame; every
\* call but yield and exit has computed its result before the safe point.
SavedAt(number, user, result) ==
    IF number = "other" THEN [user EXCEPT !.rax = result] ELSE user

Syscall(number, user, result) ==
    /\ At("user")
    /\ call' = [number |-> number, saved |-> SavedAt(number, user, result)]
    /\ pc' = "take"
    /\ UNCHANGED <<vars, ticket, frame, mirror, box, irq, stats>>

\* An entry frame that fails validate() stops the machine.
SyscallRejected ==
    /\ At("user")
    /\ pc' = "rejected"
    /\ UNCHANGED <<vars, call, ticket, frame, mirror, box, irq, stats>>

\* PreemptionMailbox::take, reached through take_at_safe_point or
\* retire_superseded: compare_exchange(PENDING, CLAIMED) ...
TakeClaim ==
    /\ At("take")
    /\ \/ /\ box.state = "PENDING"
          /\ box' = [box EXCEPT !.state = "CLAIMED"]
          /\ pc' = "take_identity"
       \/ /\ box.state # "PENDING"
          /\ pc' = "schedule"
          /\ UNCHANGED box
    /\ UNCHANGED <<vars, call, ticket, frame, mirror, irq, stats>>

TakeIdentity ==
    /\ At("take_identity")
    /\ ticket' = [ticket EXCEPT !.handle = box.handle]
    /\ pc' = "take_epoch"
    /\ UNCHANGED <<vars, call, frame, mirror, box, irq, stats>>

TakeEpoch ==
    /\ At("take_epoch")
    /\ ticket' = [ticket EXCEPT !.epoch = box.epoch]
    /\ pc' = "take_release"
    /\ UNCHANGED <<vars, call, frame, mirror, box, irq, stats>>

\* ... and the release of the slot; exit counts the ticket as superseded and
\* drops it.
TakeRelease ==
    /\ At("take_release")
    /\ box' = [box EXCEPT !.state = "EMPTY"]
    /\ IF Decodes(ticket) /\ call.number # "exit"
       THEN UNCHANGED ticket
       ELSE ticket' = NoTicket
    /\ IF Decodes(ticket) /\ call.number = "exit"
       THEN stats' = Count("superseded")
       ELSE UNCHANGED stats
    /\ pc' = "schedule"
    /\ UNCHANGED <<vars, call, frame, mirror, irq>>

\* Mutant: a preempted yield keeps whatever rax the user had.
PreemptedContextAsSaved == call.saved

\* What a live ticket preempts with: a yield has its result set to 0 first.
PreemptedContext ==
    IF call.number = "yield" THEN ZeroResult(call.saved) ELSE call.saved

ServePreemption ==
    /\ At("schedule")
    /\ ticket # NoTicket
    /\ SchedulePreempt(PreemptedContext, ticket.handle, ticket.epoch)
    /\ ticket' = NoTicket
    /\ stats' = Count("serviced")
    /\ pc' = "mirror"
    /\ UNCHANGED <<call, frame, mirror, box, irq>>

\* StalePreemptionAuthority: counted, then the call falls back to its own
\* scheduling function.
StalePreemption ==
    /\ At("schedule")
    /\ ticket # NoTicket
    /\ ~PreemptAuthorityLive(ticket.handle, ticket.epoch)
    /\ ticket' = NoTicket
    /\ stats' = Count("stale")
    /\ UNCHANGED <<vars, pc, call, frame, mirror, box, irq>>

\* The call's own scheduling function, when there is no ticket.
ScheduleOwn ==
    /\ At("schedule")
    /\ ticket = NoTicket
    /\ \/ call.number = "yield" /\ ScheduleYield(call.saved)
       \/ call.number = "other" /\ ResumeCurrent(call.saved)
       \/ call.number = "exit" /\ \E x \in Codes : ScheduleExit(x)
    /\ pc' = "mirror"
    /\ UNCHANGED <<call, ticket, frame, mirror, box, irq, stats>>

\* Mutant: a failed schedule is retried instead of halting.
ScheduleRetries ==
    /\ At("schedule")
    /\ scheduler_epoch = MaxEpoch
    /\ UNCHANGED allVars

\* Any other LifecycleError halts the machine.
ScheduleFails ==
    /\ At("schedule")
    /\ ticket = NoTicket \/ PreemptAuthorityLive(ticket.handle, ticket.epoch)
    /\ scheduler_epoch = MaxEpoch \/ ~\E c \in Slots : IsCaller(c)
    /\ pc' = "halt"
    /\ UNCHANGED <<vars, call, ticket, frame, mirror, box, irq, stats>>

\* publish_scheduler_epoch, and the decision becomes the return frame
\* (install_scheduled_return) or the idle loop's authority.
PublishEpoch ==
    /\ At("mirror")
    /\ mirror' = scheduler_epoch
    /\ frame' = last
    /\ pc' = IF last.handle = PID0 THEN "idle" ELSE "return"
    /\ UNCHANGED <<vars, call, ticket, box, irq, stats>>

\* One turn of the PID0 loop: an interrupt ended the HLT.
IdleTurn ==
    /\ At("idle")
    /\ ScheduleFromPid0(frame)
    /\ pc' = "mirror"
    /\ UNCHANGED <<call, ticket, frame, mirror, box, irq, stats>>

IdleFails ==
    /\ At("idle")
    /\ ~AuthorizesPid0(frame) \/ ~NoneRunning \/ scheduler_epoch = MaxEpoch
    /\ pc' = "halt"
    /\ UNCHANGED <<vars, call, ticket, frame, mirror, box, irq, stats>>

\* boulder_syscall_activate: the frame is revalidated; a refusal halts.
ReturnToUser ==
    /\ At("return")
    /\ pc' = IF AuthorizesReturn(frame) THEN "user" ELSE "halt"
    /\ UNCHANGED <<vars, call, ticket, frame, mirror, box, irq, stats>>

-----------------------------------------------------------------------------
(* Children come and go while the boot code or a system call's body runs,  *)
(* or while this CPU idles.                                                *)

TableIdle == pc \in {"boot", "take", "idle"}

Spawn(parent, launch) ==
    /\ TableIdle
    /\ KernelRuns
    /\ CommitChild(parent, launch)
    /\ UNCHANGED <<pc, call, ticket, frame, mirror, box, irq, stats>>

Reap(parent, handle) ==
    /\ TableIdle
    /\ KernelRuns
    /\ ReapChild(parent, handle)
    /\ UNCHANGED <<pc, call, ticket, frame, mirror, box, irq, stats>>

-----------------------------------------------------------------------------

SPInit ==
    /\ Init
    /\ pc = "boot"
    /\ call = NoCall
    /\ ticket = NoTicket
    /\ frame = Pid0Decision(0)
    /\ mirror = 0
    /\ box = [state |-> "EMPTY", handle |-> PID0, epoch |-> 0]
    /\ \E masked \in BOOLEAN :
         irq = [pc |-> "off", handle |-> PID0, epoch |-> 0, masked |-> masked]
    /\ stats = [c \in Counters |-> 0]

\* The steps from system-call entry to return, which need no one's help.
SyscallStep ==
    \/ TakeClaim \/ TakeIdentity \/ TakeEpoch \/ TakeRelease
    \/ ServePreemption \/ StalePreemption \/ ScheduleOwn \/ ScheduleFails
    \/ PublishEpoch \/ ReturnToUser

SPNext ==
    \/ IrqStart
    \/ IrqStep
    \/ \E l \in Launches : Boot(l)
    \/ \E h \in Handles : BootRun(h)
    \/ BootEnterUser
    \/ SyscallRejected
    \/ SyscallStep
    \/ IdleTurn
    \/ IdleFails
    \/ \E p \in 1 .. MaxPid, l \in Launches : Spawn(p, l)
    \/ \E p \in 0 .. MaxPid, h \in Handles : Reap(p, h)
    \/ \E n \in Numbers, user \in Contexts, r \in Results : Syscall(n, user, r)

\* A handler that has started finishes, and so does kernel code between
\* system-call entry and return: both are straight-line code on this CPU.
SPFairness ==
    /\ WF_allVars(IrqStep)
    /\ WF_allVars(SyscallStep)

SPSpec == SPInit /\ [][SPNext]_allVars /\ SPFairness

-----------------------------------------------------------------------------
(* Properties                                                              *)

\* Every variable of the composition holds a value of its type.
SPTypeOK ==
    /\ TypeOK
    /\ pc \in {"boot", "boot_mirror", "user", "take", "take_identity",
              "take_epoch", "take_release", "schedule", "mirror", "return",
              "idle", "halt", "rejected"}
    /\ call \in [number : Numbers, saved : Contexts \cup {EmptyContext}]
    /\ ticket \in [handle : Handles \cup {PID0}, epoch : 0 .. MaxEpoch]
    /\ frame \in Decisions
    /\ mirror \in 0 .. MaxEpoch
    /\ box \in [state : {"EMPTY", "CLAIMED", "PENDING"},
               handle : Handles \cup {PID0}, epoch : 0 .. MaxEpoch]
    /\ irq \in [pc : {"off", "handle", "epoch_after", "claim", "identity",
                     "epoch", "pending", "count"},
               handle : Handles \cup {PID0}, epoch : 0 .. MaxEpoch, masked : BOOLEAN]
    /\ stats \in [Counters -> Nat]

\* No timer interrupt and no ticket is lost or counted twice: every request
\* is counted under exactly one disposition, and every published ticket ends
\* as serviced, stale or superseded, or is still in the mailbox or in the
\* hands of the system call.  And a ticket whose epoch is still the table's
\* names the process that is current in it, although the handler read the
\* epoch mirror and CURRENT_EXECUTION without the table lock.  The halt branches
\* of the dispatcher are unreachable until the scheduler epoch is exhausted.
TicketExact ==
    /\ SPTypeOK
    /\ \A t \in {ticket, box} :
          Decodes(t) /\ t.epoch = scheduler_epoch
            /\ (t = box => box.state = "PENDING")
            /\ (t = ticket => pc = "schedule")
          => PreemptAuthorityLive(t.handle, t.epoch)
    /\ LET InHandler == IF irq.pc = "off" THEN 0 ELSE 1
           Uncounted == IF irq.pc = "count" THEN 1 ELSE 0
           InMailbox == IF box.state = "PENDING" THEN 1 ELSE 0
           InTake    == IF pc \in {"take_identity", "take_epoch", "take_release"}
                        THEN 1 ELSE 0
           InHand    == IF pc \in {"schedule", "halt"} /\ ticket # NoTicket
                        THEN 1 ELSE 0
       IN  /\ stats.irq_requests =
                 stats.published + stats.coalesced + stats.no_user_authority
                   + InHandler
           /\ stats.published + Uncounted =
                 stats.serviced + stats.stale + stats.superseded
                   + InMailbox + InTake + InHand
    /\ pc = "halt" => scheduler_epoch = MaxEpoch

\* Between system-call entry and return the kernel never blocks.
SyscallCompletes ==
    pc \notin {"boot", "boot_mirror", "user", "idle", "halt", "rejected"}
        ~> pc \in {"user", "idle", "halt"}

\* The process in slot i has not exited.
Alive(i) == slots[i].occupied /\ slots[i].phase # "Zombie"

\* A system call of slot i is being served; its result has not been saved.
Serving(i) ==
    /\ pc \in {"take", "take_identity", "take_epoch", "take_release", "schedule",
              "halt", "rejected"}
    /\ IsCaller(i)

\* The registers slot i must see next: those its system call in progress
\* computes, or else the saved image of the table.
ImageOf(i) ==
    IF Serving(i) /\ call.number # "exit" /\ pc # "rejected"
    THEN [call.saved EXCEPT !.rax = IF call.number = "yield" THEN 0 ELSE @]
    ELSE slots[i].context

InService == \E i \in Slots : Serving(i)

\* The state of UserMachine.
UserMode == IF pc = "user" THEN "user" ELSE IF InService THEN "serve" ELSE "kernel"

UserProc == IF pc = "user" \/ InService THEN CHOOSE i \in Slots : IsCaller(i) ELSE NoRegs

UserShown == IF pc = "user" THEN frame.context ELSE NoRegs

UserImage == [i \in Slots |-> IF Alive(i) THEN ImageOf(i) ELSE NoRegs]

User == INSTANCE UserMachine WITH
    Procs <- Slots, Images <- Contexts, None <- NoRegs,
    mode <- UserMode, proc <- UserProc, shown <- UserShown, image <- UserImage

\* The composition implements UserMachine: through every switch, preemption,
\* exit and slot reuse, a process comes back with exactly the registers its
\* own last system call or its launch left it, and nothing but its own exit
\* ends it.
ImplementsUserMachine == User!Spec

=============================================================================
