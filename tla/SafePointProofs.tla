-------------------------- MODULE SafePointProofs ---------------------------
(***************************************************************************)
(* What SafePoint promises for every number of slots and interrupts and    *)
(* every width of PIDs, generations and epochs: TicketExact, and that the  *)
(* composition implements UserMachine.                                     *)
(***************************************************************************)
EXTENDS SafePoint, LifecycleProofs

-----------------------------------------------------------------------------
(* The inductive invariant                                                 *)

\* The invariants of the process table on the boot and system-call paths.
TableInv == TypeInv /\ SchedInv /\ UniquePids /\ CurrentIsRunning

Taking == {"take_identity", "take_epoch", "take_release"}

Working == Taking \cup {"take", "schedule"}

\* d is the decision the table would issue now.
Fresh(d) ==
    /\ d.handle = current
    /\ d.epoch = scheduler_epoch
    /\ current # PID0 =>
         \E i \in Slots : IsCaller(i) /\ d = Scheduled(i, slots[i].context, scheduler_epoch)

\* Where the boot and system-call code is tells who is current, and which
\* decision it carries.
PathInv ==
    /\ pc \in {"boot", "idle"} => current = PID0
    /\ pc \in Working \cup {"boot_mirror", "user", "rejected"} => current # PID0
    /\ pc \in Working => call.saved \in Contexts
    /\ pc \in {"mirror", "return", "idle"} => Fresh(last)
    /\ pc \in {"return", "idle"} => frame = last
    /\ pc = "return" => current # PID0
    /\ pc = "halt" => scheduler_epoch = MaxEpoch

\* The registers of an installed process are a user context.
SavedInv == \A i \in Slots : slots[i].occupied => slots[i].context \in Contexts

\* An identity read without the lock: its epoch is not ahead of the table's,
\* and while it is the table's the identity is the current one.
Sound(handle, epoch) ==
    /\ epoch <= scheduler_epoch
    /\ epoch = scheduler_epoch => handle = current

\* What the handler has loaded, and its claim on the mailbox.
HandlerInv ==
    /\ mirror <= scheduler_epoch
    /\ irq.pc # "off" => irq.epoch <= scheduler_epoch
    /\ irq.pc \in {"epoch_after", "claim", "identity", "epoch", "pending"} =>
         irq.handle # PID0 /\ Sound(irq.handle, irq.epoch)
    /\ irq.pc \in {"claim", "identity", "epoch", "pending"} => irq.epoch # 0
    /\ irq.pc \in {"identity", "epoch", "pending"} => box.state = "CLAIMED" /\ pc \notin Taking
    /\ irq.pc \in {"epoch", "pending"} => box.handle = irq.handle
    /\ irq.pc = "pending" => box.epoch = irq.epoch

\* A ticket in the mailbox, on its way out of it and in hand.
TicketInv ==
    /\ box.state = "PENDING" \/ pc \in Taking => Decodes(box) /\ Sound(box.handle, box.epoch)
    /\ pc \in Taking => box.state = "CLAIMED"
    /\ pc \notin {"take_epoch", "take_release", "schedule", "halt"} => ticket = NoTicket
    /\ pc \in {"take_epoch", "take_release"} => ticket.handle = box.handle
    /\ pc = "take_release" => ticket.epoch = box.epoch
    /\ pc = "schedule" /\ ticket # NoTicket =>
         Decodes(ticket) /\ Sound(ticket.handle, ticket.epoch) /\ call.number # "exit"

One(condition) == IF condition THEN 1 ELSE 0

\* The accounts of TicketExact.
CountInv ==
    /\ stats["irq_requests"] =
         stats["published"] + stats["coalesced"] + stats["no_user_authority"] + One(irq.pc # "off")
    /\ stats["published"] + One(irq.pc = "count") =
         stats["serviced"] + stats["stale"] + stats["superseded"]
           + One(box.state = "PENDING") + One(pc \in Taking)
           + One(pc \in {"schedule", "halt"} /\ ticket # NoTicket)

SPInv ==
    /\ TableInv /\ SPTypeOK /\ PathInv /\ SavedInv /\ HandlerInv /\ TicketInv /\ CountInv

-----------------------------------------------------------------------------
(* The table                                                               *)

\* The lifecycle theorems, step by step.
LEMMA TableStep == TableInv /\ [DispatchNext]_vars => TableInv'
<1> SUFFICES ASSUME TableInv, [DispatchNext]_vars PROVE TableInv'
  OBVIOUS
<1>1. [Next]_vars
  BY DEF Next
<1>2. TypeInv'
  BY <1>1, NextTypeInv DEF TableInv
<1>3. SchedInv'
  BY <1>1, <1>2, NextSched DEF TableInv
<1>4. UniquePids'
  BY <1>1, NextUniquePids DEF TableInv, SchedInv
<1>5. CurrentIsRunning'
  BY <1>3, DispatchCurrent DEF TableInv, CurrentIsRunning, SchedInv, Pid0Quiet
<1> QED BY <1>2, <1>3, <1>4, <1>5 DEF TableInv

\* CURRENT_EXECUTION changes only together with the scheduler epoch.
LEMMA EpochStep ==
    ASSUME TableInv, [DispatchNext]_vars
    PROVE  /\ scheduler_epoch \in Nat
           /\ \/ scheduler_epoch' = scheduler_epoch /\ current' = current
              \/ scheduler_epoch' = scheduler_epoch + 1
<1>1. scheduler_epoch \in Nat
  BY EpochAssumption DEF TableInv, TypeInv, TypeOK
<1>2. \/ UNCHANGED <<scheduler_epoch, current>>
      \/ AdvancesEpoch
  BY DEF DispatchNext, vars, RegisterInit, CommitChild, CommitChildNoSlot, ReapChild,
         MarkRunning, ResumeCurrent, ScheduleYield, SchedulePreempt, ScheduleExit,
         ScheduleFromPid0
<1> QED BY <1>1, <1>2 DEF AdvancesEpoch, NextEpoch

\* So an identity that was sound stays sound.
LEMMA SoundStep ==
    ASSUME TableInv, [DispatchNext]_vars, NEW h, NEW e \in Nat, Sound(h, e)
    PROVE  Sound(h, e)'
BY EpochStep DEF Sound

\* What a preemption saves is a user context.
LEMMA PreemptedTyped == call.saved \in Contexts => PreemptedContext \in Contexts
BY ZeroResultTyped DEF PreemptedContext

\* Every step is a step of the process table or leaves it alone.
LEMMA StepDispatches == SPInv /\ [SPNext]_allVars => [DispatchNext]_vars
<1> SUFFICES ASSUME SPInv, [SPNext]_allVars PROVE [DispatchNext]_vars
  OBVIOUS
<1>1. CASE ServePreemption
  <2>1. PreemptedContext \in Contexts
    BY <1>1, PreemptedTyped DEF SPInv, PathInv, ServePreemption, At, Working
  <2>2. ticket.handle \in Handles /\ ticket.epoch \in 0 .. MaxEpoch
    BY <1>1 DEF SPInv, TicketInv, SPTypeOK, ServePreemption, At, Decodes
  <2> QED BY <1>1, <2>1, <2>2 DEF ServePreemption, DispatchNext
<1>2. CASE ScheduleOwn
  <2>1. call.saved \in Contexts
    BY <1>2 DEF SPInv, PathInv, ScheduleOwn, At, Working
  <2> QED BY <1>2, <2>1 DEF ScheduleOwn, DispatchNext
<1>3. CASE IdleTurn
  BY <1>3 DEF SPInv, PathInv, IdleTurn, At, DispatchNext
<1>4. CASE \E l \in Launches : Boot(l)
  BY <1>4 DEF Boot, DispatchNext
<1>5. CASE \E h \in Handles : BootRun(h)
  BY <1>5 DEF BootRun, DispatchNext
<1>6. CASE \E p \in 1 .. MaxPid, l \in Launches : Spawn(p, l)
  BY <1>6 DEF Spawn, DispatchNext
<1>7. CASE \E p \in 0 .. MaxPid, h \in Handles : Reap(p, h)
  BY <1>7 DEF Reap, DispatchNext
<1>8. CASE IrqStart \/ IrqStep
  BY <1>8 DEF IrqStart, IrqStep, IrqUnchanged, IrqLoadHandle, IrqLoadEpochAfter, IrqClaim,
              IrqStoreIdentity, IrqStoreEpoch, IrqStorePending, IrqPublished
<1>9. CASE \/ BootEnterUser \/ SyscallRejected \/ TakeClaim \/ TakeIdentity \/ TakeEpoch
           \/ TakeRelease \/ StalePreemption \/ ScheduleFails \/ PublishEpoch \/ ReturnToUser
           \/ IdleFails \/ \E n \in Numbers, user \in Contexts, r \in Results : Syscall(n, user, r)
  BY <1>9 DEF BootEnterUser, SyscallRejected, TakeClaim, TakeIdentity, TakeEpoch, TakeRelease,
              StalePreemption, ScheduleFails, PublishEpoch, ReturnToUser, IdleFails, Syscall
<1>10. CASE UNCHANGED allVars
  BY <1>10 DEF allVars
<1> QED BY <1>1, <1>2, <1>3, <1>4, <1>5, <1>6, <1>7, <1>8, <1>9, <1>10 DEF SPNext, SyscallStep

-----------------------------------------------------------------------------
(* Types                                                                   *)

\* A system call saves the user's registers, with its result in RAX.
LEMMA SavedAtTyped ==
    ASSUME NEW n \in Numbers, NEW user \in Contexts, NEW r \in Results
    PROVE  SavedAt(n, user, r) \in Contexts
BY DEF SavedAt, Contexts

\* A counter counts.
LEMMA CountTyped ==
    ASSUME stats \in [Counters -> Nat], NEW c \in Counters
    PROVE  /\ Count(c) \in [Counters -> Nat]
           /\ Count(c)[c] = stats[c] + 1
           /\ \A d \in Counters \ {c} : Count(c)[d] = stats[d]
BY DEF Count

\* The values of the interrupt handler and of the mailbox.
IrqRecords ==
    [pc : {"off", "handle", "epoch_after", "claim", "identity", "epoch", "pending", "count"},
     handle : Handles \cup {PID0}, epoch : 0 .. MaxEpoch, masked : BOOLEAN]

BoxRecords ==
    [state : {"EMPTY", "CLAIMED", "PENDING"}, handle : Handles \cup {PID0}, epoch : 0 .. MaxEpoch]

\* The handler's steps keep its record, the mailbox and the counters typed.
LEMMA IrqTyped ==
    ASSUME TypeOK, mirror \in 0 .. MaxEpoch, irq \in IrqRecords, box \in BoxRecords,
           stats \in [Counters -> Nat], IrqStart \/ IrqStep
    PROVE  irq' \in IrqRecords /\ box' \in BoxRecords /\ stats' \in [Counters -> Nat]
<1>1. \A c \in Counters : Count(c) \in [Counters -> Nat]
  BY CountTyped
<1>2. CASE IrqStart
  BY <1>1, <1>2 DEF IrqStart, IrqRecords, Counters
<1>3. CASE IrqLoadHandle
  <2>1. CASE current = PID0
    BY <1>1, <1>3, <2>1 DEF IrqLoadHandle, NoUserAuthority, IrqRecords, Counters
  <2>2. CASE current # PID0
    <3>1. [irq EXCEPT !.pc = "epoch_after", !.handle = current] \in IrqRecords
      BY DEF IrqRecords, TypeOK
    <3> QED BY <1>3, <2>2, <3>1 DEF IrqLoadHandle
  <2> QED BY <2>1, <2>2
<1>4. CASE IrqLoadEpochAfter
  BY <1>1, <1>4 DEF IrqLoadEpochAfter, NoUserAuthority, IrqRecords, Counters
<1>5. CASE IrqClaim
  BY <1>1, <1>5 DEF IrqClaim, IrqRecords, BoxRecords, Counters
<1>6. CASE IrqStoreIdentity \/ IrqStoreEpoch \/ IrqStorePending
  BY <1>6 DEF IrqStoreIdentity, IrqStoreEpoch, IrqStorePending, IrqRecords, BoxRecords
<1>7. CASE IrqPublished
  BY <1>1, <1>7 DEF IrqPublished, IrqRecords, Counters
<1> QED BY <1>2, <1>3, <1>4, <1>5, <1>6, <1>7 DEF IrqStep

\* The positions of the boot and system-call code.
Labels ==
    {"boot", "boot_mirror", "user", "take", "take_identity", "take_epoch", "take_release",
     "schedule", "mirror", "return", "idle", "halt", "rejected"}

CallRecords == [number : Numbers, saved : Contexts \cup {EmptyContext}]

TicketRecords == [handle : Handles \cup {PID0}, epoch : 0 .. MaxEpoch]

LEMMA NoTicketTyped == NoTicket \in TicketRecords
BY EpochAssumption DEF NoTicket, TicketRecords

\* Every variable keeps its type.
LEMMA StepTyped == SPInv /\ [SPNext]_allVars => SPTypeOK'
<1> SUFFICES ASSUME SPInv, [SPNext]_allVars PROVE SPTypeOK'
  OBVIOUS
<1>0. /\ TypeOK /\ pc \in Labels /\ call \in CallRecords /\ ticket \in TicketRecords
      /\ frame \in Decisions /\ mirror \in 0 .. MaxEpoch /\ box \in BoxRecords
      /\ irq \in IrqRecords /\ stats \in [Counters -> Nat]
  BY DEF SPInv, SPTypeOK, Labels, CallRecords, TicketRecords, BoxRecords, IrqRecords
<1>1. TypeOK'
  BY StepDispatches, TableStep DEF SPInv, TableInv, TypeInv
<1>2. \A c \in Counters : Count(c) \in [Counters -> Nat]
  BY <1>0, CountTyped
<1> SUFFICES /\ pc' \in Labels /\ call' \in CallRecords /\ ticket' \in TicketRecords
             /\ frame' \in Decisions /\ mirror' \in 0 .. MaxEpoch /\ box' \in BoxRecords
             /\ irq' \in IrqRecords /\ stats' \in [Counters -> Nat]
  BY <1>1 DEF SPTypeOK, Labels, CallRecords, TicketRecords, BoxRecords, IrqRecords
<1>3. CASE IrqStart \/ IrqStep
  <2>1. UNCHANGED <<pc, call, ticket, frame, mirror>>
    BY <1>3 DEF IrqStart, IrqStep, IrqUnchanged, IrqLoadHandle, IrqLoadEpochAfter, IrqClaim,
                IrqStoreIdentity, IrqStoreEpoch, IrqStorePending, IrqPublished
  <2> QED BY <1>0, <1>3, <2>1, IrqTyped
<1>4. CASE \/ \E l \in Launches : Boot(l)
           \/ \E p \in 1 .. MaxPid, l \in Launches : Spawn(p, l)
           \/ \E p \in 0 .. MaxPid, h \in Handles : Reap(p, h)
  BY <1>0, <1>4 DEF Boot, Spawn, Reap
<1>5. CASE \/ \E h \in Handles : BootRun(h)
           \/ SyscallRejected \/ ScheduleOwn \/ ScheduleFails \/ IdleTurn \/ IdleFails \/ ReturnToUser
  BY <1>0, <1>5 DEF BootRun, SyscallRejected, ScheduleOwn, ScheduleFails, IdleTurn, IdleFails,
                    ReturnToUser, Labels
<1>6. CASE BootEnterUser
  <2>1. PICK i \in Slots :
          IsCaller(i) /\ frame' = Scheduled(i, slots[i].context, scheduler_epoch)
    BY <1>6 DEF BootEnterUser
  <2>2. frame' \in Decisions
    BY <1>0, <2>1, ScheduledTyped
       DEF SPInv, TableInv, TypeInv, TypeOK, SlotRecords, IsCaller, Names
  <2> QED BY <1>0, <1>6, <2>2 DEF BootEnterUser, Labels, TypeOK
<1>7. ASSUME NEW n \in Numbers, NEW user \in Contexts, NEW r \in Results, Syscall(n, user, r)
      PROVE  /\ pc' \in Labels /\ call' \in CallRecords
             /\ UNCHANGED <<ticket, frame, mirror, box, irq, stats>>
  BY <1>7, SavedAtTyped DEF Syscall, Labels, CallRecords
<1>8. CASE TakeClaim
  BY <1>0, <1>8 DEF TakeClaim, Labels, BoxRecords
<1>9. CASE TakeIdentity \/ TakeEpoch
  BY <1>0, <1>9 DEF TakeIdentity, TakeEpoch, Labels, BoxRecords, TicketRecords
<1>10. CASE TakeRelease
  BY <1>0, <1>2, <1>10, NoTicketTyped DEF TakeRelease, Labels, BoxRecords, Counters
<1>11. CASE ServePreemption \/ StalePreemption
  BY <1>0, <1>2, <1>11, NoTicketTyped DEF ServePreemption, StalePreemption, Labels, Counters
<1>12. CASE PublishEpoch
  BY <1>0, <1>12 DEF PublishEpoch, Labels, TypeOK
<1>13. CASE UNCHANGED allVars
  BY <1>0, <1>13 DEF allVars, spVars
<1> QED BY <1>0, <1>3, <1>4, <1>5, <1>6, <1>7, <1>8, <1>9, <1>10, <1>11, <1>12, <1>13
        DEF SPNext, SyscallStep

-----------------------------------------------------------------------------
(* Decisions and saved registers                                           *)

\* A launch builds a user context.
LEMMA InitialTyped == \A l \in Launches : InitialContext(l) \in Contexts
BY ContextAssumption DEF InitialContext, Contexts

\* Every function of the process table saves user contexts only.
LEMMA SavedStep ==
    ASSUME TypeInv, SavedInv, [DispatchNext]_vars
    PROVE  SavedInv'
<1>0. slots \in [Slots -> SlotRecords]
  BY DEF TypeInv, TypeOK
<1>1. ASSUME NEW i \in Slots, NEW r, r.context \in Contexts, slots' = [slots EXCEPT ![i] = r]
      PROVE  SavedInv'
  BY <1>0, <1>1 DEF SavedInv
<1>2. ASSUME NEW l \in Launches, RegisterInit(l) PROVE SavedInv'
  <2>1. \A g, q : NewSlot(g, INIT_PID, q, l, 0).context \in Contexts
    BY InitialTyped DEF NewSlot
  <2> QED BY <1>1, <1>2, <2>1 DEF RegisterInit
<1>3. ASSUME NEW p, NEW l \in Launches, CommitChild(p, l) PROVE SavedInv'
  <2>1. \A g, q : NewSlot(g, q, p, l, scheduler_epoch).context \in Contexts
    BY InitialTyped DEF NewSlot
  <2> QED BY <1>1, <1>3, <2>1 DEF CommitChild
<1>4. ASSUME NEW p, NEW h, ReapChild(p, h) PROVE SavedInv'
  BY <1>0, <1>4 DEF ReapChild, SavedInv, EmptySlot
<1>5. ASSUME NEW h, MarkRunning(h) PROVE SavedInv'
  BY <1>0, <1>5 DEF MarkRunning, SavedInv, SlotRecords
<1>6. ASSUME NEW saved \in Contexts, ResumeCurrent(saved) PROVE SavedInv'
  BY <1>0, <1>6 DEF ResumeCurrent, SavedInv, SlotRecords
<1>7. ASSUME NEW c \in Slots, NEW saved \in Contexts, SwitchFrom(c, saved) PROVE SavedInv'
  BY <1>0, <1>7 DEF SwitchFrom, SavedInv, SlotRecords
<1>8. ASSUME NEW x \in Codes, ScheduleExit(x) PROVE SavedInv'
  <2>1. \A c \in Slots : /\ Exited(slots[c], x, NextEpoch).occupied = slots[c].occupied
                         /\ Exited(slots[c], x, NextEpoch).context = slots[c].context
    BY <1>0 DEF Exited, SlotRecords
  <2> QED BY <1>0, <1>8, <2>1 DEF ScheduleExit, SavedInv, SlotRecords
<1>9. ASSUME NEW d, ScheduleFromPid0(d) PROVE SavedInv'
  BY <1>0, <1>9 DEF ScheduleFromPid0, SavedInv, SlotRecords
<1>10. CASE UNCHANGED vars \/ \E p \in 1 .. MaxPid : CommitChildNoSlot(p)
  BY <1>10 DEF vars, CommitChildNoSlot, SavedInv
<1> QED BY <1>2, <1>3, <1>4, <1>5, <1>6, <1>7, <1>8, <1>9, <1>10, ZeroResultTyped
        DEF DispatchNext, ScheduleYield, SchedulePreempt

\* The decision a dispatch of slot t issues is the one the table would issue
\* again.
LEMMA DispatchFresh ==
    ASSUME TypeInv, NEW t \in Slots, slots[t].occupied, NEW user,
           slots'[t].occupied, HandleOf(t)' = HandleOf(t), slots'[t].launch = slots[t].launch,
           slots'[t].phase = "Running", slots'[t].context = user,
           current' = HandleOf(t), scheduler_epoch' = NextEpoch,
           last' = Scheduled(t, user, NextEpoch)
    PROVE  Fresh(last)'
<1>1. current' # PID0
  BY OccupiedHandle
<1>2. IsCaller(t)'
  BY <1>1 DEF IsCaller, Names
<1>3. last' = Scheduled(t, slots[t].context, scheduler_epoch)'
  BY DEF Scheduled, HandleOf
<1> QED BY <1>2, <1>3 DEF Fresh, Scheduled

LEMMA SwitchFresh ==
    ASSUME TypeInv, NEW c \in Slots, IsCaller(c), NEW saved, SwitchFrom(c, saved), AdvancesEpoch
    PROVE  Fresh(last)'
<1>0. slots \in [Slots -> SlotRecords]
  BY DEF TypeInv, TypeOK
<1>1. PICK t \in Slots :
        /\ Successor(c, t)
        /\ slots' = [slots EXCEPT ![c].context = saved,
                                  ![c].phase = "Runnable",
                                  ![t].phase = "Running"]
        /\ current' = HandleOf(t)
        /\ Issue(Scheduled(t, IF t = c THEN saved ELSE slots[t].context, NextEpoch))
  BY DEF SwitchFrom
<1>2. slots[t].occupied
  BY <1>1 DEF Successor, NextRunnable, RunnableSlots, InPhase, IsCaller, Names
<1>3. /\ slots'[t].occupied /\ slots'[t].pid = slots[t].pid
      /\ slots'[t].generation = slots[t].generation /\ slots'[t].launch = slots[t].launch
      /\ slots'[t].phase = "Running"
      /\ slots'[t].context = IF t = c THEN saved ELSE slots[t].context
  BY <1>0, <1>1, <1>2 DEF SlotRecords
<1>4. HandleOf(t)' = HandleOf(t)
  BY <1>3 DEF HandleOf
<1> QED BY <1>1, <1>2, <1>3, <1>4, DispatchFresh DEF Issue, AdvancesEpoch

LEMMA ResumeFresh ==
    ASSUME TypeInv, NEW saved, ResumeCurrent(saved)
    PROVE  Fresh(last)'
<1>0. slots \in [Slots -> SlotRecords]
  BY DEF TypeInv, TypeOK
<1>1. PICK c \in Slots :
        /\ IsCaller(c)
        /\ slots' = [slots EXCEPT ![c].context = saved]
        /\ Issue(Scheduled(c, saved, NextEpoch))
  BY DEF ResumeCurrent
<1>2. /\ slots[c].occupied /\ slots'[c].occupied /\ slots'[c].pid = slots[c].pid
      /\ slots'[c].generation = slots[c].generation /\ slots'[c].launch = slots[c].launch
      /\ slots'[c].phase = "Running" /\ slots'[c].context = saved
  BY <1>0, <1>1 DEF SlotRecords, IsCaller, Names
<1>3. HandleOf(c)' = HandleOf(c) /\ current' = HandleOf(c)
  BY <1>1, <1>2 DEF HandleOf, IsCaller, Names, ResumeCurrent
<1> QED BY <1>1, <1>2, <1>3, DispatchFresh DEF Issue, AdvancesEpoch, ResumeCurrent

\* The idle decision is fresh while PID0 is current.
LEMMA IdleFresh ==
    ASSUME current' = PID0, scheduler_epoch' = NextEpoch, last' = Pid0Decision(NextEpoch)
    PROVE  Fresh(last)'
BY DEF Fresh, Pid0Decision

LEMMA ExitFresh ==
    ASSUME TypeInv, NEW x \in Codes, ScheduleExit(x)
    PROVE  Fresh(last)'
<1>0. slots \in [Slots -> SlotRecords]
  BY DEF TypeInv, TypeOK
<1>1. PICK c \in Slots :
        /\ IsCaller(c)
        /\ \/ \E t \in Slots :
                /\ NextRunnable(c, t)
                /\ slots' = [slots EXCEPT
                       ![c] = Exited(slots[c], x, NextEpoch),
                       ![t].phase = "Running"]
                /\ current' = HandleOf(t)
                /\ Issue(Scheduled(t, slots[t].context, NextEpoch))
           \/ current' = PID0 /\ Issue(Pid0Decision(NextEpoch))
  BY DEF ScheduleExit
<1>2. CASE current' = PID0 /\ Issue(Pid0Decision(NextEpoch))
  BY <1>2, IdleFresh DEF Issue, ScheduleExit, AdvancesEpoch
<1>3. ASSUME NEW t \in Slots, NextRunnable(c, t),
             slots' = [slots EXCEPT ![c] = Exited(slots[c], x, NextEpoch), ![t].phase = "Running"],
             current' = HandleOf(t), Issue(Scheduled(t, slots[t].context, NextEpoch))
      PROVE  Fresh(last)'
  <2>1. slots[t].occupied /\ t # c
    BY <1>1, <1>3 DEF NextRunnable, RunnableSlots, InPhase, IsCaller
  <2>2. slots'[t] = [slots[t] EXCEPT !.phase = "Running"]
    BY <1>0, <1>3, <2>1
  <2>3. /\ slots'[t].occupied /\ slots'[t].pid = slots[t].pid
        /\ slots'[t].generation = slots[t].generation /\ slots'[t].launch = slots[t].launch
        /\ slots'[t].phase = "Running" /\ slots'[t].context = slots[t].context
    BY <1>0, <2>1, <2>2 DEF SlotRecords
  <2>4. HandleOf(t)' = HandleOf(t)
    BY <2>3 DEF HandleOf
  <2> QED BY <1>3, <2>1, <2>3, <2>4, DispatchFresh DEF Issue, AdvancesEpoch, ScheduleExit
<1> QED BY <1>1, <1>2, <1>3

LEMMA FromPid0Fresh ==
    ASSUME TypeInv, NEW d, ScheduleFromPid0(d)
    PROVE  Fresh(last)'
<1>0. slots \in [Slots -> SlotRecords]
  BY DEF TypeInv, TypeOK
<1>1. CASE current' = PID0 /\ Issue(Pid0Decision(NextEpoch))
  BY <1>1, IdleFresh DEF Issue, ScheduleFromPid0, AdvancesEpoch
<1>2. ASSUME NEW t \in Slots, Lowest(RunnableSlots, t), slots' = [slots EXCEPT ![t].phase = "Running"],
             current' = HandleOf(t), Issue(Scheduled(t, slots[t].context, NextEpoch))
      PROVE  Fresh(last)'
  <2>1. slots[t].occupied
    BY <1>2 DEF Lowest, RunnableSlots, InPhase
  <2>2. /\ slots'[t].occupied /\ slots'[t].pid = slots[t].pid
        /\ slots'[t].generation = slots[t].generation /\ slots'[t].launch = slots[t].launch
        /\ slots'[t].phase = "Running" /\ slots'[t].context = slots[t].context
    BY <1>0, <1>2, <2>1 DEF SlotRecords
  <2>3. HandleOf(t)' = HandleOf(t)
    BY <2>2 DEF HandleOf
  <2> QED BY <1>2, <2>1, <2>2, <2>3, DispatchFresh DEF Issue, AdvancesEpoch, ScheduleFromPid0
<1> QED BY <1>1, <1>2 DEF ScheduleFromPid0

\* A user handle is not PID0.
LEMMA HandleNotPid0 == PID0 \notin Handles
BY DEF PID0, Handles, NO_PID

\* A decision stays fresh as long as the table is left alone.
LEMMA FreshKept ==
    ASSUME UNCHANGED <<slots, scheduler_epoch, current, last>>
    PROVE  Fresh(last)' <=> Fresh(last)
BY DEF Fresh, Scheduled, IsCaller, Names, HandleOf

\* A fresh decision that is not idle is authorised.
LEMMA FreshAuthorizes ==
    ASSUME Fresh(last), current # PID0
    PROVE  AuthorizesReturn(last)
BY DEF Fresh, AuthorizesReturn, IsCaller, Scheduled

\* The steps of the code keep who is current and what is carried in step.
LEMMA StepPath == SPInv /\ [SPNext]_allVars => PathInv'
<1> SUFFICES ASSUME SPInv, [SPNext]_allVars PROVE PathInv'
  OBVIOUS
<1> USE DEF Working, Taking
<1>0. TypeInv /\ CurrentIsRunning
  BY DEF SPInv, TableInv
<1>1. CASE \/ IrqStart \/ IrqStep \/ UNCHANGED allVars
  <2>1. UNCHANGED <<vars, pc, call, frame>>
    BY <1>1 DEF IrqStart, IrqStep, IrqUnchanged, IrqLoadHandle, IrqLoadEpochAfter, IrqClaim,
                IrqStoreIdentity, IrqStoreEpoch, IrqStorePending, IrqPublished, allVars, spVars
  <2> QED BY <2>1, FreshKept DEF SPInv, PathInv, vars
<1>2. CASE \/ \E l \in Launches : Boot(l)
           \/ \E p \in 1 .. MaxPid, l \in Launches : Spawn(p, l)
           \/ \E p \in 0 .. MaxPid, h \in Handles : Reap(p, h)
  <2>1. UNCHANGED <<pc, call, frame, current, scheduler_epoch, last>> /\ pc \in {"boot", "take", "idle"}
    BY <1>2 DEF Boot, Spawn, Reap, RegisterInit, CommitChild, ReapChild, At, TableIdle
  <2>2. pc = "idle" => Fresh(last)'
    BY <2>1 DEF SPInv, PathInv, Fresh
  <2> QED BY <2>1, <2>2 DEF SPInv, PathInv
<1>3. CASE \E h \in Handles : BootRun(h)
  BY <1>3, HandleNotPid0 DEF BootRun, MarkRunning, PathInv
<1>4. CASE BootEnterUser
  BY <1>4 DEF BootEnterUser, At, SPInv, PathInv, vars
<1>5. ASSUME NEW n \in Numbers, NEW user \in Contexts, NEW r \in Results, Syscall(n, user, r)
      PROVE  PathInv'
  BY <1>5, SavedAtTyped DEF Syscall, At, SPInv, PathInv, vars
<1>6. CASE SyscallRejected
  BY <1>6 DEF SyscallRejected, At, SPInv, PathInv, vars
<1>7. CASE TakeClaim \/ TakeIdentity \/ TakeEpoch \/ TakeRelease
  BY <1>7 DEF TakeClaim, TakeIdentity, TakeEpoch, TakeRelease, At, SPInv, PathInv, vars
<1>8. CASE ServePreemption
  <2>1. Fresh(last)'
    BY <1>0, <1>8, SwitchFresh DEF ServePreemption, SchedulePreempt
  <2> QED BY <1>8, <2>1 DEF ServePreemption, PathInv
<1>9. CASE StalePreemption
  BY <1>9 DEF StalePreemption, At, SPInv, PathInv, vars
<1>10. CASE ScheduleOwn
  <2>1. Fresh(last)'
    BY <1>0, <1>10, SwitchFresh, ResumeFresh, ExitFresh DEF ScheduleOwn, ScheduleYield
  <2> QED BY <1>10, <2>1 DEF ScheduleOwn, PathInv
<1>11. CASE ScheduleFails
  BY <1>0, <1>11 DEF ScheduleFails, At, SPInv, PathInv, CurrentIsRunning, vars
<1>12. CASE PublishEpoch
  BY <1>12, FreshKept DEF PublishEpoch, At, SPInv, PathInv, Fresh, vars
<1>13. CASE IdleTurn
  <2>1. Fresh(last)'
    BY <1>0, <1>13, FromPid0Fresh DEF IdleTurn
  <2> QED BY <1>13, <2>1 DEF IdleTurn, PathInv
<1>14. CASE IdleFails
  <2>1. AuthorizesPid0(frame) /\ NoneRunning
    BY <1>0, <1>14 DEF IdleFails, At, SPInv, PathInv, Fresh, AuthorizesPid0, CurrentIsRunning
  <2> QED BY <1>14, <2>1 DEF IdleFails, PathInv, vars
<1>15. CASE ReturnToUser
  <2>1. AuthorizesReturn(frame)
    BY <1>15, FreshAuthorizes DEF ReturnToUser, At, SPInv, PathInv
  <2> QED BY <1>15, <2>1 DEF ReturnToUser, At, SPInv, PathInv, vars
<1> QED BY <1>1, <1>2, <1>3, <1>4, <1>5, <1>6, <1>7, <1>8, <1>9, <1>10, <1>11, <1>12, <1>13,
           <1>14, <1>15
        DEF SPNext, SyscallStep

-----------------------------------------------------------------------------
(* Tickets                                                                 *)

\* The steps of the handler touch neither the table nor the code's own state.
LEMMA IrqKeeps ==
    IrqStart \/ IrqStep => UNCHANGED <<slots, scheduler_epoch, current, pc, call, ticket, mirror>>
BY DEF IrqStart, IrqStep, IrqUnchanged, IrqLoadHandle, IrqLoadEpochAfter, IrqClaim,
       IrqStoreIdentity, IrqStoreEpoch, IrqStorePending, IrqPublished, vars

\* The handler loads an identity that is sound and publishes it unchanged.
LEMMA IrqTickets ==
    ASSUME SPInv, IrqStart \/ IrqStep
    PROVE  HandlerInv' /\ TicketInv'
<1> USE DEF Taking
<1>0. /\ box \in BoxRecords /\ irq \in IrqRecords /\ mirror \in Nat /\ scheduler_epoch \in Nat
      /\ irq.epoch \in Nat
  BY EpochAssumption
     DEF SPInv, SPTypeOK, BoxRecords, IrqRecords, TableInv, TypeInv, TypeOK
<1>1. UNCHANGED <<scheduler_epoch, current, pc, call, ticket, mirror>>
  BY IrqKeeps
<1>2. CASE IrqStart
  BY <1>0, <1>1, <1>2 DEF IrqStart, SPInv, HandlerInv, TicketInv, Sound, Decodes, IrqRecords
<1>3. CASE IrqLoadHandle
  BY <1>0, <1>1, <1>3
     DEF IrqLoadHandle, NoUserAuthority, SPInv, HandlerInv, TicketInv, Sound, Decodes, IrqRecords
<1>4. CASE IrqLoadEpochAfter
  BY <1>0, <1>1, <1>4
     DEF IrqLoadEpochAfter, NoUserAuthority, SPInv, HandlerInv, TicketInv, Sound, Decodes, IrqRecords
<1>5. CASE IrqClaim
  BY <1>0, <1>1, <1>5
     DEF IrqClaim, SPInv, HandlerInv, TicketInv, Sound, Decodes, IrqRecords, BoxRecords
<1>6. CASE IrqStoreIdentity
  BY <1>0, <1>1, <1>6
     DEF IrqStoreIdentity, SPInv, HandlerInv, TicketInv, Sound, Decodes, IrqRecords, BoxRecords
<1>7. CASE IrqStoreEpoch
  BY <1>0, <1>1, <1>7
     DEF IrqStoreEpoch, SPInv, HandlerInv, TicketInv, Sound, Decodes, IrqRecords, BoxRecords
<1>8. CASE IrqStorePending
  BY <1>0, <1>1, <1>8
     DEF IrqStorePending, SPInv, HandlerInv, TicketInv, Sound, Decodes, IrqRecords, BoxRecords
<1>9. CASE IrqPublished
  BY <1>0, <1>1, <1>9 DEF IrqPublished, SPInv, HandlerInv, TicketInv, Sound, Decodes, IrqRecords
<1> QED BY <1>2, <1>3, <1>4, <1>5, <1>6, <1>7, <1>8, <1>9 DEF IrqStep

\* The steps of the code keep what the handler holds and every ticket sound.
LEMMA CodeTickets ==
    ASSUME SPInv, SPNext, UNCHANGED irq
    PROVE  HandlerInv' /\ TicketInv'
<1> USE DEF Taking
<1>0. /\ box \in BoxRecords /\ irq \in IrqRecords /\ ticket \in TicketRecords
      /\ box' \in BoxRecords /\ ticket' \in TicketRecords
      /\ mirror \in Nat /\ scheduler_epoch \in Nat /\ scheduler_epoch' \in Nat
      /\ irq.epoch \in Nat /\ box.epoch \in Nat /\ ticket.epoch \in Nat
  BY EpochAssumption, StepTyped
     DEF SPInv, SPTypeOK, BoxRecords, IrqRecords, TicketRecords, TypeOK
<1>1. scheduler_epoch <= scheduler_epoch'
  BY <1>0, StepDispatches, EpochStep DEF SPInv
<1>2. \A h, e : e \in Nat /\ Sound(h, e) => Sound(h, e)'
  BY StepDispatches, SoundStep DEF SPInv
<1>4. CASE \/ \E l \in Launches : Boot(l)
           \/ \E p \in 1 .. MaxPid, l \in Launches : Spawn(p, l)
           \/ \E p \in 0 .. MaxPid, h \in Handles : Reap(p, h)
  <2>1. UNCHANGED <<pc, call, ticket, mirror, box>> /\ pc \in {"boot", "take", "idle"}
    BY <1>4 DEF Boot, Spawn, Reap, At, TableIdle
  <2>2. HandlerInv'
    BY <1>0, <1>1, <1>2, <2>1 DEF SPInv, HandlerInv
  <2>3. TicketInv'
    BY <1>0, <1>2, <2>1 DEF SPInv, TicketInv, Decodes
  <2> QED BY <2>2, <2>3
<1>5. CASE \/ \E h \in Handles : BootRun(h)
           \/ SyscallRejected \/ IdleTurn \/ IdleFails \/ ReturnToUser
           \/ \E n \in Numbers, user \in Contexts, r \in Results : Syscall(n, user, r)
  <2>1. /\ UNCHANGED <<ticket, mirror, box>>
        /\ pc \in {"boot", "user", "idle", "return"}
        /\ pc' \notin {"take_identity", "take_epoch", "take_release", "schedule"}
    BY <1>5 DEF BootRun, SyscallRejected, IdleTurn, IdleFails, ReturnToUser, Syscall, At
  <2>2. HandlerInv'
    BY <1>0, <1>1, <1>2, <2>1 DEF SPInv, HandlerInv
  <2>3. TicketInv'
    BY <1>0, <1>2, <2>1 DEF SPInv, TicketInv, Decodes
  <2> QED BY <2>2, <2>3
<1>6. CASE BootEnterUser \/ PublishEpoch
  <2>1. /\ UNCHANGED <<ticket, box>> /\ mirror' = scheduler_epoch'
        /\ pc \in {"boot_mirror", "mirror"} /\ pc' \in {"user", "return", "idle"}
    BY <1>6 DEF BootEnterUser, PublishEpoch, At, vars
  <2>2. HandlerInv'
    BY <1>0, <1>1, <1>2, <2>1 DEF SPInv, HandlerInv
  <2>3. TicketInv'
    BY <1>0, <1>2, <2>1 DEF SPInv, TicketInv, Decodes
  <2> QED BY <2>2, <2>3
<1>7. CASE TakeClaim
  BY <1>0, <1>1, <1>2, <1>7
     DEF TakeClaim, At, SPInv, HandlerInv, TicketInv, Decodes, BoxRecords
<1>8. CASE TakeIdentity
  BY <1>0, <1>1, <1>2, <1>8
     DEF TakeIdentity, At, SPInv, HandlerInv, TicketInv, Decodes, TicketRecords
<1>9. CASE TakeEpoch
  BY <1>0, <1>1, <1>2, <1>9
     DEF TakeEpoch, At, SPInv, HandlerInv, TicketInv, Decodes, TicketRecords
<1>10. CASE TakeRelease
  BY <1>0, <1>1, <1>2, <1>10
     DEF TakeRelease, At, SPInv, HandlerInv, TicketInv, Decodes, BoxRecords, TicketRecords, NoTicket
<1>11. CASE ServePreemption \/ StalePreemption \/ ScheduleOwn
  <2>1. /\ ticket' = NoTicket /\ UNCHANGED <<mirror, box>>
        /\ pc = "schedule" /\ pc' \in {"mirror", "schedule"}
    BY <1>11 DEF ServePreemption, StalePreemption, ScheduleOwn, At
  <2>2. HandlerInv'
    BY <1>0, <1>1, <1>2, <2>1 DEF SPInv, HandlerInv
  <2>3. TicketInv'
    BY <1>0, <1>2, <2>1 DEF SPInv, TicketInv, Decodes
  <2> QED BY <2>2, <2>3
<1>12. CASE ScheduleFails
  <2>1. HandlerInv'
    BY <1>0, <1>1, <1>2, <1>12 DEF ScheduleFails, At, SPInv, HandlerInv
  <2>2. TicketInv'
    BY <1>0, <1>2, <1>12 DEF ScheduleFails, At, SPInv, TicketInv, Decodes
  <2> QED BY <2>1, <2>2
<1>13. CASE IrqStart \/ IrqStep
  BY <1>13, IrqTickets
<1> QED BY <1>4, <1>5, <1>6, <1>7, <1>8, <1>9, <1>10, <1>11, <1>12, <1>13 DEF SPNext, SyscallStep

-----------------------------------------------------------------------------
(* Accounts                                                                *)

\* Every step moves at most one ticket from one account to the next.
LEMMA StepCounts == SPInv /\ [SPNext]_allVars => CountInv'
<1> SUFFICES ASSUME SPInv, [SPNext]_allVars PROVE CountInv'
  OBVIOUS
<1> USE DEF Taking, One
<1>0. /\ box \in BoxRecords /\ irq \in IrqRecords /\ stats \in [Counters -> Nat]
      /\ \A c \in Counters : stats[c] \in Nat
  BY DEF SPInv, SPTypeOK, BoxRecords, IrqRecords
<1>1. ASSUME NEW c \in Counters
      PROVE  /\ Count(c)[c] = stats[c] + 1
             /\ \A d \in Counters : d # c => Count(c)[d] = stats[d]
  BY <1>0, CountTyped
<1>2. CASE IrqStart \/ IrqStep
  <2>0. UNCHANGED <<pc, ticket>>
    BY <1>2, IrqKeeps
  <2>1. CASE IrqStart
    BY <1>0, <1>1, <2>0, <2>1 DEF IrqStart, SPInv, CountInv, Counters, IrqRecords
  <2>2. CASE IrqLoadHandle
    <3>1. /\ irq.pc = "handle" /\ UNCHANGED box
          /\ \/ irq'.pc = "off" /\ stats' = Count("no_user_authority")
             \/ irq'.pc = "epoch_after" /\ UNCHANGED stats
      BY <1>0, <2>2 DEF IrqLoadHandle, NoUserAuthority, IrqRecords
    <3> QED BY <1>0, <1>1, <2>0, <3>1 DEF SPInv, CountInv, Counters
  <2>3. CASE IrqLoadEpochAfter
    BY <1>0, <1>1, <2>0, <2>3
       DEF IrqLoadEpochAfter, NoUserAuthority, SPInv, CountInv, Counters, IrqRecords
  <2>4. CASE IrqClaim
    BY <1>0, <1>1, <2>0, <2>4 DEF IrqClaim, SPInv, CountInv, Counters, IrqRecords, BoxRecords
  <2>5. CASE IrqStoreIdentity \/ IrqStoreEpoch
    BY <1>0, <2>0, <2>5
       DEF IrqStoreIdentity, IrqStoreEpoch, SPInv, CountInv, IrqRecords, BoxRecords
  <2>6. CASE IrqStorePending
    BY <1>0, <2>0, <2>6
       DEF IrqStorePending, SPInv, HandlerInv, CountInv, Counters, IrqRecords, BoxRecords
  <2>7. CASE IrqPublished
    BY <1>0, <1>1, <2>0, <2>7 DEF IrqPublished, SPInv, CountInv, Counters, IrqRecords
  <2> QED BY <1>2, <2>1, <2>2, <2>3, <2>4, <2>5, <2>6, <2>7 DEF IrqStep
<1>3. CASE \/ UNCHANGED allVars
           \/ \E l \in Launches : Boot(l)
           \/ \E p \in 1 .. MaxPid, l \in Launches : Spawn(p, l)
           \/ \E p \in 0 .. MaxPid, h \in Handles : Reap(p, h)
  <2>1. UNCHANGED <<pc, ticket, box, irq, stats>>
    BY <1>3 DEF Boot, Spawn, Reap, allVars, spVars
  <2> QED BY <2>1 DEF SPInv, CountInv
<1>4. CASE \/ \E h \in Handles : BootRun(h)
           \/ SyscallRejected \/ IdleTurn \/ IdleFails \/ ReturnToUser \/ BootEnterUser \/ PublishEpoch
           \/ \E n \in Numbers, user \in Contexts, r \in Results : Syscall(n, user, r)
  <2>1. /\ UNCHANGED <<ticket, box, irq, stats>>
        /\ pc \in {"boot", "boot_mirror", "user", "idle", "mirror", "return"}
        /\ pc' \notin {"take_identity", "take_epoch", "take_release", "schedule"}
    BY <1>4 DEF BootRun, SyscallRejected, IdleTurn, IdleFails, ReturnToUser, BootEnterUser,
                PublishEpoch, Syscall, At
  <2> QED BY <2>1 DEF SPInv, CountInv, TicketInv
<1>5. CASE TakeClaim
  BY <1>0, <1>5 DEF TakeClaim, At, SPInv, CountInv, TicketInv, BoxRecords, Counters
<1>6. CASE TakeIdentity \/ TakeEpoch
  BY <1>6 DEF TakeIdentity, TakeEpoch, At, SPInv, CountInv
<1>7. CASE TakeRelease
  <2>1. Decodes(ticket) /\ box.state = "CLAIMED" /\ box' = [box EXCEPT !.state = "EMPTY"]
    BY <1>7 DEF TakeRelease, At, SPInv, TicketInv, Decodes
  <2>2. ticket # NoTicket
    BY <2>1 DEF Decodes, NoTicket
  <2>3. box'.state = "EMPTY"
    BY <1>0, <2>1 DEF BoxRecords
  <2> QED BY <1>0, <1>1, <1>7, <2>1, <2>2, <2>3 DEF TakeRelease, At, SPInv, CountInv, Counters
<1>8. CASE ServePreemption
  BY <1>0, <1>1, <1>8 DEF ServePreemption, At, SPInv, CountInv, Counters
<1>9. CASE StalePreemption
  BY <1>0, <1>1, <1>9 DEF StalePreemption, At, SPInv, CountInv, Counters
<1>10. CASE ScheduleOwn \/ ScheduleFails
  BY <1>10 DEF ScheduleOwn, ScheduleFails, At, SPInv, CountInv
<1> QED BY <1>2, <1>3, <1>4, <1>5, <1>6, <1>7, <1>8, <1>9, <1>10 DEF SPNext, SyscallStep

-----------------------------------------------------------------------------
(* The invariant                                                           *)

LEMMA StepTickets == SPInv /\ [SPNext]_allVars => HandlerInv' /\ TicketInv'
<1> SUFFICES ASSUME SPInv, [SPNext]_allVars PROVE HandlerInv' /\ TicketInv'
  OBVIOUS
<1>1. CASE IrqStart \/ IrqStep
  BY <1>1, IrqTickets
<1>2. CASE UNCHANGED allVars
  BY <1>2 DEF allVars, spVars, vars, SPInv, HandlerInv, TicketInv, Sound, Decodes
<1>3. CASE SPNext /\ ~(IrqStart \/ IrqStep)
  <2>1. UNCHANGED irq
    BY <1>3 DEF SPNext, SyscallStep, Boot, BootRun, BootEnterUser, SyscallRejected, IdleTurn,
                IdleFails, Spawn, Reap, Syscall, TakeClaim, TakeIdentity, TakeEpoch, TakeRelease,
                ServePreemption, StalePreemption, ScheduleOwn, ScheduleFails, PublishEpoch,
                ReturnToUser
  <2> QED BY <1>3, <2>1, CodeTickets, SMTT(30)
<1> QED BY <1>1, <1>2, <1>3

LEMMA SPStep == SPInv /\ [SPNext]_allVars => SPInv'
<1> SUFFICES ASSUME SPInv, [SPNext]_allVars PROVE SPInv'
  OBVIOUS
<1>1. TableInv' /\ SavedInv'
  BY StepDispatches, TableStep, SavedStep DEF SPInv, TableInv
<1> QED BY <1>1, StepTyped, StepPath, StepTickets, StepCounts DEF SPInv

\* A ticket whose epoch is the table's is live: its process is the caller.
LEMMA SoundIsLive ==
    ASSUME TableInv, NEW t, t.handle # PID0, Sound(t.handle, t.epoch), t.epoch = scheduler_epoch
    PROVE  PreemptAuthorityLive(t.handle, t.epoch)
BY DEF TableInv, CurrentIsRunning, Sound, PreemptAuthorityLive, IsCaller

LEMMA SPInvExact == SPInv => TicketExact
<1> SUFFICES ASSUME SPInv PROVE TicketExact
  OBVIOUS
<1>1. ASSUME NEW t \in {ticket, box}, Decodes(t), t.epoch = scheduler_epoch,
             t = box => box.state = "PENDING", t = ticket => pc = "schedule"
      PROVE  PreemptAuthorityLive(t.handle, t.epoch)
  <2>1. Sound(t.handle, t.epoch)
    BY <1>1 DEF SPInv, TicketInv, Decodes, NoTicket
  <2> QED BY <1>1, <2>1, SoundIsLive DEF SPInv, Decodes
<1>2. pc = "halt" => scheduler_epoch = MaxEpoch
  BY DEF SPInv, PathInv
<1>3. /\ stats.irq_requests = stats["irq_requests"] /\ stats.published = stats["published"]
      /\ stats.coalesced = stats["coalesced"] /\ stats.serviced = stats["serviced"]
      /\ stats.no_user_authority = stats["no_user_authority"]
      /\ stats.stale = stats["stale"] /\ stats.superseded = stats["superseded"]
  OBVIOUS
<1> QED BY <1>1, <1>2, <1>3 DEF TicketExact, SPInv, CountInv, One, Taking

LEMMA SPInitInv == SPInit => SPInv
<1> SUFFICES ASSUME SPInit PROVE SPInv
  OBVIOUS
<1>1. TypeInv /\ SchedInv
  BY InitTypeInv, InitSched DEF SPInit
<1>2. UniquePids /\ CurrentIsRunning /\ SavedInv
  BY DEF SPInit, Init, UniquePids, CurrentIsRunning, SavedInv, EmptySlot, NoneRunning, InPhase
<1>3. SPTypeOK
  BY <1>1, EpochAssumption, Pid0DecisionTyped
     DEF SPInit, SPTypeOK, TypeInv, NoCall, NoTicket, Numbers, Counters
<1>4. PathInv /\ HandlerInv /\ TicketInv
  <2>1. PathInv
    BY DEF SPInit, Init, PathInv, Working, Taking
  <2>2. HandlerInv
    BY SMTT(30) DEF SPInit, Init, HandlerInv, Taking
  <2>3. TicketInv
    BY DEF SPInit, TicketInv, Taking
  <2> QED BY <2>1, <2>2, <2>3
<1>5. CountInv
  BY DEF SPInit, CountInv, One, Taking, Counters
<1> QED BY <1>1, <1>2, <1>3, <1>4, <1>5 DEF SPInv, TableInv

\* No timer interrupt and no preemption ticket is lost, counted twice or
\* applied to the wrong process, and the dispatcher's halt branches are
\* unreachable while the epoch lasts (preemption.rs, syscalls.rs).
THEOREM TicketsExact == SPSpec => []TicketExact
<1>1. SPInv /\ [SPNext]_allVars => SPInv'
  BY SPStep
<1> QED BY SPInitInv, <1>1, SPInvExact, PTL DEF SPSpec

-----------------------------------------------------------------------------
(* The refinement                                                          *)

\* Where a system call is being served.
Answering == Working \cup {"halt", "rejected"}

\* The saved image of every live process in the table.
Kept == [i \in Slots |-> IF Alive(i) THEN slots[i].context ELSE NoRegs]

\* What the caller in slot c sees once its system call has been served.
Answer(c) ==
    IF call.number # "exit" /\ pc # "rejected" THEN PreemptedContext ELSE slots[c].context

\* The state of UserMachine where the code is: in user mode, serving a
\* system call, and elsewhere.
UserView ==
    \A c \in Slots : IsCaller(c) /\ pc = "user" =>
        UserMode = "user" /\ UserProc = c /\ UserShown = frame.context /\ UserImage = Kept

ServeView ==
    \A c \in Slots : IsCaller(c) /\ pc \in Answering =>
        /\ UserMode = "serve" /\ UserProc = c /\ UserShown = NoRegs
        /\ UserImage = [Kept EXCEPT ![c] = Answer(c)]

KernelView ==
    pc # "user" /\ (pc \in Answering => current = PID0) =>
        UserMode = "kernel" /\ UserProc = NoRegs /\ UserShown = NoRegs /\ UserImage = Kept

Views == UserView /\ ServeView /\ KernelView

LEMMA ViewsHold == SPInv => Views
<1> SUFFICES ASSUME SPInv PROVE Views
  OBVIOUS
<1> USE DEF Answering, Working, Taking
<1>1. ASSUME NEW c \in Slots, IsCaller(c)
      PROVE  /\ (CHOOSE i \in Slots : IsCaller(i)) = c
             /\ Alive(c)
             /\ \A i \in Slots : IsCaller(i) => i = c
  <2>1. \A i \in Slots : IsCaller(i) => i = c
    BY <1>1 DEF SPInv, TableInv, UniquePids, IsCaller, Names, HandleOf
  <2>2. Alive(c)
    BY <1>1 DEF IsCaller, Names, Alive
  <2> QED BY <1>1, <2>1, <2>2
<1>2. pc \notin Answering => \A i \in Slots : ~Serving(i)
  BY DEF Serving
<1>3. UserView
  <2> SUFFICES ASSUME NEW c \in Slots, IsCaller(c), pc = "user"
               PROVE  UserMode = "user" /\ UserProc = c /\ UserShown = frame.context /\ UserImage = Kept
    BY DEF UserView
  <2>1. \A i \in Slots : ImageOf(i) = slots[i].context
    BY <1>2 DEF ImageOf
  <2> QED BY <1>1, <2>1 DEF UserMode, UserProc, UserShown, UserImage, Kept
<1>4. ServeView
  <2> SUFFICES ASSUME NEW c \in Slots, IsCaller(c), pc \in Answering
               PROVE  /\ UserMode = "serve" /\ UserProc = c /\ UserShown = NoRegs
                      /\ UserImage = [Kept EXCEPT ![c] = Answer(c)]
    BY DEF ServeView
  <2>1. Serving(c) /\ \A i \in Slots : Serving(i) => i = c
    BY <1>1 DEF Serving
  <2>2. call \in CallRecords
    BY DEF SPInv, SPTypeOK, CallRecords
  <2>3. [call.saved EXCEPT !.rax = IF call.number = "yield" THEN 0 ELSE @] = PreemptedContext
    BY <2>2 DEF PreemptedContext, ZeroResult, CallRecords, Contexts, EmptyContext
  <2>4. ImageOf(c) = Answer(c)
    BY <2>1, <2>3 DEF ImageOf, Answer
  <2>5. \A i \in Slots : i # c => ImageOf(i) = slots[i].context
    BY <2>1 DEF ImageOf
  <2>6. UserImage = [Kept EXCEPT ![c] = Answer(c)]
    BY <1>1, <2>4, <2>5 DEF UserImage, Kept
  <2> QED BY <1>1, <2>1, <2>6 DEF UserMode, UserProc, UserShown, InService
<1>5. KernelView
  <2> SUFFICES ASSUME pc # "user", pc \in Answering => current = PID0
               PROVE  UserMode = "kernel" /\ UserProc = NoRegs /\ UserShown = NoRegs /\ UserImage = Kept
    BY DEF KernelView
  <2>1. \A i \in Slots : ~Serving(i)
    BY <1>2 DEF Serving, IsCaller
  <2>2. \A i \in Slots : ImageOf(i) = slots[i].context
    BY <2>1 DEF ImageOf
  <2> QED BY <2>1, <2>2 DEF UserMode, UserProc, UserShown, UserImage, Kept, InService
<1> QED BY <1>3, <1>4, <1>5 DEF Views

\* Installation gives a free slot the image of its program and leaves the
\* caller alone.
LEMMA InstallKept ==
    ASSUME TypeInv, NEW i \in Slots, ~slots[i].occupied, NEW g, NEW q, NEW p, NEW l, NEW e,
           slots' = [slots EXCEPT ![i] = NewSlot(g, q, p, l, e)], UNCHANGED current
    PROVE  /\ Kept[i] = NoRegs
           /\ Kept' = [Kept EXCEPT ![i] = InitialContext(l)]
           /\ \A c \in Slots : IsCaller(c)' <=> IsCaller(c)
           /\ \A c \in Slots : IsCaller(c) => slots'[c] = slots[c] /\ c # i
<1>0. slots \in [Slots -> SlotRecords]
  BY DEF TypeInv, TypeOK
<1>1. \A j \in Slots : j # i => slots'[j] = slots[j]
  BY <1>0
<1>2. slots'[i] = NewSlot(g, q, p, l, e)
  BY <1>0
<1>3. /\ slots'[i].occupied /\ slots'[i].phase = "Runnable" /\ slots'[i].context = InitialContext(l)
  BY <1>2 DEF NewSlot
<1>4. ~Alive(i) /\ Alive(i)'
  BY <1>3 DEF Alive
<1>5. \A j \in Slots : j # i => (Alive(j)' <=> Alive(j))
  BY <1>1 DEF Alive
<1>6. Kept' = [Kept EXCEPT ![i] = InitialContext(l)]
  <2> DEFINE image(j) == IF Alive(j) THEN slots[j].context ELSE NoRegs
  <2>1. image(i)' = InitialContext(l) /\ \A j \in Slots : j # i => image(j)' = image(j)
    BY <1>1, <1>3, <1>4, <1>5
  <2>2. Kept = [j \in Slots |-> image(j)] /\ Kept' = [j \in Slots |-> image(j)']
    BY DEF Kept
  <2> HIDE DEF image
  <2> QED BY <2>1, <2>2
<1>7. \A c \in Slots : IsCaller(c)' <=> IsCaller(c)
  BY <1>1, <1>3 DEF IsCaller, Names, HandleOf
<1> QED BY <1>1, <1>4, <1>6, <1>7 DEF Kept, IsCaller, Names

\* Reaping removes a process that has already ended.
LEMMA ReapKept ==
    ASSUME TypeInv, NEW p, NEW h, ReapChild(p, h)
    PROVE  /\ Kept' = Kept
           /\ \A c \in Slots : IsCaller(c)' <=> IsCaller(c)
           /\ \A c \in Slots : IsCaller(c) => slots'[c] = slots[c]
<1>0. slots \in [Slots -> SlotRecords]
  BY DEF TypeInv, TypeOK
<1>1. PICK i \in Slots :
        /\ slots[i].phase = "Zombie"
        /\ slots' = [slots EXCEPT ![i] = EmptySlot(ReapedGeneration(slots[i].generation))]
  BY DEF ReapChild
<1>2. \A j \in Slots : j # i => slots'[j] = slots[j]
  BY <1>0, <1>1
<1>3. ~slots'[i].occupied
  BY <1>0, <1>1 DEF EmptySlot
<1>4. \A j \in Slots : Alive(j)' <=> Alive(j)
  BY <1>1, <1>2, <1>3 DEF Alive
<1>5. Kept' = Kept
  BY <1>1, <1>2, <1>4 DEF Kept, Alive
<1>6. current' = current
  BY DEF ReapChild
<1> QED BY <1>1, <1>2, <1>3, <1>5, <1>6 DEF IsCaller, Names, HandleOf

\* Dispatching changes phases only.
LEMMA PhaseKept ==
    ASSUME TypeInv, NEW i \in Slots, slots[i].phase = "Runnable",
           slots' = [slots EXCEPT ![i].phase = "Running"]
    PROVE  Kept' = Kept
<1>0. slots \in [Slots -> SlotRecords]
  BY DEF TypeInv, TypeOK
<1>1. \A j \in Slots : j # i => slots'[j] = slots[j]
  BY <1>0
<1>2. slots'[i].occupied = slots[i].occupied /\ slots'[i].phase = "Running"
      /\ slots'[i].context = slots[i].context
  BY <1>0 DEF SlotRecords
<1>3. \A j \in Slots : Alive(j)' <=> Alive(j)
  BY <1>1, <1>2, SMTT(30) DEF Alive
<1> QED BY <1>1, <1>2, <1>3 DEF Kept

\* A switch saves the caller's registers in the caller's slot.
LEMMA SwitchKept ==
    ASSUME TypeInv, NEW c \in Slots, IsCaller(c), NEW saved, SwitchFrom(c, saved)
    PROVE  Kept' = [Kept EXCEPT ![c] = saved]
<1>0. slots \in [Slots -> SlotRecords]
  BY DEF TypeInv, TypeOK
<1>1. PICK t \in Slots :
        /\ Successor(c, t)
        /\ slots' = [slots EXCEPT ![c].context = saved,
                                  ![c].phase = "Runnable",
                                  ![t].phase = "Running"]
  BY DEF SwitchFrom
<1>2. slots[t].occupied /\ slots[t].phase # "Zombie"
  BY <1>1 DEF Successor, NextRunnable, RunnableSlots, InPhase, IsCaller, Names
<1>3. slots[c].occupied /\ slots[c].phase = "Running"
  BY DEF IsCaller, Names
<1>4. /\ slots'[c].occupied /\ slots'[c].phase # "Zombie" /\ slots'[c].context = saved
      /\ slots'[t].occupied /\ slots'[t].phase # "Zombie"
      /\ t # c => slots'[t].context = slots[t].context
  BY <1>0, <1>1, <1>2, <1>3 DEF SlotRecords
<1>5. \A j \in Slots : j # c /\ j # t => slots'[j] = slots[j]
  BY <1>0, <1>1, SMTT(30)
<1>6. \A j \in Slots : Alive(j)' <=> Alive(j)
  BY <1>2, <1>3, <1>4, <1>5 DEF Alive
<1>7. Alive(c)
  BY <1>3 DEF Alive
<1> QED BY <1>4, <1>5, <1>6, <1>7 DEF Kept

LEMMA ResumeKept ==
    ASSUME TypeInv, NEW saved, ResumeCurrent(saved)
    PROVE  \E c \in Slots : IsCaller(c) /\ Kept' = [Kept EXCEPT ![c] = saved]
<1>0. slots \in [Slots -> SlotRecords]
  BY DEF TypeInv, TypeOK
<1>1. PICK c \in Slots : IsCaller(c) /\ slots' = [slots EXCEPT ![c].context = saved]
  BY DEF ResumeCurrent
<1>2. /\ slots'[c].occupied = slots[c].occupied /\ slots'[c].phase = slots[c].phase
      /\ slots'[c].context = saved
  BY <1>0, <1>1 DEF SlotRecords
<1>3. \A j \in Slots : j # c => slots'[j] = slots[j]
  BY <1>0, <1>1
<1>4. \A j \in Slots : Alive(j)' <=> Alive(j)
  BY <1>2, <1>3 DEF Alive
<1>5. Alive(c)
  BY <1>1 DEF Alive, IsCaller, Names
<1>6. Kept' = [Kept EXCEPT ![c] = saved]
  BY <1>2, <1>3, <1>4, <1>5 DEF Kept
<1> QED BY <1>1, <1>6

\* An exit ends the caller and no one else.
LEMMA ExitKept ==
    ASSUME TypeInv, NEW x \in Codes, ScheduleExit(x)
    PROVE  \E c \in Slots : IsCaller(c) /\ Kept' = [Kept EXCEPT ![c] = NoRegs]
<1>0. slots \in [Slots -> SlotRecords]
  BY DEF TypeInv, TypeOK
<1>1. PICK c \in Slots :
        /\ IsCaller(c)
        /\ \/ \E t \in Slots :
                /\ NextRunnable(c, t)
                /\ slots' = [slots EXCEPT ![c] = Exited(slots[c], x, NextEpoch), ![t].phase = "Running"]
           \/ slots' = [slots EXCEPT ![c] = Exited(slots[c], x, NextEpoch)]
  BY DEF ScheduleExit
<1>2. Exited(slots[c], x, NextEpoch).phase = "Zombie"
  BY <1>0 DEF Exited, SlotRecords
<1>3. ASSUME NEW t \in Slots, NextRunnable(c, t),
             slots' = [slots EXCEPT ![c] = Exited(slots[c], x, NextEpoch), ![t].phase = "Running"]
      PROVE  Kept' = [Kept EXCEPT ![c] = NoRegs]
  <2>1. t # c /\ slots[t].occupied /\ slots[t].phase = "Runnable"
    BY <1>1, <1>3 DEF NextRunnable, RunnableSlots, InPhase, IsCaller
  <2>2. slots'[t] = [slots[t] EXCEPT !.phase = "Running"] /\ slots'[c].phase = "Zombie"
    BY <1>0, <1>2, <1>3, <2>1
  <2>3. /\ slots'[t].occupied /\ slots'[t].phase = "Running" /\ slots'[t].context = slots[t].context
    BY <1>0, <2>1, <2>2 DEF SlotRecords
  <2>4. \A j \in Slots : j # c /\ j # t => slots'[j] = slots[j]
    BY <1>0, <1>3
  <2>5. ~Alive(c)' /\ \A j \in Slots : j # c => (Alive(j)' <=> Alive(j))
    BY <2>1, <2>2, <2>3, <2>4 DEF Alive
  <2> QED BY <2>3, <2>4, <2>5 DEF Kept
<1>4. ASSUME slots' = [slots EXCEPT ![c] = Exited(slots[c], x, NextEpoch)]
      PROVE  Kept' = [Kept EXCEPT ![c] = NoRegs]
  <2>1. slots'[c].phase = "Zombie" /\ \A j \in Slots : j # c => slots'[j] = slots[j]
    BY <1>0, <1>2, <1>4
  <2>2. ~Alive(c)' /\ \A j \in Slots : j # c => (Alive(j)' <=> Alive(j))
    BY <2>1 DEF Alive
  <2> QED BY <2>1, <2>2 DEF Kept
<1> QED BY <1>1, <1>3, <1>4

\* A step that leaves the caller, its answer and every saved image alone, and
\* stays in user mode, in the system call or in the kernel, is a stutter.
LEMMA SameView ==
    ASSUME SPInv, Views, Views', Kept' = Kept, UNCHANGED <<current, call, frame>>,
           \A c \in Slots : IsCaller(c)' <=> IsCaller(c),
           \A c \in Slots : IsCaller(c) => slots'[c].context = slots[c].context,
           \/ pc' = pc
           \/ pc \in Working /\ pc' \in Working \cup {"halt"}
           \/ pc # "user" /\ pc' # "user" /\ pc \notin Answering /\ (pc' \in Answering => current = PID0)
    PROVE  UNCHANGED User!vars
<1> USE DEF Answering, Working, Taking
<1> SUFFICES UNCHANGED <<UserMode, UserProc, UserShown, UserImage>>
  BY DEF User!vars
<1>1. CASE pc = "user"
  <2>1. PICK c \in Slots : IsCaller(c)
    BY <1>1 DEF SPInv, PathInv, TableInv, CurrentIsRunning
  <2>2. pc' = "user" /\ IsCaller(c)'
    BY <1>1, <2>1
  <2> QED BY <1>1, <2>1, <2>2 DEF Views, UserView
<1>2. ASSUME pc \in Answering, NEW c \in Slots, IsCaller(c)
      PROVE  UNCHANGED <<UserMode, UserProc, UserShown, UserImage>>
  <2>1. pc' \in Answering /\ IsCaller(c)' /\ (pc' = "rejected" <=> pc = "rejected") /\ current # PID0
    BY <1>2 DEF IsCaller
  <2>2. Answer(c)' = Answer(c)
    BY <1>2, <2>1, SMTT(30) DEF Answer, PreemptedContext
  <2>3. /\ UserMode = "serve" /\ UserProc = c /\ UserShown = NoRegs
        /\ UserImage = [Kept EXCEPT ![c] = Answer(c)]
    BY <1>2, SMTT(30) DEF Views, ServeView
  <2>4. /\ UserMode' = "serve" /\ UserProc' = c /\ UserShown' = NoRegs
        /\ UserImage' = [Kept' EXCEPT ![c] = Answer(c)']
    BY <2>1, SMTT(30) DEF Views, ServeView
  <2> QED BY <2>2, <2>3, <2>4, SMTT(30)
<1>3. CASE pc # "user" /\ (pc \in Answering => current = PID0)
  <2>1. pc' # "user" /\ (pc' \in Answering => current' = PID0)
    BY <1>3
  <2> QED BY <1>3, <2>1 DEF Views, KernelView
<1> QED BY <1>1, <1>2, <1>3 DEF SPInv, TableInv, CurrentIsRunning

\* Installing a process is Create.
LEMMA InstallCreates ==
    ASSUME SPInv, Views, Views', UNCHANGED <<pc, call, frame, current>>,
           NEW i \in Slots, ~slots[i].occupied, NEW g, NEW q, NEW p, NEW l \in Launches, NEW e,
           slots' = [slots EXCEPT ![i] = NewSlot(g, q, p, l, e)]
    PROVE  User!Next
<1> USE DEF Answering, Working, Taking
<1>1. /\ Kept[i] = NoRegs
      /\ Kept' = [Kept EXCEPT ![i] = InitialContext(l)]
      /\ \A c \in Slots : IsCaller(c)' <=> IsCaller(c)
      /\ \A c \in Slots : IsCaller(c) => slots'[c] = slots[c] /\ c # i
  BY InstallKept DEF SPInv, TableInv
<1>2. InitialContext(l) \in Contexts
  BY InitialTyped
<1>3. \A c \in Slots : IsCaller(c) => Answer(c)' = Answer(c)
  <2>1. PreemptedContext' = PreemptedContext
    BY DEF PreemptedContext
  <2> QED BY <1>1, <2>1 DEF Answer
<1>4. Kept = [j \in Slots |-> Kept[j]]
  BY DEF Kept
<1> SUFFICES /\ UserImage[i] = NoRegs /\ UserImage' = [UserImage EXCEPT ![i] = InitialContext(l)]
             /\ UNCHANGED <<UserMode, UserProc, UserShown>>
  BY <1>2 DEF User!Next, User!Create
<1>5. CASE pc = "user"
  <2>1. PICK c \in Slots : IsCaller(c)
    BY <1>5 DEF SPInv, PathInv, TableInv, CurrentIsRunning
  <2> QED BY <1>1, <1>5, <2>1 DEF Views, UserView
<1>6. ASSUME pc \in Answering, NEW c \in Slots, IsCaller(c)
      PROVE  /\ UserImage[i] = NoRegs /\ UserImage' = [UserImage EXCEPT ![i] = InitialContext(l)]
             /\ UNCHANGED <<UserMode, UserProc, UserShown>>
  <2>1. IsCaller(c)' /\ c # i /\ pc' \in Answering /\ Answer(c)' = Answer(c)
    BY <1>1, <1>3, <1>6
  <2>2. /\ UserMode = "serve" /\ UserProc = c /\ UserShown = NoRegs
        /\ UserImage = [Kept EXCEPT ![c] = Answer(c)]
    BY <1>6 DEF Views, ServeView
  <2>3. /\ UserMode' = "serve" /\ UserProc' = c /\ UserShown' = NoRegs
        /\ UserImage' = [Kept' EXCEPT ![c] = Answer(c)]
    BY <1>6, <2>1 DEF Views, ServeView
  <2> QED BY <1>1, <1>4, <2>1, <2>2, <2>3
<1>7. CASE pc # "user" /\ (pc \in Answering => current = PID0)
  BY <1>1, <1>7, SMTT(30) DEF Views, KernelView
<1> QED BY <1>5, <1>6, <1>7, SMTT(30) DEF SPInv, TableInv, CurrentIsRunning

\* Returning to user mode is Enter: the registers shown are the saved image.
LEMMA EnterStep ==
    ASSUME SPInv, Views, Views', UNCHANGED <<slots, current>>, pc \in {"boot_mirror", "return"},
           pc' = "user", NEW c \in Slots, IsCaller(c), frame'.context = slots[c].context
    PROVE  User!Next
<1>1. UserMode = "kernel" /\ UserImage = Kept
  BY SMTT(30) DEF Views, KernelView, Answering, Working, Taking
<1>2. IsCaller(c)' /\ Kept' = Kept
  BY SMTT(30) DEF IsCaller, Names, HandleOf, Kept, Alive
<1>3. UserMode' = "user" /\ UserProc' = c /\ UserShown' = slots[c].context /\ UserImage' = Kept
  BY <1>2 DEF Views, UserView
<1>4. Kept[c] = slots[c].context /\ Kept[c] # NoRegs
  BY ImageAssumption DEF Kept, Alive, IsCaller, Names, SPInv, SavedInv
<1> QED BY <1>1, <1>3, <1>4 DEF User!Next, User!Enter

\* Entering a system call is Trap.
LEMMA TrapStep ==
    ASSUME SPInv, Views, Views', UNCHANGED <<slots, current>>, pc = "user", pc' \in {"take", "rejected"},
           call'.saved \in Contexts \/ pc' = "rejected"
    PROVE  User!Next
<1>1. PICK c \in Slots : IsCaller(c)
  BY DEF SPInv, PathInv, TableInv, CurrentIsRunning
<1>2. IsCaller(c)' /\ Kept' = Kept /\ pc' \in Answering
  BY <1>1 DEF IsCaller, Names, HandleOf, Kept, Alive, Answering, Working
<1>3. UserMode = "user" /\ UserProc = c /\ UserImage = Kept
  BY <1>1 DEF Views, UserView
<1>4. /\ UserMode' = "serve" /\ UserProc' = c /\ UserShown' = NoRegs
      /\ UserImage' = [Kept EXCEPT ![c] = Answer(c)']
  BY <1>1, <1>2, SMTT(30) DEF Views, ServeView
<1>5. slots[c].context \in Contexts
  BY <1>1 DEF SPInv, SavedInv, IsCaller, Names
<1>6. call'.saved \in Contexts => PreemptedContext' \in Contexts
  BY ZeroResultTyped DEF PreemptedContext
<1>7. Answer(c)' \in Contexts
  BY <1>5, <1>6 DEF Answer
<1> QED BY <1>3, <1>4, <1>7 DEF User!Next, User!Trap

\* The scheduling step of a system call is Served.
LEMMA ServedStep ==
    ASSUME SPInv, Views, Views', pc = "schedule", pc' = "mirror", NEW c \in Slots, IsCaller(c),
           \/ Kept' = [Kept EXCEPT ![c] = Answer(c)]
           \/ Kept' = [Kept EXCEPT ![c] = NoRegs]
    PROVE  User!Next
<1> USE DEF Answering, Working, Taking
<1>1. /\ UserMode = "serve" /\ UserProc = c /\ UserShown = NoRegs
      /\ UserImage = [Kept EXCEPT ![c] = Answer(c)]
  BY DEF Views, ServeView
<1>2. UserMode' = "kernel" /\ UserProc' = NoRegs /\ UserShown' = NoRegs /\ UserImage' = Kept'
  BY DEF Views, KernelView
<1>3. Kept = [j \in Slots |-> Kept[j]]
  BY DEF Kept
<1>4. UserImage' = UserImage \/ UserImage' = [UserImage EXCEPT ![c] = NoRegs]
  BY <1>1, <1>2, <1>3
<1> QED BY <1>1, <1>2, <1>4 DEF User!Next, User!Served

\* Every step of the composition is a step of UserMachine or a stutter.
LEMMA StepImplements ==
    SPInv /\ Views /\ Views' /\ [SPNext]_allVars => [User!Next]_(User!vars)
<1> SUFFICES ASSUME SPInv, Views, Views', [SPNext]_allVars
             PROVE  User!Next \/ UNCHANGED User!vars
  OBVIOUS
<1> USE DEF Answering, Working, Taking
<1>0. TypeInv /\ CurrentIsRunning
  BY SMTT(30) DEF SPInv, TableInv
<1>a. ASSUME UNCHANGED <<slots, current>>
      PROVE  /\ Kept' = Kept
             /\ \A c \in Slots : IsCaller(c)' <=> IsCaller(c)
             /\ \A c \in Slots : slots'[c].context = slots[c].context
  BY <1>a DEF Kept, Alive, IsCaller, Names, HandleOf
<1>1. CASE IrqStart \/ IrqStep \/ UNCHANGED allVars
  <2>1. UNCHANGED <<slots, current, pc, call, frame>>
    BY <1>1 DEF IrqStart, IrqStep, IrqUnchanged, IrqLoadHandle, IrqLoadEpochAfter, IrqClaim,
                IrqStoreIdentity, IrqStoreEpoch, IrqStorePending, IrqPublished, allVars, spVars, vars
  <2> QED BY <1>a, <2>1, SameView
<1>2. CASE \/ TakeClaim \/ TakeIdentity \/ TakeEpoch \/ TakeRelease \/ StalePreemption \/ ScheduleFails
  <2>1. /\ UNCHANGED <<slots, current, call, frame>>
        /\ pc \in Working /\ pc' \in Working \cup {"halt"}
    BY <1>2 DEF TakeClaim, TakeIdentity, TakeEpoch, TakeRelease, StalePreemption, ScheduleFails, At, vars
  <2> QED BY <1>a, <2>1, SameView
<1>3. ASSUME NEW l \in Launches, Boot(l) PROVE User!Next
  <2>1. PICK i \in Slots :
          /\ Lowest(FreeSlots, i)
          /\ slots' = [slots EXCEPT ![i] = NewSlot(slots[i].generation, INIT_PID, NO_PID, l, 0)]
    BY <1>3 DEF Boot, RegisterInit
  <2>2. ~slots[i].occupied /\ UNCHANGED <<pc, call, frame, current>>
    BY <1>3, <2>1 DEF Boot, RegisterInit, Lowest, FreeSlots
  <2> QED BY <2>1, <2>2, InstallCreates
<1>4. ASSUME NEW p \in 1 .. MaxPid, NEW l \in Launches, Spawn(p, l) PROVE User!Next
  <2>1. PICK q \in 2 .. MaxPid, i \in Slots :
          /\ Lowest(FreeSlots, i)
          /\ slots' = [slots EXCEPT ![i] =
                 NewSlot(slots[i].generation + 1, q, p, l, scheduler_epoch)]
    BY <1>4 DEF Spawn, CommitChild
  <2>2. ~slots[i].occupied /\ UNCHANGED <<pc, call, frame, current>>
    BY <1>4, <2>1 DEF Spawn, CommitChild, Lowest, FreeSlots
  <2> QED BY <2>1, <2>2, InstallCreates
<1>5. ASSUME NEW p \in 0 .. MaxPid, NEW h \in Handles, Reap(p, h) PROVE UNCHANGED User!vars
  <2>1. /\ Kept' = Kept
        /\ \A c \in Slots : IsCaller(c)' <=> IsCaller(c)
        /\ \A c \in Slots : IsCaller(c) => slots'[c] = slots[c]
    BY <1>0, <1>5, ReapKept DEF Reap
  <2>2. UNCHANGED <<pc, call, frame, current>>
    BY <1>5 DEF Reap, ReapChild
  <2> QED BY <2>1, <2>2, SameView, SMTT(30)
<1>6. ASSUME NEW h \in Handles, BootRun(h) PROVE UNCHANGED User!vars
  <2>1. PICK i \in Slots :
          slots[i].phase = "Runnable" /\ slots' = [slots EXCEPT ![i].phase = "Running"]
    BY <1>6 DEF BootRun, MarkRunning
  <2>2. Kept' = Kept
    BY <1>0, <2>1, PhaseKept
  <2>3. pc = "boot" /\ pc' = "boot_mirror"
    BY <1>6 DEF BootRun, At
  <2> QED BY <2>2, <2>3 DEF Views, KernelView, User!vars
<1>7. CASE BootEnterUser
  <2>1. PICK c \in Slots : IsCaller(c) /\ frame' = Scheduled(c, slots[c].context, scheduler_epoch)
    BY <1>7 DEF BootEnterUser
  <2> QED BY <1>7, <2>1, EnterStep DEF BootEnterUser, At, vars, Scheduled
<1>8. CASE ReturnToUser
  <2>1. frame = last /\ Fresh(last) /\ current # PID0
    BY <1>8 DEF ReturnToUser, At, SPInv, PathInv
  <2>2. PICK c \in Slots : IsCaller(c) /\ frame = Scheduled(c, slots[c].context, scheduler_epoch)
    BY <2>1 DEF Fresh
  <2>3. AuthorizesReturn(frame)
    BY <2>1, FreshAuthorizes
  <2> QED BY <1>8, <2>2, <2>3, EnterStep DEF ReturnToUser, At, vars, Scheduled
<1>9. ASSUME NEW n \in Numbers, NEW user \in Contexts, NEW r \in Results, Syscall(n, user, r)
      PROVE  User!Next
  BY <1>9, SavedAtTyped, TrapStep DEF Syscall, At, vars
<1>10. CASE SyscallRejected
  BY <1>10, TrapStep DEF SyscallRejected, At, vars
<1>11. CASE ServePreemption
  <2>1. PICK c \in Slots : IsCaller(c) /\ SwitchFrom(c, PreemptedContext)
    BY <1>11 DEF ServePreemption, SchedulePreempt
  <2>2. pc = "schedule" /\ pc' = "mirror" /\ Answer(c) = PreemptedContext
    BY <1>11 DEF ServePreemption, At, SPInv, TicketInv, Answer
  <2>3. Kept' = [Kept EXCEPT ![c] = Answer(c)]
    BY <1>0, <2>1, <2>2, SwitchKept
  <2> QED BY <2>1, <2>2, <2>3, ServedStep
<1>12. CASE ScheduleOwn
  <2>0. pc = "schedule" /\ pc' = "mirror"
    BY <1>12 DEF ScheduleOwn, At
  <2>1. CASE call.number = "yield" /\ ScheduleYield(call.saved)
    <3>1. PICK c \in Slots : IsCaller(c) /\ SwitchFrom(c, ZeroResult(call.saved))
      BY <2>1 DEF ScheduleYield
    <3>2. Answer(c) = ZeroResult(call.saved)
      BY <2>0, <2>1 DEF Answer, PreemptedContext
    <3>3. Kept' = [Kept EXCEPT ![c] = Answer(c)]
      BY <1>0, <3>1, <3>2, SwitchKept
    <3> QED BY <2>0, <3>1, <3>3, ServedStep
  <2>2. CASE call.number = "other" /\ ResumeCurrent(call.saved)
    <3>1. PICK c \in Slots : IsCaller(c) /\ Kept' = [Kept EXCEPT ![c] = call.saved]
      BY <1>0, <2>2, ResumeKept
    <3>2. Answer(c) = call.saved
      BY <2>0, <2>2 DEF Answer, PreemptedContext
    <3> QED BY <2>0, <3>1, <3>2, ServedStep
  <2>3. ASSUME NEW x \in Codes, ScheduleExit(x) PROVE User!Next
    <3>1. PICK c \in Slots : IsCaller(c) /\ Kept' = [Kept EXCEPT ![c] = NoRegs]
      BY <1>0, <2>3, ExitKept
    <3> QED BY <2>0, <3>1, ServedStep
  <2> QED BY <1>12, <2>1, <2>2, <2>3 DEF ScheduleOwn
<1>13. CASE PublishEpoch
  <2>1. pc = "mirror" /\ pc' \in {"idle", "return"} /\ UNCHANGED <<slots, current>>
    BY <1>13 DEF PublishEpoch, At, vars
  <2> QED BY <1>a, <2>1 DEF Views, KernelView, User!vars
<1>14. CASE IdleTurn
  <2>1. pc = "idle" /\ pc' = "mirror"
    BY <1>14 DEF IdleTurn, At
  <2>2. \/ UNCHANGED slots
        \/ \E i \in Slots : /\ slots[i].phase = "Runnable"
                            /\ slots' = [slots EXCEPT ![i].phase = "Running"]
    BY <1>14 DEF IdleTurn, ScheduleFromPid0, Lowest, RunnableSlots, InPhase
  <2>3. Kept' = Kept
    BY <1>0, <2>2, PhaseKept DEF Kept, Alive
  <2> QED BY <2>1, <2>3 DEF Views, KernelView, User!vars
<1>15. CASE IdleFails
  <2>1. pc = "idle" /\ pc' = "halt" /\ UNCHANGED <<slots, current>> /\ current = PID0
    BY <1>15 DEF IdleFails, At, vars, SPInv, PathInv
  <2> QED BY <1>a, <2>1 DEF Views, KernelView, User!vars
<1> QED BY <1>1, <1>2, <1>3, <1>4, <1>5, <1>6, <1>7, <1>8, <1>9, <1>10, <1>11, <1>12, <1>13,
           <1>14, <1>15
        DEF SPNext, SyscallStep

LEMMA InitImplements == SPInit => User!Init
<1> SUFFICES ASSUME SPInit PROVE User!Init
  OBVIOUS
<1>1. UserMode = "kernel" /\ UserProc = NoRegs /\ UserShown = NoRegs /\ UserImage = Kept
  BY SPInitInv, ViewsHold, SMTT(30) DEF SPInit, Views, KernelView, Answering, Working, Taking
<1>2. Kept = [i \in Slots |-> NoRegs]
  BY DEF SPInit, Init, Kept, Alive, EmptySlot
<1> QED BY <1>1, <1>2, SMTT(30) DEF User!Init

\* The scheduler implements UserMachine: whatever switches, preemptions, exits
\* and slot reuses happen, a process comes back with exactly the registers its
\* own last system call or its launch left it, and nothing but its own exit
\* ends it (lifecycle.rs, syscalls.rs boulder_syscall_dispatch).
THEOREM UserMachineImplemented == SPSpec => ImplementsUserMachine
<1>1. SPInv /\ [SPNext]_allVars => SPInv'
  BY SPStep
<1>2. SPInv /\ Views /\ Views' /\ [SPNext]_allVars => [User!Next]_(User!vars)
  BY StepImplements
<1> QED BY SPInitInv, <1>1, <1>2, ViewsHold, InitImplements, PTL
        DEF SPSpec, ImplementsUserMachine, User!Spec

=============================================================================
