----------------------------- MODULE Lifecycle -----------------------------
(***************************************************************************)
(* The process table of kernel/boulder/src/process/lifecycle.rs: a fixed   *)
(* array of slots, the PID allocator, the scheduler epoch and the atomic   *)
(* CURRENT_EXECUTION.  Every public function that changes state is one     *)
(* action; it runs under the TABLE lock, so it is one step.  The exception *)
(* is publish_current, which drops the lock between its check and its      *)
(* store and is therefore two steps.                                       *)
(*                                                                         *)
(* A call that returns an error changes nothing and is a stuttering step,  *)
(* with one exception: commit_child advances next_pid before it finds out  *)
(* that there is no slot (CommitChildNoSlot).                              *)
(*                                                                         *)
(* The lock-free mirror CURRENT_SCHEDULER_EPOCH belongs to the IRQ side    *)
(* and is modelled in SafePoint.                                           *)
(***************************************************************************)
EXTENDS Integers, FiniteSets

CONSTANTS
    N,          \* MAXIMUM_PROCESSES
    MaxPid,     \* u32::MAX as a PID
    MaxGen,     \* u32::MAX as a slot generation
    MaxEpoch,   \* u64::MAX as a scheduler epoch
    Launches,   \* launch images that pass ProcessLaunch::validate
    NoLaunch,   \* the all-zero launch of an empty slot
    Regs,       \* user register images other than RAX, all valid
    NoRegs,     \* the all-zero register image
    Entry,      \* Entry[l]: the register image SavedUserContext::initial builds
    Results,    \* values of RAX
    Codes       \* exit codes

ASSUME SlotsAssumption == N \in Nat \ {0}

\* At most N PIDs are in use, so the N + 1 candidates allocate_pid tries
\* always contain a free one; 2^32 - 2 candidates and 64 slots satisfy this.
ASSUME PidAssumption == MaxPid \in Nat /\ MaxPid > N + 1

ASSUME GenAssumption == MaxGen \in Nat /\ MaxGen > 1

ASSUME EpochAssumption == MaxEpoch \in Nat

ASSUME LaunchAssumption == NoLaunch \notin Launches

ASSUME ContextAssumption ==
    /\ NoRegs \notin Regs
    /\ Entry \in [Launches -> Regs]
    /\ 0 \in Results

ASSUME CodeAssumption == Codes \subseteq Int

VARIABLES
    slots,              \* ProcessTable::slots
    next_pid,           \* ProcessTable::next_pid
    scheduler_epoch,    \* ProcessTable::scheduler_epoch
    current,            \* CURRENT_EXECUTION, decoded
    publishing,         \* handle a publish_current call has checked, or PID0
    last,               \* history: the decision issued most recently
    held,               \* history: some decision a caller has kept
    waited              \* history: dispatches that passed a runnable slot by

table == <<slots, next_pid, scheduler_epoch, current, publishing>>

vars == <<slots, next_pid, scheduler_epoch, current, publishing,
          last, held, waited>>

-----------------------------------------------------------------------------

Slots == 0 .. (N - 1)

NO_PID == 0

INIT_PID == 1

\* ProcessPhase; no function ever assigns Installing.
Phases == {"Free", "Runnable", "Running", "Blocked", "Zombie"}

Handles == [pid : 1 .. MaxPid, generation : 1 .. MaxGen]

\* PID0_IDENTITY: the kernel's own execution identity.
PID0 == [pid |-> NO_PID, generation |-> 1]

Contexts == [regs : Regs, rax : Results]

\* SavedUserContext::EMPTY.
EmptyContext == [regs |-> NoRegs, rax |-> 0]

\* SavedUserContext::initial.
InitialContext(launch) == [regs |-> Entry[launch], rax |-> 0]

\* SavedUserContext::set_syscall_result(0).
ZeroResult(saved) == [saved EXCEPT !.rax = 0]

EmptySlot(generation) ==
    [occupied |-> FALSE, generation |-> generation, pid |-> NO_PID,
     parent |-> NO_PID, phase |-> "Free", launch |-> NoLaunch,
     context |-> EmptyContext, exit_code |-> 0, wait_sequence |-> 0]

NewSlot(generation, pid, parent, launch, sequence) ==
    [occupied |-> TRUE, generation |-> generation, pid |-> pid,
     parent |-> parent, phase |-> "Runnable", launch |-> launch,
     context |-> InitialContext(launch), exit_code |-> 0,
     wait_sequence |-> sequence]

SlotRecords ==
    [occupied : BOOLEAN, generation : 1 .. MaxGen, pid : 0 .. MaxPid,
     parent : 0 .. MaxPid, phase : Phases, launch : Launches \cup {NoLaunch},
     context : Contexts \cup {EmptyContext}, exit_code : Codes \cup {0},
     wait_sequence : 0 .. MaxEpoch]

\* ScheduledProcess / AuthorizedUserReturn, and Pid0Authority as the decision
\* whose handle is PID0.
Decisions ==
    [handle : Handles \cup {PID0}, context : Contexts \cup {EmptyContext},
     launch : Launches \cup {NoLaunch}, epoch : 0 .. MaxEpoch]

Pid0Decision(epoch) ==
    [handle |-> PID0, context |-> EmptyContext, launch |-> NoLaunch,
     epoch |-> epoch]

HandleOf(i) == [pid |-> slots[i].pid, generation |-> slots[i].generation]

InPhase(i, phase) == slots[i].occupied /\ slots[i].phase = phase

\* slot_by_handle: the slot a handle names.
Names(handle, i) == slots[i].occupied /\ HandleOf(i) = handle

RunnableSlots == {i \in Slots : InPhase(i, "Runnable")}

NoneRunning == \A i \in Slots : ~InPhase(i, "Running")

\* The offset in 1 .. N at which next_runnable_index(c) probes slot i.
Distance(c, i) == IF i > c THEN i - c ELSE i - c + N

\* next_runnable_index(c) returned i.
NextRunnable(c, i) ==
    /\ i \in RunnableSlots
    /\ \A j \in RunnableSlots : Distance(c, i) <= Distance(c, j)

\* The search of schedule_from_pid0 and of the free-slot finders: the lowest
\* index that satisfies the condition.
FreeSlots == {i \in Slots : ~slots[i].occupied /\ slots[i].generation # MaxGen}

Lowest(S, i) == i \in S /\ \A j \in S : i <= j

-----------------------------------------------------------------------------
(* allocate_pid                                                            *)

PidInUse(pid) == \E i \in Slots : slots[i].occupied /\ slots[i].pid = pid

\* The number of candidates tried before pid, counting cyclically over
\* 2 .. MaxPid from next_pid (wrapping_add(1).max(2)).
PidDistance(pid) ==
    IF pid >= next_pid THEN pid - next_pid ELSE pid - next_pid + MaxPid - 1

\* Mutant: the PID counter is not wrapped.
PidSuccessorUnwrapped(pid) == pid + 1

PidSuccessor(pid) == IF pid = MaxPid THEN 2 ELSE pid + 1

AllocatesPid(pid) ==
    /\ pid \in 2 .. MaxPid
    /\ ~PidInUse(pid)
    /\ PidDistance(pid) <= N
    /\ \A q \in 2 .. MaxPid : ~PidInUse(q) => PidDistance(pid) <= PidDistance(q)
    /\ next_pid' = PidSuccessor(pid)

-----------------------------------------------------------------------------
(* Installation and reaping                                                *)

RegisterInit(launch) ==
    /\ ~PidInUse(INIT_PID)
    /\ \E i \in Slots :
         /\ Lowest(FreeSlots, i)
         /\ slots' = [slots EXCEPT ![i] =
                NewSlot(slots[i].generation, INIT_PID, NO_PID, launch, 0)]
    /\ UNCHANGED <<next_pid, scheduler_epoch, current, publishing,
                   last, held, waited>>

\* A parent that is occupied and neither Free nor Zombie.
LiveParent(parent) ==
    \E i \in Slots : /\ slots[i].occupied
                     /\ slots[i].pid = parent
                     /\ slots[i].phase \notin {"Free", "Zombie"}

CommitChild(parent, launch) ==
    /\ LiveParent(parent)
    /\ \E pid \in 2 .. MaxPid, i \in Slots :
         /\ AllocatesPid(pid)
         /\ Lowest(FreeSlots, i)
         /\ slots' = [slots EXCEPT ![i] =
                NewSlot(slots[i].generation + 1, pid, parent, launch,
                        scheduler_epoch)]
    /\ UNCHANGED <<scheduler_epoch, current, publishing, last, held, waited>>

\* LifecycleError::Capacity after allocate_pid has already moved next_pid.
CommitChildNoSlot(parent) ==
    /\ LiveParent(parent)
    /\ FreeSlots = {}
    /\ \E pid \in 2 .. MaxPid : AllocatesPid(pid)
    /\ UNCHANGED <<slots, scheduler_epoch, current, publishing,
                   last, held, waited>>

\* The generation a reaped slot continues from; MaxGen retires the slot.
ReapedGeneration(generation) ==
    IF generation = MaxGen THEN MaxGen ELSE generation + 1

ReapChild(parent, handle) ==
    /\ \E i \in Slots :
         /\ Names(handle, i)
         /\ slots[i].parent = parent
         /\ slots[i].phase = "Zombie"
         /\ slots' = [slots EXCEPT ![i] =
                EmptySlot(ReapedGeneration(slots[i].generation))]
    /\ UNCHANGED <<next_pid, scheduler_epoch, current, publishing,
                   last, held, waited>>

-----------------------------------------------------------------------------
(* Dispatch                                                                *)

\* ProcessTable::scheduled.
Scheduled(i, user, epoch) ==
    [handle |-> HandleOf(i), context |-> user, launch |-> slots[i].launch,
     epoch |-> epoch]

\* The caller receives decision d.
Issue(d) == last' = d /\ UNCHANGED held

\* History: dispatching slot t passes every other runnable slot by once.
Passes(t) ==
    waited' = [i \in Slots |-> IF i # t /\ i \in RunnableSlots
                               THEN waited[i] + 1 ELSE 0]

NextEpoch == scheduler_epoch + 1

\* next_scheduler_epoch: EpochExhausted, with nothing changed, at u64::MAX.
AdvancesEpoch ==
    /\ scheduler_epoch < MaxEpoch
    /\ scheduler_epoch' = NextEpoch

\* The slot of the process that CURRENT_EXECUTION names, if it is Running.
IsCaller(c) ==
    /\ current # PID0
    /\ Names(current, c)
    /\ slots[c].phase = "Running"

MarkRunning(handle) ==
    /\ current = PID0
    /\ NoneRunning
    /\ \E i \in Slots :
         /\ Names(handle, i)
         /\ slots[i].phase = "Runnable"
         /\ slots' = [slots EXCEPT ![i].phase = "Running"]
         /\ Passes(i)
    /\ AdvancesEpoch
    /\ current' = handle
    /\ UNCHANGED <<next_pid, publishing, last, held>>

ResumeCurrent(saved) ==
    /\ \E c \in Slots :
         /\ IsCaller(c)
         /\ slots' = [slots EXCEPT ![c].context = saved]
         /\ Issue(Scheduled(c, saved, NextEpoch))
    /\ AdvancesEpoch
    /\ UNCHANGED <<next_pid, current, publishing, waited>>

\* Mutant: the search starts at the caller instead of after it.
SuccessorItself(c, t) == t = c

\* next_runnable_index(c).unwrap_or(c).
Successor(c, t) == NextRunnable(c, t) \/ (RunnableSlots = {} /\ t = c)

\* Mutant: the caller's registers are saved into the target's slot.
SwitchFromIntoTarget(c, saved) ==
    \E t \in Slots :
        /\ Successor(c, t)
        /\ slots' = [slots EXCEPT ![c].phase = "Runnable",
                                  ![t].context = saved,
                                  ![t].phase = "Running"]
        /\ current' = HandleOf(t)
        /\ Passes(t)
        /\ Issue(Scheduled(t, saved, NextEpoch))

\* The common tail of schedule_yield and schedule_preempt: save the caller,
\* make it Runnable, then make the target Running (the caller again when it
\* has no peer).
SwitchFrom(c, saved) ==
    \E t \in Slots :
        /\ Successor(c, t)
        /\ slots' = [slots EXCEPT ![c].context = saved,
                                  ![c].phase = "Runnable",
                                  ![t].phase = "Running"]
        /\ current' = HandleOf(t)
        /\ Passes(t)
        /\ Issue(Scheduled(t, IF t = c THEN saved ELSE slots[t].context,
                           NextEpoch))

ScheduleYield(saved) ==
    /\ \E c \in Slots : IsCaller(c) /\ SwitchFrom(c, ZeroResult(saved))
    /\ AdvancesEpoch
    /\ UNCHANGED <<next_pid, publishing>>

\* schedule_preempt accepts an authority exactly when this holds; otherwise it
\* returns StalePreemptionAuthority and changes nothing.
PreemptAuthorityLive(handle, epoch) ==
    /\ current = handle
    /\ scheduler_epoch = epoch
    /\ \E c \in Slots : Names(handle, c) /\ slots[c].phase = "Running"

SchedulePreempt(saved, handle, epoch) ==
    /\ PreemptAuthorityLive(handle, epoch)
    /\ \E c \in Slots : IsCaller(c) /\ SwitchFrom(c, saved)
    /\ AdvancesEpoch
    /\ UNCHANGED <<next_pid, publishing>>

\* The Zombie record schedule_exit leaves behind.
Exited(slot, code, epoch) ==
    [slot EXCEPT !.phase = "Zombie", !.exit_code = code,
                 !.wait_sequence = epoch]

ScheduleExit(code) ==
    /\ \E c \in Slots :
         /\ IsCaller(c)
         /\ \/ \E t \in Slots :
                 /\ NextRunnable(c, t)
                 /\ slots' = [slots EXCEPT
                        ![c] = Exited(slots[c], code, NextEpoch),
                        ![t].phase = "Running"]
                 /\ current' = HandleOf(t)
                 /\ Passes(t)
                 /\ Issue(Scheduled(t, slots[t].context, NextEpoch))
            \/ /\ RunnableSlots = {}
               /\ slots' = [slots EXCEPT
                      ![c] = Exited(slots[c], code, NextEpoch)]
               /\ current' = PID0
               /\ Issue(Pid0Decision(NextEpoch))
               /\ UNCHANGED waited
    /\ AdvancesEpoch
    /\ UNCHANGED <<next_pid, publishing>>

\* validate_pid0_authority: an idle decision is live.
AuthorizesPid0(d) ==
    current = PID0 /\ d.handle = PID0 /\ d.epoch = scheduler_epoch

ScheduleFromPid0(d) ==
    /\ AuthorizesPid0(d)
    /\ NoneRunning
    /\ \/ \E t \in Slots :
            /\ Lowest(RunnableSlots, t)
            /\ slots' = [slots EXCEPT ![t].phase = "Running"]
            /\ current' = HandleOf(t)
            /\ Passes(t)
            /\ Issue(Scheduled(t, slots[t].context, NextEpoch))
       \/ /\ RunnableSlots = {}
          /\ current' = PID0
          /\ Issue(Pid0Decision(NextEpoch))
          /\ UNCHANGED <<slots, waited>>
    /\ AdvancesEpoch
    /\ UNCHANGED <<next_pid, publishing>>

\* Mutant: the epoch of the decision is not compared.
AuthorizesReturnAnyEpoch(d) ==
    /\ d.handle # PID0
    /\ current = d.handle
    /\ \E i \in Slots :
         /\ Names(d.handle, i)
         /\ slots[i].phase = "Running"
         /\ d = Scheduled(i, slots[i].context, d.epoch)

\* authorize_user_return accepts d: it names the current process, carries the
\* current epoch, and equals the decision the table would issue now.
AuthorizesReturn(d) ==
    /\ d.handle # PID0
    /\ current = d.handle
    /\ d.epoch = scheduler_epoch
    /\ \E i \in Slots :
         /\ Names(d.handle, i)
         /\ slots[i].phase = "Running"
         /\ d = Scheduled(i, slots[i].context, scheduler_epoch)

-----------------------------------------------------------------------------
(* Functions that change a phase, or CURRENT_EXECUTION, on their own.      *)

MarkRunnable(handle) ==
    /\ \E i \in Slots :
         /\ Names(handle, i)
         /\ slots[i].phase \in {"Running", "Blocked"}
         /\ slots' = [slots EXCEPT ![i].phase = "Runnable"]
    /\ UNCHANGED <<next_pid, scheduler_epoch, current, publishing,
                   last, held, waited>>

MarkBlocked(handle) ==
    /\ \E i \in Slots :
         /\ Names(handle, i)
         /\ slots[i].phase = "Running"
         /\ slots' = [slots EXCEPT ![i].phase = "Blocked"]
    /\ UNCHANGED <<next_pid, scheduler_epoch, current, publishing,
                   last, held, waited>>

\* publish_current up to drop(table) ...
PublishCheck(handle) ==
    /\ publishing = PID0
    /\ \E i \in Slots : Names(handle, i) /\ slots[i].phase = "Running"
    /\ publishing' = handle
    /\ UNCHANGED <<slots, next_pid, scheduler_epoch, current,
                   last, held, waited>>

\* ... and its store, after the lock is gone.
PublishStore ==
    /\ publishing # PID0
    /\ current' = publishing
    /\ publishing' = PID0
    /\ UNCHANGED <<slots, next_pid, scheduler_epoch, last, held, waited>>

\* History: some caller keeps a copy of the decision it was just handed, and
\* may present it at any later time.
Keep ==
    /\ held' = last
    /\ UNCHANGED <<slots, next_pid, scheduler_epoch, current, publishing,
                   last, waited>>

-----------------------------------------------------------------------------

Init ==
    /\ slots = [i \in Slots |-> EmptySlot(1)]
    /\ next_pid = 2
    /\ scheduler_epoch = 0
    /\ current = PID0
    /\ publishing = PID0
    /\ last = Pid0Decision(0)
    /\ held = Pid0Decision(0)
    /\ waited = [i \in Slots |-> 0]

\* The functions the boot path and the syscall path are built from, with the
\* installation and reaping of children that they do not call yet.
DispatchNext ==
    \/ \E l \in Launches : RegisterInit(l)
    \/ \E p \in 1 .. MaxPid, l \in Launches : CommitChild(p, l)
    \/ \E p \in 1 .. MaxPid : CommitChildNoSlot(p)
    \/ \E p \in 0 .. MaxPid, h \in Handles : ReapChild(p, h)
    \/ \E h \in Handles : MarkRunning(h)
    \/ \E s \in Contexts : ResumeCurrent(s)
    \/ \E s \in Contexts : ScheduleYield(s)
    \/ \E s \in Contexts, h \in Handles, e \in 0 .. MaxEpoch :
           SchedulePreempt(s, h, e)
    \/ \E x \in Codes : ScheduleExit(x)
    \/ \E d \in {held, last} : ScheduleFromPid0(d)

\* Every public function of the module, callable in any order.
Next ==
    \/ DispatchNext
    \/ \E h \in Handles : MarkRunnable(h)
    \/ \E h \in Handles : MarkBlocked(h)
    \/ \E h \in Handles : PublishCheck(h)
    \/ PublishStore
    \/ Keep

Spec == Init /\ [][Next]_vars

DispatchSpec == Init /\ [][DispatchNext]_vars

-----------------------------------------------------------------------------
(* Properties                                                              *)

\* Every variable of the process table holds a value of its type.
TypeOK ==
    /\ slots \in [Slots -> SlotRecords]
    /\ next_pid \in 2 .. MaxPid
    /\ scheduler_epoch \in 0 .. MaxEpoch
    /\ current \in Handles \cup {PID0}
    /\ publishing \in Handles \cup {PID0}
    /\ last \in Decisions
    /\ held \in Decisions
    /\ waited \in [Slots -> Nat]

\* No two installed processes share a PID, although allocate_pid wraps and
\* register_init takes PID 1 without consulting it; so a handle names at most
\* one slot.
UniquePids ==
    \A i, j \in Slots :
        slots[i].occupied /\ slots[j].occupied /\ slots[i].pid = slots[j].pid
            => i = j

\* Whatever order the lifecycle functions are called in, at most one process
\* is Running.
OneRunning ==
    \A i, j \in Slots : InPhase(i, "Running") /\ InPhase(j, "Running") => i = j

\* CURRENT_EXECUTION and the table agree: PID0 exactly when nothing is
\* Running, and otherwise the handle of the Running slot.  It is what lets
\* every schedule_* function find its caller; holds as long as the phase
\* setters and publish_current are not used.
CurrentIsRunning ==
    /\ current = PID0 => NoneRunning
    /\ current # PID0 => \E i \in Slots : IsCaller(i)

\* A return authority or an idle authority that any caller has kept validates
\* only if it is the decision the scheduler issued last: neither PID reuse,
\* slot reuse nor a late publish_current revives a superseded one.
SupersededNeverAuthorizes ==
    AuthorizesReturn(held) \/ AuthorizesPid0(held) => held = last

\* No starvation: while a process stays Runnable, fewer than N dispatches go
\* to other processes before next_runnable_index reaches it.
BoundedBypass == \A i \in Slots : waited[i] < N

\* A Zombie's exit code and wait sequence stay as schedule_exit left them
\* until reap_child empties the slot.
ZombieKeepsStatus ==
    [][\A i \in Slots :
         InPhase(i, "Zombie") => \/ slots'[i] = slots[i]
                                \/ ~slots'[i].occupied]_vars

\* The saved register image of a process changes only when that process is
\* itself the Running caller; no dispatch of another process touches it.
ContextPrivate ==
    [][\A i \in Slots :
         /\ slots[i].occupied /\ slots'[i].occupied
         /\ slots'[i].context # slots[i].context
         => IsCaller(i)]_vars

\* For small instances: every program starts with the same register image.
SameEntry == [l \in Launches |-> CHOOSE r \in Regs : TRUE]
=============================================================================
