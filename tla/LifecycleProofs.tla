-------------------------- MODULE LifecycleProofs --------------------------
(***************************************************************************)
(* What Lifecycle promises for every number of slots and every width of    *)
(* PIDs, generations and epochs.                                           *)
(***************************************************************************)
EXTENDS Lifecycle, TLAPS

\* A slot is occupied exactly when its phase is not Free, and then has a PID.
SlotShape ==
    \A i \in Slots : /\ slots[i].occupied <=> slots[i].phase # "Free"
                     /\ slots[i].occupied => slots[i].pid # NO_PID

TypeInv == TypeOK /\ SlotShape

\* The handle of an occupied slot is a user handle, never PID0.
LEMMA OccupiedHandle ==
    ASSUME TypeInv, NEW i \in Slots, slots[i].occupied
    PROVE  HandleOf(i) \in Handles /\ HandleOf(i) # PID0
BY DEF TypeInv, TypeOK, SlotShape, HandleOf, Handles, PID0, SlotRecords, NO_PID

\* Slots built by register_init, commit_child and reap_child are well typed.
LEMMA BuiltSlots ==
    /\ \A g \in 1 .. MaxGen : EmptySlot(g) \in SlotRecords
    /\ \A g \in 1 .. MaxGen, p \in 1 .. MaxPid, q \in 0 .. MaxPid,
          l \in Launches, e \in 0 .. MaxEpoch :
            NewSlot(g, p, q, l, e) \in SlotRecords
BY PidAssumption, EpochAssumption, ContextAssumption
   DEF EmptySlot, NewSlot, SlotRecords, Phases, Contexts, EmptyContext,
       InitialContext, NO_PID

\* The process table starts well typed.
LEMMA InitTypeInv == Init => TypeInv
BY BuiltSlots, SlotsAssumption, PidAssumption, GenAssumption, EpochAssumption
   DEF Init, TypeInv, TypeOK, SlotShape, EmptySlot, Pid0Decision, Decisions,
       Handles, PID0, Slots

\* An issued decision is well typed.
LEMMA ScheduledTyped ==
    ASSUME TypeInv, NEW i \in Slots, slots[i].occupied,
           NEW u \in Contexts \cup {EmptyContext}, NEW e \in 0 .. MaxEpoch
    PROVE  Scheduled(i, u, e) \in Decisions
BY OccupiedHandle DEF TypeInv, TypeOK, Scheduled, Decisions, SlotRecords

LEMMA Pid0DecisionTyped ==
    ASSUME NEW e \in 0 .. MaxEpoch
    PROVE  Pid0Decision(e) \in Decisions
BY DEF Pid0Decision, Decisions

\* ZeroResult keeps a user context a user context.
LEMMA ZeroResultTyped == \A s \in Contexts : ZeroResult(s) \in Contexts
BY ContextAssumption DEF ZeroResult, Contexts

\* The history variable waited stays a count.
LEMMA PassesTyped ==
    ASSUME TypeInv, NEW t \in Slots, Passes(t)
    PROVE  waited' \in [Slots -> Nat]
BY DEF TypeInv, TypeOK, Passes

\* Switching away from a Running caller keeps the table well typed.
LEMMA SwitchTyped ==
    ASSUME TypeInv, NEW c \in Slots, IsCaller(c), NEW s \in Contexts,
           SwitchFrom(c, s), AdvancesEpoch, UNCHANGED <<next_pid, publishing>>
    PROVE  TypeInv'
<1>1. PICK t \in Slots :
        /\ Successor(c, t)
        /\ slots' = [slots EXCEPT ![c].context = s,
                                  ![c].phase = "Runnable",
                                  ![t].phase = "Running"]
        /\ current' = HandleOf(t)
        /\ Passes(t)
        /\ Issue(Scheduled(t, IF t = c THEN s ELSE slots[t].context, NextEpoch))
  BY DEF SwitchFrom
<1>2. slots[t].occupied
  BY <1>1 DEF Successor, NextRunnable, RunnableSlots, InPhase, IsCaller, Names
<1>3. NextEpoch \in 0 .. MaxEpoch /\ scheduler_epoch' \in 0 .. MaxEpoch
  BY EpochAssumption DEF TypeInv, TypeOK, AdvancesEpoch, NextEpoch
<1>4. Scheduled(t, IF t = c THEN s ELSE slots[t].context, NextEpoch) \in Decisions
  BY <1>2, <1>3, ScheduledTyped DEF TypeInv, TypeOK, SlotRecords
<1>5. slots' \in [Slots -> SlotRecords] /\ SlotShape'
  BY <1>1, <1>2 DEF TypeInv, TypeOK, SlotShape, SlotRecords, Phases, IsCaller, Names
<1> QED
  BY <1>1, <1>2, <1>3, <1>4, <1>5, OccupiedHandle, PassesTyped
     DEF TypeInv, TypeOK, Issue

\* Every function of the process table preserves the types and slot shape.
LEMMA NextTypeInv == TypeInv /\ [Next]_vars => TypeInv'
<1> SUFFICES ASSUME TypeInv, [Next]_vars PROVE TypeInv'
  OBVIOUS
<1>a. scheduler_epoch \in 0 .. MaxEpoch /\ 1 \in 1 .. MaxPid /\ 0 \in 0 .. MaxPid
      /\ 0 \in 0 .. MaxEpoch
  BY PidAssumption, SlotsAssumption, EpochAssumption DEF TypeInv, TypeOK
<1>b. AdvancesEpoch => NextEpoch \in 0 .. MaxEpoch /\ scheduler_epoch' \in 0 .. MaxEpoch
  BY EpochAssumption DEF TypeInv, TypeOK, AdvancesEpoch, NextEpoch
<1>1. ASSUME NEW l \in Launches, RegisterInit(l) PROVE TypeInv'
  <2>1. PICK i \in Slots :
          slots' = [slots EXCEPT ![i] =
              NewSlot(slots[i].generation, INIT_PID, NO_PID, l, 0)]
    BY <1>1 DEF RegisterInit
  <2>2. NewSlot(slots[i].generation, INIT_PID, NO_PID, l, 0) \in SlotRecords
    BY <1>a, BuiltSlots DEF TypeInv, TypeOK, SlotRecords, INIT_PID, NO_PID
  <2>3. slots' \in [Slots -> SlotRecords]
    BY <2>1, <2>2 DEF TypeInv, TypeOK
  <2>4. SlotShape'
    BY <2>1 DEF TypeInv, TypeOK, SlotShape, NewSlot, INIT_PID, NO_PID
  <2> QED
    BY <1>1, <2>3, <2>4 DEF TypeInv, TypeOK, RegisterInit
<1>2. ASSUME NEW p \in 1 .. MaxPid, NEW l \in Launches, CommitChild(p, l)
      PROVE  TypeInv'
  <2>1. PICK pid \in 2 .. MaxPid, i \in Slots :
          /\ AllocatesPid(pid)
          /\ Lowest(FreeSlots, i)
          /\ slots' = [slots EXCEPT ![i] =
                NewSlot(slots[i].generation + 1, pid, p, l, scheduler_epoch)]
    BY <1>2 DEF CommitChild
  <2>2. slots[i].generation + 1 \in 1 .. MaxGen
    <3>1. slots[i].generation # MaxGen
      BY <2>1 DEF Lowest, FreeSlots
    <3>2. slots[i].generation \in 1 .. MaxGen
      BY DEF TypeInv, TypeOK, SlotRecords
    <3> QED
      BY <3>1, <3>2, GenAssumption
  <2>3. NewSlot(slots[i].generation + 1, pid, p, l, scheduler_epoch) \in SlotRecords
    BY <1>a, <2>2, BuiltSlots
  <2>4. next_pid' \in 2 .. MaxPid
    BY <2>1, PidAssumption, SlotsAssumption DEF AllocatesPid, PidSuccessor
  <2>5. slots' \in [Slots -> SlotRecords]
    BY <2>1, <2>3 DEF TypeInv, TypeOK
  <2>6. SlotShape'
    BY <2>1 DEF TypeInv, TypeOK, SlotShape, NewSlot, NO_PID
  <2> QED
    BY <1>2, <2>4, <2>5, <2>6 DEF TypeInv, TypeOK, CommitChild
<1>3. ASSUME NEW p \in 1 .. MaxPid, CommitChildNoSlot(p) PROVE TypeInv'
  <2>1. next_pid' \in 2 .. MaxPid
    BY <1>3, PidAssumption, SlotsAssumption
       DEF CommitChildNoSlot, AllocatesPid, PidSuccessor
  <2> QED
    BY <1>3, <2>1 DEF TypeInv, TypeOK, SlotShape, CommitChildNoSlot
<1>4. ASSUME NEW p \in 0 .. MaxPid, NEW h \in Handles, ReapChild(p, h)
      PROVE  TypeInv'
  <2>1. PICK i \in Slots :
          slots' = [slots EXCEPT ![i] =
              EmptySlot(ReapedGeneration(slots[i].generation))]
    BY <1>4 DEF ReapChild
  <2>2. ReapedGeneration(slots[i].generation) \in 1 .. MaxGen
    BY GenAssumption DEF ReapedGeneration, TypeInv, TypeOK, SlotRecords
  <2>3. EmptySlot(ReapedGeneration(slots[i].generation)) \in SlotRecords
    BY <2>2, BuiltSlots
  <2> QED
    BY <1>4, <2>1, <2>3 DEF TypeInv, TypeOK, SlotShape, ReapChild, EmptySlot
<1>5. ASSUME NEW h \in Handles, MarkRunning(h) PROVE TypeInv'
  <2>1. PICK i \in Slots : /\ Names(h, i)
                           /\ slots' = [slots EXCEPT ![i].phase = "Running"]
                           /\ Passes(i)
    BY <1>5 DEF MarkRunning
  <2>2. slots' \in [Slots -> SlotRecords] /\ SlotShape'
    BY <2>1 DEF TypeInv, TypeOK, SlotShape, SlotRecords, Phases, Names
  <2> QED
    BY <1>5, <1>b, <2>1, <2>2, PassesTyped DEF TypeInv, TypeOK, MarkRunning
<1>6. ASSUME NEW s \in Contexts, ResumeCurrent(s) PROVE TypeInv'
  <2>1. PICK c \in Slots : /\ IsCaller(c)
                           /\ slots' = [slots EXCEPT ![c].context = s]
                           /\ Issue(Scheduled(c, s, NextEpoch))
    BY <1>6 DEF ResumeCurrent
  <2>2. slots' \in [Slots -> SlotRecords] /\ SlotShape'
    BY <2>1 DEF TypeInv, TypeOK, SlotShape, SlotRecords
  <2>3. Scheduled(c, s, NextEpoch) \in Decisions
    BY <1>6, <1>b, <2>1, ScheduledTyped DEF ResumeCurrent, IsCaller, Names
  <2> QED
    BY <1>6, <1>b, <2>1, <2>2, <2>3 DEF TypeInv, TypeOK, ResumeCurrent, Issue
<1>7. ASSUME NEW s \in Contexts, ScheduleYield(s) PROVE TypeInv'
  BY <1>7, SwitchTyped, ZeroResultTyped DEF ScheduleYield
<1>8. ASSUME NEW s \in Contexts, NEW h \in Handles, NEW e \in 0 .. MaxEpoch,
             SchedulePreempt(s, h, e)
      PROVE  TypeInv'
  BY <1>8, SwitchTyped DEF SchedulePreempt
<1>9. ASSUME NEW x \in Codes, ScheduleExit(x) PROVE TypeInv'
  <2>1. PICK c \in Slots :
         /\ IsCaller(c)
         /\ \/ \E t \in Slots :
                 /\ NextRunnable(c, t)
                 /\ slots' = [slots EXCEPT
                        ![c] = Exited(slots[c], x, NextEpoch),
                        ![t].phase = "Running"]
                 /\ current' = HandleOf(t)
                 /\ Passes(t)
                 /\ Issue(Scheduled(t, slots[t].context, NextEpoch))
            \/ /\ RunnableSlots = {}
               /\ slots' = [slots EXCEPT
                      ![c] = Exited(slots[c], x, NextEpoch)]
               /\ current' = PID0
               /\ Issue(Pid0Decision(NextEpoch))
               /\ UNCHANGED waited
    BY <1>9 DEF ScheduleExit
  <2>2. NextEpoch \in 0 .. MaxEpoch /\ scheduler_epoch' \in 0 .. MaxEpoch
    BY <1>9, <1>b DEF ScheduleExit
  <2>3. Exited(slots[c], x, NextEpoch) \in SlotRecords
    <3>1. slots[c] \in SlotRecords
      BY DEF TypeInv, TypeOK
    <3> QED BY <2>2, <3>1 DEF Exited, SlotRecords, Phases
  <2>4. CASE \E t \in Slots :
                 /\ NextRunnable(c, t)
                 /\ slots' = [slots EXCEPT
                        ![c] = Exited(slots[c], x, NextEpoch),
                        ![t].phase = "Running"]
                 /\ current' = HandleOf(t)
                 /\ Passes(t)
                 /\ Issue(Scheduled(t, slots[t].context, NextEpoch))
    <3>1. PICK t \in Slots :
                 /\ NextRunnable(c, t)
                 /\ slots' = [slots EXCEPT
                        ![c] = Exited(slots[c], x, NextEpoch),
                        ![t].phase = "Running"]
                 /\ current' = HandleOf(t)
                 /\ Passes(t)
                 /\ Issue(Scheduled(t, slots[t].context, NextEpoch))
      BY <2>4
    <3>2. slots[t].occupied /\ t # c
      BY <2>1, <3>1 DEF NextRunnable, RunnableSlots, InPhase, IsCaller
    <3>3. Scheduled(t, slots[t].context, NextEpoch) \in Decisions
      BY <2>2, <3>2, ScheduledTyped DEF TypeInv, TypeOK, SlotRecords
    <3>4. slots' \in [Slots -> SlotRecords]
      BY <2>3, <3>1, <3>2 DEF TypeInv, TypeOK, SlotRecords, Phases
    <3>5. SlotShape'
      <4>1. slots'[c] = Exited(slots[c], x, NextEpoch)
        BY <3>1, <3>2 DEF TypeInv, TypeOK
      <4>2. slots'[t] = [slots[t] EXCEPT !.phase = "Running"]
        BY <3>1, <3>2 DEF TypeInv, TypeOK
      <4>3. \A j \in Slots \ {c, t} : slots'[j] = slots[j]
        BY <3>1 DEF TypeInv, TypeOK
      <4>4. /\ slots'[c].occupied = slots[c].occupied
            /\ slots'[c].phase = "Zombie"
            /\ slots'[c].pid = slots[c].pid
        BY <4>1 DEF TypeInv, TypeOK, SlotRecords, Exited
      <4>5. /\ slots'[t].occupied = slots[t].occupied
            /\ slots'[t].phase = "Running"
            /\ slots'[t].pid = slots[t].pid
        BY <4>2 DEF TypeInv, TypeOK, SlotRecords
      <4>6. slots[c].occupied /\ slots[t].occupied
        BY <2>1, <3>2 DEF IsCaller, Names
      <4> QED
        BY <4>3, <4>4, <4>5, <4>6 DEF TypeInv, SlotShape
    <3> QED
      BY <1>9, <2>2, <3>1, <3>2, <3>3, <3>4, <3>5, OccupiedHandle, PassesTyped
         DEF TypeInv, TypeOK, Issue, ScheduleExit
  <2>5. CASE /\ slots' = [slots EXCEPT ![c] = Exited(slots[c], x, NextEpoch)]
             /\ current' = PID0
             /\ Issue(Pid0Decision(NextEpoch))
             /\ UNCHANGED waited
    <3>1. SlotShape'
      BY <2>1, <2>5
         DEF TypeInv, TypeOK, SlotShape, SlotRecords, Exited, IsCaller, Names
    <3> QED
      BY <1>9, <2>2, <2>3, <2>5, <3>1, Pid0DecisionTyped
         DEF TypeInv, TypeOK, Issue, ScheduleExit
  <2> QED
    BY <2>1, <2>4, <2>5
<1>10. ASSUME NEW d \in {held, last}, ScheduleFromPid0(d) PROVE TypeInv'
  <2>1. NextEpoch \in 0 .. MaxEpoch /\ scheduler_epoch' \in 0 .. MaxEpoch
    BY <1>10, <1>b DEF ScheduleFromPid0
  <2>2. CASE \E t \in Slots :
              /\ Lowest(RunnableSlots, t)
              /\ slots' = [slots EXCEPT ![t].phase = "Running"]
              /\ current' = HandleOf(t)
              /\ Passes(t)
              /\ Issue(Scheduled(t, slots[t].context, NextEpoch))
    <3>1. PICK t \in Slots :
              /\ Lowest(RunnableSlots, t)
              /\ slots' = [slots EXCEPT ![t].phase = "Running"]
              /\ current' = HandleOf(t)
              /\ Passes(t)
              /\ Issue(Scheduled(t, slots[t].context, NextEpoch))
      BY <2>2
    <3>2. slots[t].occupied
      BY <3>1 DEF Lowest, RunnableSlots, InPhase
    <3>3. Scheduled(t, slots[t].context, NextEpoch) \in Decisions
      BY <2>1, <3>2, ScheduledTyped DEF TypeInv, TypeOK, SlotRecords
    <3>4. slots' \in [Slots -> SlotRecords] /\ SlotShape'
      BY <3>1, <3>2 DEF TypeInv, TypeOK, SlotShape, SlotRecords, Phases
    <3> QED
      BY <1>10, <2>1, <3>1, <3>2, <3>3, <3>4, OccupiedHandle, PassesTyped
         DEF TypeInv, TypeOK, Issue, ScheduleFromPid0
  <2>3. CASE /\ current' = PID0
             /\ Issue(Pid0Decision(NextEpoch))
             /\ UNCHANGED <<slots, waited>>
    BY <1>10, <2>1, <2>3, Pid0DecisionTyped
       DEF TypeInv, TypeOK, SlotShape, Issue, ScheduleFromPid0
  <2> QED
    BY <1>10, <2>2, <2>3 DEF ScheduleFromPid0
<1>11. ASSUME NEW h \in Handles, MarkRunnable(h) PROVE TypeInv'
  BY <1>11 DEF MarkRunnable, Names, TypeInv, TypeOK, SlotShape, SlotRecords, Phases
<1>12. ASSUME NEW h \in Handles, MarkBlocked(h) PROVE TypeInv'
  BY <1>12 DEF MarkBlocked, Names, TypeInv, TypeOK, SlotShape, SlotRecords, Phases
<1>13. ASSUME NEW h \in Handles, PublishCheck(h) PROVE TypeInv'
  BY <1>13 DEF PublishCheck, TypeInv, TypeOK, SlotShape
<1>14. CASE PublishStore
  BY <1>14 DEF PublishStore, TypeInv, TypeOK, SlotShape
<1>15. CASE Keep
  BY <1>15 DEF Keep, TypeInv, TypeOK, SlotShape
<1>16. CASE UNCHANGED vars
  BY <1>16 DEF vars, TypeInv, TypeOK, SlotShape
<1> QED
  BY <1>1, <1>2, <1>3, <1>4, <1>5, <1>6, <1>7, <1>8, <1>9, <1>10, <1>11,
     <1>12, <1>13, <1>14, <1>15, <1>16
     DEF Next, DispatchNext

\* Types: every reachable process table is well typed, whatever order the
\* lifecycle functions are called in.
THEOREM TypeCorrect == Spec => []TypeInv
BY InitTypeInv, NextTypeInv, PTL DEF Spec

\* The types alone.
THEOREM TypesHold == Spec => []TypeOK
<1>1. TypeInv => TypeOK
  BY DEF TypeInv
<1> QED
  BY <1>1, TypeCorrect, PTL

-----------------------------------------------------------------------------
(* Scheduling: one process at a time, and nobody is passed by N times.     *)

\* A process that is not waiting to run has been passed by no one.
FreshUnlessRunnable ==
    \A i \in Slots : ~InPhase(i, "Runnable") => waited[i] = 0

\* The round-robin search from the running process c reaches i after
\* Distance(c, i) probes, and every dispatch that passes i by shortens that.
WaitBound ==
    \A c, i \in Slots :
        InPhase(c, "Running") /\ InPhase(i, "Runnable")
            => waited[i] <= N - Distance(c, i)

\* CURRENT_EXECUTION becomes PID0 only when nothing is left to run.
Pid0Quiet ==
    current = PID0 => NoneRunning /\ \A i \in Slots : waited[i] = 0

SchedInv ==
    /\ OneRunning
    /\ FreshUnlessRunnable
    /\ WaitBound
    /\ Pid0Quiet
    /\ BoundedBypass

\* A kept decision is the last one, or older than it.
AuthorityInv ==
    /\ held.epoch <= last.epoch
    /\ held.epoch = last.epoch => held = last
    /\ last.epoch <= scheduler_epoch

\* The identity of every slot is left alone.
KeepsIdentity ==
    \A i \in Slots : /\ slots'[i].occupied = slots[i].occupied
                     /\ slots'[i].pid = slots[i].pid
                     /\ slots'[i].generation = slots[i].generation

\* What every successful dispatch of slot t does: t runs, nobody else does,
\* only a caller that gave up the CPU can have become Runnable, and t is the
\* caller's round-robin successor unless PID0 was current.
Dispatches(t) ==
    /\ KeepsIdentity
    /\ slots[t].occupied
    /\ current' = HandleOf(t)
    /\ slots'[t].phase = "Running"
    /\ \A j \in Slots \ {t} :
         /\ slots'[j].phase # "Running"
         /\ slots'[j].phase = "Runnable" => slots[j].phase \in {"Runnable", "Running"}
         /\ slots[j].phase = "Runnable" => slots'[j].phase = "Runnable"
    /\ Passes(t)
    /\ current = PID0 \/ \E c \in Slots : IsCaller(c) /\ Successor(c, t)

\* schedule_yield and schedule_preempt dispatch.
LEMMA SwitchDispatches ==
    ASSUME TypeInv, OneRunning, NEW c \in Slots, IsCaller(c), NEW s, SwitchFrom(c, s)
    PROVE  \E t \in Slots : Dispatches(t)
<1>1. PICK t \in Slots :
        /\ Successor(c, t)
        /\ slots' = [slots EXCEPT ![c].context = s,
                                  ![c].phase = "Runnable",
                                  ![t].phase = "Running"]
        /\ current' = HandleOf(t)
        /\ Passes(t)
  BY DEF SwitchFrom
<1>2. slots[t].occupied
  BY <1>1 DEF Successor, NextRunnable, RunnableSlots, InPhase, IsCaller, Names
<1>3. \A j \in Slots :
        /\ slots'[j].phase = IF j = t THEN "Running"
                             ELSE IF j = c THEN "Runnable" ELSE slots[j].phase
        /\ slots'[j].occupied = slots[j].occupied
        /\ slots'[j].pid = slots[j].pid
        /\ slots'[j].generation = slots[j].generation
  BY <1>1 DEF TypeInv, TypeOK, SlotRecords
<1>4. slots[c].phase = "Running" /\ slots[c].occupied
  BY DEF IsCaller, Names
<1>5. \A j \in Slots \ {c} : slots[j].phase # "Running"
  BY <1>4 DEF OneRunning, InPhase, TypeInv, SlotShape
<1>6. KeepsIdentity
  BY <1>3 DEF KeepsIdentity
<1>7. \A j \in Slots \ {t} :
        /\ slots'[j].phase # "Running"
        /\ slots'[j].phase = "Runnable" => slots[j].phase \in {"Runnable", "Running"}
        /\ slots[j].phase = "Runnable" => slots'[j].phase = "Runnable"
  BY <1>3, <1>4, <1>5
<1>8. slots'[t].phase = "Running"
  BY <1>3
<1> QED
  BY <1>1, <1>2, <1>6, <1>7, <1>8 DEF Dispatches

\* schedule_exit dispatches, or leaves PID0 with nothing runnable.
LEMMA ExitDispatches ==
    ASSUME TypeInv, OneRunning, NEW x \in Codes, ScheduleExit(x)
    PROVE  \/ \E t \in Slots : Dispatches(t)
           \/ /\ KeepsIdentity
              /\ current' = PID0
              /\ RunnableSlots = {}
              /\ \A j \in Slots : /\ slots'[j].phase # "Running"
                                  /\ slots'[j].phase # "Runnable"
              /\ UNCHANGED waited
<1>1. PICK c \in Slots :
         /\ IsCaller(c)
         /\ \/ \E t \in Slots :
                 /\ NextRunnable(c, t)
                 /\ slots' = [slots EXCEPT
                        ![c] = Exited(slots[c], x, NextEpoch),
                        ![t].phase = "Running"]
                 /\ current' = HandleOf(t)
                 /\ Passes(t)
            \/ /\ RunnableSlots = {}
               /\ slots' = [slots EXCEPT
                      ![c] = Exited(slots[c], x, NextEpoch)]
               /\ current' = PID0
               /\ UNCHANGED waited
  BY DEF ScheduleExit
<1>2. slots[c].phase = "Running" /\ slots[c].occupied
  BY <1>1 DEF IsCaller, Names
<1>3. \A j \in Slots \ {c} : slots[j].phase # "Running"
  BY <1>2 DEF OneRunning, InPhase, TypeInv, SlotShape
<1>4. /\ Exited(slots[c], x, NextEpoch).phase = "Zombie"
      /\ Exited(slots[c], x, NextEpoch).occupied = slots[c].occupied
      /\ Exited(slots[c], x, NextEpoch).pid = slots[c].pid
      /\ Exited(slots[c], x, NextEpoch).generation = slots[c].generation
  BY DEF Exited, TypeInv, TypeOK, SlotRecords
<1>5. CASE \E t \in Slots :
                 /\ NextRunnable(c, t)
                 /\ slots' = [slots EXCEPT
                        ![c] = Exited(slots[c], x, NextEpoch),
                        ![t].phase = "Running"]
                 /\ current' = HandleOf(t)
                 /\ Passes(t)
  <2>1. PICK t \in Slots :
                 /\ NextRunnable(c, t)
                 /\ slots' = [slots EXCEPT
                        ![c] = Exited(slots[c], x, NextEpoch),
                        ![t].phase = "Running"]
                 /\ current' = HandleOf(t)
                 /\ Passes(t)
    BY <1>5
  <2>2. slots[t].occupied /\ t # c
    BY <1>2, <2>1 DEF NextRunnable, RunnableSlots, InPhase
  <2>3. slots'[c] = Exited(slots[c], x, NextEpoch)
    BY <2>1, <2>2 DEF TypeInv, TypeOK
  <2>4. slots'[t] = [slots[t] EXCEPT !.phase = "Running"]
    BY <2>1, <2>2 DEF TypeInv, TypeOK
  <2>5. \A j \in Slots \ {c, t} : slots'[j] = slots[j]
    BY <2>1 DEF TypeInv, TypeOK
  <2>6. \A j \in Slots :
          /\ slots'[j].phase = IF j = t THEN "Running"
                               ELSE IF j = c THEN "Zombie" ELSE slots[j].phase
          /\ slots'[j].occupied = slots[j].occupied
          /\ slots'[j].pid = slots[j].pid
          /\ slots'[j].generation = slots[j].generation
    BY <1>4, <2>3, <2>4, <2>5 DEF TypeInv, TypeOK, SlotRecords
  <2>7. Successor(c, t)
    BY <2>1 DEF Successor
  <2>8. KeepsIdentity
    BY <2>6 DEF KeepsIdentity
  <2>9. \A j \in Slots \ {t} :
          /\ slots'[j].phase # "Running"
          /\ slots'[j].phase = "Runnable" => slots[j].phase \in {"Runnable", "Running"}
          /\ slots[j].phase = "Runnable" => slots'[j].phase = "Runnable"
    BY <1>2, <1>3, <2>6
  <2>10. slots'[t].phase = "Running"
    BY <2>6
  <2> QED
    BY <1>1, <2>1, <2>2, <2>7, <2>8, <2>9, <2>10 DEF Dispatches
<1>6. CASE /\ RunnableSlots = {}
           /\ slots' = [slots EXCEPT ![c] = Exited(slots[c], x, NextEpoch)]
           /\ current' = PID0
           /\ UNCHANGED waited
  <2>1. slots'[c] = Exited(slots[c], x, NextEpoch)
    BY <1>6 DEF TypeInv, TypeOK
  <2>2. \A j \in Slots \ {c} : slots'[j] = slots[j]
    BY <1>6 DEF TypeInv, TypeOK
  <2>3. \A j \in Slots : slots[j].phase # "Runnable"
    BY <1>6 DEF RunnableSlots, InPhase, TypeInv, SlotShape
  <2> QED
    BY <1>3, <1>4, <1>6, <2>1, <2>2, <2>3 DEF KeepsIdentity
<1> QED
  BY <1>1, <1>5, <1>6

\* mark_running dispatches.
LEMMA MarkRunningDispatches ==
    ASSUME TypeInv, NEW h \in Handles, MarkRunning(h)
    PROVE  \E t \in Slots : Dispatches(t)
<1>1. PICK t \in Slots : /\ Names(h, t)
                         /\ slots' = [slots EXCEPT ![t].phase = "Running"]
                         /\ Passes(t)
  BY DEF MarkRunning
<1>2. \A j \in Slots :
        /\ slots'[j].phase = IF j = t THEN "Running" ELSE slots[j].phase
        /\ slots'[j].occupied = slots[j].occupied
        /\ slots'[j].pid = slots[j].pid
        /\ slots'[j].generation = slots[j].generation
  BY <1>1 DEF TypeInv, TypeOK, SlotRecords
<1>3. \A j \in Slots : slots[j].phase # "Running"
  BY DEF MarkRunning, NoneRunning, InPhase, TypeInv, SlotShape
<1>4. slots[t].occupied /\ current' = HandleOf(t) /\ current = PID0
  BY <1>1 DEF MarkRunning, Names
<1>5. Dispatches(t)
  BY <1>1, <1>2, <1>3, <1>4 DEF Dispatches, KeepsIdentity
<1> QED
  BY <1>5

\* schedule_from_pid0 dispatches, or stays idle.
LEMMA FromPid0Dispatches ==
    ASSUME TypeInv, NEW d, ScheduleFromPid0(d)
    PROVE  \/ \E t \in Slots : Dispatches(t)
           \/ UNCHANGED <<slots, current, waited>>
<1>1. CASE \E t \in Slots :
            /\ Lowest(RunnableSlots, t)
            /\ slots' = [slots EXCEPT ![t].phase = "Running"]
            /\ current' = HandleOf(t)
            /\ Passes(t)
  <2>1. PICK t \in Slots :
            /\ Lowest(RunnableSlots, t)
            /\ slots' = [slots EXCEPT ![t].phase = "Running"]
            /\ current' = HandleOf(t)
            /\ Passes(t)
    BY <1>1
  <2>2. \A j \in Slots :
          /\ slots'[j].phase = IF j = t THEN "Running" ELSE slots[j].phase
          /\ slots'[j].occupied = slots[j].occupied
          /\ slots'[j].pid = slots[j].pid
          /\ slots'[j].generation = slots[j].generation
    BY <2>1 DEF TypeInv, TypeOK, SlotRecords
  <2>3. \A j \in Slots : slots[j].phase # "Running"
    BY DEF ScheduleFromPid0, NoneRunning, InPhase, TypeInv, SlotShape
  <2>4. slots[t].occupied /\ current = PID0
    BY <2>1 DEF ScheduleFromPid0, AuthorizesPid0, Lowest, RunnableSlots, InPhase
  <2>5. Dispatches(t)
    BY <2>1, <2>2, <2>3, <2>4 DEF Dispatches, KeepsIdentity
  <2> QED
    BY <2>5
<1>2. CASE current' = PID0 /\ UNCHANGED <<slots, waited>>
  BY <1>2 DEF ScheduleFromPid0, AuthorizesPid0
<1> QED
  BY <1>1, <1>2 DEF ScheduleFromPid0

\* Passing from c to its successor t brings every slot beyond t closer.
LEMMA DistanceShrinks ==
    ASSUME NEW c \in Slots, NEW t \in Slots, NEW j \in Slots, t # j,
           Distance(c, t) <= Distance(c, j)
    PROVE  Distance(t, j) + 1 <= Distance(c, j)
BY SlotsAssumption DEF Slots, Distance

LEMMA DistanceRange ==
    ASSUME NEW c \in Slots, NEW j \in Slots
    PROVE  /\ Distance(c, j) \in 1 .. N
           /\ c # j => Distance(c, j) <= N - 1
BY SlotsAssumption DEF Slots, Distance

\* A dispatch preserves the scheduling invariant.
LEMMA DispatchKeepsSched ==
    ASSUME TypeInv, TypeInv', SchedInv, NEW t \in Slots, Dispatches(t)
    PROVE  SchedInv'
<1>1. \A j \in Slots : waited'[j] = IF j # t /\ InPhase(j, "Runnable")
                                  THEN waited[j] + 1 ELSE 0
  BY DEF Dispatches, Passes, RunnableSlots
<1>2. \A j \in Slots : waited[j] \in Nat
  BY DEF TypeInv, TypeOK
<1>3. OneRunning'
  BY DEF Dispatches, OneRunning, InPhase
<1>4. FreshUnlessRunnable'
  BY <1>1 DEF FreshUnlessRunnable, Dispatches, KeepsIdentity, InPhase, Slots
<1>5. \A j \in Slots \ {t} : InPhase(j, "Runnable") => waited[j] + 1 <= N - Distance(t, j)
  <2> SUFFICES ASSUME NEW j \in Slots \ {t}, InPhase(j, "Runnable")
               PROVE  waited[j] + 1 <= N - Distance(t, j)
    OBVIOUS
  <2>1. CASE current = PID0
    BY <2>1, DistanceRange, SlotsAssumption DEF SchedInv, Pid0Quiet
  <2>2. CASE \E c \in Slots : IsCaller(c) /\ Successor(c, t)
    <3>1. PICK c \in Slots : IsCaller(c) /\ Successor(c, t)
      BY <2>2
    <3>2. Distance(c, t) <= Distance(c, j)
      BY <3>1 DEF Successor, NextRunnable, RunnableSlots
    <3>3. Distance(t, j) + 1 <= Distance(c, j)
      BY <3>2, DistanceShrinks
    <3>4. waited[j] <= N - Distance(c, j)
      BY <3>1 DEF SchedInv, WaitBound, IsCaller, Names, InPhase
    <3> QED
      BY <1>2, <3>3, <3>4, DistanceRange, SlotsAssumption
  <2> QED
    BY <2>1, <2>2 DEF Dispatches
<1>6. \A j \in Slots : InPhase(j, "Runnable")' => j # t /\ waited'[j] <= N - Distance(t, j)
  <2> SUFFICES ASSUME NEW j \in Slots, InPhase(j, "Runnable")'
               PROVE  j # t /\ waited'[j] <= N - Distance(t, j)
    OBVIOUS
  <2>1. j # t
    BY DEF InPhase, Dispatches
  <2>2. CASE InPhase(j, "Runnable")
    BY <1>1, <1>5, <2>1, <2>2
  <2>3. CASE ~InPhase(j, "Runnable")
    BY <1>1, <2>1, <2>3, DistanceRange, SlotsAssumption
  <2> QED
    BY <2>1, <2>2, <2>3
<1>7. WaitBound'
  <2> SUFFICES ASSUME NEW c \in Slots, NEW i \in Slots,
                      InPhase(c, "Running")', InPhase(i, "Runnable")'
               PROVE  waited'[i] <= N - Distance(c, i)
    BY DEF WaitBound, Distance, Slots
  <2>1. c = t
    BY DEF InPhase, Dispatches
  <2> QED
    BY <1>6, <2>1
<1>8. current' # PID0
  BY OccupiedHandle DEF Dispatches
<1>9. BoundedBypass'
  <2> SUFFICES ASSUME NEW i \in Slots PROVE waited'[i] < N
    BY DEF BoundedBypass, Slots
  <2>1. CASE i # t /\ InPhase(i, "Runnable")
    BY <1>1, <1>2, <1>5, <2>1, DistanceRange, SlotsAssumption
  <2>2. CASE ~(i # t /\ InPhase(i, "Runnable"))
    BY <1>1, <2>2, SlotsAssumption
  <2> QED
    BY <2>1, <2>2
<1> QED
  BY <1>3, <1>4, <1>7, <1>8, <1>9 DEF SchedInv, Pid0Quiet

\* A step that dispatches no one: nobody starts Running or stops being
\* Runnable, and PID0 does not become current.
Quiet ==
    /\ UNCHANGED waited
    /\ current' = PID0 => current = PID0
    /\ \A i \in Slots : /\ InPhase(i, "Running")' => InPhase(i, "Running")
                        /\ InPhase(i, "Runnable") => InPhase(i, "Runnable")'

\* A quiet step preserves the scheduling invariant.
LEMMA QuietKeepsSched ==
    ASSUME TypeInv, SchedInv, Quiet
    PROVE  SchedInv'
<1>1. OneRunning'
  BY DEF SchedInv, OneRunning, Quiet, Slots
<1>2. FreshUnlessRunnable'
  BY DEF SchedInv, FreshUnlessRunnable, Quiet, Slots
<1>3. WaitBound'
  <2> SUFFICES ASSUME NEW c \in Slots, NEW i \in Slots,
                      InPhase(c, "Running")', InPhase(i, "Runnable")'
               PROVE  waited'[i] <= N - Distance(c, i)
    BY DEF WaitBound, Distance, Slots
  <2>1. InPhase(c, "Running") /\ waited' = waited
    BY DEF Quiet
  <2>2. CASE InPhase(i, "Runnable")
    BY <2>1, <2>2 DEF SchedInv, WaitBound
  <2>3. CASE ~InPhase(i, "Runnable")
    BY <2>1, <2>3, DistanceRange, SlotsAssumption DEF SchedInv, FreshUnlessRunnable
  <2> QED
    BY <2>2, <2>3
<1>4. Pid0Quiet'
  BY DEF SchedInv, Pid0Quiet, NoneRunning, Quiet, Slots
<1>5. BoundedBypass'
  BY DEF SchedInv, BoundedBypass, Quiet, Slots
<1> QED
  BY <1>1, <1>2, <1>3, <1>4, <1>5 DEF SchedInv

LEMMA InitSched == Init => SchedInv
BY SlotsAssumption
   DEF Init, SchedInv, OneRunning, FreshUnlessRunnable, WaitBound, Pid0Quiet,
       NoneRunning, BoundedBypass, InPhase, EmptySlot

\* Installing a process in a free slot is a quiet step.
LEMMA InstallQuiet ==
    ASSUME TypeInv, NEW i \in Slots, NEW r, r.phase = "Runnable",
           ~slots[i].occupied,
           slots' = [slots EXCEPT ![i] = r], UNCHANGED <<current, waited>>
    PROVE  Quiet
<1>1. slots'[i] = r /\ \A j \in Slots \ {i} : slots'[j] = slots[j]
  BY DEF TypeInv, TypeOK
<1> QED
  BY <1>1 DEF Quiet, InPhase

\* Every function of the process table preserves the scheduling invariant.
LEMMA NextSched == TypeInv /\ TypeInv' /\ SchedInv /\ [Next]_vars => SchedInv'
<1> SUFFICES ASSUME TypeInv, TypeInv', SchedInv, [Next]_vars PROVE SchedInv'
  OBVIOUS
<1>0. OneRunning
  BY DEF SchedInv
<1>1. ASSUME NEW l \in Launches, RegisterInit(l) PROVE SchedInv'
  <2>1. PICK i \in Slots :
          /\ Lowest(FreeSlots, i)
          /\ slots' = [slots EXCEPT ![i] =
                NewSlot(slots[i].generation, INIT_PID, NO_PID, l, 0)]
    BY <1>1 DEF RegisterInit
  <2>2. ~slots[i].occupied
    BY <2>1 DEF Lowest, FreeSlots
  <2>3. NewSlot(slots[i].generation, INIT_PID, NO_PID, l, 0).phase = "Runnable"
    BY DEF NewSlot
  <2> QED
    BY <1>1, <2>1, <2>2, <2>3, InstallQuiet, QuietKeepsSched DEF RegisterInit
<1>2. ASSUME NEW p \in 1 .. MaxPid, NEW l \in Launches, CommitChild(p, l)
      PROVE  SchedInv'
  <2>1. PICK pid \in 2 .. MaxPid, i \in Slots :
          /\ Lowest(FreeSlots, i)
          /\ slots' = [slots EXCEPT ![i] =
                NewSlot(slots[i].generation + 1, pid, p, l, scheduler_epoch)]
    BY <1>2 DEF CommitChild
  <2>2. ~slots[i].occupied
    BY <2>1 DEF Lowest, FreeSlots
  <2>3. NewSlot(slots[i].generation + 1, pid, p, l, scheduler_epoch).phase = "Runnable"
    BY DEF NewSlot
  <2> QED
    BY <1>2, <2>1, <2>2, <2>3, InstallQuiet, QuietKeepsSched DEF CommitChild
<1>3. ASSUME NEW p \in 1 .. MaxPid, CommitChildNoSlot(p) PROVE SchedInv'
  <2>1. Quiet
    BY <1>3 DEF CommitChildNoSlot, Quiet, InPhase
  <2> QED
    BY <2>1, QuietKeepsSched
<1>4. ASSUME NEW p \in 0 .. MaxPid, NEW h \in Handles, ReapChild(p, h)
      PROVE  SchedInv'
  <2>1. PICK i \in Slots :
          /\ slots[i].phase = "Zombie"
          /\ slots' = [slots EXCEPT ![i] =
                EmptySlot(ReapedGeneration(slots[i].generation))]
    BY <1>4 DEF ReapChild
  <2>2. /\ slots'[i] = EmptySlot(ReapedGeneration(slots[i].generation))
        /\ \A j \in Slots \ {i} : slots'[j] = slots[j]
    BY <2>1 DEF TypeInv, TypeOK
  <2>3. Quiet
    BY <1>4, <2>1, <2>2 DEF ReapChild, Quiet, InPhase, EmptySlot
  <2> QED
    BY <2>3, QuietKeepsSched
<1>5. ASSUME NEW h \in Handles, MarkRunning(h) PROVE SchedInv'
  BY <1>5, MarkRunningDispatches, DispatchKeepsSched
<1>6. ASSUME NEW s \in Contexts, ResumeCurrent(s) PROVE SchedInv'
  <2>1. PICK c \in Slots : slots' = [slots EXCEPT ![c].context = s]
    BY <1>6 DEF ResumeCurrent
  <2>2. \A j \in Slots : /\ slots'[j].phase = slots[j].phase
                         /\ slots'[j].occupied = slots[j].occupied
    BY <2>1 DEF TypeInv, TypeOK, SlotRecords
  <2>3. Quiet
    BY <1>6, <2>2 DEF ResumeCurrent, Quiet, InPhase
  <2> QED
    BY <2>3, QuietKeepsSched
<1>7. ASSUME NEW s \in Contexts, ScheduleYield(s) PROVE SchedInv'
  BY <1>0, <1>7, SwitchDispatches, DispatchKeepsSched DEF ScheduleYield
<1>8. ASSUME NEW s \in Contexts, NEW h \in Handles, NEW e \in 0 .. MaxEpoch,
             SchedulePreempt(s, h, e)
      PROVE  SchedInv'
  BY <1>0, <1>8, SwitchDispatches, DispatchKeepsSched DEF SchedulePreempt
<1>9. ASSUME NEW x \in Codes, ScheduleExit(x) PROVE SchedInv'
  <2>1. CASE \E t \in Slots : Dispatches(t)
    BY <2>1, DispatchKeepsSched
  <2>2. CASE /\ KeepsIdentity
             /\ current' = PID0
             /\ RunnableSlots = {}
             /\ \A j \in Slots : /\ slots'[j].phase # "Running"
                                 /\ slots'[j].phase # "Runnable"
             /\ UNCHANGED waited
    <3>1. \A j \in Slots : waited'[j] = 0
      BY <2>2 DEF SchedInv, FreshUnlessRunnable, RunnableSlots
    <3>2. \A j \in Slots : ~InPhase(j, "Running")' /\ ~InPhase(j, "Runnable")'
      BY <2>2 DEF InPhase
    <3> QED
      BY <3>1, <3>2, SlotsAssumption
         DEF SchedInv, OneRunning, FreshUnlessRunnable, WaitBound, Pid0Quiet,
             NoneRunning, BoundedBypass, Slots
  <2> QED
    BY <1>0, <1>9, <2>1, <2>2, ExitDispatches
<1>10. ASSUME NEW d \in {held, last}, ScheduleFromPid0(d) PROVE SchedInv'
  <2>1. CASE UNCHANGED <<slots, current, waited>>
    <3>1. Quiet
      BY <2>1 DEF Quiet, InPhase
    <3> QED
      BY <3>1, QuietKeepsSched
  <2> QED
    BY <1>10, <2>1, FromPid0Dispatches, DispatchKeepsSched
<1>11. ASSUME NEW h \in Handles, MarkRunnable(h) PROVE SchedInv'
  <2>1. PICK i \in Slots : slots' = [slots EXCEPT ![i].phase = "Runnable"]
    BY <1>11 DEF MarkRunnable
  <2>2. \A j \in Slots :
          /\ slots'[j].phase = IF j = i THEN "Runnable" ELSE slots[j].phase
          /\ slots'[j].occupied = slots[j].occupied
    BY <2>1 DEF TypeInv, TypeOK, SlotRecords
  <2>3. Quiet
    BY <1>11, <2>2 DEF MarkRunnable, Quiet, InPhase
  <2> QED
    BY <2>3, QuietKeepsSched
<1>12. ASSUME NEW h \in Handles, MarkBlocked(h) PROVE SchedInv'
  <2>1. PICK i \in Slots : /\ slots[i].phase = "Running"
                           /\ slots' = [slots EXCEPT ![i].phase = "Blocked"]
    BY <1>12 DEF MarkBlocked
  <2>2. \A j \in Slots :
          /\ slots'[j].phase = IF j = i THEN "Blocked" ELSE slots[j].phase
          /\ slots'[j].occupied = slots[j].occupied
    BY <2>1 DEF TypeInv, TypeOK, SlotRecords
  <2>3. Quiet
    BY <1>12, <2>1, <2>2 DEF MarkBlocked, Quiet, InPhase
  <2> QED
    BY <2>3, QuietKeepsSched
<1>13. ASSUME NEW h \in Handles, PublishCheck(h) PROVE SchedInv'
  <2>1. Quiet
    BY <1>13 DEF PublishCheck, Quiet, InPhase
  <2> QED
    BY <2>1, QuietKeepsSched
<1>14. CASE PublishStore
  <2>1. Quiet
    BY <1>14 DEF PublishStore, Quiet, InPhase
  <2> QED
    BY <2>1, QuietKeepsSched
<1>15. CASE Keep \/ UNCHANGED vars
  <2>1. Quiet
    BY <1>15 DEF Keep, vars, Quiet, InPhase
  <2> QED
    BY <2>1, QuietKeepsSched
<1> QED
  BY <1>1, <1>2, <1>3, <1>4, <1>5, <1>6, <1>7, <1>8, <1>9, <1>10, <1>11,
     <1>12, <1>13, <1>14, <1>15
     DEF Next, DispatchNext

\* The scheduling invariant, for any number of slots.
THEOREM SchedulingInvariant == Spec => []SchedInv
BY TypeCorrect, InitSched, NextSched, PTL DEF Spec

\* At most one process is Running, whatever order the lifecycle functions are
\* called in, for any number of slots.
THEOREM OneProcessRuns == Spec => []OneRunning
<1>1. SchedInv => OneRunning
  BY DEF SchedInv
<1> QED
  BY <1>1, SchedulingInvariant, PTL

\* No starvation in the round-robin search: a Runnable process is passed by
\* fewer than N dispatches.
THEOREM NobodyStarves == Spec => []BoundedBypass
<1>1. SchedInv => BoundedBypass
  BY DEF SchedInv
<1> QED
  BY <1>1, SchedulingInvariant, PTL

-----------------------------------------------------------------------------
(* Identity: PIDs are unique, and superseded decisions stay dead.          *)

\* Only register_init, commit_child and reap_child change who owns a slot.
LEMMA OthersKeepIdentity ==
    ASSUME TypeInv, OneRunning, [Next]_vars,
           ~ \E l \in Launches : RegisterInit(l),
           ~ \E p \in 1 .. MaxPid, l \in Launches : CommitChild(p, l),
           ~ \E p \in 0 .. MaxPid, h \in Handles : ReapChild(p, h)
    PROVE  KeepsIdentity
<1>1. UNCHANGED slots => KeepsIdentity
  BY DEF KeepsIdentity
<1>2. (\E t \in Slots : Dispatches(t)) => KeepsIdentity
  BY DEF Dispatches
<1>3. ASSUME NEW s \in Contexts, ResumeCurrent(s) PROVE KeepsIdentity
  BY <1>3 DEF ResumeCurrent, KeepsIdentity, TypeInv, TypeOK, SlotRecords
<1>4. ASSUME NEW h \in Handles, MarkRunnable(h) \/ MarkBlocked(h) PROVE KeepsIdentity
  <2>1. PICK i \in Slots, ph \in {"Runnable", "Blocked"} :
          slots' = [slots EXCEPT ![i].phase = ph]
    BY <1>4 DEF MarkRunnable, MarkBlocked
  <2> QED
    BY <2>1 DEF KeepsIdentity, TypeInv, TypeOK, SlotRecords
<1>5. ASSUME NEW x \in Codes, ScheduleExit(x) PROVE KeepsIdentity
  BY <1>2, <1>5, ExitDispatches
<1>6. ASSUME NEW d \in {held, last}, ScheduleFromPid0(d) PROVE KeepsIdentity
  BY <1>1, <1>2, <1>6, FromPid0Dispatches
<1>7. ASSUME NEW s \in Contexts, ScheduleYield(s) PROVE KeepsIdentity
  BY <1>2, <1>7, SwitchDispatches DEF ScheduleYield
<1>8. ASSUME NEW s \in Contexts, NEW h \in Handles, NEW e \in 0 .. MaxEpoch,
             SchedulePreempt(s, h, e)
      PROVE  KeepsIdentity
  BY <1>2, <1>8, SwitchDispatches DEF SchedulePreempt
<1>9. ASSUME NEW h \in Handles, MarkRunning(h) PROVE KeepsIdentity
  BY <1>2, <1>9, MarkRunningDispatches
<1>10. ASSUME NEW p \in 1 .. MaxPid, CommitChildNoSlot(p) PROVE KeepsIdentity
  BY <1>1, <1>10 DEF CommitChildNoSlot
<1>11. ASSUME NEW h \in Handles, PublishCheck(h) PROVE KeepsIdentity
  BY <1>1, <1>11 DEF PublishCheck
<1>12. PublishStore \/ Keep \/ UNCHANGED vars => KeepsIdentity
  BY <1>1 DEF PublishStore, Keep, vars
<1> QED
  BY <1>3, <1>4, <1>5, <1>6, <1>7, <1>8, <1>9, <1>10, <1>11, <1>12
     DEF Next, DispatchNext

\* PIDs stay unique through installation, although the allocator wraps.
LEMMA NextUniquePids ==
    TypeInv /\ OneRunning /\ UniquePids /\ [Next]_vars => UniquePids'
<1> SUFFICES ASSUME TypeInv, OneRunning, UniquePids, [Next]_vars PROVE UniquePids'
  OBVIOUS
<1>1. ASSUME NEW i \in Slots, NEW r, ~PidInUse(r.pid), slots' = [slots EXCEPT ![i] = r]
      PROVE  UniquePids'
  <2>1. slots'[i] = r /\ \A j \in Slots \ {i} : slots'[j] = slots[j]
    BY <1>1 DEF TypeInv, TypeOK
  <2> QED
    BY <1>1, <2>1 DEF UniquePids, PidInUse, Slots
<1>2. ASSUME NEW l \in Launches, RegisterInit(l) PROVE UniquePids'
  <2>1. PICK i \in Slots : slots' = [slots EXCEPT ![i] =
                NewSlot(slots[i].generation, INIT_PID, NO_PID, l, 0)]
    BY <1>2 DEF RegisterInit
  <2>2. NewSlot(slots[i].generation, INIT_PID, NO_PID, l, 0).pid = INIT_PID
    BY DEF NewSlot
  <2>3. ~PidInUse(INIT_PID)
    BY <1>2 DEF RegisterInit
  <2> QED
    BY <1>1, <2>1, <2>2, <2>3
<1>3. ASSUME NEW p \in 1 .. MaxPid, NEW l \in Launches, CommitChild(p, l)
      PROVE  UniquePids'
  <2>1. PICK pid \in 2 .. MaxPid, i \in Slots :
          /\ AllocatesPid(pid)
          /\ slots' = [slots EXCEPT ![i] =
                NewSlot(slots[i].generation + 1, pid, p, l, scheduler_epoch)]
    BY <1>3 DEF CommitChild
  <2>2. NewSlot(slots[i].generation + 1, pid, p, l, scheduler_epoch).pid = pid
    BY DEF NewSlot
  <2>3. ~PidInUse(pid)
    BY <2>1 DEF AllocatesPid
  <2> QED
    BY <1>1, <2>1, <2>2, <2>3
<1>4. ASSUME NEW p \in 0 .. MaxPid, NEW h \in Handles, ReapChild(p, h)
      PROVE  UniquePids'
  <2>1. PICK i \in Slots : slots' = [slots EXCEPT ![i] =
                EmptySlot(ReapedGeneration(slots[i].generation))]
    BY <1>4 DEF ReapChild
  <2>2. /\ ~slots'[i].occupied
        /\ \A j \in Slots \ {i} : slots'[j] = slots[j]
    BY <2>1 DEF TypeInv, TypeOK, EmptySlot
  <2> QED
    BY <2>2 DEF UniquePids, Slots
<1>5. KeepsIdentity => UniquePids'
  BY DEF KeepsIdentity, UniquePids, Slots
<1> QED
  BY <1>2, <1>3, <1>4, <1>5, OthersKeepIdentity

\* No two installed processes ever share a PID, for any table size and any PID
\* width that leaves allocate_pid a free candidate.
THEOREM PidsUnique == Spec => []UniquePids
<1>1. Init => UniquePids
  BY DEF Init, UniquePids, EmptySlot
<1> QED
  BY <1>1, TypeCorrect, OneProcessRuns, NextUniquePids, PTL DEF Spec

\* Every decision issued carries a fresh epoch.
LEMMA NextAuthority ==
    TypeInv /\ AuthorityInv /\ [Next]_vars => AuthorityInv'
<1> SUFFICES ASSUME TypeInv, AuthorityInv, [Next]_vars PROVE AuthorityInv'
  OBVIOUS
<1>0. /\ scheduler_epoch \in Nat /\ last.epoch \in Nat /\ held.epoch \in Nat
  BY EpochAssumption DEF TypeInv, TypeOK, Decisions
<1>1. ASSUME NEW d, d.epoch = NextEpoch, Issue(d), AdvancesEpoch PROVE AuthorityInv'
  BY <1>0, <1>1 DEF AuthorityInv, Issue, AdvancesEpoch, NextEpoch
<1>2. \A i, u : Scheduled(i, u, NextEpoch).epoch = NextEpoch
  BY DEF Scheduled
<1>3. Pid0Decision(NextEpoch).epoch = NextEpoch
  BY DEF Pid0Decision
<1>4. UNCHANGED <<last, held, scheduler_epoch>> => AuthorityInv'
  BY DEF AuthorityInv
<1>5. ASSUME NEW c \in Slots, NEW s, SwitchFrom(c, s), AdvancesEpoch PROVE AuthorityInv'
  BY <1>1, <1>2, <1>5 DEF SwitchFrom
<1>6. ASSUME NEW x \in Codes, ScheduleExit(x) PROVE AuthorityInv'
  BY <1>1, <1>2, <1>3, <1>6 DEF ScheduleExit
<1>7. ASSUME NEW d \in {held, last}, ScheduleFromPid0(d) PROVE AuthorityInv'
  BY <1>1, <1>2, <1>3, <1>7 DEF ScheduleFromPid0
<1>8. ASSUME NEW s \in Contexts, ResumeCurrent(s) PROVE AuthorityInv'
  BY <1>1, <1>2, <1>8 DEF ResumeCurrent
<1>9. ASSUME NEW h \in Handles, MarkRunning(h) PROVE AuthorityInv'
  BY <1>0, <1>9 DEF MarkRunning, AdvancesEpoch, NextEpoch, AuthorityInv
<1>10. CASE Keep
  BY <1>0, <1>10 DEF Keep, AuthorityInv
<1>11. ASSUME NEW s \in Contexts, ScheduleYield(s) PROVE AuthorityInv'
  BY <1>5, <1>11 DEF ScheduleYield
<1>12. ASSUME NEW s \in Contexts, NEW h \in Handles, NEW e \in 0 .. MaxEpoch,
              SchedulePreempt(s, h, e)
       PROVE  AuthorityInv'
  BY <1>5, <1>12 DEF SchedulePreempt
<1> QED
  BY <1>4, <1>6, <1>7, <1>8, <1>9, <1>10, <1>11, <1>12
     DEF Next, DispatchNext, vars, RegisterInit, CommitChild, CommitChildNoSlot,
         ReapChild, MarkRunnable, MarkBlocked, PublishCheck, PublishStore

\* authorize_user_return and validate_pid0_authority honour no decision but
\* the last one issued, however long a caller keeps an older one.
THEOREM SupersededDecisionsStayDead == Spec => []SupersededNeverAuthorizes
<1>1. Init => AuthorityInv
  BY DEF Init, AuthorityInv, Pid0Decision
<1>2. TypeInv /\ AuthorityInv => SupersededNeverAuthorizes
  BY EpochAssumption, SMTT(30)
     DEF AuthorityInv, SupersededNeverAuthorizes, AuthorizesReturn, AuthorizesPid0,
         TypeInv, TypeOK, Decisions
<1> QED
  BY <1>1, <1>2, TypeCorrect, NextAuthority, PTL DEF Spec

-----------------------------------------------------------------------------
(* What a step may do to a slot.                                           *)

\* The slot was free; or it was a Zombie and is emptied; or it was alive and
\* either its registers are left alone or it is the caller's own.
MayChange(i) ==
    \/ slots'[i] = slots[i]
    \/ ~slots[i].occupied
    \/ ~slots'[i].occupied
    \/ /\ slots[i].phase # "Zombie"
       /\ slots'[i].context = slots[i].context \/ IsCaller(i)

LEMMA StepChanges ==
    ASSUME TypeInv, [Next]_vars, NEW i \in Slots
    PROVE  MayChange(i)
<1>0. UNCHANGED slots => MayChange(i)
  BY DEF MayChange
<1>1. ASSUME NEW k \in Slots, NEW r, ~slots[k].occupied \/ ~r.occupied,
             slots' = [slots EXCEPT ![k] = r]
      PROVE  MayChange(i)
  BY <1>1 DEF MayChange, TypeInv, TypeOK
<1>2. ASSUME NEW k \in Slots, NEW ph, slots[k].phase # "Zombie",
             slots' = [slots EXCEPT ![k].phase = ph]
      PROVE  MayChange(i)
  BY <1>2 DEF MayChange, TypeInv, TypeOK, SlotRecords
<1>3. ASSUME NEW l \in Launches, RegisterInit(l) PROVE MayChange(i)
  <2>1. PICK k \in Slots :
          /\ Lowest(FreeSlots, k)
          /\ slots' = [slots EXCEPT ![k] =
                NewSlot(slots[k].generation, INIT_PID, NO_PID, l, 0)]
    BY <1>3 DEF RegisterInit
  <2>2. ~slots[k].occupied
    BY <2>1 DEF Lowest, FreeSlots
  <2> QED
    BY <1>1, <2>1, <2>2
<1>4. ASSUME NEW p \in 1 .. MaxPid, NEW l \in Launches, CommitChild(p, l)
      PROVE  MayChange(i)
  <2>1. PICK pid \in 2 .. MaxPid, k \in Slots :
          /\ Lowest(FreeSlots, k)
          /\ slots' = [slots EXCEPT ![k] =
                NewSlot(slots[k].generation + 1, pid, p, l, scheduler_epoch)]
    BY <1>4 DEF CommitChild
  <2>2. ~slots[k].occupied
    BY <2>1 DEF Lowest, FreeSlots
  <2> QED
    BY <1>1, <2>1, <2>2
<1>5. ASSUME NEW p \in 0 .. MaxPid, NEW h \in Handles, ReapChild(p, h)
      PROVE  MayChange(i)
  <2>1. PICK k \in Slots : slots' = [slots EXCEPT ![k] =
                EmptySlot(ReapedGeneration(slots[k].generation))]
    BY <1>5 DEF ReapChild
  <2>2. ~EmptySlot(ReapedGeneration(slots[k].generation)).occupied
    BY DEF EmptySlot
  <2> QED
    BY <1>1, <2>1, <2>2
<1>6. ASSUME NEW h \in Handles, MarkRunning(h) \/ MarkRunnable(h) \/ MarkBlocked(h)
      PROVE  MayChange(i)
  <2>1. PICK k \in Slots, ph \in {"Running", "Runnable", "Blocked"} :
          slots[k].phase # "Zombie" /\ slots' = [slots EXCEPT ![k].phase = ph]
    BY <1>6 DEF MarkRunning, MarkRunnable, MarkBlocked
  <2> QED
    BY <1>2, <2>1
<1>7. ASSUME NEW s \in Contexts, ResumeCurrent(s) PROVE MayChange(i)
  BY <1>7 DEF ResumeCurrent, IsCaller, MayChange, TypeInv, TypeOK, SlotRecords
<1>8. ASSUME NEW c \in Slots, NEW s, IsCaller(c), SwitchFrom(c, s) PROVE MayChange(i)
  <2>1. PICK t \in Slots :
        /\ Successor(c, t)
        /\ slots' = [slots EXCEPT ![c].context = s,
                                  ![c].phase = "Runnable",
                                  ![t].phase = "Running"]
    BY <1>8 DEF SwitchFrom
  <2>2. slots[c].phase # "Zombie" /\ slots[t].phase # "Zombie"
    BY <1>8, <2>1 DEF Successor, NextRunnable, RunnableSlots, InPhase, IsCaller
  <2>3. i \notin {c, t} => slots'[i] = slots[i]
    BY <2>1 DEF TypeInv, TypeOK
  <2>4. i # c => slots'[i].context = slots[i].context
    BY <2>1 DEF TypeInv, TypeOK, SlotRecords
  <2> QED
    BY <1>8, <2>2, <2>3, <2>4 DEF MayChange
<1>9. ASSUME NEW x \in Codes, ScheduleExit(x) PROVE MayChange(i)
  <2>1. PICK c \in Slots, t \in Slots :
          /\ IsCaller(c)
          /\ \/ /\ NextRunnable(c, t)
                /\ slots' = [slots EXCEPT ![c] = Exited(slots[c], x, NextEpoch),
                                          ![t].phase = "Running"]
             \/ slots' = [slots EXCEPT ![c] = Exited(slots[c], x, NextEpoch)]
    BY <1>9 DEF ScheduleExit
  <2>2. slots[c].phase # "Zombie"
    BY <2>1 DEF IsCaller
  <2>3. i = c => MayChange(i)
    BY <2>1, <2>2 DEF MayChange
  <2>4. i # c => \/ slots'[i] = slots[i]
                 \/ /\ slots[i].phase = "Runnable"
                    /\ slots'[i].context = slots[i].context
    BY <2>1 DEF NextRunnable, RunnableSlots, InPhase, TypeInv, TypeOK, SlotRecords
  <2> QED
    BY <2>3, <2>4 DEF MayChange
<1>10. ASSUME NEW d \in {held, last}, ScheduleFromPid0(d) PROVE MayChange(i)
  <2>1. CASE \E t \in Slots : /\ Lowest(RunnableSlots, t)
                              /\ slots' = [slots EXCEPT ![t].phase = "Running"]
    <3>1. PICK t \in Slots : /\ Lowest(RunnableSlots, t)
                             /\ slots' = [slots EXCEPT ![t].phase = "Running"]
      BY <2>1
    <3>2. slots[t].phase # "Zombie"
      BY <3>1 DEF Lowest, RunnableSlots, InPhase
    <3> QED
      BY <1>2, <3>1, <3>2
  <2> QED
    BY <1>0, <1>10, <2>1 DEF ScheduleFromPid0
<1>11. ASSUME NEW s \in Contexts, ScheduleYield(s) PROVE MayChange(i)
  BY <1>8, <1>11 DEF ScheduleYield
<1>12. ASSUME NEW s \in Contexts, NEW h \in Handles, NEW e \in 0 .. MaxEpoch,
              SchedulePreempt(s, h, e)
       PROVE  MayChange(i)
  BY <1>8, <1>12 DEF SchedulePreempt
<1> QED
  BY <1>0, <1>3, <1>4, <1>5, <1>6, <1>7, <1>9, <1>10, <1>11, <1>12
     DEF Next, DispatchNext, vars, CommitChildNoSlot, PublishCheck, PublishStore,
         Keep

\* A Zombie's exit status is immutable until it is reaped.
THEOREM ZombieStatusKept == Spec => ZombieKeepsStatus
<1>1. TypeInv /\ [Next]_vars =>
        [\A i \in Slots : InPhase(i, "Zombie") => \/ slots'[i] = slots[i]
                                                \/ ~slots'[i].occupied]_vars
  BY StepChanges DEF MayChange, InPhase
<1> QED
  BY <1>1, TypeCorrect, PTL DEF Spec, ZombieKeepsStatus

\* The saved registers of a process change only when it is the caller.
THEOREM ContextsPrivate == Spec => ContextPrivate
<1>1. TypeInv /\ [Next]_vars =>
        [\A i \in Slots : /\ slots[i].occupied /\ slots'[i].occupied
                          /\ slots'[i].context # slots[i].context
                          => IsCaller(i)]_vars
  BY StepChanges DEF MayChange
<1> QED
  BY <1>1, TypeCorrect, PTL DEF Spec, ContextPrivate

-----------------------------------------------------------------------------
(* CURRENT_EXECUTION agrees with the table on the paths that use it.       *)

LEMMA DispatchCurrent ==
    ASSUME TypeInv, SchedInv, CurrentIsRunning, [DispatchNext]_vars
    PROVE  current' # PID0 => \E i \in Slots : IsCaller(i)'
<1>0. OneRunning
  BY DEF SchedInv
<1>1. ASSUME NEW t \in Slots, Dispatches(t) PROVE IsCaller(t)'
  <2>1. HandleOf(t)' = HandleOf(t) /\ slots'[t].occupied
    BY <1>1 DEF Dispatches, KeepsIdentity, HandleOf
  <2> QED
    BY <1>1, <2>1, OccupiedHandle, SMTT(30) DEF Dispatches, IsCaller, Names
<1>2. ASSUME NEW c \in Slots, IsCaller(c), UNCHANGED current,
             /\ slots'[c].occupied = slots[c].occupied
             /\ slots'[c].pid = slots[c].pid
             /\ slots'[c].generation = slots[c].generation
             /\ slots'[c].phase = slots[c].phase
      PROVE  IsCaller(c)'
  BY <1>2 DEF IsCaller, Names, HandleOf
<1>3. ASSUME NEW k \in Slots, NEW r, ~InPhase(k, "Running"),
             slots' = [slots EXCEPT ![k] = r], UNCHANGED current
      PROVE  current' # PID0 => \E i \in Slots : IsCaller(i)'
  <2>1. \A c \in Slots : IsCaller(c) => c # k /\ slots'[c] = slots[c]
    BY <1>3 DEF IsCaller, Names, InPhase, TypeInv, TypeOK
  <2>2. \A c \in Slots : IsCaller(c) => IsCaller(c)'
    BY <1>2, <1>3, <2>1
  <2> QED
    BY <1>3, <2>2 DEF CurrentIsRunning
<1>4. ASSUME NEW l \in Launches, RegisterInit(l)
      PROVE  current' # PID0 => \E i \in Slots : IsCaller(i)'
  <2>1. PICK k \in Slots :
          /\ Lowest(FreeSlots, k)
          /\ slots' = [slots EXCEPT ![k] =
                NewSlot(slots[k].generation, INIT_PID, NO_PID, l, 0)]
    BY <1>4 DEF RegisterInit
  <2>2. ~InPhase(k, "Running")
    BY <2>1 DEF Lowest, FreeSlots, InPhase
  <2> QED
    BY <1>3, <1>4, <2>1, <2>2 DEF RegisterInit
<1>5. ASSUME NEW p \in 1 .. MaxPid, NEW l \in Launches, CommitChild(p, l)
      PROVE  current' # PID0 => \E i \in Slots : IsCaller(i)'
  <2>1. PICK pid \in 2 .. MaxPid, k \in Slots :
          /\ Lowest(FreeSlots, k)
          /\ slots' = [slots EXCEPT ![k] =
                NewSlot(slots[k].generation + 1, pid, p, l, scheduler_epoch)]
    BY <1>5 DEF CommitChild
  <2>2. ~InPhase(k, "Running")
    BY <2>1 DEF Lowest, FreeSlots, InPhase
  <2> QED
    BY <1>3, <1>5, <2>1, <2>2 DEF CommitChild
<1>6. ASSUME NEW p \in 0 .. MaxPid, NEW h \in Handles, ReapChild(p, h)
      PROVE  current' # PID0 => \E i \in Slots : IsCaller(i)'
  <2>1. PICK k \in Slots :
          /\ slots[k].phase = "Zombie"
          /\ slots' = [slots EXCEPT ![k] =
                EmptySlot(ReapedGeneration(slots[k].generation))]
    BY <1>6 DEF ReapChild
  <2>2. ~InPhase(k, "Running")
    BY <2>1 DEF InPhase
  <2> QED
    BY <1>3, <1>6, <2>1, <2>2 DEF ReapChild
<1>7. ASSUME NEW s \in Contexts, ResumeCurrent(s)
      PROVE  current' # PID0 => \E i \in Slots : IsCaller(i)'
  <2>1. PICK c \in Slots : IsCaller(c) /\ slots' = [slots EXCEPT ![c].context = s]
    BY <1>7 DEF ResumeCurrent
  <2>2. IsCaller(c)'
    BY <1>2, <1>7, <2>1 DEF ResumeCurrent, TypeInv, TypeOK, SlotRecords
  <2> QED
    BY <2>2
<1>8. UNCHANGED <<slots, current>> =>
        (current' # PID0 => \E i \in Slots : IsCaller(i)')
  BY DEF CurrentIsRunning, IsCaller, Names, HandleOf
<1>9. ASSUME NEW x \in Codes, ScheduleExit(x)
      PROVE  current' # PID0 => \E i \in Slots : IsCaller(i)'
  BY <1>0, <1>1, <1>9, ExitDispatches
<1>10. ASSUME NEW d \in {held, last}, ScheduleFromPid0(d)
       PROVE  current' # PID0 => \E i \in Slots : IsCaller(i)'
  BY <1>1, <1>8, <1>10, FromPid0Dispatches
<1>11. ASSUME NEW s \in Contexts, ScheduleYield(s)
       PROVE  \E i \in Slots : IsCaller(i)'
  BY <1>0, <1>1, <1>11, SwitchDispatches DEF ScheduleYield
<1>12. ASSUME NEW s \in Contexts, NEW h \in Handles, NEW e \in 0 .. MaxEpoch,
              SchedulePreempt(s, h, e)
       PROVE  \E i \in Slots : IsCaller(i)'
  BY <1>0, <1>1, <1>12, SwitchDispatches DEF SchedulePreempt
<1>13. ASSUME NEW h \in Handles, MarkRunning(h) PROVE \E i \in Slots : IsCaller(i)'
  BY <1>1, <1>13, MarkRunningDispatches
<1> QED
  BY <1>4, <1>5, <1>6, <1>7, <1>8, <1>9, <1>10, <1>11, <1>12, <1>13
     DEF DispatchNext, vars, CommitChildNoSlot

\* On the boot and system-call paths CURRENT_EXECUTION always names the one
\* Running slot, or PID0 when nothing runs, for any number of slots.
THEOREM CurrentAgrees == DispatchSpec => []CurrentIsRunning
<1>1. [DispatchNext]_vars => [Next]_vars
  BY DEF Next
<1>2. DispatchSpec => Spec
  BY <1>1, PTL DEF DispatchSpec, Spec
<1>3. Init => CurrentIsRunning
  BY DEF Init, CurrentIsRunning, NoneRunning, InPhase, EmptySlot
<1>4. ASSUME TypeInv, SchedInv, SchedInv', CurrentIsRunning, [DispatchNext]_vars
      PROVE  CurrentIsRunning'
  BY <1>4, DispatchCurrent DEF CurrentIsRunning, SchedInv, Pid0Quiet
<1> QED
  BY <1>2, <1>3, <1>4, TypeCorrect, SchedulingInvariant, PTL DEF DispatchSpec

=============================================================================
