--------------------------- MODULE NexusDeferred ---------------------------
(***************************************************************************)
(* kernel/boulder/src/nexus_deferred.rs: the timer interrupt counts ticks  *)
(* for the Nexus matrix, and safe points outside interrupt context consume *)
(* them.  Producer and consumers share three atomics and no lock; every    *)
(* access of one of them is a step.  drive_once and the manifold updates   *)
(* that follow it touch none of this state.                                *)
(***************************************************************************)
EXTENDS Integers, FiniteSets

CONSTANTS
    Runners,        \* contexts that may call run_deferred at the same time
    Cap,            \* MAXIMUM_COALESCED_TICKS
    MaxRequests,    \* bound: how many timer interrupts are explored
    Passes          \* values of maximum_passes

ASSUME CapAssumption == Cap \in Nat \ {0}

ASSUME RequestsAssumption == MaxRequests \in Nat

ASSUME PassesAssumption == Passes \subseteq Nat

VARIABLES
    pending,        \* PENDING_TICKS
    latest,         \* LATEST_WALL_TICK
    running,        \* RUNNING
    totals,         \* TOTAL_REQUESTS, TOTAL_RUNS, TOTAL_COALESCED
    irq,            \* the handler: position, its wall tick, previous pending
    runner,         \* the calls of run_deferred in progress
    counted,        \* history: wall tick of the newest request in pending
    driven,         \* history: ticks handed to drive_once
    dropped         \* history: requests that the cap absorbed

vars == <<pending, latest, running, totals, irq, runner, counted, driven, dropped>>

IdleRunner == [pc |-> "idle", left |-> 0, taken |-> 0, newest |-> 0, wall |-> 0]

Init ==
    /\ pending = 0
    /\ latest = 0
    /\ running = FALSE
    /\ totals = [requests |-> 0, runs |-> 0, coalesced |-> 0]
    /\ irq = [pc |-> "off", tick |-> 0, previous |-> 0]
    /\ runner = [r \in Runners |-> IdleRunner]
    /\ counted = 0
    /\ driven = 0
    /\ dropped = 0

-----------------------------------------------------------------------------
(* request_from_irq                                                        *)
\* Mutant: the handler stores its sample only after it has counted the tick.
StoreLatestNotYet ==
    /\ irq.pc = "off"
    /\ irq.tick < MaxRequests
    /\ irq' = [irq EXCEPT !.pc = "update", !.tick = @ + 1]
    /\ latest' = irq.tick
    /\ UNCHANGED <<pending, running, totals, runner, counted, driven, dropped>>

\* The timer fires with a later counter sample; LATEST_WALL_TICK is stored.
StoreLatest ==
    /\ irq.pc = "off"
    /\ irq.tick < MaxRequests
    /\ irq' = [irq EXCEPT !.pc = "update", !.tick = @ + 1]
    /\ latest' = irq.tick + 1
    /\ UNCHANGED <<pending, running, totals, runner, counted, driven, dropped>>

Saturate(n) == IF n + 1 > Cap THEN Cap ELSE n + 1

UpdatePending ==
    /\ irq.pc = "update"
    /\ pending' = Saturate(pending)
    /\ irq' = [irq EXCEPT !.pc = "count", !.previous = pending]
    /\ counted' = irq.tick
    /\ dropped' = dropped + pending + 1 - pending'
    /\ UNCHANGED <<latest, running, totals, runner, driven>>

CountRequest ==
    /\ irq.pc = "count"
    /\ irq' = [irq EXCEPT !.pc = "off"]
    /\ totals' = [totals EXCEPT !.requests = @ + 1,
                                !.coalesced = IF irq.previous # 0 THEN @ + 1 ELSE @]
    /\ UNCHANGED <<pending, latest, running, runner, counted, driven, dropped>>

-----------------------------------------------------------------------------
(* run_deferred                                                            *)

\* maximum_passes = 0 and a failed compare_exchange return at once.
Enter(r, passes) ==
    /\ runner[r].pc = "idle"
    /\ passes # 0
    /\ ~running
    /\ running' = TRUE
    /\ runner' = [runner EXCEPT ![r].pc = "swap", ![r].left = passes]
    /\ UNCHANGED <<pending, latest, totals, irq, counted, driven, dropped>>

SwapPending(r) ==
    /\ runner[r].pc = "swap"
    /\ pending' = 0
    /\ runner' = [runner EXCEPT ![r].taken = pending,
                                ![r].newest = IF pending = 0 THEN 0 ELSE counted,
                                ![r].pc = IF pending = 0 THEN "leave" ELSE "load"]
    /\ UNCHANGED <<latest, running, totals, irq, counted, driven, dropped>>

\* Mutant: the count is cleared by a store after the load of the wall tick, so
\* ticks counted in between disappear.
LoadLatestClears(r) ==
    /\ runner[r].pc = "load"
    /\ runner' = [runner EXCEPT ![r].pc = "drive", ![r].wall = latest]
    /\ pending' = 0
    /\ UNCHANGED <<latest, running, totals, irq, counted, driven, dropped>>

LoadLatest(r) ==
    /\ runner[r].pc = "load"
    /\ runner' = [runner EXCEPT ![r].pc = "drive", ![r].wall = latest]
    /\ UNCHANGED <<pending, latest, running, totals, irq, counted, driven, dropped>>

\* drive_once(wall_tick, pending) and the manifold updates, then the loop test.
Drive(r) ==
    /\ runner[r].pc = "drive"
    /\ driven' = driven + runner[r].taken
    /\ totals' = [totals EXCEPT !.runs = @ + 1]
    /\ runner' = [runner EXCEPT
           ![r].taken = 0,
           ![r].left = @ - 1,
           ![r].pc = IF runner[r].left = 1 THEN "leave" ELSE "swap"]
    /\ UNCHANGED <<pending, latest, running, irq, counted, dropped>>

\* RUNNING is stored FALSE and the report is returned.
Leave(r) ==
    /\ runner[r].pc = "leave"
    /\ running' = FALSE
    /\ runner' = [runner EXCEPT ![r] = IdleRunner]
    /\ UNCHANGED <<pending, latest, totals, irq, counted, driven, dropped>>

RunnerStep(r) == SwapPending(r) \/ LoadLatest(r) \/ Drive(r) \/ Leave(r)

IrqStep == UpdatePending \/ CountRequest

Next ==
    \/ StoreLatest
    \/ IrqStep
    \/ \E r \in Runners, passes \in Passes : Enter(r, passes)
    \/ \E r \in Runners : RunnerStep(r)

\* An interrupt handler and a call of run_deferred are straight-line code that
\* nobody can suspend for ever.
Fairness == WF_vars(IrqStep) /\ \A r \in Runners : WF_vars(RunnerStep(r))

Spec == Init /\ [][Next]_vars /\ Fairness

-----------------------------------------------------------------------------
(* Properties                                                              *)

Labels == {"idle", "swap", "load", "drive", "leave"}

\* Every variable of the deferred tick queue holds a value of its type.
TypeOK ==
    /\ pending \in 0 .. Cap
    /\ latest \in Nat
    /\ running \in BOOLEAN
    /\ totals \in [requests : Nat, runs : Nat, coalesced : Nat]
    /\ irq \in [pc : {"off", "update", "count"}, tick : Nat, previous : Nat]
    /\ runner \in [Runners -> [pc : Labels, left : Nat, taken : Nat,
                               newest : Nat, wall : Nat]]
    /\ counted \in Nat
    /\ driven \in Nat
    /\ dropped \in Nat

\* At most one call of run_deferred is past its compare_exchange, so the
\* matrix is never driven by two contexts at once.
OneRunner ==
    \A r, q \in Runners : runner[r].pc # "idle" /\ runner[q].pc # "idle" => r = q

\* The request the handler has already added to pending but not yet counted.
Uncounted == IF irq.pc = "count" THEN 1 ELSE 0

Holding(r) == runner[r].pc \in {"load", "drive"}

\* No tick is lost or driven twice: every counted request has been driven, is
\* pending, is in a runner's hands, or was absorbed by the cap.
TicksConserved ==
    LET Accounted(taken) ==
            totals.requests + Uncounted = driven + pending + taken + dropped
    IN  /\ \A r \in Runners : Holding(r) => Accounted(runner[r].taken)
        /\ (\A r \in Runners : ~Holding(r)) => Accounted(0)

\* drive_once never runs with a wall tick older than a request it absorbs:
\* LATEST_WALL_TICK is stored before the request is counted and loaded after
\* the count is taken.
FreshWallTick == \A r \in Runners : runner[r].pc = "drive" => runner[r].wall >= runner[r].newest

\* RUNNING is always released again.
RunningReleased == running ~> ~running

=============================================================================
