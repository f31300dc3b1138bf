------------------------------ MODULE Services ------------------------------
(***************************************************************************)
(* What serves programs: the supervisor Push, the arbiter Gordian, the     *)
(* package manager Corinth with its compiler and its build queue, and      *)
(* the gateway to the Nexus.  The parts share no state; a behaviour runs   *)
(* one of them.                                                            *)
(***************************************************************************)
EXTENDS Integers, Sequences, FiniteSets, SequencesExt, Functions

CONSTANTS
    \* PushSupervisor
    Services,           \* INITIAL_SERVICES, in order
    PushDependencies,   \* ArachneMatrix: what each service requires
    PushCritical,       \* services whose exhaustion ends in recovery
    MaximumRestarts,    \* per service
    BackoffTicks,       \* per service
    DeadlockTicks,      \* DEADLOCK_TICKS
    MaximumMass,        \* 0xf, where the failure mass saturates
    \* GordianKnot
    Threads,        \* threads of the service the slot belongs to
    Owner,          \* the service the slot belongs to
    Named,          \* services a request may name
    Capabilities,   \* CapabilityKind
    Legal,          \* is_capability_legal: pairs of service and capability
    Handles,        \* handles the broker mints
    Sequences,      \* request sequences each thread uses, a sequence per thread
    MaxEvaluations, \* bound on requests the evaluator claims
    \* CorinthResolver
    Names, Versions, MaxPackages, MaxClauses,
    Roots,                          \* the <<name, version>> constraints are about
    OptionLists, VersionLists,      \* lists the constraints are asked with
    MaxRequests,                    \* bound: constraints asked for
    Clients, MaxInstalled, MaxGeneration, DigestValues,
    \* CorinthBuild
    MaxIr, MaxProgram, MaxUnroll, MaxBody,
    Bodies,                 \* function table: id -> body, by registration
    QueueCapacity, MaxJobs, Workers, Priorities, Temperatures, Throttle, BuildCritical,
    Packages, Graphs,       \* packages 0..n-1 and dependency lists
    Peers, Fragments,       \* peers in the order they were admitted
    BuildDependencies,      \* numbers of causal dependencies
    \* NexusGateway
    Callers,            \* processes, each with a lease of its own
    Rights,             \* the rights of each caller's lease
    Quota,              \* quota_limit of each lease
    SequenceModulus,    \* width of a sequence number (2^64)
    Window,             \* REPLAY: slots of the shield
    Log,                \* LOG: slots of the chronicle
    Offers,             \* the calls a caller may make: Offer(...) below
    MaxCalls, MaxTick,  \* bounds on the calls and on the counter
    Samples,            \* [energy, drift]: what a heartbeat may measure
    Excited, NexusCritical, Containment, RapidGrowth, StableObservations,
    MaxObservations     \* bound on the samples

VARIABLES
    state,      \* of the part a behaviour runs
    past        \* history the properties refer to

vars == <<state, past>>

-----------------------------------------------------------------------------
(***************************************************************************)
(* Part PushSupervisor.                                                    *)
(* userland/push: the supervisor of PID 1 (service.rs), driven by the loop *)
(* of main.rs (part "loop") or by a caller that acknowledges starts and    *)
(* reports failures, as the tests of service.rs and aegis.rs do (part      *)
(* "api").  A deadline in ticks is kept as the ticks still to wait, and    *)
(* the progress generation as whether it moved since it was last observed. *)
(***************************************************************************)
Ids == {Services[i] : i \in 1..Len(Services)}

\* ServiceStatus::STOPPED.
Stopped == [state |-> "Stopped", restarts |-> 0, wait |-> 0]

\* Supervisor::new; the generation starts at 1, unlike what was last observed.
PushInit ==
    /\ state \in [part : {"loop", "api"}, mode : {"Normal"}, status : {[s \in Ids |-> Stopped]}, active : {{}},
                  stalled : {0}, moved : {TRUE}, mass : {[s \in Ids |-> 0]}, pending : {"none"}]
    /\ past = [failures |-> [s \in Ids |-> 0], started |-> "none", failed |-> "none"]

\* can_start.
CanStart(active, s) == PushDependencies[s] \subseteq active

\* starting_mask.
Starting == {s \in Ids : state.status[s].state = "Starting"}

\* Thermodynamics::observe: how long some service has been starting with no progress.
PushObserve ==
    IF Starting = {} THEN [stalled |-> 0, dead |-> FALSE]
    ELSE IF state.moved THEN [stalled |-> 1, dead |-> FALSE]
    ELSE IF state.stalled + 1 < DeadlockTicks THEN [stalled |-> state.stalled + 1, dead |-> FALSE]
    ELSE [stalled |-> 0, dead |-> TRUE]

Position(s) == CHOOSE i \in 1..Len(Services) : Services[i] = s

\* The service picked: the heaviest that is starting, the first of equals.
PushSelected ==
    CHOOSE s \in Starting : \A t \in Starting :
        \/ state.mass[s] > state.mass[t]
        \/ state.mass[s] = state.mass[t] /\ Position(s) <= Position(t)

\* The pass of tick over the services: it stops at the first that is exhausted and critical,
\* that may start, or that is not running.
Exhausted(s) == state.status[s].state = "Failed" /\ s \in PushCritical
Due(waits, s) ==
    /\ state.status[s].state \in {"Stopped", "Backoff"}
    /\ waits[s] = 0
    /\ CanStart(state.active, s)
Halts(s) == Exhausted(s) \/ state.status[s].state # "Running"

Verdict(waits) ==
    LET at == {i \in 1..Len(Services) : Halts(Services[i])} IN
    IF at = {} THEN <<"Idle", "none">>
    ELSE LET s == Services[CHOOSE i \in at : \A j \in at : i <= j] IN
         IF Exhausted(s) THEN <<"EnterRecovery", s>>
         ELSE IF Due(waits, s) THEN <<"Start", s>>
         ELSE <<"Idle", "none">>

\* Supervisor::tick, and the action it returns.
Ticked ==
    LET waits == [s \in Ids |-> IF state.status[s].wait > 0 THEN state.status[s].wait - 1 ELSE 0]
        aged == [state EXCEPT !.status = [s \in Ids |-> [@[s] EXCEPT !.wait = waits[s]]]]
        seen == PushObserve
        watched == [aged EXCEPT !.stalled = seen.stalled, !.moved = FALSE]
        verdict == Verdict(waits)
    IN
    IF state.mode # "Normal" THEN <<aged, "Idle", "none">>
    ELSE IF seen.dead THEN <<watched, "Deadlock", PushSelected>>
    ELSE CASE verdict[1] = "Start" ->
                <<[watched EXCEPT !.status[verdict[2]].state = "Starting", !.moved = TRUE], "Start", verdict[2]>>
           [] verdict[1] = "EnterRecovery" ->
                <<[watched EXCEPT !.mode = "Recovery", !.moved = TRUE], "EnterRecovery", verdict[2]>>
           [] OTHER -> <<watched, "Idle", "none">>

\* record_started.
Started(st, s) ==
    [st EXCEPT !.status[s].state = "Running", !.active = @ \cup {s}, !.moved = TRUE]

\* The cascade of record_failure: one pass in the order of the services, each stop seen by the next.
StoppedBy(st, s) ==
    LET Fallen[i \in 0..Len(Services)] ==
            IF i = 0 THEN {}
            ELSE LET t == Services[i]  fallen == Fallen[i - 1] IN
                 IF st.status[t].state = "Running" /\ ~CanStart((st.active \ {s}) \ fallen, t)
                 THEN fallen \cup {t} ELSE fallen
    IN Fallen[Len(Services)]

\* record_failure: mass, cascade, and then back-off or exhaustion.
Failed(st, s) ==
    LET fallen == StoppedBy(st, s)
        restarts == st.status[s].restarts
        after == IF restarts >= MaximumRestarts[s] THEN [st.status[s] EXCEPT !.state = "Failed"]
                 ELSE [state |-> "Backoff", restarts |-> restarts + 1, wait |-> BackoffTicks[s] * (restarts + 1)]
    IN [st EXCEPT
        !.active = (@ \ {s}) \ fallen,
        !.mass[s] = IF @ < MaximumMass THEN @ + 1 ELSE @,
        !.moved = TRUE,
        !.status = [t \in Ids |-> IF t = s THEN after
                                  ELSE IF t \in fallen THEN [@[t] EXCEPT !.state = "Stopped"] ELSE @[t]]]

Counted(s) == [past.failures EXCEPT ![s] = @ + 1]
Noted(action, s) == [failures |-> past.failures, started |-> IF action = "Start" THEN s ELSE "none", failed |-> "none"]

\* One turn of the loop of main.rs: tick, and a spawn that succeeds or fails.  A spawn that
\* succeeds is logged and not recorded; the exit of a child is read and not recorded.
Loop(spawned) ==
    LET ticked == Ticked  next == ticked[1]  action == ticked[2]  s == ticked[3] IN
    /\ state.part = "loop"
    /\ \/ /\ action = "Start" /\ spawned
          /\ state' = next
          /\ past' = Noted(action, s)
       \/ /\ (action = "Start" /\ ~spawned) \/ action = "Deadlock"
          /\ state' = Failed(next, s)
          /\ past' = [failures |-> Counted(s), started |-> "none", failed |-> s]
       \/ /\ action \in {"EnterRecovery", "Idle"} /\ spawned
          /\ state' = next
          /\ past' = Noted(action, s)

\* A caller of the library: ticks, acknowledges and failures in any order; a deadlock is
\* reported as the failure of the service named.
ApiTick ==
    LET ticked == Ticked IN
    /\ state.part = "api" /\ state.pending = "none"
    /\ state' = [ticked[1] EXCEPT !.pending = IF ticked[2] = "Deadlock" THEN ticked[3] ELSE "none"]
    /\ past' = Noted(ticked[2], ticked[3])

ApiStarted(s) ==
    /\ state.part = "api" /\ state.pending = "none"
    /\ state.status[s].state = "Starting"
    /\ state' = Started(state, s)
    /\ past' = [past EXCEPT !.started = "none", !.failed = "none"]

ApiFailed(s) ==
    /\ state.part = "api" /\ state.pending \in {"none", s}
    /\ state.status[s].state \in {"Starting", "Running"}
    /\ state' = [Failed(state, s) EXCEPT !.pending = "none"]
    /\ past' = [failures |-> Counted(s), started |-> "none", failed |-> s]

PushNext ==
    \/ \E spawned \in BOOLEAN : Loop(spawned)
    \/ ApiTick
    \/ \E s \in Ids : ApiStarted(s) \/ ApiFailed(s)

PushSpec == PushInit /\ [][PushNext]_vars

-----------------------------------------------------------------------------

Requires(s) == LET Up[n \in 0..Cardinality(Ids)] ==
                    IF n = 0 THEN PushDependencies[s] ELSE Up[n - 1] \cup UNION {PushDependencies[t] : t \in Up[n - 1]}
               IN Up[Cardinality(Ids)]

\* The mask of active services is the set of running ones.  No service is restarted more often
\* than its limit allows, however starts, failures, cascades and deadlocks interleave, and one that
\* was started had everything it needs, to the end of the chain, running.  Right after a failure no
\* running service lacks what it needs.  The supervisor is in recovery only because a
\* critical service used up its restarts, and once one has, nothing after it in the order starts.
SupervisionIsBounded ==
    /\ state.active = {s \in Ids : state.status[s].state = "Running"}
    /\ \A s \in Ids : past.failures[s] = state.status[s].restarts + (IF state.status[s].state = "Failed" THEN 1 ELSE 0)
    /\ past.started # "none" =>
        /\ Requires(past.started) \subseteq state.active
        /\ \A s \in Ids : Exhausted(s) => Position(past.started) < Position(s)
    /\ state.mode = "Recovery" => \E s \in PushCritical : state.status[s].state = "Failed"
    /\ past.failed # "none" =>
        \A s \in state.active : Requires(s) \subseteq state.active

-----------------------------------------------------------------------------
(***************************************************************************)
(* Part GordianKnot.                                                       *)
(* userland/push gordian.rs and aegis.rs: the request and reply slot a     *)
(* service shares with PID 1.  Threads of the service and the evaluator    *)
(* run concurrently; a step is one access to the state word, and the       *)
(* fields a side owns while the word says so are written with it.  The     *)
(* broker (external) grants a handle or refuses.                           *)
(***************************************************************************)
\* GordianKnot::new, threads with nothing to do, an evaluator that waits.
GordianInit ==
    /\ state = [word |-> "idle", request |-> <<>>, answered |-> 0, reply |-> <<"none", 0>>,
                running |-> TRUE, claimed |-> 0,
                thread |-> [t \in Threads |-> [at |-> "free", todo |-> Sequences[t], seen |-> "none"]],
                evaluator |-> [at |-> "wait", request |-> <<>>]]
    /\ past = [asked |-> [q \in {} |-> <<>>], verdict |-> [q \in {} |-> <<>>], read |-> [t \in Threads |-> <<>>]]

Current(t) == Head(state.thread[t].todo)
With(f, k, v) == [x \in DOMAIN f \cup {k} |-> IF x = k THEN v ELSE f[x]]


\* request: the exchange of idle for writing.
MayWrite(word) == word = "idle"

RequestBegin(t) ==
    /\ state.thread[t].at = "free" /\ state.thread[t].todo # <<>> /\ MayWrite(state.word)
    /\ state' = [state EXCEPT !.word = "writing", !.thread[t].at = "writing"]
    /\ UNCHANGED past

\* request: the fields, the cleared reply, and the word that publishes them.
RequestEnd(t) ==
    /\ state.thread[t].at = "writing"
    /\ \E s \in Named, c \in Capabilities :
        LET request == [sequence |-> Current(t), service |-> s, capability |-> c] IN
        /\ state' = [state EXCEPT !.word = "requesting", !.request = request,
                                  !.reply = <<"none", 0>>, !.thread[t].at = "waiting"]
        /\ past' = [past EXCEPT !.asked = With(@, Current(t), request)]

\* claim: the exchange of requesting for evaluating, then the fields.
Claim ==
    /\ state.evaluator.at = "wait" /\ state.word = "requesting" /\ state.claimed < MaxEvaluations
    /\ state' = [state EXCEPT !.word = "evaluating", !.claimed = @ + 1,
                              !.evaluator = [at |-> "judge", request |-> state.request]]
    /\ UNCHANGED past

\* evaluate_knot: the first ground there is to refuse the request, or none.
Objection(request, running) ==
    IF request.service # Owner THEN "MalformedRequest"
    ELSE IF ~running THEN "ServiceNotRunning"
    ELSE IF <<request.service, request.capability>> \notin Legal THEN "PolicyRejected"
    ELSE "none"

\* ensure_evaluating.
Evaluating(sequence) == state.word = "evaluating" /\ state.request.sequence = sequence

\* grant and deny: the reply, the sequence it answers, and the word that publishes them.
Answered(request, reply) ==
    /\ Evaluating(request.sequence)
    /\ state' = [state EXCEPT !.reply = reply, !.answered = request.sequence,
                              !.word = IF reply[1] = "granted" THEN "granted" ELSE "denied",
                              !.evaluator = [at |-> "wait", request |-> <<>>]]
    /\ past' = [past EXCEPT !.verdict = With(@, request.sequence, <<reply, state.running>>)]

\* evaluate_knot and complete_broker_request.
Judge ==
    /\ state.evaluator.at = "judge"
    /\ LET request == state.evaluator.request  why == Objection(request, state.running) IN
       IF why # "none" THEN Answered(request, <<why, 0>>)
       ELSE \/ \E h \in Handles : Answered(request, <<"granted", h>>)
            \/ Answered(request, <<"BrokerUnavailable", 0>>)

\* The supervisor starts and stops the service (PushSupervisor).
Supervise ==
    /\ state.evaluator.at = "wait"
    /\ state' = [state EXCEPT !.running = ~@]
    /\ UNCHANGED past

\* response: a reply counts only for the sequence it answers.
Ours(sequence) == state.answered = sequence

\* response, once the word is granted or denied: any thread may ask after its request.
Response(t) ==
    /\ state.thread[t].at = "waiting" /\ state.word \in {"granted", "denied"}
    /\ Ours(Current(t))
    /\ state' = [state EXCEPT !.thread[t].at = "read"]
    /\ past' = [past EXCEPT !.read[t] = <<Current(t), state.reply>>]

\* acknowledge: the sequence, then the word, then the exchange of that word for idle.
AcknowledgeBegin(t) ==
    /\ state.thread[t].at = "read" /\ state.answered = Current(t)
    /\ state' = [state EXCEPT !.thread[t].at = "checked"]
    /\ UNCHANGED past

AcknowledgeLoad(t) ==
    /\ state.thread[t].at = "checked" /\ state.word \in {"granted", "denied"}
    /\ state' = [state EXCEPT !.thread[t].at = "exchange", !.thread[t].seen = state.word]
    /\ UNCHANGED past

AcknowledgeEnd(t) ==
    /\ state.thread[t].at = "exchange" /\ state.word = state.thread[t].seen
    /\ state' = [state EXCEPT !.word = "idle",
                              !.thread[t] = [at |-> "free", todo |-> Tail(@.todo), seen |-> "none"]]
    /\ past' = [past EXCEPT !.read[t] = <<>>]

GordianNext ==
    \/ \E t \in Threads : \/ RequestBegin(t) \/ RequestEnd(t) \/ Response(t)
                          \/ AcknowledgeBegin(t) \/ AcknowledgeLoad(t) \/ AcknowledgeEnd(t)
    \/ Claim \/ Judge \/ Supervise

GordianSpec == GordianInit /\ [][GordianNext]_vars

-----------------------------------------------------------------------------

\* A thread that reads a reply reads the verdict on its own request: the one it wrote, judged as it
\* wrote it, and not one another thread's request got, though all of them share one slot.  A grant
\* is only ever for a capability the owner of the slot may hold, asked in its own name, while the
\* service was running.  No request that waits for its reply loses the slot to another.
RepliesAreTheirs ==
    /\ \A t \in Threads : past.read[t] # <<>> =>
        LET q == past.read[t][1]  reply == past.read[t][2] IN
        /\ q \in DOMAIN past.verdict /\ past.verdict[q][1] = reply
        /\ reply[1] = "granted" =>
            /\ past.asked[q].service = Owner
            /\ <<Owner, past.asked[q].capability>> \in Legal
            /\ past.verdict[q][2]
            /\ reply[2] \in Handles
    /\ \A t \in Threads : state.thread[t].at \in {"waiting", "read", "checked", "exchange"} =>
        state.word # "idle" /\ state.request = past.asked[Current(t)]

-----------------------------------------------------------------------------
(***************************************************************************)
(* Part CorinthResolver.                                                   *)
(* How Corinth decides which packages are installed, in two parts:          *)
(*   solver  constraints become clauses over interned (name, version)       *)
(*           variables, and the DPLL search runs over them                  *)
(*           (corinth/src/alchemist.rs);                                    *)
(*   ledger  optimistic transactions of several clients on the ledger of    *)
(*           installed packages (corinth/src/pkg.rs).                       *)
(* Name hashes are small numbers; the digest of the ledger is a hash of a   *)
(* few values, so different contents may share one.                         *)
(***************************************************************************)
Wanted(n, v) == [name |-> n, ver |-> v, sign |-> TRUE]
Unwanted(n, v) == [name |-> n, ver |-> v, sign |-> FALSE]

StrictlyIncreasing(s) == \A i \in 1 .. Len(s) - 1 : s[i] < s[i + 1]

Require(n, v) == [kind |-> "require", clauses |-> << <<Wanted(n, v)>> >>]

\* The options are interned from the newest to the oldest.
Dependency(n, v, m, options) ==
    [kind |-> "dependency",
     clauses |-> << <<Unwanted(n, v)>> \o [i \in DOMAIN options |-> Wanted(m, Reverse(options)[i])] >>]

Conflict(n, v, m, w) == [kind |-> "conflict", clauses |-> << <<Unwanted(n, v), Unwanted(m, w)>> >>]

\* The pairs i < j, in the order of the two loops.
AtMostOneVersion(n, versions) ==
    LET pairs == SetToSortSeq({p \in (DOMAIN versions) \X (DOMAIN versions) : p[1] < p[2]},
                              LAMBDA p, q : p[1] < q[1] \/ (p[1] = q[1] /\ p[2] < q[2]))
    IN [kind |-> "one",
        clauses |-> [i \in DOMAIN pairs |-> <<Unwanted(n, versions[pairs[i][1]]),
                                              Unwanted(n, versions[pairs[i][2]])>>]]

Requests ==
    {Require(p[1], p[2]) : p \in Roots}
    \cup {Dependency(p[1], p[2], m, o) : p \in Roots, m \in Names,
                                         o \in {l \in OptionLists : l # <<>> /\ StrictlyIncreasing(l)}}
    \cup {Conflict(p[1], p[2], m, w) : p \in Roots, m \in Names, w \in Versions}
    \cup {AtMostOneVersion(n, l) : n \in Names, l \in {l \in VersionLists : StrictlyIncreasing(l)}}

IdOf(registry, l) ==
    {i \in DOMAIN registry : registry[i].name = l.name /\ registry[i].ver = l.ver}

\* One literal of a clause under construction: its variable is found or added.
Intern(b, l) ==
    IF ~b.ok THEN b
    ELSE IF IdOf(b.registry, l) # {}
    THEN [b EXCEPT !.clause = Append(@, [var |-> CHOOSE i \in IdOf(b.registry, l) : TRUE, sign |-> l.sign])]
    ELSE IF Len(b.registry) >= MaxPackages THEN [b EXCEPT !.ok = FALSE]
    ELSE [b EXCEPT !.registry = Append(@, [name |-> l.name, ver |-> l.ver, selected |-> FALSE]),
                   !.clause = Append(@, [var |-> Len(b.registry) + 1, sign |-> l.sign])]

Variables(clauses) == UNION {{c[i].var : i \in DOMAIN c} : c \in Range(clauses)}

AddClause(b, wanted) ==
    LET built == FoldLeft(Intern, [b EXCEPT !.clause = <<>>], wanted) IN
    IF ~built.ok THEN built
    ELSE IF Len(built.clauses) >= MaxClauses THEN [built EXCEPT !.ok = FALSE]
    ELSE [built EXCEPT !.clauses = Append(@, built.clause),
                       !.active = @ \cup Variables(<<built.clause>>)]


\* finish: a constraint that does not fit is rolled back to its checkpoint.
ResolverFinish(b) ==
    IF b.ok THEN b
    ELSE [b EXCEPT !.registry = state.registry, !.clauses = state.clauses,
                   !.active = Variables(state.clauses)]

Ask ==
    /\ state.phase \in {"build", "extracted"} /\ state.asked < MaxRequests
    /\ \E r \in Requests :
         LET start == [registry |-> state.registry, clauses |-> state.clauses, active |-> state.active,
                       clause |-> <<>>, ok |-> TRUE]
             tried == FoldLeft(AddClause, start, r.clauses)
             done == ResolverFinish(tried)
         IN /\ state' = [state EXCEPT !.registry = done.registry, !.clauses = done.clauses,
                                      !.active = done.active, !.phase = "build", !.asked = @ + 1]
            /\ past' = IF tried.ok THEN [past EXCEPT !.accepted = @ \cup {r}] ELSE past

\* ------- the search
Value(assignment, literal) ==
    IF assignment[literal.var] = -1 THEN "unset"
    ELSE IF (assignment[literal.var] = 1) = literal.sign THEN "true" ELSE "false"

Unset(clause, assignment) == {i \in DOMAIN clause : Value(assignment, clause[i]) = "unset"}

Status(clause, assignment) ==
    IF \E i \in DOMAIN clause : Value(assignment, clause[i]) = "true" THEN "satisfied"
    ELSE CASE Unset(clause, assignment) = {} -> "conflict"
           [] Cardinality(Unset(clause, assignment)) = 1 -> "unit"
           [] OTHER -> "unresolved"

Assign(m, var, sign) ==
    [m EXCEPT !.assignment[var] = IF sign THEN 1 ELSE 0, !.trail = Append(@, var)]

SweepClause(m, clause) ==
    IF m.conflict THEN m
    ELSE CASE Status(clause, m.assignment) = "unit" ->
                LET l == clause[CHOOSE i \in Unset(clause, m.assignment) : TRUE] IN Assign(m, l.var, l.sign)
           [] Status(clause, m.assignment) = "conflict" -> [m EXCEPT !.conflict = TRUE]
           [] OTHER -> m

\* A sweep either assigns a variable or changes nothing: the loop ends within
\* as many sweeps as there are variables.
Propagate(m) ==
    FoldLeft(LAMBDA acc, k : FoldLeft(SweepClause, acc, state.clauses), m, [k \in 0 .. MaxPackages |-> k])

UnassignBackTo(m, length) ==
    [m EXCEPT !.assignment = [v \in DOMAIN @ |->
                  IF \E i \in length + 1 .. Len(m.trail) : m.trail[i] = v THEN -1 ELSE @[v]],
              !.trail = SubSeq(@, 1, length)]

PickBranchVar(m) ==
    {v \in state.active : m.assignment[v] = -1 /\ \A w \in state.active : m.assignment[w] = -1 => v <= w}

Blank == [v \in 1 .. MaxPackages |-> -1]

\* solve: the search starts afresh.
ResetSearch ==
    /\ state.phase = "build" /\ state.clauses # <<>>
    /\ state' = [state EXCEPT !.phase = "search", !.assignment = Blank, !.trail = <<>>, !.frames = <<>>]
    /\ UNCHANGED past

\* One turn of the loop of solve.
Turn ==
    LET m == Propagate([assignment |-> state.assignment, trail |-> state.trail, conflict |-> FALSE])
        open == {f \in DOMAIN state.frames : ~state.frames[f].positive}
        \* the deepest decision whose other branch is untried
        top == CHOOSE f \in open : \A g \in open : g <= f
        undone == UnassignBackTo(m, state.frames[top].start)
        retried == Assign(undone, state.frames[top].var, TRUE)
        var == CHOOSE v \in PickBranchVar(m) : TRUE
        decided == Assign(m, var, FALSE)
    IN /\ state.phase = "search"
       /\ \/ /\ m.conflict /\ open # {}
             /\ state' = [state EXCEPT !.assignment = retried.assignment, !.trail = retried.trail,
                    !.frames = [SubSeq(@, 1, top) EXCEPT ![top].positive = TRUE]]
          \/ /\ m.conflict /\ open = {}
             /\ state' = [state EXCEPT !.assignment = Blank, !.trail = <<>>, !.frames = <<>>, !.phase = "unsat"]
          \/ /\ ~m.conflict /\ PickBranchVar(m) = {}
             /\ state' = [state EXCEPT !.assignment = m.assignment, !.trail = m.trail, !.phase = "sat"]
          \/ /\ ~m.conflict /\ PickBranchVar(m) # {}
             /\ state' = [state EXCEPT !.assignment = decided.assignment, !.trail = decided.trail,
                    !.frames = Append(@, [var |-> var, start |-> Len(m.trail), positive |-> FALSE])]
       /\ UNCHANGED past

ExtractSelection ==
    /\ state.phase = "sat"
    /\ state' = [state EXCEPT !.phase = "extracted",
           !.registry = [i \in DOMAIN @ |-> [@[i] EXCEPT !.selected = state.assignment[i] = 1]]]
    /\ UNCHANGED past

\* ------- the ledger: an absent package has version 0
Empty == [n \in Names |-> 0]

InstalledNames(packages) == {n \in Names : packages[n] # 0}

StateDigest(packages) ==
    FoldLeft(LAMBDA d, n : (((d + n) * 3) + packages[n]) % DigestValues,
             Cardinality(InstalledNames(packages)),
             SetToSortSeq(InstalledNames(packages), <))

Authority == [generation |-> state.generation, digest |-> StateDigest(state.packages)]

ReadAuthority(c) ==
    /\ state' = [state EXCEPT !.held[c] = {Authority}]
    /\ UNCHANGED past

SameAuthority(a, b) == a = b

Begin(c) ==
    /\ \E a \in state.held[c] : SameAuthority(a, Authority)
    /\ state' = [state EXCEPT !.txn[c] = {[base |-> Authority, packages |-> state.packages,
                                           touched |-> {}, sealed |-> FALSE]}]
    /\ past' = [past EXCEPT !.began[c] = state.packages]

Touch(t, n, v) == [t EXCEPT !.packages[n] = v, !.touched = @ \cup {n}]

PrepareIntent(t, n) == ~t.sealed /\ n \notin t.touched

Install(c) ==
    \E t \in state.txn[c], n \in Names, v \in Versions :
        /\ PrepareIntent(t, n) /\ t.packages[n] = 0
        /\ Cardinality(InstalledNames(t.packages)) < MaxInstalled
        /\ state' = [state EXCEPT !.txn[c] = {Touch(t, n, v)}]
        /\ UNCHANGED past

RemovePackage(c) ==
    \E t \in state.txn[c], n \in Names, expected \in Versions :
        /\ PrepareIntent(t, n) /\ t.packages[n] = expected
        /\ state' = [state EXCEPT !.txn[c] = {Touch(t, n, 0)}]
        /\ UNCHANGED past

Upgrade(c) ==
    \E t \in state.txn[c], n \in Names, expected, replacement \in Versions :
        /\ PrepareIntent(t, n) /\ t.packages[n] = expected
        /\ state' = [state EXCEPT !.txn[c] = {Touch(t, n, replacement)}]
        /\ UNCHANGED past

\* The selection of the solver replaces the candidate whole; two versions of
\* one name or too many packages leave the transaction as it was.
ReconcileSelection(c) ==
    \E t \in state.txn[c], selected \in SUBSET (Names \X Versions) :
        /\ ~t.sealed /\ t.touched = {}
        /\ \A p, q \in selected : p[1] = q[1] => p = q
        /\ Cardinality(selected) <= MaxInstalled
        /\ state' = [state EXCEPT !.txn[c] =
               {[t EXCEPT !.sealed = TRUE,
                          !.packages = [n \in Names |-> IF \E p \in selected : p[1] = n
                                                        THEN (CHOOSE p \in selected : p[1] = n)[2] ELSE 0]]}]
        /\ UNCHANGED past

Delta(before, after) ==
    [installed |-> Cardinality(InstalledNames(after) \ InstalledNames(before)),
     removed |-> Cardinality(InstalledNames(before) \ InstalledNames(after)),
     upgraded |-> Cardinality({n \in InstalledNames(before) \cap InstalledNames(after) : before[n] # after[n]})]

\* A transaction is copied: the client keeps it and may commit it again.
Commit(c) ==
    \E t \in state.txn[c] :
        LET d == Delta(state.packages, t.packages) IN
        /\ SameAuthority(t.base, Authority)
        /\ d.installed + d.removed + d.upgraded # 0
        /\ state.generation < MaxGeneration
        /\ state' = [state EXCEPT !.packages = t.packages, !.generation = @ + 1]
        /\ past' = [past EXCEPT !.lost = @ \/ past.began[c] # state.packages]

Abandon(c) ==
    /\ state.txn[c] # {}
    /\ state' = [state EXCEPT !.txn[c] = {}]
    /\ past' = [past EXCEPT !.began[c] = Empty]

ResolverInit ==
    \/ /\ state = [part |-> "solver", registry |-> <<>>, clauses |-> <<>>, active |-> {}, phase |-> "build",
                   asked |-> 0, assignment |-> Blank, trail |-> <<>>, frames |-> <<>>]
       /\ past = [accepted |-> {}]
    \/ /\ state = [part |-> "ledger", packages |-> Empty, generation |-> 0,
                   held |-> [c \in Clients |-> {}], txn |-> [c \in Clients |-> {}]]
       /\ past = [began |-> [c \in Clients |-> Empty], lost |-> FALSE]

SolverNext == state.part = "solver" /\ (Ask \/ ResetSearch \/ Turn \/ ExtractSelection)

LedgerNext ==
    /\ state.part = "ledger"
    /\ \E c \in Clients : \/ ReadAuthority(c) \/ Begin(c) \/ Install(c) \/ RemovePackage(c) \/ Upgrade(c)
                          \/ ReconcileSelection(c) \/ Commit(c) \/ Abandon(c)

ResolverNext == SolverNext \/ LedgerNext

ResolverSpec == ResolverInit /\ [][ResolverNext]_vars

-----------------------------------------------------------------------------
\* A set of (name, version) pairs meets a request as it was asked.
Meets(chosen, r) ==
    \A c \in Range(r.clauses) : \E i \in DOMAIN c : (<<c[i].name, c[i].ver>> \in chosen) = c[i].sign

Selections ==
    SUBSET UNION {UNION {{<<c[i].name, c[i].ver>> : i \in DOMAIN c} : c \in Range(r.clauses)} : r \in past.accepted}

ResolverSelected ==
    {<<state.registry[i].name, state.registry[i].ver>> : i \in {k \in DOMAIN state.registry : state.registry[k].selected}}

MeetsAll(chosen) == \A r \in past.accepted : Meets(chosen, r)

(***************************************************************************)
(* The search is right about the constraints that were accepted: what it    *)
(* selects meets them all and no part of the selection would do, and when   *)
(* it gives up nothing meets them; a constraint that did not fit has left   *)
(* nothing behind.  The ledger loses no update: a transaction it would      *)
(* still accept was opened on exactly what it holds, and an unsealed        *)
(* candidate differs from that only where an intent says so.                *)
(***************************************************************************)
ResolutionIsRight ==
    CASE state.part = "solver" ->
           /\ state.phase = "extracted" =>
                 /\ MeetsAll(ResolverSelected)
                 /\ \A smaller \in SUBSET ResolverSelected : MeetsAll(smaller) => smaller = ResolverSelected
           /\ state.phase = "unsat" => \A chosen \in Selections : ~MeetsAll(chosen)
      [] OTHER ->
           /\ ~past.lost
           /\ \A c \in Clients : \A t \in state.txn[c] :
                /\ t.base = Authority => past.began[c] = state.packages
                /\ ~t.sealed => \A n \in Names \ t.touched : t.packages[n] = past.began[c][n]

-----------------------------------------------------------------------------
(***************************************************************************)
(* Part CorinthBuild.                                                      *)
(* How Corinth obtains, rewrites, schedules and announces a package:        *)
(*   inline  the inliner's scan of an IR buffer (corinth/src/crucible.rs);  *)
(*   passes  loop unrolling, dead code elimination and compaction (same);   *)
(*   helix   the build queue, its workers and the thermal governor, and the *)
(*           topological sort of the packages (corinth/src/helix.rs);       *)
(*   swarm   fragments fetched from peers and verified (mycelium.rs), the   *)
(*           gene they make (dna.rs) and its lowering (synthesizer.rs);     *)
(*   matrix  the commands that announce a service to PID 1 (integrator.rs). *)
(***************************************************************************)
Least(a, b) == IF a < b THEN a ELSE b
Most(a, b) == IF a > b THEN a ELSE b

I(op, a) == [op |-> op, a |-> a]
Nop == I("nop", 0)
Dead == I("dead", 0)

\* ------- inliner: one turn of the scan over the buffer
InlineTurn ==
    LET ir == state.ir
        i == state.at
        body == Bodies[ir[i].a]
    IN /\ state.running
       /\ \/ /\ i > Len(ir)
             /\ state' = [state EXCEPT !.running = FALSE]
          \/ /\ i <= Len(ir)
             /\ ir[i].op # "inline" \/ ir[i].a \notin DOMAIN Bodies
             /\ state' = [state EXCEPT !.at = i + 1]
          \/ /\ i <= Len(ir) /\ ir[i].op = "inline" /\ ir[i].a \in DOMAIN Bodies
             /\ Len(ir) + Len(body) > MaxIr
             /\ state' = [state EXCEPT !.at = i + 1]
          \/ /\ i <= Len(ir) /\ ir[i].op = "inline" /\ ir[i].a \in DOMAIN Bodies
             /\ Len(ir) + Len(body) <= MaxIr
             \* the tail moves right, the body fills the gap, the scan does not advance
             /\ state' = [state EXCEPT !.ir =
                    IF body = <<>> THEN ir ELSE SubSeq(ir, 1, i - 1) \o body \o SubSeq(ir, i + 1, Len(ir))]
       /\ UNCHANGED past

\* ------- unroller
LoopDepth(ir, i, j) ==
    FoldLeft(LAMBDA d, k : IF ir[k].op = "begin" THEN d + 1 ELSE IF ir[k].op = "end" THEN d - 1 ELSE d,
             1, [k \in 1 .. j - i |-> i + k])

FindLoopEnd(ir, i) ==
    {j \in i + 1 .. Len(ir) : ir[j].op = "end" /\ LoopDepth(ir, i, j) = 0
                              /\ \A k \in i + 1 .. j - 1 : LoopDepth(ir, i, k) # 0}

Copies(body, n) == FlattenSeq([k \in 1 .. n |-> body])

Unrollable(ir, i) ==
    /\ ir[i].op = "begin" /\ Least(ir[i].a, MaxUnroll) >= 2
    /\ \E e \in FindLoopEnd(ir, i) :
          e > i + 1 /\ (e - i - 1) * Least(ir[i].a, MaxUnroll) + Len(ir) <= MaxIr

\* LOOP_BEGIN and LOOP_END become NOPs and the copies follow them.
UnrolledAt(ir, i, e) ==
    SubSeq(ir, 1, i - 1) \o <<Nop>> \o SubSeq(ir, i + 1, e - 1) \o <<Nop>>
    \o Copies(SubSeq(ir, i + 1, e - 1), Least(ir[i].a, MaxUnroll) - 1) \o SubSeq(ir, e + 1, Len(ir))

\* One turn of the unroller; a body longer than the capture buffer panics.
UnrollTurn(m, k) ==
    LET e == CHOOSE j \in FindLoopEnd(m.ir, m.at) : TRUE IN
    IF m.panics \/ m.at > Len(m.ir) THEN m
    ELSE IF ~Unrollable(m.ir, m.at) THEN [m EXCEPT !.at = @ + 1]
    ELSE IF e - m.at - 1 > MaxBody THEN [m EXCEPT !.panics = TRUE]
    ELSE [m EXCEPT !.ir = UnrolledAt(m.ir, m.at, e),
                   !.at = e + 1 + (e - m.at - 1) * (Least(m.ir[m.at].a, MaxUnroll) - 1)]

Unroll(ir) == FoldLeft(UnrollTurn, [ir |-> ir, at |-> 1, panics |-> FALSE], [k \in 1 .. MaxIr + 1 |-> k])

Successors(ir, pc) ==
    (IF ir[pc].op \in {"jmp", "ret", "dead"} THEN {} ELSE {pc + 1})
    \cup (IF ir[pc].op \in {"jmp", "jz"} THEN {pc + ir[pc].a} ELSE {})

\* The queue of DcePass::run, a layer at a time.
Reachable(ir) ==
    FoldLeft(LAMBDA r, k : r \cup (UNION {Successors(ir, pc) : pc \in r} \cap DOMAIN ir),
             {1} \cap DOMAIN ir, ir)

Dce(ir) == [i \in DOMAIN ir |-> IF i \in Reachable(ir) THEN ir[i] ELSE Dead]

Compact(ir) == SelectSeq(ir, LAMBDA i : i.op \notin {"dead", "nop"})

Alphabet ==
    {I("mov", 1), I("ret", 0), I("end", 0), I("jmp", 2), I("jz", 2), I("jmp", -1)}
    \cup {I("begin", n) : n \in {1, 2, MaxUnroll + 1}}

Write ==
    \E i \in Alphabet :
        /\ state.done = "none" /\ Len(state.ir) < MaxProgram
        /\ state' = [state EXCEPT !.ir = Append(@, i)]
        /\ UNCHANGED past

Mutate ==
    \E focus \in {"throughput", "thermal", "memory"} :
        LET u == Unroll(state.ir) IN
        /\ state.done = "none"
        /\ state' = [state EXCEPT !.done = focus,
               !.panics = focus = "throughput" /\ u.panics,
               !.ir = CASE focus = "throughput" -> Dce(u.ir)
                        [] focus = "thermal" -> Dce(state.ir)
                        [] OTHER -> Compact(Dce(state.ir))]
        /\ past' = [past EXCEPT !.input = state.ir]

\* ------- helix: the ring, the governor and the workers
Slots == 0 .. QueueCapacity - 1
WorkerIds == 0 .. Workers - 1

Enqueue ==
    \E priority \in Priorities :
        LET job == [id |-> state.jobs + 1, priority |-> priority] IN
        /\ state.jobs < MaxJobs
        /\ IF state.count >= QueueCapacity THEN state' = [state EXCEPT !.jobs = @ + 1]
           ELSE state' = [state EXCEPT !.jobs = @ + 1, !.count = @ + 1, !.tail = @ + 1,
                                       !.ring[state.tail % QueueCapacity] = {job}]
        /\ past' = [past EXCEPT !.queued = IF state.count >= QueueCapacity THEN @ ELSE @ \cup {job.id},
                                !.late = @ \/ past.started # <<>>]

Live == {(state.head + i) % QueueCapacity : i \in 0 .. state.count - 1}

JobAt(slot) == CHOOSE j \in state.ring[slot] : TRUE

\* The first slot of the highest priority, counted from the head.
BestSlot ==
    CHOOSE s \in Live :
        /\ \A t \in Live : JobAt(t).priority <= JobAt(s).priority
        /\ \A t \in Live : JobAt(t).priority = JobAt(s).priority =>
               (s - state.head) % QueueCapacity <= (t - state.head) % QueueCapacity

TailSlot == (state.head + state.count - 1) % QueueCapacity

FreeWorkers == {w \in 0 .. state.active - 1 : state.deque[w] = <<>>}

Busiest(w) ==
    CHOOSE v \in (0 .. state.active - 1) \ {w} :
        \A u \in (0 .. state.active - 1) \ {w} :
            Len(state.deque[u]) < Len(state.deque[v]) \/ (Len(state.deque[u]) = Len(state.deque[v]) /\ u <= v)

Dispatch ==
    LET w == CHOOSE f \in FreeWorkers : \A g \in FreeWorkers : f <= g
        v == Busiest(w)
        job == JobAt(BestSlot)
    IN /\ FreeWorkers # {}
       /\ \/ /\ state.count > 0
             \* the tail's job fills the gap; tail itself is not moved back
             /\ state' = [state EXCEPT !.ring = [@ EXCEPT ![BestSlot] = state.ring[TailSlot]],
                                       !.count = @ - 1, !.deque[w] = <<job>>]
             /\ past' = [past EXCEPT !.started = Append(@, job.id), !.worker = {w},
                                     !.passed = {JobAt(s).priority : s \in Live}, !.priority = job.priority]
          \/ /\ state.count = 0 /\ state.active > 1 /\ state.deque[v] # <<>>
             /\ state' = [state EXCEPT !.deque = [@ EXCEPT ![w] = <<Head(state.deque[v])>>, ![v] = Tail(@)]]
             /\ past' = [past EXCEPT !.worker = {w}]

Complete(w) ==
    /\ state.deque[w] # <<>>
    /\ state' = [state EXCEPT !.deque[w] = Front(@)]
    /\ past' = [past EXCEPT !.worker = {}]

Peak(readings) == CHOOSE t \in Range(readings) : \A u \in Range(readings) : u <= t

ReportThermal(w) ==
    \E t \in Temperatures :
        LET readings == [state.readings EXCEPT ![w] = t] IN
        /\ state' = [state EXCEPT !.readings = readings,
               !.active = IF Peak(readings) >= BuildCritical THEN 1
                          ELSE IF Peak(readings) >= Throttle THEN Most(state.active \div 2, 1) ELSE @,
               !.override = Peak(readings) >= Throttle]
        /\ past' = [past EXCEPT !.worker = {}]

\* ------- the topological sort: one package leaves the queue at a time
InDegree(graph, done, p) == Cardinality({i \in DOMAIN graph[p] : graph[p][i] \notin done})

\* The packages whose last dependency the node was, in their order.
FreedBy(graph, done, node) ==
    {p \in DOMAIN graph : node \in Range(graph[p]) /\ InDegree(graph, done, p) = 0}

SortTurn(m, k) ==
    IF m.queue = <<>> THEN m
    ELSE LET node == Head(m.queue)
             done == Range(m.order) \cup {node}
         IN [graph |-> m.graph, order |-> Append(m.order, node),
             queue |-> Tail(m.queue) \o SetToSortSeq(FreedBy(m.graph, done, node), <)]

Sort(graph) ==
    FoldLeft(SortTurn,
             [graph |-> graph, order |-> <<>>,
              queue |-> SetToSortSeq({p \in DOMAIN graph : graph[p] = <<>>}, <)],
             [k \in 1 .. 2 * Packages |-> k]).order

SortSelection ==
    \E graph \in [0 .. Packages - 1 -> Graphs] :
        /\ state.order = <<>> /\ \A p \in DOMAIN graph : \A i \in DOMAIN graph[p] : graph[p][i] < Packages
        /\ state' = [state EXCEPT !.order = Sort(graph)]
        /\ past' = [past EXCEPT !.graph = graph]

\* ------- swarm: an honest peer delivers the fragment, another may deliver a
\* forged one; verify() tells them apart by the root
PeerIds == DOMAIN Peers

Score(p) == state.trust[p] - Peers[p].latency

SelectApexPeer ==
    {p \in PeerIds : /\ state.alive[p]
                     /\ \A q \in PeerIds : state.alive[q] => Score(q) <= Score(p)
                     /\ \A q \in 1 .. p - 1 : state.alive[q] => Score(q) < Score(p)}

FirstMissing == CHOOSE i \in 1 .. Fragments : i \notin state.received /\ \A j \in 1 .. i - 1 : j \in state.received

Accepted(f, index) == f.index = index /\ f.full /\ f.genuine

Poll ==
    \E p \in SelectApexPeer, f \in [index : 1 .. Fragments, full : BOOLEAN, genuine : BOOLEAN] :
        /\ state.received # 1 .. Fragments
        /\ Peers[p].honest => f.index = FirstMissing /\ f.full /\ f.genuine
        /\ \/ state' = state    \* transport error: nothing changes
           \/ /\ Accepted(f, FirstMissing)
              /\ state' = [state EXCEPT !.output[FirstMissing] = {f.index}, !.received = @ \cup {FirstMissing},
                                        !.trust[p] = @ + 1]
           \/ /\ ~Accepted(f, FirstMissing)
              /\ state' = [state EXCEPT !.alive[p] = FALSE]
        /\ UNCHANGED past

\* finish and validate; the lowering takes a focus the gene allows.
Focuses == {"throughput", "thermal", "memory"}

Focus(allowed, hot) ==
    LET preferred == IF hot THEN "thermal" ELSE "throughput" IN
    IF preferred \in Range(allowed) THEN preferred ELSE allowed[1]

Synthesize ==
    \E hot \in BOOLEAN, written \in 0 .. 2, room \in 1 .. 1,
       allowed \in {<<>>, <<"memory">>, <<"memory", "thermal">>, <<"throughput">>} :
        /\ state.received = 1 .. Fragments /\ state.published = {}
        /\ allowed # <<>> /\ written # 0 /\ written <= room
        /\ state' = [state EXCEPT !.published = {[focus |-> Focus(allowed, hot), bytes |-> written]}]
        /\ past' = [past EXCEPT !.allowed = Range(allowed), !.hot = hot]

Refused(step) == IF step = "begin" THEN "failed" ELSE "abort"

Submit ==
    \E taken \in BOOLEAN :
        LET step == state.step IN
        /\ step \in {"begin", "depend", "commit", "abort"}
        /\ \/ /\ taken
              /\ state' = [state EXCEPT
                   !.open = step \in {"begin", "depend"},
                   !.left = IF step = "depend" THEN @ - 1 ELSE @,
                   !.step = CASE step = "abort" -> "failed"
                              [] step = "commit" -> "ok"
                              [] step = "begin" -> IF state.left = 0 THEN "commit" ELSE "depend"
                              [] OTHER -> IF state.left = 1 THEN "commit" ELSE "depend"]
              /\ past' = [past EXCEPT !.sent = Append(@, step)]
           \/ /\ ~taken
              /\ state' = [state EXCEPT !.step = IF step = "abort" THEN "rollback_failed" ELSE Refused(step)]
              /\ UNCHANGED past

BuildInit ==
    \/ \E f \in DOMAIN Bodies : /\ state = [part |-> "inline", ir |-> <<I("inline", f), I("mov", 1)>>, at |-> 1,
                                            running |-> TRUE]
                                /\ past = [none |-> 0]
    \/ state = [part |-> "passes", ir |-> <<>>, done |-> "none", panics |-> FALSE] /\ past = [input |-> <<>>]
    \/ /\ state = [part |-> "helix", ring |-> [s \in Slots |-> {}], head |-> 0, tail |-> 0, count |-> 0, jobs |-> 0,
                   deque |-> [w \in WorkerIds |-> <<>>], active |-> Workers,
                   readings |-> [w \in WorkerIds |-> 0], override |-> FALSE]
       /\ past = [queued |-> {}, started |-> <<>>, late |-> FALSE, worker |-> {}, passed |-> {}, priority |-> 0]
    \/ /\ state = [part |-> "sort", order |-> <<>>]
       /\ past = [graph |-> [p \in {} |-> <<>>]]
    \/ /\ state = [part |-> "swarm", alive |-> [p \in PeerIds |-> TRUE], trust |-> [p \in PeerIds |-> Peers[p].trust],
                   received |-> {}, output |-> [i \in 1 .. Fragments |-> {}], published |-> {}]
       /\ past = [allowed |-> {}, hot |-> FALSE]
    \/ \E n \in BuildDependencies : /\ state = [part |-> "matrix", step |-> "begin", open |-> FALSE, left |-> n]
                                    /\ past = [sent |-> <<>>, all |-> n]

InlineNext == state.part = "inline" /\ InlineTurn
PassesNext == state.part = "passes" /\ (Write \/ Mutate)
HelixNext == state.part = "helix" /\ (Enqueue \/ Dispatch \/ \E w \in WorkerIds : Complete(w) \/ ReportThermal(w))
SortNext == state.part = "sort" /\ SortSelection
SwarmNext == state.part = "swarm" /\ (Poll \/ Synthesize)
MatrixNext == state.part = "matrix" /\ Submit

BuildNext == InlineNext \/ PassesNext \/ HelixNext \/ SortNext \/ SwarmNext \/ MatrixNext

BuildSpec == BuildInit /\ [][BuildNext]_vars

-----------------------------------------------------------------------------
\* What a program without jumps executes: the loops run their bodies.
RECURSIVE Trace(_)
Trace(ir) ==
    IF ir = <<>> THEN <<>>
    ELSE IF ir[1].op = "begin" /\ FindLoopEnd(ir, 1) # {}
    THEN LET e == CHOOSE j \in FindLoopEnd(ir, 1) : TRUE IN
         Copies(Trace(SubSeq(ir, 2, e - 1)), ir[1].a) \o Trace(SubSeq(ir, e + 1, Len(ir)))
    ELSE (IF ir[1].op = "mov" THEN <<ir[1].a>> ELSE <<>>) \o Trace(Tail(ir))

Straight(ir) == \A i \in DOMAIN ir : ir[i].op \in {"mov", "begin", "end", "nop"} /\ ir[i].a <= MaxUnroll

\* The instructions control can come to: the least set closed under the flow.
Flow(ir) ==
    {i \in DOMAIN ir : \A s \in SUBSET DOMAIN ir :
        (1 \in s /\ \A pc \in s : /\ ir[pc].op \notin {"jmp", "ret"} /\ pc < Len(ir) => pc + 1 \in s
                                  /\ ir[pc].op \in {"jmp", "jz"} /\ pc + ir[pc].a \in DOMAIN ir => pc + ir[pc].a \in s)
        => i \in s}

Acyclic(graph) ==
    \E rank \in [DOMAIN graph -> DOMAIN graph] : \A p \in DOMAIN graph : \A q \in Range(graph[p]) : rank[q] < rank[p]

(***************************************************************************)
(* Unrolling keeps what a program without jumps executes, dead code         *)
(* elimination kills exactly what control cannot come to and the inliner    *)
(* stays within the buffer.  When no job is added after the first dispatch, *)
(* every queued job starts once and the most urgent goes first; no worker   *)
(* above the governor's limit is given work.  The sort gives a complete     *)
(* order, dependencies first, exactly for acyclic graphs.  What the swarm   *)
(* assembles is the genuine fragments in their places whatever the peers    *)
(* send, and no honest peer is banned; lowering keeps to the allowed foci.  *)
(* The matrix holds an open service only when the rollback itself failed.   *)
(***************************************************************************)
BuildIsSound ==
    CASE state.part = "inline" -> Len(state.ir) <= MaxIr
      [] state.part = "passes" ->
           /\ state.done = "throughput" /\ ~state.panics /\ Straight(past.input) => Trace(state.ir) = Trace(past.input)
           /\ state.done = "thermal" =>
                 \A i \in DOMAIN state.ir : state.ir[i] = IF i \in Flow(past.input) THEN past.input[i] ELSE Dead
      [] state.part = "helix" ->
           /\ ~past.late => /\ \A i, j \in DOMAIN past.started : past.started[i] = past.started[j] => i = j
                            /\ Range(past.started) \cup {JobAt(s).id : s \in Live} = past.queued
           /\ \A p \in past.passed : p <= past.priority
           /\ \A w \in past.worker : w < state.active
           /\ Peak(state.readings) >= Throttle => state.override
      [] state.part = "sort" ->
           DOMAIN past.graph # {} =>
           /\ (Len(state.order) = Packages) = Acyclic(past.graph)
           /\ \A i \in DOMAIN state.order : \A d \in Range(past.graph[state.order[i]]) :
                 \E j \in 1 .. i - 1 : state.order[j] = d
      [] state.part = "swarm" ->
           /\ \A i \in 1 .. Fragments : state.output[i] = IF i \in state.received THEN {i} ELSE {}
           /\ \A p \in PeerIds : Peers[p].honest => state.alive[p]
           /\ \A b \in state.published : b.focus \in past.allowed
      [] OTHER ->
           /\ state.step \in {"ok", "failed"} => ~state.open
           /\ state.step = "ok" => Cardinality({i \in DOMAIN past.sent : past.sent[i] = "depend"}) = past.all

-----------------------------------------------------------------------------
(***************************************************************************)
(* Part NexusGateway.                                                      *)
(* How a program reaches the Nexus: the client of slope (nexus.rs), the    *)
(* system calls (syscalls.rs), the wire records (aether nexus_wire.rs) and *)
(* the gateway in front of the runtime (nexus_gateway.rs) with its clock   *)
(* and replay shield (causal_lattice.rs), its chronicle                    *)
(* (ghost_chronicle.rs) and its stability governor (singularity.rs).       *)
(* Calls of several processors interleave where a lock is taken; the       *)
(* matrix lock is held from execute to finish.  A record is intact or not, *)
(* digests are the history they fold, and the matrix is what was applied.  *)
(* The governor shares nothing with the calls, so a behaviour has one or   *)
(* the other part.                                                         *)
(***************************************************************************)
---------------------------------------------------------------------------
\* required_right, by opcode; no table knows the opcode "unknown".
RightFor(opcode) == IF opcode = "QueryStats" THEN "observe" ELSE "resonance"

\* NexusCommand and its validate.
Command(opcode, sequence, intact) == [opcode |-> opcode, sequence |-> sequence, intact |-> intact]
CommandValid(command) == command.intact /\ command.opcode # "unknown"

\* NexusReply::new, and what a client makes of it: the sequence, then the checksum.
Reply(status, sequence) == [status |-> status, sequence |-> sequence, intact |-> TRUE]
ReplyValid(reply, expected) == reply.sequence = expected /\ reply.intact

\* NexusTelemetry::new seals a record with sequence 0, and telemetry() of the runtime
\* then overwrites the sequence: the checksum is right only for the sealed one.
Telemetry(sequence) == [sequence |-> sequence, intact |-> sequence = 0]

\* next_sequence of NexusClient: it wraps and skips 0.
NextSequence(n) == IF (n + 1) % SequenceModulus = 0 THEN 1 ELSE (n + 1) % SequenceModulus

NoCall == [at |-> "idle", id |-> 0, kind |-> "control", command |-> Command("unknown", 0, FALSE),
           now |-> 0, stamp |-> <<0, 0>>, reply |-> Reply("none", 0)]

EmptyLog == [slots |-> <<>>, write |-> 0, retained |-> 0, next |-> 1, digest |-> <<>>]

GatewayInit ==
    /\ state = [part |-> "gateway", ready |-> FALSE, tick |-> 1,
                clock |-> <<0, 0>>,
                shield |-> [n \in 0 .. Window - 1 |-> 0], cursor |-> 0,
                uses |-> [c \in Callers |-> 0], chronicle |-> EmptyLog,
                sequence |-> [c \in Callers |-> 1], call |-> [c \in Callers |-> NoCall]]
    /\ past = [calls |-> <<>>, accepted |-> <<>>, events |-> <<>>]

Call(c) == state.call[c]
Goto(c, at) == [state EXCEPT !.call[c].at = at]

\* Counter and initialize of the runtime move by themselves.
Tick == /\ state.tick < MaxTick
        /\ state' = [state EXCEPT !.tick = @ + 1] /\ UNCHANGED past
Initialize == /\ ~state.ready
              /\ state' = [state EXCEPT !.ready = TRUE] /\ UNCHANGED past

\* What a caller may ask: kind of system call, opcode, sequence of a scalar call, whether the
\* frame it hands in is intact and its memory is there.
Offer(kind, opcode, sequence, intact, present) ==
    [kind |-> kind, opcode |-> opcode, sequence |-> sequence, intact |-> intact, present |-> present]

\* A call of c in the history: what was done for it (nothing yet) and what it was told.
Entry(c, kind, command, told) ==
    [caller |-> c, kind |-> kind, opcode |-> command.opcode, sequence |-> command.sequence,
     now |-> state.tick, done |-> "none", told |-> told]
Enter(entry) == past' = [past EXCEPT !.calls = Append(@, entry)]
MayCall(c) == Call(c).at = "idle" /\ Len(past.calls) < MaxCalls

\* control samples the counter and begins.
Begun(c, kind, command) ==
    [NoCall EXCEPT !.at = "admit", !.id = Len(past.calls) + 1, !.kind = kind, !.command = command,
                   !.now = state.tick]

\* transact, or a caller that fills in a frame of its own; nexus_control_from_user reads it
\* or finds no memory there.
Transact(c, opcode, intact, readable) ==
    LET command == Command(opcode, state.sequence[c], intact) IN
    /\ MayCall(c)
    /\ state' = [state EXCEPT !.sequence[c] = NextSequence(@),
                              !.call[c] = IF readable THEN Begun(c, "control", command) ELSE @]
    /\ Enter(Entry(c, "control", command, IF readable THEN "nothing" ELSE "address"))

\* dispatch_scalar_nexus: the command is made from registers; a zero is refused.
Scalar(c, opcode, sequence) ==
    LET command == Command(opcode, sequence, TRUE) IN
    /\ MayCall(c)
    /\ state' = [state EXCEPT !.call[c] = IF sequence = 0 THEN @ ELSE Begun(c, "scalar", command)]
    /\ Enter(Entry(c, "scalar", command, IF sequence = 0 THEN "argument" ELSE "nothing"))

\* NexusClient::telemetry with nexus_telemetry_to_user.
QueryTelemetry(c, writable) ==
    LET frame == Telemetry(state.sequence[c]) IN
    /\ MayCall(c)
    /\ state' = [state EXCEPT !.sequence[c] = NextSequence(@)]
    /\ Enter(Entry(c, "telemetry", Command("QueryTelemetry", frame.sequence, TRUE),
                   IF ~writable THEN "address" ELSE IF frame.intact THEN "Ok" ELSE "wire"))

---------------------------------------------------------------------------
\* GhostChronicle::record; the digest is the history it folds.
Recorded(log, event) ==
    LET slot == [before |-> log.digest, event |-> event, sequence |-> log.next,
                 after |-> Append(log.digest, event)]
    IN  [slots |-> [n \in DOMAIN log.slots \cup {log.write} |-> IF n = log.write THEN slot ELSE log.slots[n]],
         write |-> (log.write + 1) % Log,
         retained |-> IF log.retained < Log THEN log.retained + 1 ELSE Log,
         next |-> log.next + 1, digest |-> slot.after]

\* verify: the retained slots are a chain that ends in the digest.
Verifies(log) ==
    LET start == (log.write + Log - log.retained) % Log
        Slot(n) == log.slots[(start + n) % Log]
    IN  log.retained = 0 \/
        /\ \A n \in 0 .. log.retained - 1 :
              /\ Slot(n).after = Append(Slot(n).before, Slot(n).event)
              /\ n > 0 => Slot(n).before = Slot(n - 1).after
        /\ Slot(log.retained - 1).after = log.digest

\* The error exits of control: a reply that no event records.
Refuse(c, status) ==
    state' = [state EXCEPT !.call[c].at = "return",
                           !.call[c].reply = Reply(status, Call(c).command.sequence)]

\* control and admit up to the lease, under the lock of the lattice.
Admit(c) ==
    LET command == Call(c).command
        right == RightFor(command.opcode)
        Holds == right \in Rights[c] /\ state.uses[c] < Quota
    IN  /\ Call(c).at = "admit" /\ UNCHANGED past
        /\ \/ ~state.ready /\ Refuse(c, "NotReady")
           \/ state.ready /\ ~CommandValid(command) /\ Refuse(c, "BadFrame")
           \/ state.ready /\ CommandValid(command) /\ ~Holds /\ Refuse(c, "Denied")
           \/ /\ state.ready /\ CommandValid(command) /\ Holds
              /\ state' = [state EXCEPT !.uses[c] = @ + 1, !.call[c].at = "stamp"]

\* CausalClock::stamp, under the lock of the clock.
Stamped(clock, wall) == IF wall > clock[1] THEN <<wall, 0>> ELSE <<clock[1], clock[2] + 1>>

Stamp(c) ==
    LET stamp == Stamped(state.clock, Call(c).now) IN
    /\ Call(c).at = "stamp" /\ UNCHANGED past
    /\ state' = [state EXCEPT !.clock = stamp, !.call[c].stamp = stamp, !.call[c].at = "accept"]

\* ReplayShield::accept: no past and no future, and a nonce no slot holds.
Fresh(stamp, now) == stamp[1] = now
Seen(nonce) == \E n \in 0 .. Window - 1 : state.shield[n] = nonce

\* admit under the lock of the state: the shield, then the chronicle.
Accept(c) ==
    LET call == Call(c)
        nonce == call.command.sequence
        event == <<"command", call.id>>
    IN  /\ call.at = "accept"
        /\ \/ /\ ~Fresh(call.stamp, call.now) \/ Seen(nonce)
              /\ Refuse(c, "BadFrame") /\ UNCHANGED past
           \/ /\ Fresh(call.stamp, call.now) /\ ~Seen(nonce)
              /\ state' = [state EXCEPT !.shield[state.cursor] = nonce, !.cursor = (@ + 1) % Window,
                                        !.chronicle = Recorded(@, event), !.call[c].at = "execute"]
              /\ past' = [past EXCEPT !.accepted = Append(@, [id |-> call.id, stamp |-> call.stamp]),
                                      !.events = Append(@, event)]

\* control under the lock of the matrix: the command is executed, or fails and is rolled back.
Execute(c, status) ==
    LET call == Call(c) IN
    /\ call.at = "execute" /\ \A d \in Callers : Call(d).at # "finish"
    /\ state' = [state EXCEPT !.call[c].at = "finish",
                              !.call[c].reply = Reply(status, call.command.sequence)]
    /\ past' = [past EXCEPT !.calls[call.id].done = IF status = "Ok" THEN "applied" ELSE "undone"]

\* finish, still under it.
NexusFinish(c) ==
    LET event == <<"reply", Call(c).id>> IN
    /\ Call(c).at = "finish"
    /\ state' = [state EXCEPT !.chronicle = Recorded(@, event), !.call[c].at = "return"]
    /\ past' = [past EXCEPT !.events = Append(@, event)]

\* The reply is copied to the caller, unless there is no memory, and read there.
Return(c, writable) ==
    LET call == Call(c)
        told == IF call.kind = "control" /\ ~writable THEN "address"
                ELSE IF ReplyValid(call.reply, call.command.sequence) THEN call.reply.status ELSE "wire"
    IN  /\ call.at = "return" /\ (call.kind = "scalar" => writable)
        /\ state' = [state EXCEPT !.call[c] = NoCall]
        /\ past' = [past EXCEPT !.calls[call.id].told = told]

GatewayNext ==
    /\ state.part = "gateway"
    /\ \/ Tick \/ Initialize
       \/ \E c \in Callers :
             \/ \E offer \in Offers[c] :
                   \/ offer.kind = "control" /\ Transact(c, offer.opcode, offer.intact, offer.present)
                   \/ offer.kind = "scalar" /\ Scalar(c, offer.opcode, offer.sequence)
                   \/ offer.kind = "telemetry" /\ QueryTelemetry(c, offer.present)
             \/ \E writable \in BOOLEAN : Return(c, writable)
             \/ Admit(c) \/ Stamp(c) \/ Accept(c) \/ NexusFinish(c)
             \/ \E status \in {"Ok", "Capacity"} : Execute(c, status)

---------------------------------------------------------------------------
\* SingularityGovernor.  Energies are in units of the thresholds.
GovernorInit ==
    /\ state = [part |-> "governor", mode |-> "Nominal", energy |-> 0, stable |-> 0]
    /\ past = [samples |-> <<>>]

\* observe: how a sample is classed, after the energy of the one before.
Class(sample, before) ==
    CASE sample.energy >= Containment \/ sample.energy - before >= RapidGrowth -> "Containment"
      [] sample.energy < Containment /\ sample.energy - before < RapidGrowth
         /\ sample.energy >= NexusCritical -> "Critical"
      [] sample.energy < NexusCritical /\ sample.energy - before < RapidGrowth
         /\ (sample.drift \/ sample.energy >= Excited) -> "Excited"
      [] OTHER -> "calm"

NexusObserve(sample) ==
    LET class == Class(sample, state.energy)
        stable == IF class = "calm" THEN state.stable + 1 ELSE 0
    IN  /\ state.part = "governor" /\ Len(past.samples) < MaxObservations
        /\ state' = [state EXCEPT !.energy = sample.energy, !.stable = stable,
                                  !.mode = IF class # "calm" THEN class
                                           ELSE IF stable >= StableObservations THEN "Nominal" ELSE @]
        /\ past' = [past EXCEPT !.samples = Append(@, sample)]

NexusInit == GatewayInit \/ GovernorInit
NexusNext == GatewayNext \/ \E sample \in Samples : NexusObserve(sample)
NexusSpec == NexusInit /\ [][NexusNext]_vars

---------------------------------------------------------------------------
\* What a caller is told is what happened to its command: Ok only when it was applied, a
\* capacity fault only when it was undone, any other refusal only when nothing was done; a
\* caller whose reply has no memory cannot know, unless the command was never read.
AnswersAreTrue ==
    \A n \in 1 .. Len(past.calls) :
        LET call == past.calls[n] IN
        call.kind # "telemetry" =>
            /\ call.told = "Ok" => call.done = "applied"
            /\ call.told = "Capacity" => call.done = "undone"
            /\ call.told \in {"NotReady", "BadFrame", "Denied", "argument"} => call.done = "none"
            /\ call.done # "none" => RightFor(call.opcode) \in Rights[call.caller]

\* A sequence is accepted again only after Window others, however the calls overtake one
\* another between the clock and the shield, and an accepted command carries the tick at
\* which it was called and a stamp nobody else has.
AcceptedOnce ==
    \A i, j \in 1 .. Len(past.accepted) :
        LET first == past.accepted[i]  second == past.accepted[j] IN
        /\ first.stamp[1] = past.calls[first.id].now
        /\ i < j =>
              /\ first.stamp # second.stamp
              /\ past.calls[first.id].sequence = past.calls[second.id].sequence => j - i >= Window

\* The chronicle verifies at every moment and retains exactly the last events; an answer is
\* recorded after its command.
ChronicleTells ==
    LET log == state.chronicle
        total == Len(past.events)
    IN  /\ Verifies(log)
        /\ log.retained = IF total < Log THEN total ELSE Log
        /\ \A n \in 1 .. log.retained :
              LET slot == log.slots[(log.write + Log - n) % Log]
              IN  slot.event = past.events[total + 1 - n] /\ slot.sequence = total + 1 - n
        /\ \A i \in 1 .. total : past.events[i][1] = "reply" =>
              \E j \in 1 .. i - 1 : past.events[j] = <<"command", past.events[i][2]>>

\* The governor is in the state of the last sample that was not calm, and Nominal only if
\* there was none or StableObservations calm ones followed it without a break.
GovernorHolds ==
    LET total == Len(past.samples)
        Before(i) == IF i = 1 THEN 0 ELSE past.samples[i - 1].energy
        Restless == {i \in 1 .. total : Class(past.samples[i], Before(i)) # "calm"}
    IN  \/ Restless = {} /\ state.mode = "Nominal"
        \/ \E last \in Restless :
              /\ \A i \in Restless : i <= last
              /\ state.mode = IF total - last >= StableObservations THEN "Nominal"
                              ELSE Class(past.samples[last], Before(last))

\* The gateway and the governor keep their word: see the four properties above.
GatewayHolds ==
    IF state.part = "gateway" THEN AnswersAreTrue /\ AcceptedOnce /\ ChronicleTells ELSE GovernorHolds

=============================================================================
