--------------------------- MODULE AxiomManifold ----------------------------
(***************************************************************************)
(* kernel/boulder/src/axiom_manifold.rs with the kernel's policy and its   *)
(* callers of lib.rs: optimistic transactions over a few state cells.  A   *)
(* submission is stamped by the causal clock (causal_lattice.rs) before it *)
(* takes the lock of the manifold, waits in a slot for its dependencies    *)
(* and witnesses, and is committed or rejected by a later drive.           *)
(*                                                                         *)
(* A fingerprint is the pair of a cell and its contents and the state root *)
(* the set of them, XOR being symmetric difference; contents of a draft    *)
(* that only seal its root (salt, flags) are left out.                     *)
(***************************************************************************)
EXTENDS Integers, FiniteSets, FiniteSetsExt

CONSTANTS
    Slots,              \* indices of the transaction slots
    Nodes,              \* causal origins and witnesses
    MaxCalls,           \* bound on contexts inside submit
    Drafts,             \* drafts callers submit
    WallTicks, Ticks,   \* wall ticks of submissions and of drives
    Seeds,              \* seed_kernel_axioms: value by cell
    TotalComputeCredits, MaxSingleNumaCredits, MaxDmaReserve,
    ThermalFloor, ThermalCeiling,
    ValueMax,           \* u64::MAX
    GenerationMax,      \* u16::MAX
    MaxStamps           \* bound on calls of submit

VARIABLES
    cells,              \* state cells, absent until seeded
    root,               \* state_root
    slots,              \* transaction slots
    frontiers,          \* origin_frontiers: vector clock by origin
    counters,           \* epoch, sequence; and how many stamps were taken
    clock,              \* CausalClock: physical and logical tick
    calls               \* submissions between their stamp and the lock

vars == <<cells, root, slots, frontiers, counters, clock, calls>>

Order == <<"numa_zero", "numa_one", "thermal", "dma", "floor">>
Cells == {Order[i] : i \in DOMAIN Order}
Class == [numa_zero |-> "compute", numa_one |-> "compute", thermal |-> "thermal",
          dma |-> "dma", floor |-> "floor"]
ReadOnly(c) == c = "floor"

Absent == [value |-> 0, version |-> 0]
Present(c) == cells[c] # Absent

Zero == [n \in Nodes |-> 0]
NoCertificate == [epoch |-> 0]

EmptySlot(generation) == [status |-> "Free", generation |-> generation]

Init ==
    /\ cells = [c \in Cells |-> Absent]
    /\ root = {}
    /\ slots = [s \in Slots |-> EmptySlot(1)]
    /\ frontiers = [o \in Nodes |-> Zero]
    /\ counters = [epoch |-> 0, sequence |-> 0, stamps |-> 0]
    /\ clock = <<0, 0>>
    /\ calls = {}

-----------------------------------------------------------------------------
(* State roots                                                             *)

Xor(S, T) == (S \ T) \cup (T \ S)

Fingerprints(state, changed) == {<<c, state[c]>> : c \in {d \in changed : state[d] # Absent}}

\* state_root ^= fingerprint of the cells before ^ fingerprint of them after.
RootAfter(after, changed) ==
    Xor(Xor(root, Fingerprints(cells, changed)), Fingerprints(after, changed))

\* seed_kernel_axioms goes through the cells in order; each is refused once a
\* transaction was submitted.
SeedCell ==
    /\ counters.sequence = 0
    /\ \E i \in DOMAIN Order :
         /\ ~Present(Order[i]) /\ \A j \in 1 .. i - 1 : Present(Order[j])
         /\ cells' = [cells EXCEPT ![Order[i]] = [value |-> Seeds[Order[i]], version |-> 1]]
         /\ root' = RootAfter(cells', {Order[i]})
    /\ UNCHANGED <<slots, frontiers, counters, clock, calls>>

-----------------------------------------------------------------------------
(* Submission                                                              *)

Live(s) == slots[s].status # "Free"

Id(s) == [slot |-> s, generation |-> slots[s].generation]

\* validate_id.
ValidId(id) == Live(id.slot) /\ slots[id.slot].generation = id.generation

\* CausalClock::stamp, taken before the manifold is locked.
Stamp(tick) ==
    /\ Cardinality(calls) < MaxCalls /\ counters.stamps < MaxStamps
    /\ counters' = [counters EXCEPT !.stamps = @ + 1]
    /\ clock' = IF tick > clock[1] THEN <<tick, 0>> ELSE <<clock[1], clock[2] + 1>>
    /\ \E draft \in Drafts, origin \in Nodes, parents \in SUBSET {Id(s) : s \in {t \in Slots : Live(t)}} :
         calls' = calls \cup {[draft |-> draft, origin |-> origin, dependencies |-> parents,
                               stamp |-> clock']}
    /\ UNCHANGED <<cells, root, slots, frontiers>>

FreeSlots == {s \in Slots : ~Live(s)}

Refused(call) ==
    \/ \E c \in DOMAIN call.draft.reads \cup DOMAIN call.draft.writes : ~Present(c)
    \/ \E c \in DOMAIN call.draft.writes : ReadOnly(c)
    \/ FreeSlots = {}
    \/ \E id \in call.dependencies : ~ValidId(id)

\* VectorClock::merge with every dependency, then advance of the origin's lane.
VectorOf(call) ==
    [n \in Nodes |->
        Max({frontiers[call.origin][n]} \cup {slots[id.slot].vector[n] : id \in call.dependencies})
        + (IF n = call.origin THEN 1 ELSE 0)]

Submit(call) ==
    LET s == Min(FreeSlots)
    IN  /\ calls' = calls \ {call}
        /\ IF Refused(call) THEN UNCHANGED <<slots, frontiers, counters>>
           ELSE /\ counters' = [counters EXCEPT !.sequence = @ + 1]
                /\ frontiers' = [frontiers EXCEPT ![call.origin] = VectorOf(call)]
                /\ slots' = [slots EXCEPT ![s] =
                     [status |-> "Prepared", generation |-> slots[s].generation,
                      draft |-> call.draft, dependencies |-> call.dependencies,
                      origin |-> call.origin, vector |-> VectorOf(call), stamp |-> call.stamp,
                      witnesses |-> {}, sequence |-> counters'.sequence,
                      certificate |-> NoCertificate]]
        /\ UNCHANGED <<cells, root, clock>>

Prepared(s) == slots[s].status = "Prepared"

Attest(s, node) ==
    /\ Prepared(s)
    /\ slots' = [slots EXCEPT ![s].witnesses = @ \cup {node}]
    /\ UNCHANGED <<cells, root, frontiers, counters, clock, calls>>

-----------------------------------------------------------------------------
(* The kernel's policy                                                     *)

\* KernelAxiomPolicy::authorize.
Authorized(kind, mutation, c) ==
    /\ kind = Class[c]
    /\ mutation.op \in CASE Class[c] \in {"compute", "thermal"} ->
                              {"Set", "AddSigned", "Min", "Max", "CompareExchange"}
                         [] Class[c] = "dma" -> {"Set", "Min", "Max", "CompareExchange"}
                         [] OTHER -> {}

\* KernelAxiomPolicy::validate_state.
Lawful(state) ==
    /\ state["numa_zero"].value + state["numa_one"].value = TotalComputeCredits
    /\ state["numa_zero"].value <= MaxSingleNumaCredits
    /\ state["numa_one"].value <= MaxSingleNumaCredits
    /\ state["dma"].value <= MaxDmaReserve
    /\ state["thermal"].value \in ThermalFloor .. ThermalCeiling

\* project_value: whether the mutation applies and what it gives.  The policy
\* refuses Xor and MaskedReplace for every class.
Applies(mutation, before) == mutation.op = "CompareExchange" => before = mutation.expected

Projected(mutation, before) ==
    CASE mutation.op = "AddSigned" -> Max({0, Min({ValueMax, before + mutation.operand})})
      [] mutation.op = "Min"       -> Min({before, mutation.operand})
      [] mutation.op = "Max"       -> Max({before, mutation.operand})
      [] OTHER                     -> mutation.operand

-----------------------------------------------------------------------------
(* Drive                                                                   *)

DependencyFailed(s) ==
    \E id \in slots[s].dependencies :
        ~ValidId(id) \/ slots[id.slot].status \in {"Aborted", "Expired"}

Elapsed(s, now) == slots[s].draft.deadline # 0 /\ now > slots[s].draft.deadline

Doomed(now) == {s \in Slots : Prepared(s) /\ (Elapsed(s, now) \/ DependencyFailed(s))}

\* select_candidate: enough witnesses and every dependency committed.
Ready ==
    {s \in Slots :
        /\ Prepared(s)
        /\ Cardinality(slots[s].witnesses) >= slots[s].draft.required
        /\ \A id \in slots[s].dependencies : ValidId(id) /\ slots[id.slot].status = "Committed"}

\* candidate_precedes: earliest deadline, then highest priority, then first come.
Precedes(s, t) ==
    LET l == slots[s]
        r == slots[t]
        none == Max(Ticks) + 1
        Deadline(slot) == IF slot.draft.deadline = 0 THEN none ELSE slot.draft.deadline
    IN  \/ Deadline(l) < Deadline(r)
        \/ /\ Deadline(l) = Deadline(r)
           /\ \/ l.draft.priority > r.draft.priority
              \/ l.draft.priority = r.draft.priority /\ l.sequence < r.sequence

Candidate == CHOOSE s \in Ready : \A t \in Ready \ {s} : Precedes(s, t)

\* reject_slot.
Reject(s, status) ==
    /\ slots' = [slots EXCEPT ![s].status = status]
    /\ UNCHANGED <<cells, root, frontiers, counters, clock, calls>>

ReadsMatch(s) ==
    \A c \in DOMAIN slots[s].draft.reads : cells[c].version = slots[s].draft.reads[c]

Writes(s) == DOMAIN slots[s].draft.writes

\* The writes are applied to the cells one by one; a draft has one per cell.
Written(s) ==
    [c \in Cells |->
        IF c \in Writes(s)
        THEN [value |-> Projected(slots[s].draft.writes[c], cells[c].value),
              version |-> cells[c].version + 1]
        ELSE cells[c]]

Commit(s) ==
    /\ cells' = Written(s)
    /\ root' = RootAfter(cells', Writes(s))
    /\ counters' = [counters EXCEPT !.epoch = @ + 1]
    /\ slots' = [slots EXCEPT
                   ![s].status = "Committed",
                   ![s].certificate = [epoch |-> counters'.epoch, before |-> root, after |-> root',
                                       witnesses |-> slots[s].witnesses]]
    /\ UNCHANGED <<frontiers, clock, calls>>

\* Mutant: the cells are rolled back and the root is not.
ConcludeTorn(s) ==
    IF Lawful(Written(s)) THEN Commit(s)
    ELSE /\ slots' = [slots EXCEPT ![s].status = "Aborted"]
         /\ root' = RootAfter(Written(s), Writes(s))
         /\ UNCHANGED <<cells, frontiers, counters, clock, calls>>

\* The policy judges the written state; what it refuses is undone.
Conclude(s) == IF Lawful(Written(s)) THEN Commit(s) ELSE Reject(s, "Aborted")

\* drive: one doomed transaction is ended, else the candidate is decided.
Drive(now) ==
    IF Doomed(now) # {}
    THEN LET s == Min(Doomed(now))
         IN  Reject(s, IF Elapsed(s, now) THEN "Expired" ELSE "Aborted")
    ELSE /\ Ready # {}
         /\ LET s == Candidate
                draft == slots[s].draft
            IN  IF /\ ReadsMatch(s)
                   /\ \A c \in Writes(s) :
                        /\ Authorized(draft.kind, draft.writes[c], c)
                        /\ Applies(draft.writes[c], cells[c].value)
                THEN Conclude(s)
                ELSE Reject(s, "Aborted")

-----------------------------------------------------------------------------
\* A transaction that waits for this one keeps it.
Referenced(s) == \E t \in Slots : Prepared(t) /\ Id(s) \in slots[t].dependencies

Reap(s) ==
    /\ slots[s].status \in {"Committed", "Aborted", "Expired"}
    /\ ~Referenced(s)
    /\ slots' = [slots EXCEPT ![s] = EmptySlot((slots[s].generation % GenerationMax) + 1)]
    /\ UNCHANGED <<cells, root, frontiers, counters, clock, calls>>

Next ==
    \/ SeedCell
    \/ \E call \in calls : Submit(call)
    \/ \E s \in Slots : Reap(s) \/ \E n \in Nodes : Attest(s, n)
    \/ \E tick \in WallTicks : Stamp(tick)
    \/ \E now \in Ticks : Drive(now)

Spec == Init /\ [][Next]_vars

-----------------------------------------------------------------------------
(* What holds                                                              *)

Committed == {s \in Slots : slots[s].status = "Committed"}

Later(s, t) ==
    \/ slots[s].stamp[1] > slots[t].stamp[1]
    \/ slots[s].stamp[1] = slots[t].stamp[1] /\ slots[s].stamp[2] > slots[t].stamp[2]

HappensBefore(s, t) ==
    /\ \A n \in Nodes : slots[s].vector[n] <= slots[t].vector[n]
    /\ slots[s].vector # slots[t].vector

\* AxiomManifold::drive and seed_cell: the state root always stands for the cells
\* as they are, once anything committed they satisfy the kernel's axioms, the
\* certificate of the newest commit names the present root, certificates of
\* consecutive epochs join, and each has the witnesses its draft required; nothing
\* commits when a submission cut the seeding short of the cells that are judged.
StateIsCertified ==
    /\ root = Fingerprints(cells, Cells)
    /\ counters.epoch > 0 => Lawful(cells) /\ Present("thermal")
    /\ \A s \in Committed :
         LET certificate == slots[s].certificate
         IN  /\ certificate.epoch = counters.epoch => certificate.after = root
             /\ Cardinality(certificate.witnesses) >= slots[s].draft.required
             /\ \A t \in Committed :
                  slots[t].certificate.epoch = certificate.epoch + 1
                    => slots[t].certificate.before = certificate.after

\* AxiomManifold::submit, select_candidate and reap: what a waiting transaction
\* depends on is still there, nothing commits before what it depends on, and a
\* transaction is later than its dependencies, and than the earlier ones of its
\* origin, by vector clock; later than its dependencies also by causal stamp,
\* although the stamp is taken outside the lock.
CausalityIsKept ==
    /\ \A s \in Slots : Prepared(s) => \A id \in slots[s].dependencies : ValidId(id)
    /\ \A s \in Slots : Live(s) =>
         /\ \A id \in slots[s].dependencies : ValidId(id) =>
              /\ HappensBefore(id.slot, s) /\ Later(s, id.slot)
              /\ s \in Committed =>
                   /\ id.slot \in Committed
                   /\ slots[id.slot].certificate.epoch < slots[s].certificate.epoch
         /\ \A t \in Slots : Live(t) /\ slots[t].origin = slots[s].origin =>
              (slots[t].sequence < slots[s].sequence <=> HappensBefore(t, s))
=============================================================================
