---------------------------- MODULE RingAuthority ----------------------------
(***************************************************************************)
(* kernel/boulder/src/ring_authority.rs: the registry of protection        *)
(* domains and, per CPU, the frontier that hands the CPU to a domain and   *)
(* takes it back.  A hardware authority is the set of what it covers: a    *)
(* port or a page per range, and for a DMA grant its IOMMU domain and its  *)
(* requester, so that two authorities conflict when they intersect.  An    *)
(* operation that returns an error changes nothing and is no step.         *)
(***************************************************************************)
EXTENDS Integers, FiniteSets

CONSTANTS
    DomainSlots,          \* 0 .. CAPACITY - 1
    Cpus,
    Roots,          \* valid page-table roots
    KernelRoot,
    Resources,      \* ports, pages, IOMMU domains, requesters
    Authorities,    \* the authorities that registrations carry
    MaxDomainGen,         \* u32::MAX of a slot generation
    MaxSeq,         \* bound: u64::MAX of a frontier sequence
    None

VARIABLES
    domains,          \* DomainRegistry::slots
    frontier,       \* TransitionFrontier of each CPU
    spent,          \* history: at most one lease that was committed or aborted
    calls           \* history: at most one KernelInvocation, any that was issued

registry == <<domains, frontier, spent, calls>>

Roles == {"cell", "personality", "user"}

Gates == {"iretq", "sysretq"}

EmptyDomain(gen) == [occupied |-> FALSE, gen |-> gen, refs |-> 0,
                   role |-> "user", root |-> None, auth |-> {}]

RegistryInit ==
    /\ domains = [s \in DomainSlots |-> EmptyDomain(0)]
    /\ frontier = [c \in Cpus |-> [seq |-> 0, active |-> None, pending |-> None, call |-> None]]
    /\ spent = {}
    /\ calls = {}

-----------------------------------------------------------------------------
(* DomainRegistry                                                          *)

Handle(s) == [slot |-> s, gen |-> domains[s].gen]

Live(h) == domains[h.slot].occupied /\ domains[h.slot].gen = h.gen

Occupied == {s \in DomainSlots : domains[s].occupied}

\* A hardware cell has some authority and nothing else has any.
ValidDescriptor(role, auth) == (role = "cell") <=> (auth # {})

\* Mutant: two authorities conflict only when they are equal.
ConflictsWhole(auth) == \E s \in Occupied : domains[s].role = "cell" /\ domains[s].auth = auth

Conflicts(auth) == \E s \in Occupied : domains[s].role = "cell" /\ domains[s].auth \cap auth # {}

FreeDomains == {s \in DomainSlots : ~domains[s].occupied /\ domains[s].gen # MaxDomainGen}

\* position: the lowest free slot.
FirstFree(s) == s \in FreeDomains /\ \A t \in FreeDomains : s <= t

Register(role, root, auth) ==
    /\ ValidDescriptor(role, auth)
    /\ root # KernelRoot
    /\ \A s \in Occupied : domains[s].root # root
    /\ role = "cell" => ~Conflicts(auth)
    /\ \E s \in DomainSlots :
          /\ FirstFree(s)
          /\ domains' = [domains EXCEPT ![s] =
                 [occupied |-> TRUE, gen |-> domains[s].gen + 1, refs |-> 0,
                  role |-> role, root |-> root, auth |-> auth]]
    /\ UNCHANGED <<frontier, spent, calls>>

Revoke(h) ==
    /\ Live(h)
    /\ domains[h.slot].refs = 0
    /\ domains' = [domains EXCEPT ![h.slot] = EmptyDomain(h.gen)]
    /\ UNCHANGED <<frontier, spent, calls>>

\* retain_execution and release_execution of a live handle.
Retained(h) == [domains EXCEPT ![h.slot].refs = @ + 1]

Released(h) == [domains EXCEPT ![h.slot].refs = @ - 1]

-----------------------------------------------------------------------------
(* TransitionFrontier                                                      *)

\* The histories keep what they had or only the newest item; every item is
\* kept by some behaviour.
RememberLease(lease) == UNCHANGED <<spent, calls>> \/ (spent' = {lease} /\ calls' = {})

RememberCall(call) == UNCHANGED <<spent, calls>> \/ (spent' = {} /\ calls' = {call})

ValidGate(role, gate) == gate = "sysretq" => role = "user"

Prepare(c, h, gate) ==
    LET seq == frontier[c].seq + 1
        lease == [cpu |-> c, seq |-> seq, target |-> h, role |-> domains[h.slot].role,
                  root |-> domains[h.slot].root, gate |-> gate]
    IN  /\ frontier[c].active = None
        /\ frontier[c].pending = None
        /\ Live(h)
        /\ ValidGate(domains[h.slot].role, gate)
        /\ domains[h.slot].root # KernelRoot
        /\ frontier[c].seq < MaxSeq
        /\ domains[h.slot].refs = 0
        /\ domains' = Retained(h)
        /\ frontier' = [frontier EXCEPT ![c].seq = seq, ![c].pending = lease, ![c].call = None]
        /\ UNCHANGED <<spent, calls>>

\* What commit and abort ask of a lease.
Matches(c, lease) == lease.cpu = c /\ frontier[c].pending = lease

Commit(c, lease, observed) ==
    /\ Matches(c, lease)
    /\ Live(lease.target)
    /\ domains[lease.target.slot].root = lease.root
    /\ domains[lease.target.slot].role = lease.role
    /\ observed = KernelRoot
    /\ ValidGate(lease.role, lease.gate)
    /\ frontier' = [frontier EXCEPT ![c].pending = None, ![c].active = lease.target]
    /\ RememberLease(lease)
    /\ UNCHANGED domains

Abort(c, lease) ==
    /\ Matches(c, lease)
    /\ Live(lease.target)
    /\ domains[lease.target.slot].refs # 0
    /\ domains' = Released(lease.target)
    /\ frontier' = [frontier EXCEPT ![c].pending = None]
    /\ RememberLease(lease)

EnterKernel(c, caller, source, installed) ==
    LET seq == frontier[c].seq + 1
        call == [cpu |-> c, caller |-> caller, seq |-> seq]
    IN  /\ frontier[c].pending = None
        /\ frontier[c].active = caller
        /\ Live(caller)
        /\ domains[caller.slot].root = source
        /\ installed = KernelRoot
        /\ frontier[c].seq < MaxSeq
        /\ domains[caller.slot].refs # 0
        /\ domains' = Released(caller)
        /\ frontier' = [frontier EXCEPT ![c].seq = seq, ![c].active = None, ![c].call = call]
        /\ RememberCall(call)

\* Mutant: the frontier's own record of the last entry is not compared.
ValidCallAnyEntry(c, call) ==
    /\ call.cpu = c
    /\ frontier[c].active = None
    /\ frontier[c].pending = None

\* validate_invocation on the frontier of CPU c.
ValidCall(c, call) ==
    /\ call.cpu = c
    /\ frontier[c].active = None
    /\ frontier[c].pending = None
    /\ frontier[c].call = call

\* authorize_io, authorize_mmio and authorize_dma: the trapped caller is a
\* hardware cell and its own authority covers everything the request touches.
Authorizes(c, call, request) ==
    /\ ValidCall(c, call)
    /\ Live(call.caller)
    /\ domains[call.caller.slot].role = "cell"
    /\ request \subseteq domains[call.caller.slot].auth

-----------------------------------------------------------------------------

DomainHandles == [slot : DomainSlots, gen : 1 .. MaxDomainGen]

\* The leases somebody may still hold: a pending one, or one used before.
HeldLeases == spent \union {frontier[c].pending : c \in {d \in Cpus : frontier[d].pending # None}}

RegistryNext ==
    \/ \E role \in Roles, root \in Roots, auth \in Authorities : Register(role, root, auth)
    \/ \E h \in DomainHandles : Revoke(h)
    \/ \E c \in Cpus, h \in DomainHandles, gate \in Gates : Prepare(c, h, gate)
    \/ \E c \in Cpus, lease \in HeldLeases, observed \in Roots : Commit(c, lease, observed)
    \/ \E c \in Cpus, lease \in HeldLeases : Abort(c, lease)
    \/ \E c \in Cpus, caller \in DomainHandles, source, installed \in Roots :
          EnterKernel(c, caller, source, installed)

RegistrySpec == RegistryInit /\ [][RegistryNext]_registry

-----------------------------------------------------------------------------
(* Properties                                                              *)

Lease == [cpu : Cpus, seq : 1 .. MaxSeq, target : DomainHandles, role : Roles,
          root : Roots, gate : Gates]

Call == [cpu : Cpus, caller : DomainHandles, seq : 1 .. MaxSeq]

\* What the declarations of the constants mean: the counters are unsigned,
\* None is the absent value of an Option, and an authority names resources.
Constants ==
    /\ MaxDomainGen \in Nat /\ MaxSeq \in Nat
    /\ None \notin DomainHandles /\ None \notin Lease /\ None \notin Call
    /\ \A auth \in Authorities : auth \subseteq Resources

ASSUME RegistryAssumption == Constants

\* Slots, frontiers and the authorities handed out hold values of their types.
RegistryTypeOK ==
    /\ domains \in [DomainSlots -> [occupied : BOOLEAN, gen : 0 .. MaxDomainGen, refs : 0 .. 1,
                            role : Roles, root : Roots \union {None}, auth : SUBSET Resources]]
    /\ frontier \in [Cpus -> [seq : 0 .. MaxSeq, active : DomainHandles \union {None},
                              pending : Lease \union {None}, call : Call \union {None}]]
    /\ spent \subseteq Lease
    /\ calls \subseteq Call

\* The domain a CPU is running or is about to enter.
TargetOf(c) == IF frontier[c].pending # None THEN frontier[c].pending.target ELSE frontier[c].active

\* "Every live non-kernel domain owns a unique root" (the comment on
\* DomainRegistry): no two live domains share a root and none has the kernel's;
\* no port, page, IOMMU domain or requester belongs to two of them.  And
\* execution_references counts the CPUs on a domain exactly: a CPU never runs
\* a domain that was revoked, no domain is on two CPUs, and none stays busy
\* once no CPU has it.  A lease that was committed or aborted is "single-use
\* authority": it is never the pending transition of a frontier again.  A
\* request that is authorised belongs to the authority of no other live domain,
\* whichever of the issued invocations is presented on whichever CPU.
DomainsExclusive ==
    /\ RegistryTypeOK
    /\ \A s, t \in Occupied :
           /\ domains[s].root # KernelRoot
           /\ domains[s].root = domains[t].root => s = t
           /\ domains[s].auth \cap domains[t].auth # {} => s = t
    /\ \A c \in Cpus : TargetOf(c) # None => Live(TargetOf(c)) /\ domains[TargetOf(c).slot].refs = 1
    /\ \A c, d \in Cpus : TargetOf(c) # None /\ TargetOf(c) = TargetOf(d) => c = d
    /\ \A s \in DomainSlots : domains[s].refs # 0 => \E c \in Cpus : TargetOf(c) = Handle(s)
    /\ \A c \in Cpus : frontier[c].pending \notin spent
    /\ \A c \in Cpus, call \in calls, r \in Resources :
           Authorizes(c, call, {r}) =>
               \A s \in Occupied : r \in domains[s].auth => Handle(s) = call.caller

\* An invocation that lost its authority on its CPU, because the CPU was given
\* away or trapped again, never authorises a request again.
DeadCallStaysDead ==
    [][\A c \in Cpus : \A call \in calls : ValidCall(c, call)' => ValidCall(c, call)]_registry
=============================================================================
