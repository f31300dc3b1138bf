------------------------ MODULE RingAuthorityProofs -------------------------
(***************************************************************************)
(* What RingAuthority promises for every number of slots, CPUs, roots and  *)
(* resources and every width of generations and sequences.                 *)
(***************************************************************************)
EXTENDS RingAuthority, TLAPS

\* register: the descriptor of a live domain is valid, its root is its own and
\* so is everything its authority covers.
Separate ==
    /\ \A s \in Occupied :
           /\ domains[s].root \in Roots
           /\ ValidDescriptor(domains[s].role, domains[s].auth)
    /\ \A s, t \in Occupied :
           /\ domains[s].root # KernelRoot
           /\ domains[s].root = domains[t].root => s = t
           /\ domains[s].auth \cap domains[t].auth # {} => s = t

\* retain_execution and release_execution: the reference of a domain is held
\* by exactly one CPU.
Referenced ==
    /\ \A c \in Cpus : TargetOf(c) # None => Live(TargetOf(c)) /\ domains[TargetOf(c).slot].refs = 1
    /\ \A c, d \in Cpus : TargetOf(c) # None /\ TargetOf(c) = TargetOf(d) => c = d
    /\ \A s \in DomainSlots : domains[s].refs # 0 =>
           \E c \in Cpus : TargetOf(c) # None /\ TargetOf(c) = Handle(s)

\* A frontier is on at most one of its two sides, the lease it waits for is
\* its newest, and a CPU that was given away has no invocation.
Ordered ==
    \A c \in Cpus :
        /\ frontier[c].pending # None =>
               /\ frontier[c].active = None
               /\ frontier[c].call = None
               /\ frontier[c].pending.cpu = c
               /\ frontier[c].pending.seq = frontier[c].seq
        /\ frontier[c].active # None => frontier[c].call = None

\* The sequence of a frontier is past every lease and call it has issued.
Issued ==
    /\ \A lease \in spent :
           /\ lease.seq <= frontier[lease.cpu].seq
           /\ frontier[lease.cpu].pending # None => lease.seq < frontier[lease.cpu].seq
    /\ \A call \in calls : call.seq <= frontier[call.cpu].seq

Inv == RegistryTypeOK /\ Separate /\ Referenced /\ Ordered /\ Issued

-----------------------------------------------------------------------------

\* The counters are unsigned.
LEMMA Counters == Constants => MaxDomainGen \in Nat /\ MaxSeq \in Nat
BY DEF Constants

\* The registry and the frontiers start empty.
LEMMA InitInv == Constants /\ RegistryInit => Inv
BY DEF Constants, RegistryInit, Inv, RegistryTypeOK, Separate, Referenced, Ordered, Issued, EmptyDomain,
       Roles,
       Occupied, TargetOf, Live

\* A handle is its slot and its generation.
LEMMA HandleIsRecord ==
    ASSUME RegistryTypeOK, NEW h \in DomainHandles, Live(h)
    PROVE  h.slot \in DomainSlots /\ h = Handle(h.slot) /\ h.slot \in Occupied
BY DEF RegistryTypeOK, DomainHandles, Live, Handle, Occupied

\* The target of a CPU is a handle.
LEMMA TargetTyped ==
    ASSUME Constants, RegistryTypeOK, NEW c \in Cpus
    PROVE  TargetOf(c) \in DomainHandles \union {None}
BY DEF Constants, RegistryTypeOK, TargetOf, Lease

\* Two CPUs are never on one slot.
LEMMA TargetSlots ==
    ASSUME Constants, RegistryTypeOK, Referenced, NEW c \in Cpus, NEW d \in Cpus,
           TargetOf(c) # None, TargetOf(d) # None, TargetOf(c).slot = TargetOf(d).slot
    PROVE  c = d
<1>1. TargetOf(c) = Handle(TargetOf(c).slot) /\ TargetOf(d) = Handle(TargetOf(d).slot)
  BY TargetTyped, HandleIsRecord DEF Referenced
<1> QED BY <1>1 DEF Referenced

\* register takes a free slot and a root and an authority nobody has.
LEMMA RegisterInv ==
    ASSUME Constants, Inv, NEW role \in Roles, NEW root \in Roots, NEW auth \in Authorities,
           Register(role, root, auth)
    PROVE  Inv'
<1>1. PICK s \in DomainSlots :
        /\ s \in FreeDomains
        /\ domains' = [domains EXCEPT ![s] =
               [occupied |-> TRUE, gen |-> domains[s].gen + 1, refs |-> 0,
                role |-> role, root |-> root, auth |-> auth]]
  BY DEF Register, FirstFree
<1>2. RegistryTypeOK'
  <2>1. domains[s].gen + 1 \in 0 .. MaxDomainGen
    <3>1. domains[s].gen \in 0 .. MaxDomainGen /\ domains[s].gen # MaxDomainGen
      BY <1>1 DEF Inv, RegistryTypeOK, FreeDomains
    <3> QED BY <3>1, Counters
  <2>2. domains' \in [DomainSlots -> [occupied : BOOLEAN, gen : 0 .. MaxDomainGen, refs : 0 .. 1,
                             role : Roles, root : Roots \union {None}, auth : SUBSET Resources]]
    <3>1. [occupied |-> TRUE, gen |-> domains[s].gen + 1, refs |-> 0,
           role |-> role, root |-> root, auth |-> auth] \in
               [occupied : BOOLEAN, gen : 0 .. MaxDomainGen, refs : 0 .. 1,
                role : Roles, root : Roots \union {None}, auth : SUBSET Resources]
      BY <2>1 DEF Constants
    <3> QED BY <1>1, <3>1 DEF Inv, RegistryTypeOK
  <2> QED BY <2>2 DEF Inv, RegistryTypeOK, Register
<1>3. Separate'
  <2>1. \A t \in Occupied' : t = s \/ (t \in Occupied /\ domains'[t] = domains[t])
    BY <1>1 DEF Inv, RegistryTypeOK, Occupied
  <2>2. domains'[s].role = role /\ domains'[s].root = root /\ domains'[s].auth = auth
    BY <1>1 DEF Inv, RegistryTypeOK
  <2>3. \A t \in Occupied : domains[t].root # root /\ domains[t].auth \cap auth = {}
    BY DEF Register, Conflicts, Inv, Separate, ValidDescriptor
  <2> QED BY <2>1, <2>2, <2>3 DEF Inv, Separate, Register, ValidDescriptor
<1>4. Referenced'
  <2>1. \A c \in Cpus : TargetOf(c)' = TargetOf(c)
    BY DEF Register, TargetOf
  <2>2. \A c \in Cpus : TargetOf(c) # None => TargetOf(c).slot # s
    BY <1>1, TargetTyped, HandleIsRecord DEF Inv, Referenced, FreeDomains, Occupied
  <2>3. \A c \in Cpus : TargetOf(c) # None =>
            Live(TargetOf(c))' /\ domains'[TargetOf(c).slot].refs = 1
    <3>1. \A t \in DomainSlots : t # s => domains'[t] = domains[t]
      BY <1>1 DEF Inv, RegistryTypeOK
    <3>2. \A c \in Cpus : TargetOf(c) # None =>
              Live(TargetOf(c)) /\ domains[TargetOf(c).slot].refs = 1 /\ TargetOf(c).slot \in DomainSlots
      BY TargetTyped, HandleIsRecord DEF Inv, Referenced
    <3> QED BY <2>1, <2>2, <3>1, <3>2 DEF Live
  <2>4. \A t \in DomainSlots : domains'[t].refs # 0 => t # s /\ domains'[t] = domains[t]
    BY <1>1 DEF Inv, RegistryTypeOK
  <2> QED BY <2>1, <2>3, <2>4 DEF Inv, Referenced, Handle
<1>5. Ordered' /\ Issued'
  BY DEF Inv, Ordered, Issued, Register
<1> QED BY <1>2, <1>3, <1>4, <1>5 DEF Inv

\* revoke empties the slot of a domain that no CPU is on.
LEMMA RevokeInv ==
    ASSUME Constants, Inv, NEW h \in DomainHandles, Revoke(h)
    PROVE  Inv'
<1>1. /\ h.slot \in DomainSlots /\ Live(h) /\ domains[h.slot].refs = 0
      /\ domains' = [domains EXCEPT ![h.slot] = EmptyDomain(h.gen)]
  BY DEF Revoke, DomainHandles
<1>2. RegistryTypeOK'
  <2>1. EmptyDomain(h.gen) \in
            [occupied : BOOLEAN, gen : 0 .. MaxDomainGen, refs : 0 .. 1,
             role : Roles, root : Roots \union {None}, auth : SUBSET Resources]
    <3>1. h.gen \in 0 .. MaxDomainGen
      BY Counters DEF DomainHandles
    <3>2. 0 \in 0 .. 1 /\ "user" \in Roles /\ None \in Roots \union {None} /\ {} \in SUBSET Resources
      BY DEF Roles
    <3> QED BY <3>1, <3>2 DEF EmptyDomain
  <2> QED BY <1>1, <2>1 DEF Inv, RegistryTypeOK, Revoke
<1>3. \A t \in Occupied' : t \in Occupied /\ t # h.slot /\ domains'[t] = domains[t]
  BY <1>1 DEF Inv, RegistryTypeOK, Occupied, EmptyDomain
<1>4. Separate'
  BY <1>3 DEF Inv, Separate, ValidDescriptor
<1>5. Referenced'
  <2>1. \A c \in Cpus : TargetOf(c)' = TargetOf(c)
    BY DEF Revoke, TargetOf
  <2>2. \A c \in Cpus : TargetOf(c) # None => TargetOf(c).slot # h.slot
    BY <1>1 DEF Inv, Referenced
  <2>3. \A c \in Cpus : TargetOf(c) # None =>
            Live(TargetOf(c))' /\ domains'[TargetOf(c).slot].refs = 1
    <3>1. \A c \in Cpus : TargetOf(c) # None => domains'[TargetOf(c).slot] = domains[TargetOf(c).slot]
      BY <1>1, <2>2, TargetTyped DEF Inv, RegistryTypeOK, DomainHandles
    <3> QED BY <2>1, <3>1 DEF Inv, Referenced, Live
  <2>4. \A t \in DomainSlots : domains'[t].refs # 0 => t # h.slot /\ domains'[t] = domains[t]
    BY <1>1 DEF Inv, RegistryTypeOK, EmptyDomain
  <2> QED BY <2>1, <2>3, <2>4 DEF Inv, Referenced, Handle
<1>6. Ordered' /\ Issued'
  BY DEF Inv, Ordered, Issued, Revoke
<1> QED BY <1>2, <1>4, <1>5, <1>6 DEF Inv

\* prepare moves an idle CPU to a domain that no CPU is on.
LEMMA PrepareInv ==
    ASSUME Constants, Inv, NEW c \in Cpus, NEW h \in DomainHandles, NEW gate \in Gates,
           Prepare(c, h, gate)
    PROVE  Inv'
<1> DEFINE lease == [cpu |-> c, seq |-> frontier[c].seq + 1, target |-> h,
                     role |-> domains[h.slot].role, root |-> domains[h.slot].root, gate |-> gate]
<1>1. /\ frontier[c].active = None /\ frontier[c].pending = None
      /\ Live(h) /\ domains[h.slot].refs = 0
      /\ frontier[c].seq < MaxSeq
      /\ domains' = [domains EXCEPT ![h.slot].refs = @ + 1]
      /\ frontier' = [frontier EXCEPT ![c].seq = frontier[c].seq + 1,
                                      ![c].pending = lease, ![c].call = None]
      /\ UNCHANGED <<spent, calls>>
  BY DEF Prepare, Retained
<1>2. h.slot \in DomainSlots /\ h.slot \in Occupied /\ h = Handle(h.slot)
  BY <1>1, HandleIsRecord DEF Inv
<1>3. lease \in Lease /\ lease # None
  BY <1>1, <1>2 DEF Constants, Inv, RegistryTypeOK, Lease, Separate
<1>4. RegistryTypeOK'
  BY <1>1, <1>2, <1>3 DEF Constants, Inv, RegistryTypeOK
<1>5. Separate'
  <2>1. \A s \in DomainSlots : /\ domains'[s].occupied = domains[s].occupied
                         /\ domains'[s].role = domains[s].role
                         /\ domains'[s].root = domains[s].root
                         /\ domains'[s].auth = domains[s].auth
    BY <1>1, <1>2 DEF Inv, RegistryTypeOK
  <2> QED BY <2>1 DEF Inv, Separate, Occupied, ValidDescriptor
<1>6. Referenced'
  <2>1. TargetOf(c)' = h /\ h # None
    BY <1>1, <1>3 DEF Constants, Inv, RegistryTypeOK, TargetOf
  <2>2. \A d \in Cpus : d # c => TargetOf(d)' = TargetOf(d)
    BY <1>1 DEF Inv, RegistryTypeOK, TargetOf
  <2>3. \A d \in Cpus : TargetOf(d) # None => TargetOf(d).slot # h.slot
    BY <1>1 DEF Inv, Referenced
  <2>4. Live(h)' /\ domains'[h.slot].refs = 1
    BY <1>1, <1>2 DEF Inv, RegistryTypeOK, Live
  <2>5. \A d \in Cpus : d # c /\ TargetOf(d) # None =>
            domains'[TargetOf(d).slot] = domains[TargetOf(d).slot]
    BY <1>1, <2>3, TargetTyped DEF Inv, RegistryTypeOK, DomainHandles
  <2>6. \A d \in Cpus : TargetOf(d)' # None => Live(TargetOf(d))' /\ domains'[TargetOf(d)'.slot].refs = 1
    BY <2>1, <2>2, <2>4, <2>5 DEF Inv, Referenced, Live
  <2>7. \A s \in DomainSlots : s # h.slot => domains'[s] = domains[s]
    BY <1>1 DEF Inv, RegistryTypeOK
  <2>8. \A s \in DomainSlots : domains'[s].gen = domains[s].gen
    BY <1>1, <1>2 DEF Inv, RegistryTypeOK
  <2>9. \A s \in DomainSlots : domains'[s].refs # 0 =>
            \E d \in Cpus : TargetOf(d)' # None /\ TargetOf(d)' = Handle(s)'
    <3> SUFFICES ASSUME NEW s \in DomainSlots, domains'[s].refs # 0
                 PROVE  \E d \in Cpus : TargetOf(d)' # None /\ TargetOf(d)' = Handle(s)'
      OBVIOUS
    <3>1. CASE s = h.slot
      BY <3>1, <1>2, <2>1, <2>8 DEF Handle
    <3>2. CASE s # h.slot
      <4>1. PICK d \in Cpus : TargetOf(d) # None /\ TargetOf(d) = Handle(s)
        BY <3>2, <2>7 DEF Inv, Referenced
      <4>2. d # c
        BY <4>1, <1>1 DEF TargetOf
      <4> QED BY <4>1, <4>2, <2>2, <2>8 DEF Handle
    <3> QED BY <3>1, <3>2
  <2> QED BY <2>1, <2>2, <2>3, <2>6, <2>9 DEF Inv, Referenced
<1>7. Ordered'
  <2>1. \A d \in Cpus : d # c => frontier'[d] = frontier[d]
    BY <1>1 DEF Inv, RegistryTypeOK
  <2>2. /\ frontier'[c].pending = lease /\ frontier'[c].seq = lease.seq /\ frontier'[c].call = None
        /\ frontier'[c].active = None /\ lease.cpu = c
    BY <1>1 DEF Inv, RegistryTypeOK
  <2> QED BY <2>1, <2>2 DEF Inv, Ordered
<1>8. Issued'
  <2>1. \A d \in Cpus : /\ d # c => frontier'[d] = frontier[d]
                        /\ frontier'[c].seq = frontier[c].seq + 1
    BY <1>1 DEF Inv, RegistryTypeOK
  <2>2. \A l \in spent : /\ l.cpu \in Cpus /\ l.seq \in Nat /\ l.seq <= frontier[l.cpu].seq
                         /\ frontier[l.cpu].pending # None => l.seq < frontier[l.cpu].seq
    BY Counters DEF Inv, RegistryTypeOK, Issued, Lease
  <2>3. \A k \in calls : k.cpu \in Cpus /\ k.seq \in Nat /\ k.seq <= frontier[k.cpu].seq
    BY Counters DEF Inv, RegistryTypeOK, Issued, Call
  <2>4. frontier[c].seq \in Nat
    BY Counters DEF Inv, RegistryTypeOK
  <2>5. spent' = spent /\ calls' = calls
    BY <1>1
  <2>6. \A l \in spent : /\ l.seq <= frontier'[l.cpu].seq
                         /\ frontier'[l.cpu].pending # None => l.seq < frontier'[l.cpu].seq
    <3> SUFFICES ASSUME NEW l \in spent
                 PROVE  /\ l.seq <= frontier'[l.cpu].seq
                        /\ frontier'[l.cpu].pending # None => l.seq < frontier'[l.cpu].seq
      OBVIOUS
    <3>1. CASE l.cpu = c
      BY <2>1, <2>2, <2>4, <3>1
    <3>2. CASE l.cpu # c
      BY <2>1, <2>2, <3>2
    <3> QED BY <3>1, <3>2
  <2>7. \A k \in calls : k.seq <= frontier'[k.cpu].seq
    BY <2>1, <2>3, <2>4
  <2> QED BY <2>5, <2>6, <2>7 DEF Issued
<1> QED BY <1>4, <1>5, <1>6, <1>7, <1>8 DEF Inv

\* commit makes the target of the pending lease the active domain: the CPU
\* stays on it.
LEMMA CommitInv ==
    ASSUME Constants, Inv, NEW c \in Cpus, NEW lease \in HeldLeases, NEW observed \in Roots,
           Commit(c, lease, observed)
    PROVE  Inv'
<1>1. /\ lease.cpu = c /\ frontier[c].pending = lease /\ Live(lease.target)
      /\ frontier' = [frontier EXCEPT ![c].pending = None, ![c].active = lease.target]
      /\ domains' = domains
      /\ \/ UNCHANGED <<spent, calls>>
         \/ spent' = {lease} /\ calls' = {}
  BY DEF Commit, Matches, RememberLease
<1>2. lease \in Lease /\ lease # None /\ lease.target \in DomainHandles /\ lease.target # None
  <2>1. lease \in Lease
    BY DEF Inv, RegistryTypeOK, HeldLeases
  <2> QED BY <2>1 DEF Constants, Lease
<1>3. RegistryTypeOK'
  <2>1. frontier' \in [Cpus -> [seq : 0 .. MaxSeq, active : DomainHandles \union {None},
                               pending : Lease \union {None}, call : Call \union {None}]]
    <3>1. [frontier[c] EXCEPT !.pending = None, !.active = lease.target] \in
              [seq : 0 .. MaxSeq, active : DomainHandles \union {None},
               pending : Lease \union {None}, call : Call \union {None}]
      BY <1>2 DEF Inv, RegistryTypeOK
    <3> QED BY <1>1, <3>1 DEF Inv, RegistryTypeOK
  <2>2. spent' \subseteq Lease /\ calls' \subseteq Call
    BY <1>1, <1>2 DEF Inv, RegistryTypeOK
  <2> QED BY <1>1, <2>1, <2>2 DEF Inv, RegistryTypeOK
<1>4. Separate'
  BY <1>1 DEF Inv, Separate, Occupied, ValidDescriptor
<1>5. \A d \in Cpus : TargetOf(d)' = TargetOf(d)
  BY <1>1, <1>2 DEF Inv, RegistryTypeOK, TargetOf
<1>6. Referenced'
  BY <1>1, <1>5 DEF Inv, Referenced, Live, Handle
<1>7. Ordered'
  BY <1>1, <1>2 DEF Inv, RegistryTypeOK, Ordered
<1>8. Issued'
  <2>1. \A d \in Cpus : /\ frontier'[d].seq = frontier[d].seq
                        /\ frontier'[d].pending = IF d = c THEN None ELSE frontier[d].pending
    BY <1>1 DEF Inv, RegistryTypeOK
  <2>2. lease.seq = frontier[c].seq /\ lease.seq <= frontier[c].seq
    BY <1>1, <1>2 DEF Inv, RegistryTypeOK, Ordered
  <2>3. \A l \in spent' : l = lease \/ l \in spent
    BY <1>1
  <2>4. \A k \in calls' : k \in calls
    BY <1>1
  <2> QED BY <1>1, <2>1, <2>2, <2>3, <2>4 DEF Inv, RegistryTypeOK, Issued, Lease, Call
<1> QED BY <1>3, <1>4, <1>6, <1>7, <1>8 DEF Inv

\* A CPU that gives up its target and the reference that goes with it, as abort
\* and enter_kernel do, leaves the other CPUs and slots alone.
LEMMA LeaveReferenced ==
    ASSUME Constants, Inv, RegistryTypeOK', NEW c \in Cpus, TargetOf(c) # None,
           domains' = Released(TargetOf(c)),
           TargetOf(c)' = None,
           \A d \in Cpus \ {c} : TargetOf(d)' = TargetOf(d)
    PROVE  Separate' /\ Referenced'
<1> DEFINE h == TargetOf(c)
<1>1. h \in DomainHandles /\ Live(h) /\ domains[h.slot].refs = 1
  BY TargetTyped DEF Inv, Referenced
<1>2. h.slot \in DomainSlots /\ h = Handle(h.slot)
  BY <1>1, HandleIsRecord DEF Inv
<1>3. \A s \in DomainSlots : /\ domains'[s].occupied = domains[s].occupied
                       /\ domains'[s].gen = domains[s].gen
                       /\ domains'[s].role = domains[s].role
                       /\ domains'[s].root = domains[s].root
                       /\ domains'[s].auth = domains[s].auth
                       /\ domains'[s].refs = IF s = h.slot THEN 0 ELSE domains[s].refs
  BY <1>1, <1>2 DEF Inv, RegistryTypeOK, Released
<1>4. Separate'
  BY <1>3 DEF Inv, Separate, Occupied, ValidDescriptor
<1>5. \A d \in Cpus : TargetOf(d)' # None => d # c /\ TargetOf(d)' = TargetOf(d) /\ TargetOf(d).slot # h.slot
  BY TargetSlots DEF Inv
<1>6. \A d \in Cpus : TargetOf(d)' # None => Live(TargetOf(d))' /\ domains'[TargetOf(d)'.slot].refs = 1
  <2>1. \A d \in Cpus : TargetOf(d)' # None => TargetOf(d).slot \in DomainSlots
    BY <1>5, TargetTyped DEF Inv, DomainHandles
  <2> QED BY <1>3, <1>5, <2>1 DEF Inv, Referenced, Live
<1>7. \A s \in DomainSlots : domains'[s].refs # 0 =>
          \E d \in Cpus : TargetOf(d)' # None /\ TargetOf(d)' = Handle(s)'
  <2> SUFFICES ASSUME NEW s \in DomainSlots, domains'[s].refs # 0
               PROVE  \E d \in Cpus : TargetOf(d)' # None /\ TargetOf(d)' = Handle(s)'
    OBVIOUS
  <2>1. s # h.slot /\ domains[s].refs # 0
    BY <1>3
  <2>2. PICK d \in Cpus : TargetOf(d) # None /\ TargetOf(d) = Handle(s)
    BY <2>1 DEF Inv, Referenced
  <2>3. d # c
    BY <1>2, <2>1, <2>2 DEF Handle
  <2> QED BY <1>3, <2>2, <2>3 DEF Handle
<1>8. Referenced'
  BY <1>5, <1>6, <1>7 DEF Inv, Referenced
<1> QED BY <1>4, <1>8

\* abort gives the pending lease back.
LEMMA AbortInv ==
    ASSUME Constants, Inv, NEW c \in Cpus, NEW lease \in HeldLeases, Abort(c, lease)
    PROVE  Inv'
<1>1. /\ lease.cpu = c /\ frontier[c].pending = lease
      /\ domains[lease.target.slot].refs # 0
      /\ domains' = Released(lease.target)
      /\ frontier' = [frontier EXCEPT ![c].pending = None]
      /\ \/ UNCHANGED <<spent, calls>>
         \/ spent' = {lease} /\ calls' = {}
  BY DEF Abort, Matches, RememberLease
<1>2. lease \in Lease /\ lease # None
  <2>1. lease \in Lease
    BY DEF Inv, RegistryTypeOK, HeldLeases
  <2> QED BY <2>1 DEF Constants
<1>3. TargetOf(c) = lease.target /\ lease.target \in DomainHandles /\ lease.target # None
  BY <1>1, <1>2 DEF TargetOf, Constants, Lease
<1>4. RegistryTypeOK'
  <2>1. frontier' \in [Cpus -> [seq : 0 .. MaxSeq, active : DomainHandles \union {None},
                               pending : Lease \union {None}, call : Call \union {None}]]
    <3>1. [frontier[c] EXCEPT !.pending = None] \in
              [seq : 0 .. MaxSeq, active : DomainHandles \union {None},
               pending : Lease \union {None}, call : Call \union {None}]
      BY <1>2 DEF Inv, RegistryTypeOK
    <3> QED BY <1>1, <3>1 DEF Inv, RegistryTypeOK
  <2>2. spent' \subseteq Lease /\ calls' \subseteq Call
    BY <1>1, <1>2 DEF Inv, RegistryTypeOK
  <2>3. domains' \in [DomainSlots -> [occupied : BOOLEAN, gen : 0 .. MaxDomainGen, refs : 0 .. 1,
                             role : Roles, root : Roots \union {None}, auth : SUBSET Resources]]
    BY <1>1, <1>3, SMTT(30) DEF Inv, RegistryTypeOK, Released, DomainHandles
  <2> QED BY <2>1, <2>2, <2>3 DEF RegistryTypeOK
<1>5. TargetOf(c)' = None /\ \A d \in Cpus \ {c} : TargetOf(d)' = TargetOf(d)
  BY <1>1, <1>2 DEF Inv, RegistryTypeOK, Ordered, TargetOf
<1>6. Separate' /\ Referenced'
  BY <1>1, <1>3, <1>4, <1>5, LeaveReferenced
<1>7. Ordered'
  BY <1>1, <1>2 DEF Inv, RegistryTypeOK, Ordered
<1>8. Issued'
  <2>1. \A d \in Cpus : /\ frontier'[d].seq = frontier[d].seq
                        /\ frontier'[d].pending = IF d = c THEN None ELSE frontier[d].pending
    BY <1>1 DEF Inv, RegistryTypeOK
  <2>2. lease.seq = frontier[c].seq /\ lease.seq <= frontier[c].seq
    BY <1>1, <1>2 DEF Inv, RegistryTypeOK, Ordered
  <2>3. \A l \in spent' : l = lease \/ l \in spent
    BY <1>1
  <2>4. \A k \in calls' : k \in calls
    BY <1>1
  <2> QED BY <1>1, <2>1, <2>2, <2>3, <2>4 DEF Inv, RegistryTypeOK, Issued, Lease, Call
<1> QED BY <1>4, <1>6, <1>7, <1>8 DEF Inv

\* enter_kernel takes the CPU back from its active domain.
LEMMA EnterKernelInv ==
    ASSUME Constants, Inv, NEW c \in Cpus, NEW caller \in DomainHandles,
           NEW source \in Roots, NEW installed \in Roots,
           EnterKernel(c, caller, source, installed)
    PROVE  Inv'
<1> DEFINE call == [cpu |-> c, caller |-> caller, seq |-> frontier[c].seq + 1]
<1>1. /\ frontier[c].pending = None /\ frontier[c].active = caller
      /\ frontier[c].seq < MaxSeq
      /\ domains[caller.slot].refs # 0
      /\ domains' = Released(caller)
      /\ frontier' = [frontier EXCEPT ![c].seq = frontier[c].seq + 1,
                                      ![c].active = None, ![c].call = call]
      /\ \/ UNCHANGED <<spent, calls>>
         \/ spent' = {} /\ calls' = {call}
  BY DEF EnterKernel, RememberCall
<1>2. call \in Call /\ caller # None
  BY <1>1, Counters DEF Constants, Inv, RegistryTypeOK, Call
<1>3. TargetOf(c) = caller
  BY <1>1 DEF TargetOf
<1>4. RegistryTypeOK'
  BY <1>1, <1>2, Counters DEF Inv, RegistryTypeOK, Released, DomainHandles
<1>5. TargetOf(c)' = None /\ \A d \in Cpus \ {c} : TargetOf(d)' = TargetOf(d)
  BY <1>1 DEF Inv, RegistryTypeOK, TargetOf
<1>6. Separate' /\ Referenced'
  BY <1>1, <1>2, <1>3, <1>4, <1>5, LeaveReferenced
<1>7. Ordered'
  BY <1>1 DEF Inv, RegistryTypeOK, Ordered
<1>8. Issued'
  <2>1. \A d \in Cpus : /\ frontier'[d].seq = IF d = c THEN frontier[c].seq + 1 ELSE frontier[d].seq
                        /\ frontier'[d].pending = frontier[d].pending
    BY <1>1 DEF Inv, RegistryTypeOK
  <2>2. call.cpu = c /\ call.seq = frontier'[c].seq /\ call.seq <= frontier'[c].seq
    BY <1>1, <2>1 DEF Inv, RegistryTypeOK
  <2>3. \A k \in calls' : k = call \/ k \in calls
    BY <1>1
  <2>4. \A l \in spent' : l \in spent
    BY <1>1
  <2> QED BY <2>1, <2>2, <2>3, <2>4 DEF Inv, RegistryTypeOK, Issued, Lease, Call
<1> QED BY <1>4, <1>6, <1>7, <1>8 DEF Inv

\* Every step of the registry and the frontiers preserves the invariant.
LEMMA NextInv == Constants /\ Inv /\ [RegistryNext]_registry => Inv'
<1> SUFFICES ASSUME Constants, Inv, [RegistryNext]_registry
             PROVE  Inv'
  OBVIOUS
<1>1. CASE UNCHANGED registry
  <2>1. RegistryTypeOK' /\ Ordered' /\ Issued'
    BY <1>1 DEF registry, Inv, RegistryTypeOK, Ordered, Issued
  <2>2. Separate'
    BY <1>1 DEF registry, Inv, Separate, Occupied, ValidDescriptor
  <2>3. \A c \in Cpus : TargetOf(c)' = TargetOf(c)
    BY <1>1 DEF registry, TargetOf
  <2>4. Referenced'
    BY <1>1, <2>3 DEF registry, Inv, Referenced, Live, Handle
  <2> QED BY <2>1, <2>2, <2>4 DEF Inv
<1>2. CASE RegistryNext
  BY <1>2, RegisterInv, RevokeInv, PrepareInv, CommitInv, AbortInv, EnterKernelInv DEF RegistryNext
<1> QED BY <1>1, <1>2

-----------------------------------------------------------------------------

\* The inductive invariant says what DomainsExclusive asks.
LEMMA InvExclusive == Constants /\ Inv => DomainsExclusive
<1> SUFFICES ASSUME Constants, Inv
             PROVE  DomainsExclusive
  OBVIOUS
<1>1. \A c \in Cpus : frontier[c].pending \notin spent
  BY DEF Constants, Inv, RegistryTypeOK, Ordered, Issued
<1>2. ASSUME NEW c \in Cpus, NEW call \in calls, NEW r \in Resources,
             Authorizes(c, call, {r}), NEW s \in Occupied, r \in domains[s].auth
      PROVE  Handle(s) = call.caller
  <2>1. call.caller \in DomainHandles /\ Live(call.caller) /\ r \in domains[call.caller.slot].auth
    BY <1>2 DEF Authorizes, Inv, RegistryTypeOK, Call
  <2>2. call.caller = Handle(call.caller.slot) /\ call.caller.slot \in Occupied
    BY <2>1, HandleIsRecord DEF Inv
  <2>3. s = call.caller.slot
    BY <1>2, <2>1, <2>2 DEF Inv, Separate
  <2> QED BY <2>2, <2>3
<1>3. \A c \in Cpus, call \in calls, r \in Resources :
          Authorizes(c, call, {r}) =>
              \A s \in Occupied : r \in domains[s].auth => Handle(s) = call.caller
  BY <1>2
<1> QED BY <1>1, <1>3 DEF DomainsExclusive, Inv, Separate, Referenced

\* ring_authority.rs, for any number of domains and CPUs: live domains share no
\* root and no resource, execution_references counts the CPUs on a domain
\* exactly, a used lease is never pending again, and a request is authorised
\* only for the one domain whose authority covers it.
THEOREM DomainsStayExclusive == RegistrySpec => []DomainsExclusive
<1>1. RegistryInit => Inv
  BY RegistryAssumption, InitInv
<1>2. Inv /\ [RegistryNext]_registry => Inv'
  BY RegistryAssumption, NextInv
<1>3. Inv => DomainsExclusive
  BY RegistryAssumption, InvExclusive
<1> QED BY <1>1, <1>2, <1>3, PTL DEF RegistrySpec

\* validate_invocation, for any number of CPUs: an invocation that lost its
\* authority, because its CPU was given away or trapped again, never has it again.
THEOREM DeadCallsStayDead == RegistrySpec => DeadCallStaysDead
<1>1. RegistryInit => Inv
  BY RegistryAssumption, InitInv
<1>2. Inv /\ [RegistryNext]_registry => Inv'
  BY RegistryAssumption, NextInv
<1>3. Inv /\ [RegistryNext]_registry =>
          [\A c \in Cpus : \A call \in calls : ValidCall(c, call)' => ValidCall(c, call)]_registry
  <2> SUFFICES ASSUME Inv, RegistryNext, NEW c \in Cpus, NEW call \in calls, ValidCall(c, call)'
               PROVE  ValidCall(c, call)
    OBVIOUS
  <2>1. call # None /\ call.seq <= frontier[call.cpu].seq /\ call.cpu = c
    BY RegistryAssumption DEF Constants, Inv, RegistryTypeOK, Issued, ValidCall
  <2>2. CASE frontier'[c] = frontier[c]
    BY <2>2 DEF ValidCall
  <2>3. CASE \E h \in DomainHandles, gate \in Gates : Prepare(c, h, gate)
    BY <2>1, <2>3 DEF Prepare, ValidCall, Inv, RegistryTypeOK
  <2>4. CASE \E lease \in HeldLeases, observed \in Roots : Commit(c, lease, observed)
    BY RegistryAssumption, <2>1, <2>4 DEF Commit, Matches, ValidCall, Constants, Inv, RegistryTypeOK, HeldLeases, Lease
  <2>5. CASE \E lease \in HeldLeases : Abort(c, lease)
    BY RegistryAssumption, <2>1, <2>5 DEF Abort, Matches, ValidCall, Constants, Inv, RegistryTypeOK, HeldLeases, Ordered
  <2>6. CASE \E caller \in DomainHandles, source, installed \in Roots :
                 EnterKernel(c, caller, source, installed)
    BY <2>1, <2>6 DEF EnterKernel, ValidCall, Inv, RegistryTypeOK
  <2>7. \/ frontier'[c] = frontier[c]
        \/ \E h \in DomainHandles, gate \in Gates : Prepare(c, h, gate)
        \/ \E lease \in HeldLeases, observed \in Roots : Commit(c, lease, observed)
        \/ \E lease \in HeldLeases : Abort(c, lease)
        \/ \E caller \in DomainHandles, source, installed \in Roots :
               EnterKernel(c, caller, source, installed)
    <3>1. CASE \E role \in Roles, root \in Roots, auth \in Authorities : Register(role, root, auth)
      BY <3>1 DEF Register
    <3>2. CASE \E h \in DomainHandles : Revoke(h)
      BY <3>2 DEF Revoke
    <3>3. CASE \E d \in Cpus \ {c} :
                  \/ \E h \in DomainHandles, gate \in Gates : Prepare(d, h, gate)
                  \/ \E lease \in HeldLeases, observed \in Roots : Commit(d, lease, observed)
                  \/ \E lease \in HeldLeases : Abort(d, lease)
                  \/ \E caller \in DomainHandles, source, installed \in Roots :
                         EnterKernel(d, caller, source, installed)
      <4>1. PICK d \in Cpus \ {c} :
                  \/ \E h \in DomainHandles, gate \in Gates : Prepare(d, h, gate)
                  \/ \E lease \in HeldLeases, observed \in Roots : Commit(d, lease, observed)
                  \/ \E lease \in HeldLeases : Abort(d, lease)
                  \/ \E caller \in DomainHandles, source, installed \in Roots :
                         EnterKernel(d, caller, source, installed)
        BY <3>3
      <4>2. ASSUME NEW h \in DomainHandles, NEW gate \in Gates, Prepare(d, h, gate)
            PROVE  frontier'[c] = frontier[c]
        BY <4>2 DEF Prepare, Inv, RegistryTypeOK
      <4>3. ASSUME NEW lease \in HeldLeases, NEW observed \in Roots, Commit(d, lease, observed)
            PROVE  frontier'[c] = frontier[c]
        BY <4>3 DEF Commit, Inv, RegistryTypeOK
      <4>4. ASSUME NEW lease \in HeldLeases, Abort(d, lease)
            PROVE  frontier'[c] = frontier[c]
        BY <4>4 DEF Abort, Inv, RegistryTypeOK
      <4>5. ASSUME NEW caller \in DomainHandles, NEW source \in Roots, NEW installed \in Roots,
                   EnterKernel(d, caller, source, installed)
            PROVE  frontier'[c] = frontier[c]
        BY <4>5 DEF EnterKernel, Inv, RegistryTypeOK
      <4> QED BY <4>1, <4>2, <4>3, <4>4, <4>5
    <3> QED BY <3>1, <3>2, <3>3 DEF RegistryNext
  <2> QED BY <2>2, <2>3, <2>4, <2>5, <2>6, <2>7
<1> QED BY <1>1, <1>2, <1>3, PTL DEF RegistrySpec, DeadCallStaysDead

=============================================================================
