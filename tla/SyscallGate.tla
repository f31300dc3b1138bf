----------------------------- MODULE SyscallGate -----------------------------
(***************************************************************************)
(* The machine side of a system call: the per-CPU authority records of     *)
(* kernel/boulder/src/arch/x86_64/cpu_local.rs, the entry and return path  *)
(* of syscall.S, the publication of RSP0 in syscalls.rs, and the bring-up  *)
(* of privilege.rs.  Every failed check of the assembly or of Rust on this *)
(* path halts the CPU.  Interrupts are masked from entry to return, so a   *)
(* CPU's own steps are ordered; the steps of different CPUs interleave.    *)
(***************************************************************************)
EXTENDS Integers

CONSTANTS
    Cpus,           \* hardware threads, also naming their APIC id and TSS
    Logical,        \* logical CPU ids, also naming their entry stacks
    Records,        \* 1 .. MAXIMUM_CPU_AUTHORITIES
    Stacks,         \* kernel stacks of processes; contains Logical
    MaxGen,         \* u64::MAX of a generation
    None

VARIABLES
    record,         \* CpuAuthorityTable::records
    cpu             \* of each CPU: position, GS record, TSS RSP0, return lease

vars == <<record, cpu>>

FreeRecord(gen) == [state |-> "free", stack |-> None, tss |-> None, rsp0 |-> None, gen |-> gen,
                    entry |-> 0, armed |-> 0, apic |-> None, nesting |-> 0]

NoLease == [gen |-> 0, stack |-> None]

Init ==
    /\ record = [r \in Records |-> FreeRecord(0)]
    /\ cpu = [c \in Cpus |-> [pc |-> "boot", gs |-> None, rsp0 |-> None, lease |-> NoLease]]

-----------------------------------------------------------------------------
(* privilege::initialize                                                   *)

Registered == {r \in Records : record[r].state = "registered"}

Free == {r \in Records : record[r].state = "free"}

\* register_current_cpu: the TSS of the CPU already names the entry stack, and
\* no registered record has its APIC id, logical id, stack or TSS.
Register(c, logical) ==
    /\ cpu[c].pc = "boot"
    /\ \A r \in Registered :
          record[r].apic # c /\ record[r].stack # logical /\ record[r].tss # c
    /\ \E r \in Free :
          /\ \A q \in Free : r <= q
          /\ record[r].gen < MaxGen
          /\ record' = [record EXCEPT ![r] =
                 [state |-> "registered", stack |-> logical, tss |-> c, rsp0 |-> logical,
                  gen |-> record[r].gen + 1, entry |-> 0, armed |-> record[r].gen + 1,
                  apic |-> c, nesting |-> 0]]
          /\ cpu' = [cpu EXCEPT ![c].pc = "registered", ![c].gs = r, ![c].rsp0 = logical]

\* configure_syscall_entry reads the MSRs back; on a mismatch it restores them
\* and the registration is revoked.
Configure(c) ==
    /\ cpu[c].pc = "registered"
    /\ cpu' = [cpu EXCEPT ![c].pc = "kernel"]
    /\ UNCHANGED record

ConfigureFails(c) ==
    LET r == cpu[c].gs IN
    /\ cpu[c].pc = "registered"
    /\ record[r].apic = c
    /\ record[r].nesting = 0
    /\ record' = [record EXCEPT ![r] = FreeRecord(record[r].gen)]
    /\ cpu' = [cpu EXCEPT ![c].pc = "boot", ![c].gs = None]

\* enter_user_process: IRETQ into the first process.
EnterUser(c) ==
    /\ cpu[c].pc = "kernel"
    /\ cpu' = [cpu EXCEPT ![c].pc = "user"]
    /\ UNCHANGED record

-----------------------------------------------------------------------------
(* boulder_syscall_entry                                                   *)

Rec(c) == record[cpu[c].gs]

Halt(c) ==
    /\ cpu' = [cpu EXCEPT ![c].pc = "halted"]
    /\ UNCHANGED record

\* state, stack, TSS and nesting are tested, then nesting is taken.
Admits(c) ==
    /\ Rec(c).state = "registered"
    /\ Rec(c).stack # None
    /\ Rec(c).tss # None
    /\ Rec(c).nesting = 0

SyscallEntry(c) ==
    /\ cpu[c].pc = "user"
    /\ IF Admits(c)
       THEN /\ record' = [record EXCEPT ![cpu[c].gs].nesting = 1]
            /\ cpu' = [cpu EXCEPT ![c].pc = "entered"]
       ELSE Halt(c)

\* "The generation armed at the previous user return must still be current."
Armed(c) == Rec(c).gen # 0 /\ Rec(c).armed = Rec(c).gen

CheckArmed(c) ==
    /\ cpu[c].pc = "entered"
    /\ IF Armed(c)
       THEN /\ record' = [record EXCEPT ![cpu[c].gs].entry = Rec(c).gen]
            /\ cpu' = [cpu EXCEPT ![c].pc = "dispatch"]
       ELSE Halt(c)

\* validate_machine_entry on the active TSS.
MachineEntry(c) ==
    LET found == {r \in Registered : record[r].apic = c}
    IN  /\ found # {}
        /\ \A r \in found :
              /\ record[r].nesting = 1
              /\ record[r].gen # 0
              /\ record[r].entry = record[r].gen
              /\ record[r].armed = record[r].gen
              /\ record[r].tss = c
              /\ record[r].rsp0 = cpu[c].rsp0

Dispatch(c) ==
    /\ cpu[c].pc = "dispatch"
    /\ IF MachineEntry(c)
       THEN cpu' = [cpu EXCEPT ![c].pc = "serve"] /\ UNCHANGED record
       ELSE Halt(c)

-----------------------------------------------------------------------------
(* boulder_syscall_activate                                                *)

\* prepare_return for the kernel stack of the process to run next.
PrepareReturn(c, stack) ==
    /\ cpu[c].pc = "serve"
    /\ IF MachineEntry(c) /\ Rec(c).gen < MaxGen
       THEN /\ cpu' = [cpu EXCEPT ![c].pc = "prepared",
                                  ![c].lease = [gen |-> Rec(c).gen, stack |-> stack]]
            /\ UNCHANGED record
       ELSE Halt(c)

\* RSP0 is written to the active TSS and read back.
WriteTss(c) ==
    /\ cpu[c].pc = "prepared"
    /\ cpu' = [cpu EXCEPT ![c].pc = "written", ![c].rsp0 = cpu[c].lease.stack]
    /\ UNCHANGED record

LeaseHolds(c) ==
    /\ Rec(c).state = "registered"
    /\ Rec(c).apic = c
    /\ Rec(c).nesting = 1
    /\ Rec(c).gen = cpu[c].lease.gen
    /\ Rec(c).entry = cpu[c].lease.gen
    /\ Rec(c).tss = c
    /\ cpu[c].rsp0 = cpu[c].lease.stack

\* Mutant: the record keeps the RSP0 of the previous process.
CommitReturnKeepsRsp0(c) ==
    /\ cpu[c].pc = "written"
    /\ IF LeaseHolds(c)
       THEN /\ record' = [record EXCEPT ![cpu[c].gs].rsp0 = @,
                                        ![cpu[c].gs].armed = cpu[c].lease.gen + 1,
                                        ![cpu[c].gs].gen = cpu[c].lease.gen + 1]
            /\ cpu' = [cpu EXCEPT ![c].pc = "committed", ![c].lease = NoLease]
       ELSE Halt(c)

CommitReturn(c) ==
    /\ cpu[c].pc = "written"
    /\ IF LeaseHolds(c)
       THEN /\ record' = [record EXCEPT ![cpu[c].gs].rsp0 = cpu[c].rsp0,
                                        ![cpu[c].gs].armed = cpu[c].lease.gen + 1,
                                        ![cpu[c].gs].gen = cpu[c].lease.gen + 1]
            /\ cpu' = [cpu EXCEPT ![c].pc = "committed", ![c].lease = NoLease]
       ELSE Halt(c)

\* The return half of syscall.S, to SYSRETQ.
Sysret(c) ==
    /\ cpu[c].pc = "committed"
    /\ IF Armed(c) /\ Rec(c).nesting = 1
       THEN /\ record' = [record EXCEPT ![cpu[c].gs].entry = 0, ![cpu[c].gs].nesting = 0]
            /\ cpu' = [cpu EXCEPT ![c].pc = "user"]
       ELSE Halt(c)

-----------------------------------------------------------------------------

KernelStep(c) ==
    \/ CheckArmed(c)
    \/ Dispatch(c)
    \/ \E stack \in Stacks : PrepareReturn(c, stack)
    \/ WriteTss(c)
    \/ CommitReturn(c)
    \/ Sysret(c)

Next ==
    \E c \in Cpus :
        \/ \E logical \in Logical : Register(c, logical)
        \/ Configure(c)
        \/ ConfigureFails(c)
        \/ EnterUser(c)
        \/ SyscallEntry(c)
        \/ KernelStep(c)

Spec == Init /\ [][Next]_vars

-----------------------------------------------------------------------------
(* Properties                                                              *)

InKernel == {"entered", "dispatch", "serve", "prepared", "written", "committed"}

Positions == InKernel \union {"boot", "registered", "kernel", "user", "halted"}

\* Records and CPUs hold values of their types.
TypeOK ==
    /\ record \in [Records -> [state : {"free", "registered"}, stack : Stacks \union {None},
                               tss : Cpus \union {None}, rsp0 : Stacks \union {None},
                               gen : 0 .. MaxGen, entry : 0 .. MaxGen, armed : 0 .. MaxGen,
                               apic : Cpus \union {None}, nesting : 0 .. 1]]
    /\ cpu \in [Cpus -> [pc : Positions, gs : Records \union {None},
                         rsp0 : Stacks \union {None},
                         lease : [gen : 0 .. MaxGen, stack : Stacks \union {None}]]]

\* While a CPU is in user mode its record is ready for the next system call:
\* nesting released, generation armed, no entry open, and the RSP0 that an
\* interrupt would take is the one the record certifies.  Two CPUs are never in
\* the kernel on the same entry stack or record.  And none of the many checks
\* on the path can fail in a correct run: a CPU stops in the gate only when its
\* generation counter is exhausted.
GateReady ==
    /\ TypeOK
    /\ \A c \in Cpus :
           /\ cpu[c].pc = "user" =>
                 /\ Rec(c).state = "registered" /\ Rec(c).apic = c
                 /\ Rec(c).nesting = 0 /\ Rec(c).entry = 0 /\ Armed(c)
                 /\ Rec(c).rsp0 = cpu[c].rsp0
           /\ \A d \in Cpus \ {c} :
                 {cpu[c].pc, cpu[d].pc} \subseteq InKernel =>
                     cpu[c].gs # cpu[d].gs /\ Rec(c).stack # Rec(d).stack
           /\ cpu[c].pc = "halted" => Rec(c).gen = MaxGen
=============================================================================
