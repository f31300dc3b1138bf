------------------------ MODULE PolicyConstellation -------------------------
(***************************************************************************)
(* core/aether/src/constellation.rs: a policy in two banks, read in place  *)
(* through a guard that counts itself on its bank, and replaced by writing *)
(* the other bank.  LabCapsule (kernel/boulder/src/lab_capsule.rs) reads   *)
(* and publishes its program and its policy this way.  Every atomic access *)
(* and every half of a bank's contents is a step of its own.               *)
(***************************************************************************)
EXTENDS Integers, FiniteSets

CONSTANTS
    Contexts,           \* processors that read and publish
    MaxPolicies         \* bound on publications

ASSUME ContextsAssumption == IsFiniteSet(Contexts)

VARIABLES
    state,              \* STATE_EMPTY, STATE_INITIALIZING, STATE_READY
    lock,               \* the writer flag
    active,             \* index of the bank readers are sent to
    generation,
    readers,            \* reader count of each bank
    policyBanks,        \* contents: two halves, equal when no write is under way
    ctx                 \* each context: where it is, its bank, what its guard saw

policyVars == <<state, lock, active, generation, readers, policyBanks, ctx>>

BankIndices == 0 .. 1
Uninit == <<0, 0>>
Idle == [at |-> "idle", bank |-> 0, seen |-> Uninit]
Entering(bank) == [at |-> "enter", bank |-> bank, seen |-> Uninit]
At(c, place) == ctx[c].at = place
Goto(c, place) == ctx' = [ctx EXCEPT ![c].at = place]

PolicyInit ==
    /\ state = "EMPTY" /\ lock = FALSE /\ active = 0 /\ generation = 0
    /\ readers = [b \in BankIndices |-> 0]
    /\ policyBanks = [b \in BankIndices |-> Uninit]
    /\ ctx = [c \in Contexts |-> Idle]

-----------------------------------------------------------------------------
\* initialize: the winner of the exchange owns both banks until STATE_READY.
Claim(c) ==
    /\ At(c, "idle") /\ state = "EMPTY"
    /\ state' = "INITIALIZING"
    /\ Goto(c, "initialize")
    /\ UNCHANGED <<lock, active, generation, readers, policyBanks>>

Initialize(c) ==
    /\ At(c, "initialize")
    /\ \/ /\ generation = 0
          /\ policyBanks' = [b \in BankIndices |-> <<1, 1>>] /\ active' = 0 /\ generation' = 1
          /\ UNCHANGED <<state, ctx>>
       \/ /\ generation # 0
          /\ state' = "READY" /\ Goto(c, "idle")
          /\ UNCHANGED <<active, generation, policyBanks>>
    /\ UNCHANGED <<lock, readers>>

-----------------------------------------------------------------------------
\* read: load active, count on that bank, look at active again.
Read(c) ==
    /\ At(c, "idle") /\ state = "READY"
    /\ ctx' = [ctx EXCEPT ![c] = Entering(active)]
    /\ UNCHANGED <<state, lock, active, generation, readers, policyBanks>>

EnterBank(c) ==
    /\ At(c, "enter")
    /\ readers' = [readers EXCEPT ![ctx[c].bank] = @ + 1]
    /\ Goto(c, "check")
    /\ UNCHANGED <<state, lock, active, generation, policyBanks>>

Check(c) ==
    /\ At(c, "check")
    /\ IF active = ctx[c].bank
       THEN ctx' = [ctx EXCEPT ![c].at = "guard", ![c].seen = policyBanks[ctx[c].bank]]
       ELSE Goto(c, "retry")
    /\ UNCHANGED <<state, lock, active, generation, readers, policyBanks>>

\* The guard is dropped, or read leaves the bank and starts again.
LeaveBank(c) ==
    /\ At(c, "guard") \/ At(c, "retry")
    /\ readers' = [readers EXCEPT ![ctx[c].bank] = @ - 1]
    /\ IF At(c, "guard") THEN ctx' = [ctx EXCEPT ![c] = Idle] ELSE Goto(c, "again")
    /\ UNCHANGED <<state, lock, active, generation, policyBanks>>

ReadAgain(c) ==
    /\ At(c, "again")
    /\ ctx' = [ctx EXCEPT ![c] = Entering(active)]
    /\ UNCHANGED <<state, lock, active, generation, readers, policyBanks>>

-----------------------------------------------------------------------------
\* publish: take the writer flag, refuse while the other bank has readers.
Publish(c) ==
    /\ At(c, "idle") /\ state = "READY" /\ ~lock /\ generation < MaxPolicies
    /\ lock' = TRUE
    /\ Goto(c, "target")
    /\ UNCHANGED <<state, active, generation, readers, policyBanks>>

Target(c) ==
    /\ At(c, "target")
    /\ LET target == 1 - active
       IN  IF readers[target] # 0
           THEN ctx' = [ctx EXCEPT ![c] = Idle] /\ lock' = FALSE
           ELSE ctx' = [ctx EXCEPT ![c].at = "write", ![c].bank = target] /\ UNCHANGED lock
    /\ UNCHANGED <<state, active, generation, readers, policyBanks>>

\* Mutant: the bank is active as soon as the writer starts on it.
WriteActive(c) ==
    /\ At(c, "write")
    /\ policyBanks' = [policyBanks EXCEPT ![ctx[c].bank][1] = generation + 1]
    /\ active' = ctx[c].bank
    /\ Goto(c, "finish")
    /\ UNCHANGED <<state, lock, generation, readers>>

\* The first half of the bank, the second and the generation, then active.
Write(c) ==
    /\ At(c, "write")
    /\ policyBanks' = [policyBanks EXCEPT ![ctx[c].bank][1] = generation + 1]
    /\ Goto(c, "finish")
    /\ UNCHANGED <<state, lock, active, generation, readers>>

Finish(c) ==
    /\ At(c, "finish")
    /\ policyBanks' = [policyBanks EXCEPT ![ctx[c].bank][2] = generation + 1]
    /\ generation' = generation + 1
    /\ Goto(c, "activate")
    /\ UNCHANGED <<state, lock, active, readers>>

ActivateBank(c) ==
    /\ At(c, "activate")
    /\ active' = ctx[c].bank
    /\ Goto(c, "release")
    /\ UNCHANGED <<state, lock, generation, readers, policyBanks>>

Release(c) ==
    /\ At(c, "release")
    /\ lock' = FALSE
    /\ ctx' = [ctx EXCEPT ![c] = Idle]
    /\ UNCHANGED <<state, active, generation, readers, policyBanks>>

PolicyNext ==
    \E c \in Contexts :
        \/ Claim(c) \/ Initialize(c)
        \/ Read(c) \/ EnterBank(c) \/ Check(c) \/ LeaveBank(c) \/ ReadAgain(c)
        \/ Publish(c) \/ Target(c) \/ Write(c) \/ Finish(c) \/ ActivateBank(c) \/ Release(c)

PolicySpec == PolicyInit /\ [][PolicyNext]_policyVars

-----------------------------------------------------------------------------
(* What holds                                                              *)

Places(set) == {c \in Contexts : ctx[c].at \in set}

\* PolicyConstellation::read and publish: what a guard refers to is a whole
\* policy that nobody writes as long as the guard lives, however the loads of
\* active, the counters and the writer's check interleave; the reader counts are
\* exact, there is one writer, and the active bank is always whole.
GuardsPinBanks ==
    /\ \A c \in Places({"guard"}) :
         /\ policyBanks[ctx[c].bank] = ctx[c].seen
         /\ ctx[c].seen[1] = ctx[c].seen[2] /\ ctx[c].seen # Uninit
         /\ \A w \in Places({"write", "finish"}) : ctx[w].bank # ctx[c].bank
    /\ \A b \in BankIndices :
         readers[b] = Cardinality({c \in Places({"check", "guard", "retry"}) : ctx[c].bank = b})
    /\ Cardinality(Places({"target", "write", "finish", "activate", "release"})) = IF lock THEN 1 ELSE 0
    /\ state = "READY" => policyBanks[active][1] = policyBanks[active][2] /\ policyBanks[active] # Uninit
=============================================================================
