---------------------------- MODULE NexusRuntime ----------------------------
(***************************************************************************)
(* The Nexus runtime: the matrix and its thermal ledger, the commands that *)
(* change them (control), the heartbeat with its containment orders, the   *)
(* policy transition (propose, quorum, forge, witness, certificate) and    *)
(* the echo that replays a certified transition from its checkpoint.       *)
(*                                                                         *)
(* One driver runs the heartbeat, the policy and the echo in order         *)
(* (NexusDeferred shows that it is alone).  Commands of other processors   *)
(* come between its steps: every step below is one critical section of the *)
(* matrix lock.  State roots are modelled by what they are digests of;     *)
(* amplitudes and phases are left out, so which pairs decohere, what the   *)
(* governor orders and whether a rephase is near enough are choices.       *)
(***************************************************************************)
EXTENDS Integers, Sequences, FiniteSets, FiniteSetsExt

CONSTANTS
    Pairs,            \* the pair slots of the matrix
    Costs,            \* the heat an entangled pair costs (8 or more)
    MaxCharge,        \* MAX_THERMAL_CHARGE
    Policies,         \* proposed policies: [setting, rephase, ceiling]
    VaultSlots,       \* the slots of the continuity vault, 0 .. N-1
    MaxEchoes,        \* PENDING, the echoes that may wait
    MaxCheckpoints,   \* bound: checkpoints taken in a behaviour
    MaxDrives         \* bound: drives in a behaviour

VARIABLES matrix, charge, vault, reactor, cert, echoes, drive

nexusVars == <<matrix, charge, vault, reactor, cert, echoes, drive>>

None == [none |-> TRUE]

Matrix0 == [gen |-> 1, tick |-> 0, setting |-> 0, mass |-> 0, collapses |-> 0,
            pairs |-> [p \in Pairs |-> 0], tasks |-> 0]

\* refresh_hologram digests everything but what the scheduler holds.
Root(m) == [m EXCEPT !.tasks = 0]

NexusInit ==
    /\ matrix = Matrix0
    /\ charge = 0
    /\ vault = [slots |-> [s \in VaultSlots |-> None], cursor |-> 0, next |-> 1, last |-> None]
    /\ reactor = [pending |-> None, busy |-> FALSE, epoch |-> 0, acked |-> 0, witnesses |-> << >>]
    /\ cert = [seq |-> 0, outcome |-> "none"]
    /\ echoes = << >>
    /\ drive = [at |-> "idle", wall |-> 0, hand |-> None, verdict |-> "none"]

-----------------------------------------------------------------------------
\* checkpoint_runtime: the image goes to the slot at the cursor.
CheckpointId == [slot |-> vault.cursor, gen |-> vault.next, root |-> Root(matrix)]

Checkpointed ==
    [slots |-> [vault.slots EXCEPT ![vault.cursor] =
                   [gen |-> vault.next, root |-> Root(matrix), matrix |-> matrix, charge |-> charge]],
     cursor |-> (vault.cursor + 1) % Cardinality(VaultSlots),
     next |-> vault.next + 1,
     last |-> CheckpointId]

MayCheckpoint == vault.next <= MaxCheckpoints


\* ContinuityVault::restore finds the image the checkpoint id names.
LiveCheckpoint(v, id) ==
    /\ id # None
    /\ v.slots[id.slot] # None
    /\ v.slots[id.slot].gen = id.gen
    /\ v.slots[id.slot].root = id.root

\* NexusMatrix::execute for the commands that change something, on success:
\* the matrix and the charge that follow.  An error changes neither.
Attach(m, c) == IF m.tasks = 0 THEN {<<[m EXCEPT !.tasks = 1], c>>} ELSE {}

Entangle(m, c) ==
    IF \A p \in Pairs : m.pairs[p] # 0 THEN {}
    ELSE LET slot == CHOOSE p \in Pairs :
                        m.pairs[p] = 0 /\ \A q \in Pairs : m.pairs[q] = 0 => p <= q IN
         {<<[m EXCEPT !.gen = @ + 1, !.pairs[slot] = cost], c + cost>> :
            cost \in {h \in Costs : c + h <= MaxCharge}}

SetThreshold(m, c) == {<<[m EXCEPT !.setting = 1 - @, !.gen = @ + 1], c>>}

SetMass(m, c) == {<<[m EXCEPT !.mass = 1 - @], c>>}

\* OfferKairos flags a pair that is active.
OfferKairos(m, c) ==
    IF \E p \in Pairs : m.pairs[p] # 0 THEN {<<[m EXCEPT !.gen = @ + 1], c>>} ELSE {}

Execute(m, c) ==
    Attach(m, c) \cup Entangle(m, c) \cup SetThreshold(m, c) \cup SetMass(m, c)
        \cup OfferKairos(m, c)

\* control: an admitted command that may change the matrix takes a checkpoint
\* first, and goes back to it when it fails.
Control ==
    /\ MayCheckpoint
    /\ vault' = Checkpointed
    /\ \/ \E next \in Execute(matrix, charge) : matrix' = next[1] /\ charge' = next[2]
       \/ /\ LiveCheckpoint(Checkpointed, CheckpointId)
          /\ matrix' = Checkpointed.slots[vault.cursor].matrix
          /\ charge' = Checkpointed.slots[vault.cursor].charge
    /\ UNCHANGED <<reactor, cert, echoes, drive>>

-----------------------------------------------------------------------------
Total(costs, S) == MapThenSumSet(LAMBDA p : costs[p], S)

\* NexusMatrix::heartbeat: the pairs in dead have decohered; each gives a
\* quarter of its heat back and counts when the cage quarantines it.
Heartbeat(m, dead, caged) ==
    [m EXCEPT !.tick = drive.wall + 1,
              !.collapses = @ + Cardinality(caged),
              !.pairs = [p \in Pairs |-> IF p \in dead THEN 0 ELSE m.pairs[p]]]

Rebated(dead) ==
    LET rebate == Total([p \in Pairs |-> matrix.pairs[p] \div 4], dead) IN
    IF rebate > charge THEN 0 ELSE charge - rebate

\* rollback_latest: back to the newest checkpoint, when the vault still has it.
RollbackLatest(m, c) ==
    IF LiveCheckpoint(vault, vault.last)
    THEN /\ matrix' = vault.slots[vault.last.slot].matrix
         /\ charge' = vault.slots[vault.last.slot].charge
    ELSE matrix' = m /\ charge' = c

\* heartbeat_batch: the beat, then what the governor orders.
Beat ==
    /\ drive.at = "idle" /\ drive.wall < MaxDrives
    /\ drive' = [drive EXCEPT !.at = "policy", !.wall = @ + 1]
    /\ echoes' = [i \in DOMAIN echoes |-> [echoes[i] EXCEPT !.ripe = TRUE]]
    /\ \E dead \in SUBSET {p \in Pairs : matrix.pairs[p] # 0} : \E caged \in {{}, dead} :
          LET m == Heartbeat(matrix, dead, caged)
              c == Rebated(dead) IN
          \/ matrix' = m /\ charge' = c
          \/ matrix' = [m EXCEPT !.mass = 0] /\ charge' = c     \* Throttle
          \/ RollbackLatest(m, c)                               \* Rollback
    /\ UNCHANGED <<vault, reactor, cert>>

-----------------------------------------------------------------------------
\* apply_prepared on the effects of a policy: the threshold, the mass and,
\* when asked for, the phase.
Apply(m, policy) ==
    [m EXCEPT !.setting = policy.setting, !.mass = policy.setting,
              !.gen = @ + IF policy.rephase THEN 2 ELSE 1]

\* propose_policy: prepared against the live root, proposed, acknowledged.
Propose ==
    /\ drive.at = "policy"
    /\ drive' = [drive EXCEPT !.at = "poll"]
    /\ \/ UNCHANGED reactor        \* the capsule left the policy as it is
       \/ \E policy \in {p \in Policies : charge <= p.ceiling} :
             /\ reactor.pending = None /\ ~reactor.busy
             /\ reactor' = [reactor EXCEPT
                   !.pending = [ticket |-> reactor.epoch + 1, policy |-> policy,
                                base |-> Root(matrix)],
                   !.busy = TRUE, !.epoch = @ + 1, !.acked = reactor.epoch + 1]
    /\ UNCHANGED <<matrix, charge, vault, cert, echoes>>

\* poll: a commit every processor has acknowledged is taken out.
Poll ==
    /\ drive.at = "poll"
    /\ IF reactor.pending # None /\ reactor.acked = reactor.pending.ticket
       THEN /\ drive' = [drive EXCEPT !.at = "forge", !.hand = reactor.pending]
            /\ reactor' = [reactor EXCEPT !.pending = None]
       ELSE /\ drive' = [drive EXCEPT !.at = "echo"]
            /\ UNCHANGED reactor
    /\ UNCHANGED <<matrix, charge, vault, cert, echoes>>


\* A lane of the forge accepts: the contract holds before and after.  The
\* three lanes compute the same from the same inputs, so they agree.
Simulates(hand) ==
    /\ Root(matrix) = hand.base
    /\ charge <= hand.policy.ceiling

\* The quorum is released and the outcome joins the witness chain.
Finalized(hand, outcome) ==
    [reactor EXCEPT !.busy = FALSE, !.witnesses = Append(@, <<hand.ticket, outcome>>)]

Aborted(hand) == Finalized(hand, "aborted")

\* The certificate, and the capsule that will replay it from the checkpoint
\* taken just before.
Certified(hand) ==
    /\ cert' = [seq |-> cert.seq + 1, outcome |-> "committed", before |-> Root(matrix),
                after |-> Root(Apply(matrix, hand.policy)), heat |-> charge]
    /\ echoes' = IF Len(echoes) = MaxEchoes THEN echoes
                 ELSE Append(echoes, [cert |-> cert', policy |-> hand.policy,
                                      checkpoint |-> CheckpointId, ripe |-> FALSE])

\* service_policy_commit with a ready commit in hand: checkpoint, forge and
\* commit, witness, certify, schedule the echo; or abort.
Forge ==
    /\ drive.at = "forge" /\ MayCheckpoint
    /\ drive' = [drive EXCEPT !.at = "echo", !.hand = None]
    /\ vault' = Checkpointed
    /\ \/ /\ Simulates(drive.hand)
          /\ matrix' = Apply(matrix, drive.hand.policy)
          /\ reactor' = Finalized(drive.hand, "committed")
          /\ Certified(drive.hand)
       \/ /\ Simulates(drive.hand) => drive.hand.policy.rephase    \* too far a phase
          /\ reactor' = Aborted(drive.hand)
          /\ UNCHANGED <<matrix, cert, echoes>>
    /\ UNCHANGED charge

\* verify_replay on a restored image.
Verdict(image, echo) ==
    IF /\ Root(image.matrix) = echo.cert.before
       /\ Root(Apply(image.matrix, echo.policy)) = echo.cert.after
       /\ image.charge = echo.cert.heat
    THEN "reproduced" ELSE "diverged"

\* guarded_echo_rollback: back to the image, only if the suspect transition
\* is the newest certified one and still exactly live.
GuardedRollback(image, echo) ==
    IF cert.seq = echo.cert.seq /\ Root(matrix) = echo.cert.after
    THEN /\ matrix' = image.matrix /\ charge' = image.charge
         /\ cert' = [seq |-> cert.seq + 1, outcome |-> "diverged", before |-> echo.cert.after,
                     after |-> Root(image.matrix), heat |-> image.charge]
    ELSE UNCHANGED <<matrix, charge, cert>>

\* service_temporal_echo: the oldest echo, once it is due.
Echo ==
    /\ drive.at = "echo"
    /\ \/ /\ drive' = [drive EXCEPT !.at = "idle"]
          /\ UNCHANGED <<matrix, charge, cert, echoes>>
       \/ /\ echoes # << >> /\ Head(echoes).ripe
          /\ echoes' = Tail(echoes)
          /\ LET echo == Head(echoes)
                 image == vault.slots[echo.checkpoint.slot] IN
             IF ~LiveCheckpoint(vault, echo.checkpoint)
             THEN /\ drive' = [drive EXCEPT !.at = "idle"]
                  /\ UNCHANGED <<matrix, charge, cert>>
             ELSE /\ drive' = [drive EXCEPT !.at = "idle", !.verdict = Verdict(image, echo)]
                  /\ IF Verdict(image, echo) = "diverged" THEN GuardedRollback(image, echo)
                     ELSE UNCHANGED <<matrix, charge, cert>>
    /\ UNCHANGED <<vault, reactor>>

NexusNext == Control \/ Beat \/ Propose \/ Poll \/ Forge \/ Echo

NexusSpec == NexusInit /\ [][NexusNext]_nexusVars

-----------------------------------------------------------------------------

=============================================================================
