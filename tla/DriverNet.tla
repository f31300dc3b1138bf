----------------------------- MODULE DriverNet ------------------------------
(***************************************************************************)
(* kernel/boulder/src/drivers/drivernet and drivernet_host.rs: choosing a  *)
(* driver for every display function at boot.  Each function is            *)
(* fingerprinted, the oracle ranks the strategies, and the dispatcher      *)
(* tries them in turn: begin, probe, activate, health, commit, or roll     *)
(* back and go on.  The platform splits a transaction between the          *)
(* isolation broker and the strategy's own broker; the firmware broker     *)
(* counts references to the scanout of drivers/firmware_display.rs.        *)
(*                                                                         *)
(* The five native strategies are one, "native": their vendor gates are    *)
(* disjoint, so at most one is admissible for a function.  Scores and      *)
(* confidence are numbers of the model; here any order they can produce.   *)
(* A deadline may be found passed, or the clock gone back, at every test.  *)
(***************************************************************************)
EXTENDS Integers, SequencesExt, FiniteSetsExt

CONSTANTS
    Displays,       \* display functions of the PCI inventory, in order
    MaximumGpus,    \* MAXIMUM_GPU_FINGERPRINTS
    LiveDomains     \* the isolation broker can transfer a domain to a native
                    \* driver: FALSE for BoulderIsolationBroker

VARIABLES
    gpus,           \* scratch.fingerprints: one record per fingerprint
    gpu,            \* index resolve_all is at
    ranked,         \* candidates of the decision still to be tried
    stage,          \* where try_candidate is
    tx,             \* ProbeTransaction: probe step, attempt, activated object
    attempts,       \* AttemptRecords of the current fingerprint
    domains,        \* fingerprints whose isolation domain is held
    engaged,        \* fingerprints whose native broker transaction is open
    retained,       \* retain_count of the firmware scanout
    results,        \* DriverNetSummary.resolutions
    primary,        \* primary_index, 0 for none
    owed            \* history: fingerprints whose rollback failed, and those
                    \* whose failed rollback begin() did not report

netVars == <<gpus, gpu, ranked, stage, tx, attempts, domains, engaged, retained,
             results, primary, owed>>

Strategies == {"native", "firmware", "quarantine"}

-----------------------------------------------------------------------------
(* Fingerprints and the oracle                                             *)

Synthetic == "synthetic"

\* fingerprint_inventory: the owner of the framebuffer first, then the other
\* functions while there is room, then a synthetic entry for a framebuffer that
\* no function owns.
FingerprintInventory(framebuffer, owner, isolated) ==
    LET owned    == owner # 0
        reserve  == framebuffer # "none" /\ ~owned
        capacity == MaximumGpus - (IF reserve THEN 1 ELSE 0)
        overflow == Len(Displays) > capacity
        Entry(address, firmware) ==
            [address |-> address, firmware |-> firmware,
             native |-> address \in isolated /\ ~overflow,
             boot |-> address = Synthetic]
        others   == SelectSeq(Displays, LAMBDA d : ~owned \/ d # Displays[owner])
        head     == IF owned THEN <<Entry(Displays[owner], framebuffer)>> ELSE <<>>
        room     == capacity - Len(head)
        listed   == SubSeq(others, 1, IF Len(others) < room THEN Len(others) ELSE room)
        tail     == IF reserve THEN <<Entry(Synthetic, framebuffer)>> ELSE <<>>
    IN  head \o [i \in DOMAIN listed |-> Entry(listed[i], "none")] \o tail

Usable(g) == g.firmware # "none"

\* gate_strategy under OraclePolicy::BLACK_LAB.
Admissible(g, strategy) ==
    \/ strategy = "native" /\ g.native
    \/ strategy = "firmware" /\ Usable(g)
    \/ strategy = "quarantine"

Position(order, strategy) == CHOOSE i \in DOMAIN order : order[i] = strategy

\* rotate_right(1) of order[i ..= j]: the j-th moves to place i.
RotateRight(order, i, j) ==
    [k \in DOMAIN order |->
        IF k < i \/ k > j THEN order[k] ELSE IF k = i THEN order[j] ELSE order[k - 1]]

\* ranked.sort_unstable_by: admissible candidates first, then by score.
SortedByScore(g) ==
    {order \in SetToSeqs(Strategies) :
        \A i, j \in DOMAIN order :
            i < j /\ Admissible(g, order[j]) => Admissible(g, order[i])}

OrderTerminalFallbacks(g, order) ==
    LET f == Position(order, "firmware")
        q == Position(order, "quarantine")
    IN  IF Usable(g) /\ q < f THEN RotateRight(order, q, f) ELSE order

PromoteSafeFallback(g, order) ==
    RotateRight(order, 1, Position(order, IF Usable(g) THEN "firmware" ELSE "quarantine"))

\* CompatibilityOracle::classify: the rankings some scores and confidence give.
Rankings(g) ==
    LET ordered == {OrderTerminalFallbacks(g, order) : order \in SortedByScore(g)}
    IN  ordered \cup {PromoteSafeFallback(g, order) : order \in ordered}

-----------------------------------------------------------------------------
NoTx == [step |-> 0, tries |-> 0, object |-> FALSE]

NetInit ==
    /\ \E framebuffer \in {"none", "malformed", "usable"}, owner \in 0 .. Len(Displays),
          isolated \in SUBSET ToSet(Displays) :
         /\ framebuffer = "none" => owner = 0
         /\ ~LiveDomains => isolated = {}
         /\ gpus = FingerprintInventory(framebuffer, owner, isolated)
    /\ gpu = 1 /\ ranked = <<>> /\ stage = "classify" /\ tx = NoTx /\ attempts = <<>>
    /\ domains = {} /\ engaged = {} /\ retained = 0
    /\ results = <<>> /\ primary = 0
    /\ owed = [failed |-> {}, unreported |-> {}]

G == gpus[gpu]
Candidate == Head(ranked)
held == <<domains, engaged, retained>>

\* An attempt is recorded and the next candidate is looked at.
NextCandidate(outcome) ==
    /\ attempts' = Append(attempts, [strategy |-> Candidate, outcome |-> outcome])
    /\ ranked' = Tail(ranked)
    /\ stage' = "candidate"
    /\ tx' = NoTx
    /\ UNCHANGED <<gpus, gpu, results, primary>>

\* resolve returns and resolve_all compacts the resolution into its summary.
Resolve(status, strategy, object, log) ==
    /\ results' = Append(results, [status |-> status, strategy |-> strategy, object |-> object,
                                   tried |-> {log[i].strategy : i \in DOMAIN log}])
    /\ gpu' = gpu + 1
    /\ stage' = "classify" /\ tx' = NoTx /\ ranked' = <<>> /\ attempts' = <<>>
    /\ UNCHANGED <<gpus, primary>>

\* oracle.classify, and resolve up to its loop: refused when the clock went back.
Classify ==
    /\ stage = "classify" /\ gpu <= Len(gpus)
    /\ \/ /\ ranked' \in Rankings(G)
          /\ attempts' = <<>> /\ stage' = "candidate"
          /\ UNCHANGED <<gpus, gpu, tx, results, primary>>
       \/ Resolve("Failed", "quarantine", FALSE, <<>>)
    /\ UNCHANGED <<held, owed>>

\* The gate: inadmissible, or a native descriptor that does not accept the
\* fingerprint at this confidence.
Skip ==
    /\ stage = "candidate" /\ ranked # <<>>
    /\ ~Admissible(G, Candidate) \/ Candidate = "native"
    /\ NextCandidate("Skipped")
    /\ UNCHANGED <<held, owed>>

\* begin: nothing was acquired, or what was acquired is given back here.
\* BoulderIsolationBroker refuses every native strategy.  The result of the
\* isolation rollback is discarded.
BeginRejected ==
    /\ stage = "candidate" /\ ranked # <<>> /\ Admissible(G, Candidate)
    /\ NextCandidate("ActivationRejected")
    /\ \/ UNCHANGED <<held, owed>>
       \/ /\ Candidate = "native" /\ LiveDomains
          /\ domains' = domains \cup {gpu}
          /\ owed' = [owed EXCEPT !.unreported = @ \cup {gpu}]
          /\ UNCHANGED <<engaged, retained>>

\* begin succeeds.  A native driver that would lose the firmware display is
\* rolled back at once.
Begin ==
    /\ stage = "candidate" /\ ranked # <<>> /\ Admissible(G, Candidate)
    /\ Candidate = "native" => LiveDomains
    /\ Candidate = "firmware" => G.firmware = "usable"
    /\ tx' = [NoTx EXCEPT !.step = 1]
    /\ \/ stage' = "probe"
       \/ Candidate = "native" /\ Usable(G) /\ stage' = "rollback"
    /\ domains' = IF Candidate = "native" THEN domains \cup {gpu} ELSE domains
    /\ engaged' = IF Candidate = "native" THEN engaged \cup {gpu} ELSE engaged
    /\ UNCHANGED <<gpus, gpu, ranked, attempts, retained, results, primary, owed>>

ProbeSteps == [native |-> 2, firmware |-> 2, quarantine |-> 1]
Retries == [native |-> 1, firmware |-> 0, quarantine |-> 0]

Proceed(next, transaction) ==
    /\ stage' = next /\ tx' = transaction
    /\ UNCHANGED <<gpus, gpu, ranked, attempts, results, primary, owed>>

Abort == Proceed("rollback", tx) /\ UNCHANGED held

\* run_probe_program: one probe_step and the deadline tests after it.
Probe ==
    /\ stage = "probe"
    /\ \/ /\ IF tx.step < ProbeSteps[Candidate]
             THEN Proceed("probe", [tx EXCEPT !.step = @ + 1, !.tries = 0])
             ELSE Proceed("activate", tx)
          /\ UNCHANGED held
       \/ /\ Candidate = "native" /\ tx.tries < Retries[Candidate]
          /\ Proceed("probe", [tx EXCEPT !.tries = @ + 1])
          /\ UNCHANGED held
       \/ Abort

\* activate: the firmware broker presents the scanout, quarantine nothing.
Activate ==
    /\ stage = "activate"
    /\ \/ \E object \in BOOLEAN :
            /\ Candidate = "firmware" => object
            /\ Candidate = "quarantine" => ~object
            /\ Proceed("health", [tx EXCEPT !.object = object])
            /\ UNCHANGED held
       \/ Abort

Health ==
    /\ stage = "health"
    /\ \/ Proceed("commit", tx) /\ UNCHANGED held
       \/ Abort

Log(outcome) == Append(attempts, [strategy |-> Candidate, outcome |-> outcome])

\* FirmwareDisplayTable: retain, and release, which fails when no reference is held.
ScanoutRetain == retained' = retained + 1

ScanoutRelease(ok) ==
    /\ ok = (retained # 0)
    /\ retained' = IF ok THEN retained - 1 ELSE retained

\* commit: the strategy's broker first, the isolation broker after it.
Commit ==
    /\ stage = "commit"
    /\ \/ /\ IF Candidate = "firmware" THEN ScanoutRetain ELSE UNCHANGED retained
          /\ engaged' = engaged \ {gpu}
          /\ Resolve(IF Candidate = "quarantine" THEN "Quarantined" ELSE "Committed",
                     Candidate, tx.object, Log("Committed"))
          /\ UNCHANGED <<domains, owed>>
       \/ Abort

\* The brokers' parts of rollback, which both run: the strategy's broker and the
\* isolation broker succeed or keep what they hold.
BrokerRollback(ok) ==
    \/ Candidate = "native" /\ engaged' = (IF ok THEN engaged \ {gpu} ELSE engaged)
       /\ UNCHANGED retained
    \/ Candidate = "firmware" /\ ScanoutRelease(ok) /\ UNCHANGED engaged
    \/ Candidate = "quarantine" /\ ok /\ UNCHANGED <<engaged, retained>>

IsolationRollback(ok) ==
    \/ Candidate = "native" /\ domains' = (IF ok THEN domains \ {gpu} ELSE domains)
    \/ Candidate # "native" /\ ok /\ UNCHANGED domains

\* Mutant: a failed rollback is counted and the next candidate begins.
RollbackGoesOn ==
    /\ stage = "rollback"
    /\ \E broker, isolation \in BOOLEAN :
         /\ BrokerRollback(broker) /\ IsolationRollback(isolation)
         /\ NextCandidate("RolledBack")
         /\ owed' = IF broker /\ isolation THEN owed
                    ELSE [owed EXCEPT !.failed = @ \cup {<<gpu, Candidate>>}]

\* rollback and rollback_record: a failed one ends the resolution.
Rollback ==
    /\ stage = "rollback"
    /\ \E broker, isolation \in BOOLEAN :
         /\ BrokerRollback(broker) /\ IsolationRollback(isolation)
         /\ IF broker /\ isolation
            THEN NextCandidate("RolledBack") /\ UNCHANGED owed
            ELSE /\ Resolve("Failed", "quarantine", FALSE, Log("RollbackFailed"))
                 /\ owed' = [owed EXCEPT !.failed = @ \cup {<<gpu, Candidate>>}]

\* NoSafeStrategy.
Exhausted ==
    /\ stage = "candidate" /\ ranked = <<>>
    /\ Resolve("Failed", "quarantine", FALSE, attempts)
    /\ UNCHANGED <<held, owed>>

DisplayAvailable(result) == result.status # "Failed" /\ result.object

\* select_primary: the boot display wins whatever the confidence.
SelectPrimary ==
    /\ stage = "classify" /\ gpu = Len(gpus) + 1
    /\ LET available == {i \in DOMAIN results : DisplayAvailable(results[i])}
           boot      == {i \in available : gpus[i].boot}
       IN  primary' \in IF available = {} THEN {0} ELSE IF boot = {} THEN available ELSE boot
    /\ stage' = "resolved"
    /\ UNCHANGED <<gpus, gpu, ranked, tx, attempts, held, results, owed>>

NetNext ==
    \/ Classify \/ Skip \/ BeginRejected \/ Begin \/ Probe \/ Activate \/ Health
    \/ Commit \/ Rollback \/ Exhausted \/ SelectPrimary

-----------------------------------------------------------------------------
(* What holds                                                              *)

Finished(i) == i \in DOMAIN results

CommittedBy(i, strategy) ==
    Finished(i) /\ results[i].status = "Committed" /\ results[i].strategy = strategy

\* DriverDispatcher::resolve and BlackLabDriverPlatform: an isolation domain is
\* held for a fingerprint only by the candidate in flight, by its committed
\* native driver, or by a rollback that failed; after a reported failure no later
\* candidate of that fingerprint begins; the scanout has exactly one reference
\* per committed firmware lease, so the primary's object can be rendered; and a
\* function with a usable framebuffer is quarantined only after that framebuffer
\* was tried.
LeasesAreExact ==
    /\ \A i \in domains \cup engaged :
         \/ i = gpu /\ stage \in {"probe", "activate", "health", "commit", "rollback"}
         \/ CommittedBy(i, "native")
         \/ i \in owed.unreported
         \/ <<i, "native">> \in owed.failed /\ Finished(i) /\ results[i].status = "Failed"
    /\ \A debt \in owed.failed : debt[1] < gpu
    /\ engaged \subseteq domains \cup {i \in 1 .. Len(gpus) : <<i, "native">> \in owed.failed}
    /\ retained = Cardinality({i \in DOMAIN results : CommittedBy(i, "firmware")})
    /\ primary # 0 /\ results[primary].strategy = "firmware" => retained > 0
    /\ \A i \in DOMAIN results :
         results[i].status = "Quarantined" /\ Usable(gpus[i]) => "firmware" \in results[i].tried

\* shims/firmware_fb.rs declares SHIM_FLAG_SUPPORTS_ROLLBACK: an attempt of the
\* firmware strategy that does not commit is rolled back.
FirmwareRollsBack == \A debt \in owed.failed : debt[2] # "firmware"
=============================================================================
