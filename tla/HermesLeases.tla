---------------------------- MODULE HermesLeases ----------------------------
(***************************************************************************)
(* The resources behind a Hermes transport: the lease ledger of            *)
(* drivers/hermes_platform.rs over the frame-backed DMA service of         *)
(* drivers/hermes_dma.rs, the interrupt registry of interrupts/irq.rs and  *)
(* a remapping backend that may fail any call.  A platform call holds the  *)
(* ledger's lock from end to end, and the locks below it, so it is one     *)
(* step.                                                                   *)
(***************************************************************************)
EXTENDS Integers, FiniteSets, Sequences, FiniteSetsExt

CONSTANTS
    Frames,         \* physical frames of the pool
    IovaPages,      \* pages of the service's IOVA aperture
    DmaSlots,       \* MAXIMUM_DMA_LEASES = MAXIMUM_HERMES_DMA_LEASES
    Bars,           \* windows the device has
    Sizes,          \* DMA sizes asked for, in pages
    GenerationMax   \* u32::MAX of a slot's generation

VARIABLES
    led,            \* LeaseState: domain, bars, dma, irq
    svc,            \* DmaState with the pool and the translations it maps
    line,           \* IrqSlot of the device's line: "free", "masked", "enabled"
    backend         \* the remapper's domain: "idle", "active", "released"

vars == <<led, svc, line, backend>>

\* AllocationRecord and its pages: the leased address range, the frames drawn
\* so far in page order, and the pages among them that are mapped.
NoRecord ==
    [generation |-> 0, phase |-> "Empty", iova |-> 0, pages |-> 0, frames |-> <<>>, mapped |-> {}]

NoLease == [active |-> FALSE, slot |-> 0, generation |-> 0]

Init ==
    /\ led = [domain |-> FALSE, bars |-> {}, irq |-> FALSE, dma |-> [n \in 1 .. DmaSlots |-> NoLease]]
    /\ svc = [rec |-> [n \in 1 .. DmaSlots |-> NoRecord], pool |-> 1 .. Frames, hw |-> {}]
    /\ line = "free" /\ backend = "idle"

-----------------------------------------------------------------------------
(* Records of the DMA service                                              *)

Quarantined(s) == {n \in 1 .. DmaSlots : s.rec[n].phase \in {"Mapping", "ReclaimingMappings"}}

Used(s) == {n \in 1 .. DmaSlots : s.rec[n].phase # "Empty"}

\* The address range a record has leased from the IovaLedger.
Span(r) == r.iova .. r.iova + r.pages - 1

ReservedFrames(s) == UNION {Span(s.rec[n]) : n \in Used(s)}

FreeRuns(s, pages) ==
    {a \in 1 .. IovaPages - pages + 1 : (a .. a + pages - 1) \cap ReservedFrames(s) = {}}

\* The translation of page k of a record.
Translation(r, k) == <<r.iova + k - 1, r.frames[k]>>

\* Mutant: the frames go back although a page is still mapped.
ReclaimEarly(s, x) ==
    LET r == s.rec[x]
    IN {[s |-> [s EXCEPT !.rec[x] = [NoRecord EXCEPT !.generation = r.generation],
                         !.pool = @ \cup {r.frames[k] : k \in 1 .. Len(r.frames)}], ok |-> TRUE]}

\* reclaim_record: pages are unmapped from the last to the first, and the
\* first unmap that fails ends the call with the rest still held.  Then the
\* address lease and the frames go back, which cannot fail: the lease is the
\* record's own and the frames are allocated.
Reclaim(s, x) ==
    LET r == s.rec[x]
        after(lo) == {k \in r.mapped : k < lo}
        held(lo) == [s EXCEPT !.rec[x].phase = "ReclaimingMappings", !.rec[x].mapped = after(lo),
                              !.hw = @ \ {Translation(r, k) : k \in r.mapped \ after(lo)}]
        done == [s EXCEPT !.rec[x] = [NoRecord EXCEPT !.generation = r.generation],
                          !.pool = @ \cup {r.frames[k] : k \in 1 .. Len(r.frames)},
                          !.hw = @ \ {Translation(r, k) : k \in r.mapped}]
        \* A page the backend no longer has is NOT_FOUND for ever.
        lost == {k \in r.mapped : backend # "active" \/ Translation(r, k) \notin s.hw}
    IN {[s |-> held(lo), ok |-> FALSE] :
            lo \in {k + 1 : k \in {j \in r.mapped : \A l \in lost : l <= j}}}
       \cup (IF lost = {} THEN {[s |-> done, ok |-> TRUE]} ELSE {})

\* reclaim_quarantined: in slot order, stopping at the first that fails.
ReclaimQuarantined(s) ==
    LET step[n \in 0 .. DmaSlots] ==
            IF n = 0 THEN {[s |-> s, ok |-> TRUE]}
            ELSE UNION {IF q.ok /\ n \in Quarantined(q.s) THEN Reclaim(q.s, n) ELSE {q} :
                        q \in step[n - 1]}
    IN step[DmaSlots]

FreeRecords(s) ==
    {n \in 1 .. DmaSlots : s.rec[n].phase = "Empty" /\ s.rec[n].generation # GenerationMax}

Opened(s, x, pages) ==
    [s EXCEPT !.rec[x] = [generation |-> s.rec[x].generation + 1, phase |-> "Mapping",
                          iova |-> Min(FreeRuns(s, pages)), pages |-> pages,
                          frames |-> <<>>, mapped |-> {}]]

\* The frames an allocation draws, lowest first, as many as there are.
Drawn(s, x, count) ==
    LET chosen == [k \in 1 .. count |->
                      CHOOSE f \in s.pool : Cardinality({g \in s.pool : g < f}) = k - 1]
    IN [s EXCEPT !.rec[x].frames = chosen,
                 !.pool = @ \ {chosen[k] : k \in 1 .. count}]

\* The first k pages of the record are mapped.
MappedUpTo(s, x, k) ==
    [s EXCEPT !.rec[x].mapped = 1 .. k,
              !.hw = @ \cup {Translation(s.rec[x], j) : j \in 1 .. k}]

\* allocate: quarantined records first; then an address lease, the frames,
\* the translations.  A pool that runs dry and a map that fails both reclaim
\* the record.
Allocate(s0, pages) ==
    UNION {IF ~q.ok \/ FreeRecords(q.s) = {} \/ FreeRuns(q.s, pages) = {}
           THEN {[s |-> q.s, slot |-> 0]}
           ELSE LET x == Min(FreeRecords(q.s))
                    opened == Opened(q.s, x, pages)
                    dry == Cardinality(opened.pool) < pages
                    owned == Drawn(opened, x, IF dry THEN Cardinality(opened.pool) ELSE pages)
                    failed == IF dry THEN {owned}
                              ELSE {MappedUpTo(owned, x, k) : k \in 0 .. pages - 1}
                IN UNION {{[s |-> r.s, slot |-> 0] : r \in Reclaim(f, x)} : f \in failed}
                   \cup (IF dry THEN {} ELSE
                         {[s |-> [MappedUpTo(owned, x, pages) EXCEPT !.rec[x].phase = "Mapped"],
                           slot |-> x]}) :
           q \in ReclaimQuarantined(s0)}

\* release: the handle names a live record of this generation.
Release(s, lease) ==
    IF s.rec[lease.slot].phase = "Empty" \/ s.rec[lease.slot].generation # lease.generation
    THEN {[s |-> s, ok |-> FALSE]}
    ELSE Reclaim(s, lease.slot)

-----------------------------------------------------------------------------
(* The platform                                                            *)

AcquireDomain ==
    /\ ~led.domain /\ backend = "idle"
    /\ led' = [led EXCEPT !.domain = TRUE]
    /\ backend' = "active"
    /\ UNCHANGED <<svc, line>>

MapBar(b) ==
    /\ led.domain /\ b \notin led.bars
    /\ led' = [led EXCEPT !.bars = @ \cup {b}]
    /\ UNCHANGED <<svc, line, backend>>

RevokeBar(b) ==
    /\ b \in led.bars
    /\ led' = [led EXCEPT !.bars = @ \ {b}]
    /\ UNCHANGED <<svc, line, backend>>

FreeLeases == {n \in 1 .. DmaSlots : ~led.dma[n].active}

AllocateDma(pages) ==
    /\ led.domain
    /\ FreeLeases # {}
    /\ \E a \in Allocate(svc, pages) :
         /\ svc' = a.s
         /\ led' = IF a.slot = 0 THEN led
                   ELSE [led EXCEPT !.dma[Min(FreeLeases)] =
                            [active |-> TRUE, slot |-> a.slot,
                             generation |-> a.s.rec[a.slot].generation]]
    /\ UNCHANGED <<line, backend>>

\* revoke_dma: the record leaves the ledger only when the service released it.
RevokeDma(n) ==
    /\ led.dma[n].active
    /\ \E r \in Release(svc, led.dma[n]) :
         /\ svc' = r.s
         /\ led' = IF r.ok THEN [led EXCEPT !.dma[n] = NoLease] ELSE led
    /\ UNCHANGED <<line, backend>>

\* register_irq: registered, then enabled; if it cannot be enabled it is taken
\* out again.  The line may belong to somebody else.
RegisterIrq ==
    /\ led.domain /\ ~led.irq
    /\ line = "free"
    /\ led' = [led EXCEPT !.irq = TRUE]
    /\ line' = "enabled"
    /\ UNCHANGED <<svc, backend>>

\* revoke_irq: disabled, then unregistered, which masks the line.
RevokeIrq ==
    /\ led.irq
    /\ led' = [led EXCEPT !.irq = FALSE]
    /\ line' = "free"
    /\ UNCHANGED <<svc, backend>>

\* The DMA leases in reverse order, each tried whatever became of the others.
ReleaseAll(s, leases) ==
    LET step[k \in 0 .. DmaSlots] ==
            IF k = 0 THEN {[s |-> s, dma |-> leases]}
            ELSE LET n == DmaSlots + 1 - k IN
                 UNION {IF ~q.dma[n].active THEN {q}
                        ELSE {[s |-> r.s,
                               dma |-> IF r.ok THEN [q.dma EXCEPT ![n] = NoLease] ELSE q.dma] :
                               r \in Release(q.s, q.dma[n])} :
                        q \in step[k - 1]}
    IN step[DmaSlots]

\* cleanup releases the domain only when nothing is pending.
MayReleaseDomain(dma, bars) == bars = {} /\ \A n \in 1 .. DmaSlots : ~dma[n].active

\* cleanup, and retry_cleanup: interrupt, DMA and windows, then the domain,
\* whose release makes the backend clean up its own batches.
Cleanup ==
    /\ led.domain
    /\ \E q \in ReleaseAll(svc, led.dma), bars \in SUBSET led.bars :
         LET kept == [led EXCEPT !.irq = FALSE, !.dma = q.dma, !.bars = bars] IN
         \/ /\ led' = kept /\ svc' = q.s /\ UNCHANGED backend
         \/ /\ MayReleaseDomain(q.dma, bars)
            /\ led' = [kept EXCEPT !.domain = FALSE]
            /\ svc' = [q.s EXCEPT !.hw = {}]
            /\ backend' = "released"
         \/ /\ MayReleaseDomain(q.dma, bars)
            /\ \E kept_hw \in SUBSET q.s.hw : svc' = [q.s EXCEPT !.hw = kept_hw]
            /\ led' = kept /\ UNCHANGED backend
    /\ line' = IF led.irq THEN "free" ELSE line

Next ==
    \/ AcquireDomain
    \/ \E b \in Bars : MapBar(b) \/ RevokeBar(b)
    \/ \E pages \in Sizes : AllocateDma(pages)
    \/ \E n \in 1 .. DmaSlots : RevokeDma(n)
    \/ RegisterIrq \/ RevokeIrq \/ Cleanup

Spec == Init /\ [][Next]_vars

-----------------------------------------------------------------------------

TypeOK ==
    /\ led.domain \in BOOLEAN /\ led.irq \in BOOLEAN /\ led.bars \subseteq Bars
    /\ \A n \in 1 .. DmaSlots : led.dma[n].slot \in 0 .. DmaSlots
    /\ \A n \in 1 .. DmaSlots :
         /\ svc.rec[n].phase \in {"Empty", "Mapped", "ReclaimingMappings"}
         /\ svc.rec[n].generation \in 0 .. GenerationMax
    /\ line \in {"free", "enabled"} /\ backend \in {"idle", "active", "released"}

Owned(n) == {svc.rec[n].frames[k] : k \in 1 .. Len(svc.rec[n].frames)}

LedgerNames(n) ==
    {m \in 1 .. DmaSlots : led.dma[m] = [active |-> TRUE, slot |-> n,
                                         generation |-> svc.rec[n].generation]}

\* allocate, release and their failures (hermes_dma.rs:224-528) keep every
\* frame in the pool or in one record, and a device reaches a frame only
\* through a mapped page of the record that owns it, whatever calls of the
\* backend fail: no frame goes back to the pool while a translation names it.
\* A usable allocation has its whole range mapped and exactly one lease of the
\* platform's ledger, and the domain goes last: once cleanup has released it
\* no window, allocation or enabled interrupt is left (hermes_platform.rs:629-722).
FramesHeld ==
    /\ TypeOK
    /\ \A n \in Used(svc) : Owned(n) \cap svc.pool = {}
    /\ \A n, m \in Used(svc) :
         n # m => Owned(n) \cap Owned(m) = {} /\ Span(svc.rec[n]) \cap Span(svc.rec[m]) = {}
    /\ svc.pool \cup UNION {Owned(n) : n \in Used(svc)} = 1 .. Frames
    /\ \A t \in svc.hw :
         \E n \in Used(svc) : \E k \in svc.rec[n].mapped : t = Translation(svc.rec[n], k)
    /\ \A n \in 1 .. DmaSlots : svc.rec[n].phase = "Mapped" =>
         /\ Cardinality(LedgerNames(n)) = 1
         /\ backend = "active"
         /\ \A k \in 1 .. svc.rec[n].pages : Translation(svc.rec[n], k) \in svc.hw
    /\ ~led.domain =>
         /\ led.bars = {} /\ ~led.irq /\ line = "free" /\ svc.hw = {}
         /\ \A n \in 1 .. DmaSlots : ~led.dma[n].active
    /\ line = "enabled" => led.irq

\* The contract of the DMA service (hermes_platform.rs:28-29): "A failed
\* `release` must leave the allocation live and retryable."  An allocation the
\* ledger still holds is one the service still knows by that handle.
FailedReleaseRetryable ==
    \A n \in 1 .. DmaSlots :
        led.dma[n].active =>
            /\ svc.rec[led.dma[n].slot].phase # "Empty"
            /\ svc.rec[led.dma[n].slot].generation = led.dma[n].generation

=============================================================================
