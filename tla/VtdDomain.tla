----------------------------- MODULE VtdDomain ------------------------------
(***************************************************************************)
(* kernel/boulder/src/hw/iommu.rs over hw/iova.rs and hw/vtd_backend.rs:   *)
(* the DMA domain of one requester.  A domain keeps its mapping records    *)
(* and a ledger of address leases; the backend keeps batches of pages and  *)
(* a receipt per page; the tables below are those of SlptTables.  A call   *)
(* runs under the backend's lock, so it is one step.                       *)
(***************************************************************************)
EXTENDS SlptTables

CONSTANTS
    Aperture,       \* [start, end) of the domain's addresses, in pages
    Reserved,       \* set of [start, end) ranges the domain may not use
    Mappings,       \* MAXIMUM_DOMAIN_MAPPINGS, also the number of leases
    Batches,        \* BATCHES
    PageSlots,      \* PAGES: page records of the backend
    MaxBatchPages,  \* MAX_BATCH_PAGES
    Requests        \* spans asked for: [start, page, length, align]

ASSUME DomainAssumption ==
    /\ Aperture.start \in Nat /\ Aperture.end \in Nat
    /\ Mappings \in Nat \ {0} /\ Batches \in Nat \ {0}
    /\ PageSlots \in Nat \ {0} /\ MaxBatchPages \in Nat \ {0}

VARIABLES
    dom,            \* IommuDomain, with its IovaLedger
    core            \* VtdBackendCore

vars == <<dom, core>>

EmptyBatch == [generation |-> 1, retired |-> FALSE, phase |-> "Empty", start |-> 0, page |-> 0,
               length |-> 0, first |-> 0, wasActive |-> FALSE]

EmptyLease == [generation |-> 0, active |-> FALSE, start |-> 0, end |-> 0]

EmptyMapping == [generation |-> 0, active |-> FALSE, lease |-> <<0, 0>>, page |-> 0, length |-> 0]

Init ==
    /\ dom = [active |-> FALSE, poisoned |-> FALSE,
              leases |-> [n \in 1 .. Mappings |-> EmptyLease],
              maps |-> [n \in 1 .. Mappings |-> EmptyMapping]]
    /\ core = [s |-> Attached, poisoned |-> FALSE, domain |-> FALSE, released |-> FALSE,
               batches |-> [b \in 1 .. Batches |-> EmptyBatch],
               records |-> [n \in 1 .. PageSlots |-> [kind |-> "Empty", slot |-> 0]]]

Overlaps(a, b) == a.start < b.end /\ b.start < a.end

Span(start, length) == [start |-> start, end |-> start + length]

\* The table indices of a page number.
Address(n) ==
    [k \in 1 .. Levels |-> (n \div Cardinality(Index) ^ (Levels - k)) % Cardinality(Index)]

-----------------------------------------------------------------------------
(* IovaLedger                                                              *)

ActiveLeases == {n \in 1 .. Mappings : dom.leases[n].active}

Blockers == Reserved \cup {Span(dom.leases[n].start, dom.leases[n].end - dom.leases[n].start) :
                           n \in ActiveLeases}

FreeLeases == {n \in 1 .. Mappings : ~dom.leases[n].active /\ dom.leases[n].generation # GenerationMax}

AlignUp(n, align) == ((n + align - 1) \div align) * align

NoFit == Aperture.end + 1

\* first_fit: jump to the end of whatever overlaps the candidate.
FirstFit(length, align) ==
    LET fit[start \in 0 .. NoFit] ==
            LET hit == {b.end : b \in {c \in Blockers : Overlaps(Span(start, length), c)}}
                next == AlignUp(Max(hit \cup {0}), align)
            IN IF start + length > Aperture.end THEN NoFit
               ELSE IF hit = {} THEN start
               ELSE IF next > Aperture.end THEN NoFit ELSE fit[next]
    IN IF AlignUp(Aperture.start, align) > Aperture.end THEN NoFit
       ELSE fit[AlignUp(Aperture.start, align)]

\* reserve_exact accepts the range.
ExactFit(start, length) ==
    /\ Aperture.start <= start /\ start + length <= Aperture.end
    /\ \A b \in Blockers : ~Overlaps(b, Span(start, length))

-----------------------------------------------------------------------------
(* VtdBackendCore                                                          *)

NonEmpty(c) == {b \in 1 .. Batches : c.batches[b].phase # "Empty"}

ValidDomain(c) == c.domain /\ ~c.released

\* A flush that poisoned the engine, or a fault that poisoned the tables.
Poison(c, s) == c.poisoned \/ ~s.up \/ s.poisoned

\* One page of cleanup_batch, by the receipt that is held for it.
CleanPage(c, n) ==
    LET record == c.records[n]
        results == CASE record.kind = "Active" -> UnmapPage(c.s, record.slot)
                     [] record.kind = "MapPending" -> CancelPendingMap(c.s, record.slot)
                     [] record.kind = "UnmapPending" -> FinishUnmap(c.s, record.slot)
    IN IF record.kind = "Empty" THEN {[c |-> c, ok |-> TRUE]}
       ELSE {IF r.out = "Complete"
             THEN [c |-> [c EXCEPT !.s = r.s, !.records[n] = [kind |-> "Empty", slot |-> 0]],
                   ok |-> TRUE]
             ELSE IF r.out = "Pending"
             THEN [c |-> [c EXCEPT !.s = r.s, !.poisoned = Poison(c, r.s),
                                   !.records[n].kind = "UnmapPending"],
                   ok |-> FALSE]
             ELSE [c |-> [c EXCEPT !.s = r.s, !.poisoned = TRUE], ok |-> FALSE] : r \in results}

RetireBatch(c, b) ==
    [c EXCEPT !.batches[b] =
        [EmptyBatch EXCEPT !.generation = Min({c.batches[b].generation + 1, GenerationMax}),
                           !.retired = c.batches[b].generation = GenerationMax]]

PageNumbers(batch) == [k \in 1 .. batch.length |-> batch.first + k - 1]

\* Mutant: the batch is retired although a page is pending.
CleanupBatchForgets(c, b) ==
    LET results == FoldLeft(LAMBDA acc, n :
                                UNION {IF r.ok THEN CleanPage(r.c, n) ELSE {r} : r \in acc},
                            {[c |-> c, ok |-> TRUE]}, PageNumbers(c.batches[b]))
    IN {[c |-> RetireBatch(r.c, b), ok |-> r.ok] : r \in results}

\* cleanup_batch: page by page, stopping at the first that does not complete.
CleanupBatch(c, b) ==
    LET results == FoldLeft(LAMBDA acc, n :
                                UNION {IF r.ok THEN CleanPage(r.c, n) ELSE {r} : r \in acc},
                            {[c |-> c, ok |-> TRUE]}, PageNumbers(c.batches[b]))
    IN {IF r.ok THEN [c |-> RetireBatch(r.c, b), ok |-> TRUE]
        ELSE [c |-> [r.c EXCEPT !.batches[b].phase = "Quarantined"], ok |-> FALSE] : r \in results}

\* find_free_page_run: the first window of free page records.
FreeRuns(c, length) ==
    {n \in 1 .. PageSlots - length + 1 :
        \A k \in n .. n + length - 1 : c.records[k].kind = "Empty"}

FreeBatches(c) == {b \in 1 .. Batches : c.batches[b].phase = "Empty" /\ ~c.batches[b].retired}

\* One page of the loop of map_span.
StagePage(c, b, k) ==
    LET batch == c.batches[b]
        n == batch.first + k - 1
    IN {IF r.out = "Active"
        THEN [c |-> [c EXCEPT !.s = r.s, !.records[n] = [kind |-> "Active", slot |-> r.slot]],
              ok |-> TRUE]
        ELSE IF r.out = "Pending"
        THEN [c |-> [c EXCEPT !.s = r.s, !.poisoned = Poison(c, r.s),
                              !.records[n] = [kind |-> "MapPending", slot |-> r.slot]],
              ok |-> FALSE]
        ELSE [c |-> [c EXCEPT !.s = r.s, !.poisoned = Poison(c, r.s)], ok |-> FALSE] :
        r \in MapPage(c.s, Address(batch.start + k - 1), batch.page + k - 1)}

\* What map_span refuses before it touches anything.
MapRefused(c, start, page, length) ==
    \/ ~ValidDomain(c) \/ c.poisoned
    \/ \E b \in 1 .. Batches : c.batches[b].phase = "Quarantined"
    \/ length > MaxBatchPages
    \/ \E b \in NonEmpty(c) : \/ Overlaps(Span(c.batches[b].start, c.batches[b].length), Span(start, length))
                              \/ Overlaps(Span(c.batches[b].page, c.batches[b].length), Span(page, length))
    \/ FreeBatches(c) = {} \/ FreeRuns(c, length) = {}

\* map_span: a failure quarantines the batch and cleans up what it can.
MapSpan(c, start, page, length) ==
    IF MapRefused(c, start, page, length) THEN {[c |-> c, ok |-> FALSE]}
    ELSE LET b == Min(FreeBatches(c))
             staged == [c EXCEPT !.batches[b] =
                           [@ EXCEPT !.phase = "Staging", !.start = start, !.page = page,
                                     !.length = length, !.first = Min(FreeRuns(c, length))]]
             results == FoldLeft(LAMBDA acc, k :
                                     UNION {IF r.ok THEN StagePage(r.c, b, k) ELSE {r} : r \in acc},
                                 {[c |-> staged, ok |-> TRUE]}, [k \in 1 .. length |-> k])
         IN UNION {IF r.ok
                   THEN {[c |-> [r.c EXCEPT !.batches[b].phase = "Active",
                                            !.batches[b].wasActive = TRUE], ok |-> TRUE]}
                   ELSE {[c |-> q.c, ok |-> FALSE] :
                           q \in CleanupBatch([r.c EXCEPT !.batches[b].phase = "Quarantined"], b)} :
                   r \in results}

\* unmap_span
UnmapSpan(c, start, length) ==
    LET found == {b \in NonEmpty(c) : c.batches[b].start = start /\ c.batches[b].length = length}
        b == Min(found)
    IN IF ~ValidDomain(c) \/ found = {} THEN {[c |-> c, ok |-> FALSE]}
       ELSE {[c |-> r.c, ok |-> r.ok /\ c.batches[b].wasActive] :
                r \in CleanupBatch([c EXCEPT !.batches[b].phase = "Quarantined"], b)}

\* engine.disable as VtdEngine shows it: done, undone, or poisoned.
Disable(c) ==
    IF ~c.s.up THEN {[c |-> [c EXCEPT !.poisoned = TRUE], ok |-> FALSE]}
    ELSE {[c |-> [c EXCEPT !.released = TRUE], ok |-> TRUE],
          [c |-> c, ok |-> FALSE],
          [c |-> [c EXCEPT !.s.up = FALSE, !.poisoned = TRUE], ok |-> FALSE]}

\* release_domain: every batch is tried, then translation is switched off.
ReleaseDomain(c) ==
    LET results == FoldLeft(LAMBDA acc, b :
                                UNION {IF r.batches[b].phase = "Empty" THEN {r}
                                       ELSE {q.c : q \in CleanupBatch(r, b)} : r \in acc},
                            {c}, [b \in 1 .. Batches |-> b])
    IN IF ~ValidDomain(c) THEN {[c |-> c, ok |-> FALSE]}
       ELSE UNION {IF NonEmpty(r) # {} THEN {[c |-> r, ok |-> FALSE]}
                   ELSE {IF d.ok THEN [c |-> [d.c EXCEPT !.domain = FALSE], ok |-> TRUE] ELSE d :
                           d \in Disable(r)} : r \in results}

-----------------------------------------------------------------------------
(* IommuDomain                                                             *)

FreeMappings == {n \in 1 .. Mappings : ~dom.maps[n].active /\ dom.maps[n].generation # GenerationMax}

ActiveMappings == {n \in 1 .. Mappings : dom.maps[n].active}

Lease(n) == dom.leases[dom.maps[n].lease[1]]

\* iovas.range(record.lease) gives the range the record was made with.
LeaseHolds(n) ==
    /\ dom.maps[n].lease[1] # 0
    /\ Lease(n).active /\ Lease(n).generation = dom.maps[n].lease[2]
    /\ Lease(n).end - Lease(n).start = dom.maps[n].length

IsolateDevice ==
    /\ ~dom.active /\ ~core.domain /\ ~core.poisoned /\ ~core.released
    /\ dom' = [dom EXCEPT !.active = TRUE]
    /\ core' = [core EXCEPT !.domain = TRUE]

\* The common tail of map_dma_aligned and map_dma_at: the ledger is changed in
\* a copy, which replaces the original only when the backend has mapped.
Commit(start, page, length) ==
    /\ FreeMappings # {} /\ FreeLeases # {}
    /\ LET n == Min(FreeMappings)
           l == Min(FreeLeases)
           generation == dom.leases[l].generation + 1
       IN \E r \in MapSpan(core, start, page, length) :
            /\ core' = r.c
            /\ dom' = IF ~r.ok THEN dom
                      ELSE [dom EXCEPT
                        !.leases[l] = [generation |-> generation, active |-> TRUE,
                                       start |-> start, end |-> start + length],
                        !.maps[n] = [generation |-> @.generation + 1, active |-> TRUE,
                                     lease |-> <<l, generation>>, page |-> page, length |-> length]]

Usable == dom.active /\ ~dom.poisoned

PageTaken(page, length) ==
    \E n \in ActiveMappings : Overlaps(Span(dom.maps[n].page, dom.maps[n].length), Span(page, length))

MapDmaAligned(request) ==
    /\ Usable
    /\ ~PageTaken(request.page, request.length)
    /\ FirstFit(request.length, request.align) # NoFit
    /\ Commit(FirstFit(request.length, request.align), request.page, request.length)

MapDmaAt(request) ==
    /\ Usable
    /\ ~PageTaken(request.page, request.length)
    /\ ExactFit(request.start, request.length)
    /\ Commit(request.start, request.page, request.length)

\* revoke_dma: the record goes only when the backend has unmapped the span.
RevokeDma(n, generation) ==
    /\ Usable
    /\ dom.maps[n].active /\ dom.maps[n].generation = generation
    /\ IF ~LeaseHolds(n)
       THEN dom' = [dom EXCEPT !.poisoned = TRUE] /\ UNCHANGED core
       ELSE \E r \in UnmapSpan(core, Lease(n).start, dom.maps[n].length) :
              /\ core' = r.c
              /\ dom' = IF ~r.ok THEN dom
                        ELSE [dom EXCEPT
                          !.leases[dom.maps[n].lease[1]] =
                              [EmptyLease EXCEPT !.generation = Lease(n).generation],
                          !.maps[n] = [EmptyMapping EXCEPT !.generation = generation]]

\* IommuDomain::release
Release ==
    /\ Usable
    /\ ActiveMappings = {}
    /\ IF ActiveLeases # {}
       THEN dom' = [dom EXCEPT !.poisoned = TRUE] /\ UNCHANGED core
       ELSE \E r \in ReleaseDomain(core) :
              /\ core' = r.c
              /\ dom' = IF r.ok THEN [dom EXCEPT !.active = FALSE] ELSE dom

\* Drop: mappings are drained last first, skipping what fails, and the domain
\* goes back only when all of them went.
Drop ==
    /\ dom.active
    /\ LET drain(acc, n) ==
             UNION {IF ~r.d.maps[n].active THEN {r}
                    ELSE LET lease == r.d.leases[r.d.maps[n].lease[1]] IN
                         {[c |-> q.c,
                           d |-> IF ~q.ok THEN r.d
                                 ELSE [r.d EXCEPT
                                   !.leases[r.d.maps[n].lease[1]] =
                                       [EmptyLease EXCEPT !.generation = lease.generation],
                                   !.maps[n] = [EmptyMapping EXCEPT !.generation = r.d.maps[n].generation]]] :
                           q \in UnmapSpan(r.c, lease.start, r.d.maps[n].length)} : r \in acc}
           drained == FoldLeft(LAMBDA acc, k : drain(acc, Mappings + 1 - k),
                               {[c |-> core, d |-> dom]}, [k \in 1 .. Mappings |-> k])
       IN \E r \in drained :
            /\ dom' = [r.d EXCEPT !.active = FALSE]
            /\ IF r.d.poisoned \/ \E n \in 1 .. Mappings : r.d.maps[n].active
               THEN core' = r.c
               ELSE \E q \in ReleaseDomain(r.c) : core' = q.c

\* VtdDmaBackend::shutdown, when release_domain has not switched it off.
Shutdown ==
    /\ ~core.domain /\ NonEmpty(core) = {} /\ ~core.released
    /\ \E r \in Disable(core) : core' = r.c
    /\ UNCHANGED dom

Next ==
    \/ IsolateDevice
    \/ \E request \in Requests : MapDmaAligned(request) \/ MapDmaAt(request)
    \/ \E n \in 1 .. Mappings, generation \in 1 .. GenerationMax : RevokeDma(n, generation)
    \/ Release \/ Drop \/ Shutdown

Spec == Init /\ [][Next]_vars

-----------------------------------------------------------------------------
(* Properties                                                              *)

\* The ledger, the records and the batches have their types.
TypeOK ==
    /\ \A n \in 1 .. Mappings : /\ dom.leases[n].generation \in 0 .. GenerationMax
                                /\ dom.maps[n].generation \in 0 .. GenerationMax
    /\ \A b \in 1 .. Batches : /\ core.batches[b].phase \in {"Empty", "Active", "Quarantined"}
                               /\ core.batches[b].length \in 0 .. MaxBatchPages
    /\ \A n \in 1 .. PageSlots : core.records[n].slot \in 0 .. Slots

\* A page the requester can reach, through the tables or the caches of the
\* unit, belongs to a mapping its owner has not been told is revoked, or to a
\* quarantined batch.  And the domain and the backend keep the same books: a
\* record has its batch, and a batch in service has its record; no address
\* range is leased to nobody, no two leases overlap, and none leaves the
\* aperture or enters a reserved range.
ReachableIsHeld ==
    /\ TypeOK
    /\ \A e \in core.s.tlb :
          \/ \E n \in ActiveMappings :
               LeaseHolds(n) /\ \E k \in 0 .. dom.maps[n].length - 1 :
                  e = <<Address(Lease(n).start + k), dom.maps[n].page + k>>
          \/ \E b \in 1 .. Batches :
               /\ core.batches[b].phase = "Quarantined"
               /\ \E k \in 0 .. core.batches[b].length - 1 :
                    e = <<Address(core.batches[b].start + k), core.batches[b].page + k>>
    /\ \A n \in ActiveLeases :
          /\ Aperture.start <= dom.leases[n].start /\ dom.leases[n].end <= Aperture.end
          /\ \A r \in Reserved : ~Overlaps(r, dom.leases[n])
          /\ \A m \in ActiveLeases \ {n} : ~Overlaps(dom.leases[m], dom.leases[n])
    /\ (dom.active /\ core.domain) =>
          /\ ActiveLeases = {dom.maps[n].lease[1] : n \in ActiveMappings}
          /\ \A n \in ActiveMappings :
               /\ LeaseHolds(n)
               /\ \E b \in NonEmpty(core) :
                    /\ core.batches[b].start = Lease(n).start
                    /\ core.batches[b].page = dom.maps[n].page
                    /\ core.batches[b].length = dom.maps[n].length
          /\ \A b \in 1 .. Batches : core.batches[b].phase = "Active" =>
               \E n \in ActiveMappings : Lease(n).start = core.batches[b].start

\* A receipt a batch still holds can be discharged: the tables on the retained
\* path of its record are owned and linked.  This is what the refusal to map
\* beside a quarantined batch is for.  Once the domain is released no mapping
\* or receipt is left, and no table frame either unless a failed rollback has
\* poisoned the tables, so the root and context tables can be given back.
DebtKeepsItsPath ==
    /\ ~core.s.poisoned =>
          \A n \in {k \in 1 .. PageSlots : core.records[k].kind # "Empty"} :
              LET x == core.records[n].slot IN
              /\ core.s.slots[x].record # Empty
              /\ LET record == Record(core.s, x) IN
                 \A k \in 1 .. Levels - record.released :
                     /\ record.path[k] \in core.s.pool
                     /\ k > 1 => core.s.tab[record.path[k - 1]][record.iova[k - 1]] = record.path[k]
    /\ core.released =>
          /\ Recorded(core.s) = {} /\ core.s.tlb = {}
          /\ \A n \in 1 .. PageSlots : core.records[n].kind = "Empty"
          /\ core.s.pool = {Root} \/ core.s.poisoned

\* first_fit finds the lowest aligned range that is free, and fails only when
\* there is none.
FirstFitIsLowest ==
    \A length \in 1 .. MaxBatchPages, align \in {1, 2} :
        LET fits == {a \in Aperture.start .. Aperture.end - length :
                        a % align = 0 /\ \A b \in Blockers : ~Overlaps(b, Span(a, length))}
        IN FirstFit(length, align) = IF fits = {} THEN NoFit ELSE Min(fits)
=============================================================================
