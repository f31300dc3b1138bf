----------------------------- MODULE SlptTables -----------------------------
(***************************************************************************)
(* kernel/boulder/src/hw/vtd_slpt.rs: the second-level page tables of a    *)
(* requester, as operators from a state of the tables to the set of        *)
(* results a call may have.  Frames come from the provenance ledger of     *)
(* hw/vtd_memory.rs, which may refuse an allocation or a release; the      *)
(* invalidation may fail, and stays failed when the engine is poisoned by  *)
(* it.  The remapping unit is assumed to have walked and cached everything *)
(* it could reach for an address the tables have a record of.              *)
(***************************************************************************)
EXTENDS Integers, FiniteSets, SequencesExt

CONSTANTS
    Frames,         \* frames the allocator can hand out for tables
    Root,           \* the caller-owned root frame
    Index,          \* entries of a table
    Levels,         \* levels of the tables
    Slots,          \* MAPPINGS: slots are searched in the order 1 .. Slots
    GenerationMax,  \* u32::MAX
    Sticky,         \* a failed invalidation poisons the engine
    Empty

ASSUME SlptAssumption ==
    /\ Root \notin Frames
    /\ Empty \notin Frames \cup {Root}
    /\ Levels \in Nat \ {0, 1}
    /\ Slots \in Nat \ {0}
    /\ GenerationMax \in Nat \ {0}
    /\ Sticky \in BOOLEAN

Iovas == [1 .. Levels -> Index]

Tables == Frames \cup {Root}

\* Slpt::attach over a root that reads zero.
Attached ==
    [tab      |-> [f \in Tables |-> [i \in Index |-> Empty]],
     pool     |-> {Root},
     slots    |-> [x \in 1 .. Slots |-> [generation |-> 1, record |-> Empty, retired |-> FALSE]],
     poisoned |-> FALSE,
     up       |-> TRUE,
     tlb      |-> {},
     walked   |-> {Root}]

Recorded(s) == {x \in 1 .. Slots : s.slots[x].record # Empty}

Record(s, x) == s.slots[x].record

-----------------------------------------------------------------------------
(* What the unit sees                                                      *)

\* The tables on the way to an address, Empty below the first missing link.
PathTo(s, iova) ==
    LET at[n \in 1 .. Levels] ==
            IF n = 1 THEN Root
            ELSE IF at[n - 1] = Empty THEN Empty
            ELSE s.tab[at[n - 1]][iova[n - 1]]
    IN at

Leaf(s, iova) ==
    LET last == PathTo(s, iova)[Levels] IN
    IF last = Empty THEN Empty ELSE s.tab[last][iova[Levels]]

\* The unit has walked every recorded address and remembers what it read.
Touch(s) ==
    LET iovas == {Record(s, x).iova : x \in Recorded(s)} IN
    [s EXCEPT !.tlb = @ \cup {<<i, Leaf(s, i)>> : i \in {j \in iovas : Leaf(s, j) # Empty}},
              !.walked = @ \cup (UNION {{PathTo(s, i)[n] : n \in 1 .. Levels} : i \in iovas} \ {Empty})]

\* invalidate_after_page_table_change: both caches, or nothing.
Invalidate(s) ==
    IF ~s.up
    THEN {[s |-> s, ok |-> FALSE]}
    ELSE {[s |-> Touch([s EXCEPT !.tlb = {}, !.walked = {Root}]), ok |-> TRUE],
          [s |-> [s EXCEPT !.up = ~Sticky], ok |-> FALSE]}

Write(s, frame, i, entry) == Touch([s EXCEPT !.tab[frame][i] = entry])

SetPhase(s, x, phase) == [s EXCEPT !.slots[x].record.phase = phase]

-----------------------------------------------------------------------------
(* map_page                                                                *)

\* frame_is_known: the root, or on the retained part of a record's path.
FrameIsKnown(s, frame) ==
    \/ frame = Root
    \/ \E x \in Recorded(s) :
         \E n \in 1 .. Levels - Record(s, x).released : Record(s, x).path[n] = frame

FreeSlots(s) == {x \in 1 .. Slots : s.slots[x].record = Empty /\ ~s.slots[x].retired}

\* The path with its missing tables allocated, zeroed and linked: one result
\* per number of allocations that succeed before one is refused.
Built(s, iova) ==
    LET have == {n \in 1 .. Levels : PathTo(s, iova)[n] # Empty}
        missing == Levels - Cardinality(have)
        fresh == SetToSeq(Frames \ s.pool)
        link(r, n) ==
            LET child == fresh[n]
                parent == r.path[Cardinality(have) + n - 1]
            IN [s |-> [r.s EXCEPT !.tab[child] = [i \in Index |-> Empty],
                                  !.tab[parent][iova[Cardinality(have) + n - 1]] = child,
                                  !.pool = @ \cup {child}],
                path |-> Append(r.path, child),
                new |-> Append(r.new, child)]
        upTo[n \in 0 .. missing] ==
            IF n = 0 \/ n > Len(fresh)
            THEN [s |-> s, path |-> [k \in 1 .. Cardinality(have) |-> PathTo(s, iova)[k]],
                  new |-> <<>>]
            ELSE link(upTo[n - 1], n)
    IN {[r |-> upTo[n], ok |-> n = missing] :
            n \in {k \in 0 .. missing : k <= Len(fresh)}}

\* rollback_new_links: unlink and release the new tables, last first.  Nothing
\* was recorded under them, so the unit had no address to walk through them.
RollBack(r, iova) ==
    LET depth(n) == Len(r.path) - Len(r.new) + n - 1
        undo(results, n) ==
            UNION {IF ~q.ok THEN {q}
                   ELSE {[s |-> [q.s EXCEPT !.tab[r.path[depth(n)]][iova[depth(n)]] = Empty,
                                            !.pool = @ \ {r.new[n]}], ok |-> TRUE],
                         [s |-> [q.s EXCEPT !.poisoned = TRUE], ok |-> FALSE]} : q \in results}
    IN {q.s : q \in FoldRight(LAMBDA n, results : undo(results, n),
                              [n \in 1 .. Len(r.new) |-> n], {[s |-> r.s, ok |-> TRUE]})}

MapPage(s, iova, page) ==
    LET x == Min(FreeSlots(s))
        publish(r) ==
            LET leafTable == r.path[Levels]
                record == [iova |-> iova, page |-> page, path |-> r.path, released |-> 0,
                           phase |-> "AwaitingMapInvalidation"]
                written == Write([r.s EXCEPT !.slots[x].record = record],
                                 leafTable, iova[Levels], page)
            IN {IF i.ok
                THEN [s |-> SetPhase(i.s, x, "Active"), out |-> "Active", slot |-> x]
                ELSE [s |-> i.s, out |-> "Pending", slot |-> x] : i \in Invalidate(written)}
    IN
    IF \/ s.poisoned
       \/ \E y \in Recorded(s) : Record(s, y).iova = iova \/ Record(s, y).page = page
       \/ FreeSlots(s) = {}
    THEN {[s |-> s, out |-> "Refused", slot |-> 0]}
    ELSE IF \E n \in 1 .. Levels : PathTo(s, iova)[n] # Empty /\ ~FrameIsKnown(s, PathTo(s, iova)[n])
    THEN {[s |-> [s EXCEPT !.poisoned = TRUE], out |-> "Refused", slot |-> 0]}
    ELSE UNION {IF ~b.ok
                THEN {[s |-> q, out |-> "Refused", slot |-> 0] : q \in RollBack(b.r, iova)}
                ELSE IF b.r.s.tab[b.r.path[Levels]][iova[Levels]] # Empty
                THEN {[s |-> [q EXCEPT !.poisoned = TRUE], out |-> "Refused", slot |-> 0] :
                        q \in RollBack(b.r, iova)}
                ELSE publish(b.r) : b \in Built(s, iova)}

-----------------------------------------------------------------------------
(* unmap_page, cancel_pending_map, finish_unmap                            *)

TableIsEmpty(s, frame) == \A i \in Index : s.tab[frame][i] = Empty

\* The parent link is cleared, flushed, and the child given back; a failure of
\* either puts the link back.
Unlink(s, x, parent, i, child) ==
    UNION {IF ~f.ok
           THEN {[s |-> Write(f.s, parent, i, child), out |-> "Pending"]}
           ELSE {[s |-> [f.s EXCEPT !.pool = @ \ {child},
                                    !.slots[x].record.released = @ + 1], out |-> "go"],
                 [s |-> Write(f.s, parent, i, child), out |-> "Pending"]} :
           f \in Invalidate([s EXCEPT !.tab[parent][i] = Empty])}

\* One turn of the loop of reclaim_empty_tables.
ReclaimOne(s, x) ==
    LET record == Record(s, x)
        at == Levels - record.released
        child == record.path[at]
        parent == record.path[at - 1]
        i == record.iova[at - 1]
    IN IF child \notin s.pool THEN {[s |-> s, out |-> "Pending"]}
       ELSE IF ~TableIsEmpty(s, child) THEN {[s |-> s, out |-> "done"]}
       ELSE IF parent \notin s.pool THEN {[s |-> s, out |-> "Pending"]}
       ELSE IF s.tab[parent][i] # child THEN {[s |-> [s EXCEPT !.poisoned = TRUE], out |-> "Fault"]}
       ELSE Unlink(s, x, parent, i, child)

RetireSlot(s, x) ==
    [s EXCEPT !.slots[x] =
        [generation |-> IF @.generation = GenerationMax THEN @.generation ELSE @.generation + 1,
         record |-> Empty,
         retired |-> @.generation = GenerationMax]]

\* reclaim_empty_tables, then retire_slot when every empty table is gone.
Reclaim(s, x) ==
    LET turn(results) ==
            UNION {IF r.out = "go" /\ Record(r.s, x).released + 1 < Levels
                   THEN ReclaimOne(r.s, x) ELSE {r} : r \in results}
        all == FoldLeft(LAMBDA results, n : turn(results), {[s |-> s, out |-> "go"]},
                        [n \in 1 .. Levels - 1 |-> n])
    IN {IF r.out \in {"go", "done"} THEN [s |-> RetireSlot(r.s, x), out |-> "Complete"] ELSE r :
            r \in all}

\* Mutant: cleanup starts without waiting for the invalidation.
FinishUnmapUnflushed(s, x) ==
    IF s.poisoned THEN {[s |-> s, out |-> "Fault"]}
    ELSE IF Record(s, x).phase = "AwaitingCleanup" THEN Reclaim(s, x)
    ELSE IF Record(s, x).phase = "AwaitingUnmapInvalidation"
    THEN Reclaim(SetPhase(s, x, "AwaitingCleanup"), x)
    ELSE {[s |-> s, out |-> "Fault"]}

\* finish_unmap of the record in slot x.
FinishUnmap(s, x) ==
    IF s.poisoned THEN {[s |-> s, out |-> "Fault"]}
    ELSE IF Record(s, x).phase = "AwaitingCleanup" THEN Reclaim(s, x)
    ELSE IF Record(s, x).phase = "AwaitingUnmapInvalidation"
    THEN UNION {IF i.ok THEN Reclaim(SetPhase(i.s, x, "AwaitingCleanup"), x)
                ELSE {[s |-> i.s, out |-> "Pending"]} : i \in Invalidate(s)}
    ELSE {[s |-> s, out |-> "Fault"]}

\* unmap_page and cancel_pending_map differ in the phase they accept.
RemoveLeaf(s, x, phase) ==
    LET leafTable == Record(s, x).path[Levels]
        i == Record(s, x).iova[Levels]
    IN IF s.poisoned \/ Record(s, x).phase # phase \/ leafTable \notin s.pool
       THEN {[s |-> s, out |-> "Fault"]}
       ELSE IF s.tab[leafTable][i] # Record(s, x).page
       THEN {[s |-> [s EXCEPT !.poisoned = TRUE], out |-> "Fault"]}
       ELSE FinishUnmap(SetPhase([s EXCEPT !.tab[leafTable][i] = Empty], x,
                                 "AwaitingUnmapInvalidation"), x)

UnmapPage(s, x) == RemoveLeaf(s, x, "Active")

CancelPendingMap(s, x) == RemoveLeaf(s, x, "AwaitingMapInvalidation")

\* finish_map: another attempt at the invalidation that publishes the leaf.
FinishMap(s, x) ==
    IF s.poisoned \/ Record(s, x).phase # "AwaitingMapInvalidation"
    THEN {[s |-> s, out |-> "Fault"]}
    ELSE {IF i.ok THEN [s |-> SetPhase(i.s, x, "Active"), out |-> "Active"]
          ELSE [s |-> i.s, out |-> "Pending"] : i \in Invalidate(s)}
=============================================================================
