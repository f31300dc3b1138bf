---------------------------- MODULE AddressSpace ----------------------------
(***************************************************************************)
(* User address spaces: install_user_image (process/install.rs) driving    *)
(* FrameBackedAddressSpace over DirectMapFrameMemory (process/x86_64.rs),  *)
(* with the frames of FramePool.  The backend is borrowed mutably, so each *)
(* of its methods is one step; DMA owners take and return frames between   *)
(* them.  The four table levels are two, a root and one level of tables:   *)
(* page v hangs at entry v % Fanout of the table at entry v \div Fanout.   *)
(* A page holds a tag, zero or one page of one image segment.  What a      *)
(* released frame holds is left open, since allocate_zeroed clears it.     *)
(***************************************************************************)
EXTENDS FramePool, Sequences, SequencesExt

CONSTANTS
    Spaces,             \* MAXIMUM_RETAINED_PROCESSES slots
    Images,             \* plans: sequences of segments
    Fanout,             \* entries of a table
    Pages,              \* user pages
    PageCapacity,       \* MAXIMUM_PROCESS_PAGES
    OwnedCapacity,      \* MAXIMUM_OWNED_FRAMES
    IndexModulus,       \* 2^8: a mapping keeps its first page in a u8
    StackPages,         \* sequence of the stack's pages; the last is its base
    ThermalPage,
    PlanePages,         \* sequence of [page, frame, writable], kernel owned
    MaxInstalls         \* bound: generations spent over all slots

VARIABLES
    cell,       \* what each frame holds: table entries and a page tag
    space,      \* FrameBackedSlot
    active,     \* active_slot
    job,        \* the install_user_image call in progress
    handles,    \* ProcessImageHandles issued, with the image installed
    halted      \* main.rs gave up the boot

memory == <<pool, runs, cell>>

vars == <<memory, space, active, job, handles, halted>>

Absent == [frame |-> None, writable |-> FALSE, executable |-> FALSE]

Top == {v \div Fanout : v \in Pages} \union (0 .. Fanout - 1)

Zeroed == [entry |-> [i \in Top |-> Absent], data |-> 0]

EmptySpace ==
    [phase |-> "free", root |-> None, gen |-> 0, maps |-> <<>>, pages |-> <<>>,
     owned |-> <<>>, boot |-> 0, image |-> <<>>]

Idle == [stage |-> "idle", image |-> <<>>, segment |-> 0]

Init ==
    /\ pool = NewPool
    /\ runs = {}
    /\ cell = [f \in Frames |-> Zeroed]
    /\ space = [s \in Spaces |-> EmptySpace]
    /\ active = None
    /\ job = Idle
    /\ handles = {}
    /\ halted = FALSE

----------------------------------------------------------------------------
(* One backend method works on x: the pool, the frames, the slot it names  *)
(* and whether every call so far succeeded.  After a failure the rest of   *)
(* the method does nothing.                                                *)

Work(s) == [pool |-> pool, cell |-> cell, slot |-> space[s], ok |-> TRUE, got |-> None]

Failed(x) == [x EXCEPT !.ok = FALSE]

\* allocate_owned over allocate_zeroed.
AllocateOwned(x) ==
    LET frame == NextFree(x.pool)
    IN  IF ~x.ok \/ Len(x.slot.owned) = OwnedCapacity \/ frame = None THEN Failed(x)
        ELSE [x EXCEPT !.pool = Take(@, frame, 1), !.cell[frame] = Zeroed,
                       !.slot.owned = Append(@, frame), !.got = frame]

WriteEntry(x, table, index, frame, writable, executable) ==
    IF ~x.ok THEN x
    ELSE [x EXCEPT !.cell[table].entry[index] =
             [frame |-> frame, writable |-> writable, executable |-> executable]]

\* The table that holds the entry of page v.
TableOf(x, v) == x.cell[x.slot.root].entry[v \div Fanout].frame

\* ensure_leaf_slot: adds the missing table, refuses an entry in use.
EnsureLeaf(x, v) ==
    LET grown == AllocateOwned(x)
        y == IF ~x.ok \/ TableOf(x, v) # None THEN x
             ELSE WriteEntry(grown, x.slot.root, v \div Fanout, grown.got, TRUE, TRUE)
    IN  IF y.ok /\ y.cell[TableOf(y, v)].entry[v % Fanout] # Absent THEN Failed(y) ELSE y

RecordPage(x, frame, v) ==
    IF ~x.ok THEN x ELSE [x EXCEPT !.slot.pages = Append(@, [frame |-> frame, page |-> v])]

\* release_owned, newest first; frames whose release fails stay owned.
ReleaseOwned(x, stuck) ==
    LET list == Reverse(x.slot.owned)
        freed == SelectSeq(list, LAMBDA f : f \notin stuck)
        Give(y, f) == [y EXCEPT !.pool = Release(@, f, 1), !.cell[f] = Zeroed]
    IN  [FoldLeft(Give, x, freed) EXCEPT
            !.slot.owned = SelectSeq(list, LAMBDA f : f \in stuck), !.slot.root = None]

\* reset_records, the phase and the release of cleanup_transaction.
Emptied(x, stuck) ==
    ReleaseOwned([x EXCEPT !.slot.phase = "free", !.slot.maps = <<>>, !.slot.pages = <<>>,
                           !.slot.boot = 0, !.slot.image = <<>>], stuck)

\* Release of at most one frame fails at a time.
Stuck(s) == {{}} \union {{f} : f \in {space[s].owned[i] : i \in 1 .. Len(space[s].owned)}}

Apply(s, x) ==
    /\ pool' = x.pool
    /\ cell' = x.cell
    /\ space' = [space EXCEPT ![s] = x.slot]
    /\ UNCHANGED runs

----------------------------------------------------------------------------
(* install_user_image: begin, then map, copy, verify and seal each         *)
(* segment, then commit; any failure goes to abort.                        *)

Segment == job.image[job.segment]

Step(stage) == job' = [job EXCEPT !.stage = stage]

FreeSpaces == {s \in Spaces : space[s].phase = "free" /\ space[s].owned = <<>>}

\* begin: the first free slot that owns nothing; without a root frame the
\* slot is free again, its generation spent.
Begin(image) ==
    /\ ~halted /\ job = Idle /\ active = None /\ FreeSpaces # {}
    /\ LET s == Min(FreeSpaces)
           x == AllocateOwned([Work(s) EXCEPT
                    !.slot = [EmptySpace EXCEPT !.gen = space[s].gen + 1, !.phase = "staging"]])
       IN  /\ MapThenSumSet(LAMBDA t : space[t].gen, Spaces) < MaxInstalls
           /\ Apply(s, IF x.ok THEN [x EXCEPT !.slot.root = x.got] ELSE Emptied(x, {}))
           /\ active' = IF x.ok THEN s ELSE None
           /\ job' = IF x.ok THEN [stage |-> "map", image |-> image, segment |-> 1] ELSE Idle
    /\ UNCHANGED <<handles, halted>>

\* One page of map_zeroed: its frame first, then its place in the tables.
MapPage(x, v) ==
    LET y == AllocateOwned(x)
    IN  RecordPage(EnsureLeaf(y, v), y.got, v)

\* map_zeroed; first_page and page_count are stored in eight bits.
MapZeroed ==
    LET x == Work(active)
        first == Len(x.slot.pages)
        y == IF Segment.count >= IndexModulus \/ first + Segment.count > PageCapacity
             THEN Failed(x)
             ELSE FoldLeft(MapPage, x, [i \in 1 .. Segment.count |-> Segment.base + i - 1])
        record == [base |-> Segment.base, first |-> first % IndexModulus,
                   count |-> Segment.count, sealed |-> FALSE, executable |-> FALSE]
    IN  /\ job.stage = "map"
        /\ Apply(active, IF y.ok THEN [y EXCEPT !.slot.maps = Append(@, record)] ELSE y)
        /\ Step(IF y.ok THEN "copy" ELSE "abort")
        /\ UNCHANGED <<active, handles, halted>>

\* The image bytes of page i of the segment being installed.
Bytes(image, n, i) == <<image, n, i>>

Mapping == space[active].maps[job.segment]

\* The page record a mapping finds for its page i (counted from 0).
PageAt(i) == space[active].pages[Mapping.first + i + 1]

\* copy_into: the initialised pages of the segment.
CopyInto ==
    /\ job.stage = "copy"
    /\ cell' = [f \in Frames |->
                 LET at == {i \in 0 .. Segment.filled - 1 : PageAt(i).frame = f}
                 IN  IF at = {} THEN cell[f]
                     ELSE [cell[f] EXCEPT !.data = Bytes(job.image, job.segment, Max(at))]]
    /\ Step("verify")
    /\ UNCHANGED <<pool, runs, space, active, handles, halted>>

\* verify_contents: the data, then zeros to the end of the segment.
Verified ==
    \A i \in 0 .. Segment.count - 1 :
        cell[PageAt(i).frame].data =
            IF i < Segment.filled THEN Bytes(job.image, job.segment, i) ELSE 0

VerifyContents ==
    /\ job.stage = "verify"
    /\ Step(IF Verified /\ ~(Segment.writable /\ Segment.executable) THEN "seal" ELSE "abort")
    /\ UNCHANGED <<memory, space, active, handles, halted>>

\* Mutant: the leaf keeps every page writable.
SealPageWritable(x, record) ==
    WriteEntry(x, TableOf(x, record.page), record.page % Fanout, record.frame,
               TRUE, Segment.executable)

\* seal publishes the leaf entry of one page.
SealPage(x, record) ==
    WriteEntry(x, TableOf(x, record.page), record.page % Fanout, record.frame,
               Segment.writable, Segment.executable)

Seal ==
    LET x == FoldLeft(SealPage, Work(active), [i \in 1 .. Mapping.count |-> PageAt(i - 1)])
    IN  /\ job.stage = "seal"
        /\ Apply(active, [x EXCEPT !.slot.maps[job.segment].sealed = TRUE,
                                   !.slot.maps[job.segment].executable = Segment.executable])
        /\ job' = IF job.segment < Len(job.image)
                  THEN [job EXCEPT !.stage = "map", !.segment = @ + 1]
                  ELSE [job EXCEPT !.stage = "commit"]
        /\ UNCHANGED <<active, handles, halted>>

\* The entry point of every image is in its first segment.
MayCommit ==
    LET maps == space[active].maps
    IN  /\ \A i \in 1 .. Len(maps) : maps[i].sealed
        /\ \E i \in 1 .. Len(maps) : maps[i].executable /\ maps[i].base = job.image[1].base

Commit ==
    /\ job.stage = "commit"
    /\ IF MayCommit
       THEN /\ space' = [space EXCEPT ![active].phase = "committed", ![active].image = job.image]
            /\ handles' = handles \union
                   {[space |-> active, gen |-> space[active].gen, image |-> job.image]}
            /\ active' = None
            /\ job' = Idle
       ELSE /\ Step("abort")
            /\ UNCHANGED <<space, handles, active>>
    /\ UNCHANGED <<memory, halted>>

\* fail_after_abort: abort frees the slot and gives its frames back.
Abort ==
    /\ job.stage = "abort"
    /\ \E stuck \in Stuck(active) : Apply(active, Emptied(Work(active), stuck))
    /\ active' = None
    /\ job' = Idle
    /\ UNCHANGED <<handles, halted>>

----------------------------------------------------------------------------
(* What the boot adds to a committed process, in main.rs's order: stack,   *)
(* thermal page, plane, argument block.  main.rs halts on the first error. *)

\* process_slot
Live(h) == space[h.space].phase = "committed" /\ space[h.space].gen = h.gen

MayExtend(h, stage) ==
    ~halted /\ Live(h) /\ active = None /\ space[h.space].boot = stage

Extend(h, x) ==
    /\ Apply(h.space, IF x.ok THEN [x EXCEPT !.slot.boot = @ + 1] ELSE x)
    /\ halted' = ~x.ok
    /\ UNCHANGED <<active, job, handles>>

StackPage(x, v) ==
    LET table == EnsureLeaf(x, v)
        y == AllocateOwned(table)
    IN  RecordPage(WriteEntry(y, TableOf(y, v), v % Fanout, y.got, TRUE, FALSE), y.got, v)

\* rollback_stack_install: releases the new frames, newest first, up to one
\* whose release fails; the entries that name them are not cleared.
Rollback(x, before, stuck) ==
    LET owned == x.slot.owned
        kept == Max({Len(before.owned)} \union {i \in 1 .. Len(owned) : owned[i] \in stuck})
        Give(y, f) == [y EXCEPT !.pool = Release(@, f, 1)]
        y == FoldLeft(Give, x, Reverse(SubSeq(owned, kept + 1, Len(owned))))
    IN  [y EXCEPT !.slot.owned = SubSeq(owned, 1, kept),
                  !.slot.pages = IF kept = Len(before.owned) THEN before.pages ELSE @]

InstallInitialStack(h) ==
    LET before == space[h.space]
        x == FoldLeft(StackPage, Work(h.space), StackPages)
        new == {x.slot.owned[i] : i \in Len(before.owned) + 1 .. Len(x.slot.owned)}
    IN  /\ MayExtend(h, 0)
        /\ Len(before.pages) + Len(StackPages) <= PageCapacity
        /\ IF x.ok THEN Extend(h, x)
           ELSE \E stuck \in {{}} \union {{f} : f \in new} : Extend(h, Rollback(x, before, stuck))

\* install_thermal_page: read-only to the user.
InstallThermalPage(h) ==
    LET table == EnsureLeaf(Work(h.space), ThermalPage)
        x == AllocateOwned(table)
    IN  /\ MayExtend(h, 1)
        /\ Extend(h, RecordPage(WriteEntry(x, TableOf(x, ThermalPage), ThermalPage % Fanout,
                                           x.got, FALSE, FALSE), x.got, ThermalPage))

PlanePage(x, plane) ==
    LET y == EnsureLeaf(x, plane.page)
    IN  RecordPage(WriteEntry(y, TableOf(y, plane.page), plane.page % Fanout,
                              plane.frame, plane.writable, FALSE), plane.frame, plane.page)

\* install_nexus_plane maps kernel pages the slot does not own.
InstallNexusPlane(h) ==
    /\ MayExtend(h, 2)
    /\ Len(space[h.space].pages) + Len(PlanePages) <= PageCapacity
    /\ Extend(h, FoldLeft(PlanePage, Work(h.space), PlanePages))

\* prepare_initial_stack writes the argument block to the base page.
PrepareInitialStack(h) ==
    LET at == {i \in 1 .. Len(space[h.space].pages) :
                   space[h.space].pages[i].page = Last(StackPages)}
    IN  /\ MayExtend(h, 3)
        /\ Extend(h, [Work(h.space) EXCEPT
               !.cell[space[h.space].pages[Min(at)].frame].data = "args"])

ReleaseProcess(h) ==
    /\ ~halted
    /\ Live(h)
    /\ \E stuck \in Stuck(h.space) : Apply(h.space, Emptied(Work(h.space), stuck))
    /\ UNCHANGED <<active, job, handles, halted>>

\* retry_cleanup visits the slots in order and stops at the first failure.
RetryCleanup ==
    LET debtors == {s \in Spaces : space[s].phase = "free" /\ space[s].owned # <<>>}
        Clean(y, s, stuck) ==
            LET x == ReleaseOwned([pool |-> y.pool, cell |-> y.cell, slot |-> space[s]], stuck)
            IN  IF ~y.ok THEN y
                ELSE [pool |-> x.pool, cell |-> x.cell, ok |-> x.slot.owned = <<>>,
                      space |-> [y.space EXCEPT ![s] = x.slot]]
        Cleaned(stuck) ==
            FoldLeft(LAMBDA y, s : Clean(y, s, stuck),
                     [pool |-> pool, cell |-> cell, space |-> space, ok |-> TRUE],
                     SetToSortSeq(debtors, LAMBDA s, t : s < t))
    IN  /\ ~halted /\ active = None /\ debtors # {}
        /\ \E stuck \in UNION {Stuck(s) : s \in debtors} :
              /\ pool' = Cleaned(stuck).pool
              /\ cell' = Cleaned(stuck).cell
              /\ space' = Cleaned(stuck).space
        /\ UNCHANGED <<runs, active, job, handles, halted>>

DmaOwner ==
    /\ ~halted
    /\ \/ \E count \in RunSizes, alignment \in Alignments : AllocateRun(count, alignment)
       \/ \E run \in runs : ReleaseRun(run)
    /\ UNCHANGED <<cell, space, active, job, handles, halted>>

Next ==
    \/ \E image \in Images : Begin(image)
    \/ MapZeroed \/ CopyInto \/ VerifyContents \/ Seal \/ Commit \/ Abort
    \/ \E h \in handles :
          \/ InstallInitialStack(h) \/ InstallThermalPage(h) \/ InstallNexusPlane(h)
          \/ PrepareInitialStack(h) \/ ReleaseProcess(h)
    \/ RetryCleanup
    \/ DmaOwner

Spec == Init /\ [][Next]_vars

----------------------------------------------------------------------------

Owned(s) == ToSet(space[s].owned)

Leaf(s, v) ==
    LET table == cell[space[s].root].entry[v \div Fanout].frame
    IN  IF table = None THEN Absent ELSE cell[table].entry[v % Fanout]

Reachable(s) ==
    LET tables == {cell[space[s].root].entry[i].frame : i \in Top} \ {None}
    IN  {space[s].root} \union tables \union
        ({cell[t].entry[i].frame : t \in tables, i \in Top} \ {None})

\* "Address spaces and DMA domains must draw from the same ownership ledger"
\* (frame_pool.rs): through failed maps, aborts, partial releases and
\* rollbacks the bitmap is exactly the reserved frames, the DMA runs and the
\* frames each address space lists once; the counter agrees with it; a
\* contiguous request fails only when no aligned run is free; and the tables
\* of a space reach only frames that space owns, or the kernel's plane pages,
\* until the boot halts.
LedgerExact ==
    /\ pool.free = Cardinality(Frames \ pool.allocated)
    /\ SearchIsComplete
    /\ pool.allocated = NewPool.allocated \union RunFrames \union UNION {Owned(s) : s \in Spaces}
    /\ Cardinality(pool.allocated) =
           Cardinality(NewPool.allocated) + Cardinality(RunFrames)
             + MapThenSumSet(LAMBDA s : Len(space[s].owned), Spaces)
    /\ \A s \in Spaces : space[s].phase # "free" /\ ~halted =>
           Reachable(s) \subseteq Owned(s) \union {p.frame : p \in ToSet(PlanePages)}

\* "commit may make the address space schedulable only after every mapping
\* has been verified and sealed" and "map_zeroed must create inaccessible
\* staging memory" (install.rs): a committed process finds at every page of
\* every segment of its image that page's bytes, under that segment's
\* permissions, in a frame it owns; an unsealed mapping has no leaf; no leaf
\* is both writable and executable; and a handle that process_slot accepts
\* names the image it was issued for, however often the slot was reused.
ImageSealed ==
    \A s \in Spaces :
        /\ space[s].phase = "committed" =>
             \A n \in 1 .. Len(space[s].image) :
                LET seg == space[s].image[n]
                IN  \A i \in 0 .. seg.count - 1 :
                      LET leaf == Leaf(s, seg.base + i)
                      IN  /\ leaf.frame \in Owned(s)
                          /\ leaf.writable = seg.writable /\ leaf.executable = seg.executable
                          /\ cell[leaf.frame].data =
                                 IF i < seg.filled THEN Bytes(space[s].image, n, i) ELSE 0
        /\ space[s].phase = "staging" =>
             \A m \in {k \in 1 .. Len(space[s].maps) : ~space[s].maps[k].sealed} :
                \A i \in 0 .. space[s].maps[m].count - 1 :
                    Leaf(s, space[s].maps[m].base + i) = Absent
        /\ space[s].phase # "free" =>
             \A v \in Pages : ~(Leaf(s, v).writable /\ Leaf(s, v).executable)
        /\ \A h \in handles : h.space = s /\ Live(h) => h.image = space[s].image
=============================================================================
