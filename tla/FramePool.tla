------------------------------ MODULE FramePool ------------------------------
(***************************************************************************)
(* The physical frame ledger: abyss's BitmapFrameAllocator behind the      *)
(* kernel's PhysicalFramePool lock (core/abyss/src/frame.rs,               *)
(* kernel/boulder/src/memory/frame_pool.rs).  Every method holds the lock  *)
(* for its whole body, so each is one step.  The two bitmaps are sets of   *)
(* frame numbers; the counter free_frames and the rotating cursor          *)
(* next_search are kept beside them as the code keeps them.  The clients   *)
(* here are the DMA owners, which take aligned contiguous runs; the        *)
(* process address spaces, which take single frames, are AddressSpace.     *)
(***************************************************************************)
EXTENDS Naturals, FiniteSets, FiniteSetsExt

CONSTANTS
    FrameCount,     \* frames below the managed limit
    Usable,         \* frames the memory map calls usable
    Withheld,       \* frames the reservation table holds back
    RunSizes,       \* lengths of the runs DMA owners ask for
    Alignments,     \* alignments they ask for, in frames
    MaxRuns,        \* bound: runs held at a time
    None

VARIABLES
    pool,           \* the allocator
    runs            \* runs DMA owners hold: [first, count]

Frames == 0 .. FrameCount - 1

Span(first, count) == first .. first + count - 1

\* mark_usable and reserve_range each correct the counter frame by frame.
NewPool ==
    LET taken == (Frames \ Usable) \union Withheld
    IN  [allocated |-> taken, reserved |-> taken, next |-> 0,
         free |-> Cardinality(Frames \ taken)]

\* The frame the rotating scan of allocate() reaches first.
NextFree(p) ==
    LET offsets == {o \in Frames : (p.next + o) % FrameCount \notin p.allocated}
    IN  IF p.free = 0 \/ offsets = {} THEN None ELSE (p.next + Min(offsets)) % FrameCount

Take(p, first, count) ==
    [p EXCEPT !.allocated = @ \union Span(first, count), !.free = @ - count,
              !.next = (first + count) % FrameCount]

AlignUp(n, alignment) == ((n + alignment - 1) \div alignment) * alignment

\* The scan restarts after the first occupied frame of a failed candidate.
FindContiguous(p, start, count, alignment) ==
    LET scan[c \in 0 .. FrameCount + alignment] ==
            LET occupied == Span(c, count) \intersect p.allocated
            IN  IF c + count > FrameCount THEN None
                ELSE IF occupied = {} THEN c
                ELSE scan[AlignUp(Min(occupied) + 1, alignment)]
    IN  scan[AlignUp(start, alignment)]

\* Mutant: the second search, from frame zero, is left out.
NoSecondSearch(p, count, alignment) ==
    IF count = 0 \/ count > p.free THEN None ELSE FindContiguous(p, p.next, count, alignment)

AllocateContiguous(p, count, alignment) ==
    LET ahead == FindContiguous(p, p.next, count, alignment)
    IN  IF count = 0 \/ count > p.free THEN None
        ELSE IF ahead # None THEN ahead
        ELSE FindContiguous(p, 0, count, alignment)

MayRelease(p, first, count) ==
    /\ count # 0
    /\ Span(first, count) \subseteq p.allocated \ p.reserved

\* deallocate_contiguous: the whole span is validated before a bit changes.
Release(p, first, count) ==
    IF ~MayRelease(p, first, count) THEN p
    ELSE [p EXCEPT !.allocated = @ \ Span(first, count), !.free = @ + count, !.next = first]

----------------------------------------------------------------------------

AllocateRun(count, alignment) ==
    LET first == AllocateContiguous(pool, count, alignment)
    IN  /\ Cardinality(runs) < MaxRuns
        /\ first # None
        /\ pool' = Take(pool, first, count)
        /\ runs' = runs \union {[first |-> first, count |-> count]}

ReleaseRun(run) ==
    /\ run \in runs
    /\ pool' = Release(pool, run.first, run.count)
    /\ runs' = runs \ {run}

RunFrames == UNION {Span(run.first, run.count) : run \in runs}

\* allocate_contiguous (frame.rs) refuses a run only when no aligned free run
\* of that length exists, wherever the rotating cursor stands.
SearchIsComplete ==
    \A count \in RunSizes, alignment \in Alignments :
        AllocateContiguous(pool, count, alignment) = None =>
            \A first \in {f \in Frames : f % alignment = 0} :
                \/ first + count > FrameCount
                \/ Span(first, count) \intersect pool.allocated # {}
=============================================================================
