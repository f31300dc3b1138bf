------------------------------ MODULE BootPath ------------------------------
(***************************************************************************)
(* What boot does before devices: it takes the memory map, walks the       *)
(* loader's tags and the firmware's tables, routes interrupts and goes     *)
(* online in order.  The parts share no state; a behaviour runs one of     *)
(* them.                                                                   *)
(***************************************************************************)
EXTENDS Integers, Sequences, FiniteSets

CONSTANTS
    \* BootMemory
    PageSize,
    IdentityEnd,        \* IDENTITY_MAP_END
    LowEnd,             \* end of low memory, where the kernel is loaded
    KernelEnds, Infos, Modules, Framebuffers,  \* what the boot loader may have left, and where
    Maps,               \* memory maps firmware may report: sequences of [start, end, kind]
    MaximumRegions,     \* MAX_MEMORY_REGIONS
    TableCapacity,      \* entries of the reservation table
    MinimumHeap, MaximumHeap,
    BitmapSize,         \* storage_words, in units
    PushBytes,          \* PUSH_EXPECTED_BYTES
    \* BootTags
    Totals,         \* total_size values the header may hold
    MaximumTotal,   \* MAXIMUM_BOOT_INFORMATION_SIZE
    Sizes,          \* size fields a tag may hold
    EntrySizes,     \* entry_size fields a memory map may hold
    EntryMinimum,   \* MEMORY_MAP_ENTRY_MINIMUM_SIZE
    DirectColor,    \* FRAMEBUFFER_DIRECT_COLOR_SIZE
    \* AcpiTables
    Roots,              \* root tables: sequences of [table, intact]
    TableLengths,       \* dwords of entries a MADT or DMAR may carry
    EntryLengths,       \* dwords an entry may claim
    ApicIds,
    MaximumProcessors, MaximumIoApics, MaximumUnits, MaximumEndpoints,
    Segments, Devices,  \* requesters: a PCI segment and a device in it
    \* InterruptRouting
    Irqs,               \* legacy lines
    Cascade,            \* the line the second 8259 hangs on (IRQ 2)
    Secondary,          \* lines of the second 8259
    Overrides,          \* MADT override lists: sequences of [source, gsi]
    ControllerLists,    \* IO-APICs firmware may list: sequences of [address, base, count]
    MaxRegistrations,   \* bound on registrations
    \* BootOrder
    StackBases,     \* where the linker may put the three fault stacks
    StackBytes,     \* FAULT_STACK_BYTES
    StackAlignment, \* FAULT_STACK_ALIGNMENT
    Canonical,      \* the canonical addresses
    MaxHits         \* bound on the interrupts of a test window

VARIABLES
    state,      \* of the part a behaviour runs
    past        \* history the properties refer to

vars == <<state, past>>

-----------------------------------------------------------------------------
(***************************************************************************)
(* Part BootMemory.                                                        *)
(* How physical memory is divided at boot (main.rs, abyss's memory.rs,     *)
(* reservation.rs, allocator.rs and the constructor of frame.rs): the      *)
(* firmware's map is copied, a heap is placed above everything the boot    *)
(* loader left, the frame bitmap is carved from the heap, what is in use   *)
(* is written into a table of reservations, and the rest becomes frames.   *)
(* Addresses are small numbers of units, PageSize units to a page, so that *)
(* ranges that start or end inside a page occur.                           *)
(***************************************************************************)
Max2(a, b) == IF a > b THEN a ELSE b
Min2(a, b) == IF a < b THEN a ELSE b
AlignUp(n) == ((n + PageSize - 1) \div PageSize) * PageSize
AlignDown(n) == (n \div PageSize) * PageSize
FrameCount == IdentityEnd \div PageSize
Units(r) == r.start .. r.end - 1

MemoryInit ==
    /\ \E kernel \in KernelEnds, info \in Infos, module \in Modules, fb \in Framebuffers, map \in Maps :
        state = [phase |-> "loaded", kernel |-> [start |-> LowEnd, end |-> kernel], info |-> info,
                 module |-> module, fb |-> fb, reported |-> map, map |-> <<>>, heap |-> {}, next |-> 0,
                 bitmap |-> {}, table |-> <<>>, allocated |-> {}, reserved |-> {}, free |-> 0, cursor |-> 0]
    /\ past = {}

MemoryHalt == state' = [state EXCEPT !.phase = "halted"] /\ UNCHANGED past

\* The Push module must have the size the build expects and lie in the early map.
ReadModule ==
    /\ state.phase = "loaded"
    /\ IF state.module.end - state.module.start # PushBytes \/ state.module.end > IdentityEnd
       THEN MemoryHalt
       ELSE state' = [state EXCEPT !.phase = "module"] /\ UNCHANGED past

\* MemoryMap::push for every entry; entries of no length are skipped, a full map is an error.
ReadMap ==
    LET kept == SelectSeq(state.reported, LAMBDA r : r.start # r.end) IN
    /\ state.phase = "module"
    /\ IF kept = <<>> \/ Len(kept) > MaximumRegions
       THEN MemoryHalt
       ELSE state' = [state EXCEPT !.phase = "mapped", !.map = kept] /\ UNCHANGED past

UsableRegions(map) == {i \in DOMAIN map : map[i].kind = "usable"}

Clipped(r, low, high) == [start |-> AlignUp(Max2(r.start, low)), end |-> AlignDown(Min2(r.end, high))]

\* usable_range: the largest clipped region, the last of equal ones.
UsableRange(map, low, high, size) ==
    LET Length(i) == Clipped(map[i], low, high).end - Clipped(map[i], low, high).start
        fitting == {i \in UsableRegions(map) : Length(i) >= size} IN
    {Clipped(map[i], low, high) : i \in
        {i \in fitting : \A j \in fitting : Length(j) < Length(i) \/ (Length(j) = Length(i) /\ j <= i)}}

\* protected_end
ProtectedEnd(s) == Max2(Max2(s.kernel.end, s.info.end), s.module.end)

\* The heap is the start of the range found, at most MaximumHeap of it.
PlaceHeap ==
    LET found == UsableRange(state.map, ProtectedEnd(state), IdentityEnd, MinimumHeap) IN
    /\ state.phase = "mapped"
    /\ IF found = {}
       THEN MemoryHalt
       ELSE /\ \E r \in found :
                 state' = [state EXCEPT !.phase = "heap", !.next = r.start,
                    !.heap = {[start |-> r.start, end |-> r.start + Min2(r.end - r.start, MaximumHeap)]}]
            /\ UNCHANGED past

\* BumpAllocator::alloc of an aligned size; the heap never takes anything back.
HeapHas(s, size) == \A h \in s.heap : s.next + size <= h.end

\* The bitmaps are the first allocation of the heap.
PlaceBitmap ==
    /\ state.phase = "heap"
    /\ IF ~HeapHas(state, BitmapSize)
       THEN MemoryHalt
       ELSE state' = [state EXCEPT !.phase = "bitmap", !.next = @ + BitmapSize,
                        !.bitmap = {[start |-> state.next, end |-> state.next + BitmapSize]}]
            /\ UNCHANGED past

\* The framebuffer is reserved as far as it lies below the end of the identity map.
FramebufferReservation(s) ==
    LET below == {f \in s.fb : f.start < IdentityEnd} IN
    IF below = {} THEN <<>>
    ELSE LET f == CHOOSE f \in below : TRUE IN
         IF Min2(f.end, IdentityEnd) > f.start THEN <<[start |-> f.start, end |-> Min2(f.end, IdentityEnd)]>>
         ELSE <<>>

Single(set) == CHOOSE x \in set : TRUE

\* required_reservations and the framebuffer, in the order they are pushed.
Wanted(s) ==
    <<[start |-> 0, end |-> LowEnd], s.kernel, s.info, [start |-> s.module.start, end |-> s.module.end],
      Single(s.heap), Single(s.bitmap)>> \o FramebufferReservation(s)

\* ReservationTable::push: an empty range or a full table halts the boot.
Reserve ==
    LET wanted == Wanted(state) IN
    /\ state.phase = "bitmap"
    /\ IF Len(wanted) > TableCapacity \/ \E i \in DOMAIN wanted : wanted[i].start >= wanted[i].end
       THEN MemoryHalt
       ELSE state' = [state EXCEPT !.phase = "reserved", !.table = wanted] /\ UNCHANGED past

\* Frames wholly inside a usable region (mark_usable).
UsableFrames(map) ==
    UNION {LET start == AlignUp(map[i].start)
               end == AlignDown(Min2(map[i].end, IdentityEnd))
           IN  (start \div PageSize) .. (end \div PageSize) - 1 : i \in UsableRegions(map)}


\* Frames a reservation touches (reserve_range rounds outward).
Touched(r) == ((r.start \div PageSize) .. (AlignUp(r.end) \div PageSize) - 1) \cap (0..FrameCount-1)

\* BitmapFrameAllocator::new and apply_reservations.
BuildPool ==
    LET held == ((0..FrameCount-1) \ UsableFrames(state.map))
                    \cup UNION {Touched(state.table[i]) : i \in DOMAIN state.table} IN
    /\ state.phase = "reserved"
    /\ state' = [state EXCEPT !.phase = "pool", !.allocated = held, !.reserved = held,
                              !.free = FrameCount - Cardinality(held)]
    /\ UNCHANGED past

\* allocate: the scan starts at the cursor.
NextFrame(s) ==
    LET offset == CHOOSE o \in 0..FrameCount-1 :
                    /\ (s.cursor + o) % FrameCount \notin s.allocated
                    /\ \A p \in 0..o-1 : (s.cursor + p) % FrameCount \in s.allocated
    IN  (s.cursor + offset) % FrameCount

Taken(s, frame) ==
    [s EXCEPT !.allocated = @ \cup {frame}, !.free = @ - 1, !.cursor = (frame + 1) % FrameCount]

\* The reclaim test: one frame is taken and given back before the pool is published.
ReclaimTest ==
    /\ state.phase = "pool"
    /\ IF state.free = 0
       THEN MemoryHalt
       ELSE LET frame == NextFrame(state) IN
            /\ state' = [Taken(state, frame) EXCEPT !.phase = "ready", !.allocated = @ \ {frame},
                                                    !.free = @ + 1, !.cursor = frame]
            /\ UNCHANGED past

Allocate ==
    /\ state.phase = "ready" /\ state.free # 0
    /\ state' = Taken(state, NextFrame(state))
    /\ past' = past \cup {NextFrame(state)}

Deallocate(frame) ==
    /\ state.phase = "ready" /\ frame \in state.allocated \ state.reserved
    /\ state' = [state EXCEPT !.allocated = @ \ {frame}, !.free = @ + 1, !.cursor = frame]
    /\ past' = past \ {frame}

MemoryNext ==
    \/ ReadModule \/ ReadMap \/ PlaceHeap \/ PlaceBitmap \/ Reserve \/ BuildPool \/ ReclaimTest
    \/ Allocate
    \/ \E frame \in 0..FrameCount-1 : Deallocate(frame)

MemorySpec == MemoryInit /\ [][MemoryNext]_vars

-----------------------------------------------------------------------------
FrameUnits(frame) == frame * PageSize .. (frame + 1) * PageSize - 1

InUse(s) == Units(s.kernel) \cup Units(s.info) \cup Units(s.module) \cup (0..LowEnd-1)

\* No frame ever handed out touches the kernel image, the boot information, the Push module
\* (verified and loaded later from where it lies), low memory, the framebuffer, the heap or the
\* bitmaps; every byte of it is memory firmware called usable; and the counter of free
\* frames, with which ignition declares memory ready, is exact.
FramesAreFree ==
    state.phase \in {"pool", "ready"} =>
        /\ state.free = Cardinality((0..FrameCount-1) \ state.allocated)
        /\ \A frame \in past :
            /\ FrameUnits(frame) \cap (InUse(state) \cup UNION {Units(h) : h \in state.heap \cup state.bitmap
                                                                            \cup state.fb}) = {}
            /\ \A u \in FrameUnits(frame) :
                 \E i \in DOMAIN state.reported :
                    state.reported[i].kind = "usable" /\ u \in Units(state.reported[i])

\* The heap the kernel allocates from overlaps nothing the boot loader left behind, lies in
\* one usable region, and holds the bitmaps.
HeapIsOwn ==
    \A h \in state.heap :
        /\ Units(h) \cap InUse(state) = {}
        /\ \E i \in UsableRegions(state.map) : Units(h) \subseteq Units(state.map[i])
        /\ \A b \in state.bitmap : Units(b) \subseteq Units(h)

-----------------------------------------------------------------------------
(***************************************************************************)
(* Part BootTags.                                                          *)
(* The walks over the Multiboot2 information structure (boot/multiboot2.rs)*)
(* that boot makes one after the other: framebuffer, Push module, memory   *)
(* map, ACPI root pointer.  Sizes are in words of four bytes, so a tag is  *)
(* aligned when its address is even.  The boot loader's bytes are unknown, *)
(* so each step of a walk meets any tag; nothing here relates one walk to  *)
(* the next, so that the bytes do not change between them is left out.     *)
(***************************************************************************)
HeaderSize == 2
TagHeaderSize == 2
MapHeader == 4      \* MEMORY_MAP_HEADER_SIZE and MODULE_HEADER_SIZE
FixedFramebuffer == 8

Kinds == {"end", "framebuffer", "module", "map", "acpi_new", "acpi_old", "other"}

\* What boot asks for, in order; the new root pointer is preferred to the old one.
Lookups == <<"framebuffer", "module", "map", "acpi_new", "acpi_old">>

TagInit ==
    /\ \E address \in 0..2, total \in Totals :
        state = [phase |-> "entry", base |-> address, total |-> total, lookup |-> 1, at |-> 0,
                 found |-> <<>>]
    /\ past = {}

Stop(reads) == state' = [state EXCEPT !.phase = "halted"] /\ past' = reads

\* BootInformation::load
Load ==
    /\ state.phase = "entry"
    /\ IF \/ state.base = 0 \/ state.base % 2 # 0
          \/ state.total \notin HeaderSize..MaximumTotal \/ state.total % 2 # 0
       THEN Stop({})
       ELSE state' = [state EXCEPT !.phase = "walking", !.at = HeaderSize] /\ UNCHANGED past

AlignUp8(n) == ((n + 1) \div 2) * 2

\* The size check every walk makes before it looks at the type.
Fits(tag) == tag.size >= TagHeaderSize /\ state.at + tag.size <= state.total

\* Outcome of a lookup: found, absent, or an error that halts.
Conclude(outcome, reads) ==
    IF outcome = "error" THEN Stop(reads)
    ELSE /\ state' = [state EXCEPT
                !.found = Append(@, outcome), !.at = HeaderSize,
                !.lookup = IF Lookups[@] = "acpi_new" /\ outcome = "found" THEN @ + 2 ELSE @ + 1,
                !.phase = IF \/ Lookups[state.lookup] = "acpi_old"
                             \/ Lookups[state.lookup] = "acpi_new" /\ outcome = "found"
                          THEN "done" ELSE "walking"]
         /\ past' = reads

Words(from, count) == from .. from + count - 1

\* The memory map's header is there, and its entries fill the tag exactly.
EntriesFill(tag) ==
    /\ tag.size >= MapHeader /\ tag.entry >= EntryMinimum
    /\ (tag.size - MapHeader) % tag.entry = 0

\* Reads of memory_map(): the header, then the fixed fields of every entry.
MapReads(tag) ==
    Words(state.at, MapHeader) \cup
        IF tag.size < MapHeader \/ ~EntriesFill(tag) THEN {}
        ELSE UNION {Words(state.at + MapHeader + i * tag.entry, EntryMinimum) :
                i \in {i \in 0..tag.size : MapHeader + i * tag.entry < tag.size}}

\* A tag of the wanted type: what its handler reads, and whether it is content.
\* good: the colours are known ones, the root pointer parses, the map is not empty.
Handle(want, tag) ==
    CASE want = "framebuffer" ->
            IF tag.size < FixedFramebuffer THEN Conclude("error", {})
            ELSE IF (tag.good /\ tag.size < DirectColor) \/ tag.entry = 0    \* a zero address, pitch or extent
            THEN Conclude("error", Words(state.at, FixedFramebuffer))
            ELSE IF tag.good THEN Conclude("found", Words(state.at, DirectColor))
            ELSE Conclude("absent", Words(state.at, FixedFramebuffer))    \* unsupported: headless
      [] want = "map" ->
            IF tag.size < MapHeader THEN Conclude("error", {})
            ELSE Conclude(IF EntriesFill(tag) /\ tag.good THEN "found" ELSE "error", MapReads(tag))
      [] OTHER ->
            Conclude(IF tag.good THEN "found" ELSE "error", Words(state.at, tag.size))

\* find_tag, one tag: every lookup but the module's.
ReadTag(tag) ==
    LET a == state.at
        want == Lookups[state.lookup] IN
    /\ state.phase = "walking" /\ want # "module"
    /\ IF a >= state.total \/ state.total - a < TagHeaderSize
       THEN Stop({})
       ELSE CASE ~Fits(tag) -> Stop(Words(a, TagHeaderSize))
              [] Fits(tag) /\ tag.kind = want -> Handle(want, tag)
              [] Fits(tag) /\ tag.kind # want /\ tag.kind = "end" ->
                    Conclude(IF want \in {"map", "acpi_old"} THEN "error" ELSE "absent",
                             Words(a, TagHeaderSize))
              [] OTHER -> /\ state' = [state EXCEPT !.at = AlignUp8(a + tag.size)]
                          /\ past' = Words(a, TagHeaderSize)

\* module(): the walk by hand; good: the name is terminated and its range is not empty.
ReadModuleTag(tag, named) ==
    LET a == state.at IN
    /\ state.phase = "walking" /\ Lookups[state.lookup] = "module"
    /\ IF a >= state.total \/ state.total - a < TagHeaderSize
       THEN Stop({})
       ELSE IF ~Fits(tag) THEN Stop(Words(a, TagHeaderSize))
       ELSE IF tag.kind = "module" /\ (tag.size < MapHeader \/ ~tag.good)
       THEN Stop(Words(a, IF tag.size < MapHeader THEN TagHeaderSize ELSE tag.size))
       ELSE IF tag.kind = "module" /\ named THEN Conclude("found", Words(a, tag.size))
       ELSE IF tag.kind = "end" THEN Stop(Words(a, TagHeaderSize))
       ELSE /\ state' = [state EXCEPT !.at = AlignUp8(a + tag.size)]
            /\ past' = Words(a, IF tag.kind = "module" THEN tag.size ELSE TagHeaderSize)

Tags == [kind : Kinds, size : Sizes, entry : EntrySizes, good : BOOLEAN]

TagNext ==
    \/ Load
    \/ \E tag \in Tags :
         \/ ReadTag(tag)
         \/ \E named \in BOOLEAN : ReadModuleTag(tag, named)

TagSpec == TagInit /\ [][TagNext]_vars

-----------------------------------------------------------------------------
\* Whatever the structure holds, no walk and no handler reads a word outside the size its
\* header announced; and boot goes on only with a Push module, a memory map and a root pointer.
ReadsStayInside ==
    /\ past \subseteq 0..state.total-1
    /\ state.phase = "done" =>
        state.found[2] = "found" /\ state.found[3] = "found" /\ state.found[Len(state.found)] = "found"

-----------------------------------------------------------------------------
(***************************************************************************)
(* Part AcpiTables.                                                        *)
(* What boot learns from ACPI (boot/acpi.rs): the root pointer, the root   *)
(* table it names, the MADT (processors and IO-APICs) and, if firmware has *)
(* one, the DMAR (which remapping unit stands before which requester).     *)
(* Firmware's tables are unknown: each step meets any entry, of any length *)
(* in dwords, and signatures, checksums and reserved fields are right or   *)
(* wrong.                                                                  *)
(***************************************************************************)
AcpiInit ==
    /\ \E root \in Roots :
        state = [phase |-> "rsdp", root |-> root, left |-> 0, processors |-> <<>>, apics |-> 0,
                 dmar |-> "unknown", units |-> <<>>, endpoints |-> <<>>, open |-> {}]
    /\ past = <<>>

AcpiHalt == state' = [state EXCEPT !.phase = "halted"] /\ UNCHANGED past

\* The DMAR is optional: a refusal leaves the machine without native DMA.
WithoutDmar == state' = [state EXCEPT !.phase = "done", !.dmar = "refused", !.units = <<>>, !.endpoints = <<>>,
                                      !.open = {}]
               /\ UNCHANGED past

\* Rsdp::parse: version 1 is summed alone, version 2 also as a whole; some root must be named.
ParseRsdp(long, sum, revised, whole, xsdt, rsdt) ==
    /\ state.phase = "rsdp"
    /\ IF sum /\ (revised => long /\ whole) /\ ((revised /\ xsdt) \/ rsdt)
       THEN state' = [state EXCEPT !.phase = "find_madt"] /\ UNCHANGED past
       ELSE AcpiHalt

\* The first entry with the signature; an entry before it that cannot be mapped is an error.
Find(root, table) ==
    LET before(i) == \A j \in 1..i-1 : root[j].table \notin {table, "unmapped"}
        hits == {i \in DOMAIN root : before(i) /\ root[i].table = table}
        faults == {i \in DOMAIN root : before(i) /\ root[i].table = "unmapped"} IN
    IF hits # {} THEN IF \A i \in hits : root[i].intact THEN "found" ELSE "error"
    ELSE IF faults # {} THEN "error" ELSE "absent"

FindMadt(length) ==
    /\ state.phase = "find_madt"
    /\ IF Find(state.root, "madt") = "found"
       THEN state' = [state EXCEPT !.phase = "madt", !.left = length] /\ UNCHANGED past
       ELSE AcpiHalt

\* An entry fits the table and holds the fields of its type.
EntryFits(length, minimum) == length >= minimum /\ length <= state.left

\* push_processor
ProcessorIsNew(id) ==
    /\ \A i \in DOMAIN state.processors : state.processors[i].id # id
    /\ Len(state.processors) < MaximumProcessors

\* Types 0 and 9: a local APIC or x2APIC.
MadtProcessor(length, id, wide) ==
    /\ state.phase = "madt" /\ state.left > 0
    /\ IF EntryFits(length, IF wide THEN 4 ELSE 2) /\ ProcessorIsNew(id)
       THEN state' = [state EXCEPT !.left = @ - length, !.processors = Append(@, [id |-> id, wide |-> wide])]
            /\ UNCHANGED past
       ELSE AcpiHalt

MadtIoApic(length) ==
    /\ state.phase = "madt" /\ state.left > 0
    /\ IF EntryFits(length, 3) /\ state.apics < MaximumIoApics
       THEN state' = [state EXCEPT !.left = @ - length, !.apics = @ + 1] /\ UNCHANGED past
       ELSE AcpiHalt

\* Overrides, the 64-bit APIC address and entries of other types; flags: their bits decode.
MadtOther(length, flags) ==
    /\ state.phase = "madt" /\ state.left > 0
    /\ IF EntryFits(length, 1) /\ flags
       THEN state' = [state EXCEPT !.left = @ - length] /\ UNCHANGED past
       ELSE AcpiHalt

MadtEnd ==
    /\ state.phase = "madt" /\ state.left = 0
    /\ IF state.apics = 0 THEN AcpiHalt
       ELSE state' = [state EXCEPT !.phase = "find_dmar"] /\ UNCHANGED past

\* header: width, flags and reserved bytes of the DMAR are right.
FindDmar(length, header) ==
    /\ state.phase = "find_dmar"
    /\ CASE Find(state.root, "dmar") = "absent" ->
                state' = [state EXCEPT !.phase = "done", !.dmar = "absent"] /\ UNCHANGED past
         [] Find(state.root, "dmar") = "found" /\ header ->
                state' = [state EXCEPT !.phase = "dmar", !.left = length] /\ UNCHANGED past
         [] OTHER -> WithoutDmar

\* parse_drhd: its header; the endpoints that follow are appended to one array.
BeginUnit(length, all, segment, header) ==
    /\ state.phase = "dmar" /\ state.left > 0 /\ state.open = {}
    /\ IF EntryFits(length, 4) /\ header
       THEN /\ state' = [state EXCEPT !.left = @ - length,
                            !.open = {[segment |-> segment, all |-> all, room |-> length - 4,
                                       start |-> Len(state.endpoints), unresolved |-> 0]}]
            /\ past' = Append(past, [segment |-> segment, all |-> all, devices |-> {}])
       ELSE WithoutDmar

\* Structures of other kinds are passed over.
PassStructure(length) ==
    /\ state.phase = "dmar" /\ state.left > 0 /\ state.open = {}
    /\ IF EntryFits(length, 1)
       THEN state' = [state EXCEPT !.left = @ - length] /\ UNCHANGED past
       ELSE WithoutDmar

Slice(endpoints, start, count) == {endpoints[i] : i \in start+1..start+count}

\* An endpoint reached in one hop names a requester; a second entry in the same unit is an error.
EndpointScope(device, well) ==
    \E u \in state.open :
        LET e == [segment |-> u.segment, device |-> device] IN
        /\ state.phase = "dmar" /\ u.room >= 2
        /\ IF /\ well /\ Len(state.endpoints) < MaximumEndpoints
              /\ e \notin Slice(state.endpoints, u.start, Len(state.endpoints) - u.start)
           THEN /\ state' = [state EXCEPT !.endpoints = Append(@, e), !.open = {[u EXCEPT !.room = @ - 2]}]
                /\ past' = [past EXCEPT ![Len(past)].devices = @ \cup {device}]
           ELSE WithoutDmar

\* A bridge or a longer path is only counted; IO-APIC and HPET scopes are not requesters.
OtherScope(unresolved) ==
    \E u \in state.open :
        /\ state.phase = "dmar" /\ u.room >= 2
        /\ state' = [state EXCEPT !.open = {[u EXCEPT !.room = @ - 2,
                                            !.unresolved = IF unresolved THEN @ + 1 ELSE @]}]
        /\ UNCHANGED past

\* The unit's slice of the endpoint array.
Unit(u) == [segment |-> u.segment, all |-> u.all, start |-> u.start,
            count |-> Len(state.endpoints) - u.start, unresolved |-> u.unresolved]

EndUnit ==
    \E u \in state.open :
        /\ state.phase = "dmar" /\ u.room < 2
        /\ IF u.room = 0 /\ Len(state.units) < MaximumUnits
           THEN state' = [state EXCEPT !.units = Append(@, Unit(u)), !.open = {}] /\ UNCHANGED past
           ELSE WithoutDmar

DmarEnd ==
    /\ state.phase = "dmar" /\ state.left = 0 /\ state.open = {}
    /\ IF state.units = <<>> THEN WithoutDmar
       ELSE state' = [state EXCEPT !.phase = "done", !.dmar = "parsed"] /\ UNCHANGED past

AcpiNext ==
    \/ \E long, sum, revised, whole, xsdt, rsdt \in BOOLEAN : ParseRsdp(long, sum, revised, whole, xsdt, rsdt)
    \/ MadtEnd \/ EndUnit \/ DmarEnd
    \/ \E length \in TableLengths :
        \/ FindMadt(length)
        \/ \E header \in BOOLEAN : FindDmar(length, header)
    \/ \E length \in EntryLengths :
        \/ MadtIoApic(length)
        \/ PassStructure(length)
        \/ \E flag \in BOOLEAN :
            \/ MadtOther(length, flag)
            \/ \E id \in ApicIds : MadtProcessor(length, id, flag)
            \/ \E segment \in Segments, header \in BOOLEAN : BeginUnit(length, flag, segment, header)
    \/ \E flag \in BOOLEAN :
        \/ OtherScope(flag)
        \/ \E device \in Devices : EndpointScope(device, flag)

AcpiSpec == AcpiInit /\ [][AcpiNext]_vars

\* remapping_unit_for: the positions of the explicit owners and of the include-all units.
Explicit(e) == {i \in DOMAIN state.units :
                    state.units[i].segment = e.segment
                    /\ e \in Slice(state.endpoints, state.units[i].start, state.units[i].count)}

Fallback(e) == {i \in DOMAIN state.units \ Explicit(e) : state.units[i].segment = e.segment /\ state.units[i].all}

\* An explicit scope outranks include-all; two of either are refused.
RemappingUnitFor(e) ==
    IF Cardinality(Explicit(e)) > 1 \/ Cardinality(Fallback(e)) > 1 THEN {0}
    ELSE IF Explicit(e) # {} THEN Explicit(e) ELSE Fallback(e)

-----------------------------------------------------------------------------
\* No entry is taken from beyond a table, no two processors share a local APIC, no capacity is
\* passed, boot goes on only with an IO-APIC; and the unit a requester is routed to is the one
\* firmware's own list of scopes gives it: the only unit that names it, or else the only
\* include-all unit of its segment, and none when firmware is ambiguous.
RoutesAreFirmwares ==
    /\ state.left >= 0
    /\ \A i, j \in DOMAIN state.processors : i # j => state.processors[i].id # state.processors[j].id
    /\ state.phase = "done" => state.apics \in 1..MaximumIoApics
    /\ state.dmar = "parsed" => \A s \in Segments, d \in Devices :
        LET named == {i \in DOMAIN past : past[i].segment = s /\ d \in past[i].devices}
            open == {i \in DOMAIN past : past[i].segment = s /\ past[i].all /\ d \notin past[i].devices} IN
        RemappingUnitFor([segment |-> s, device |-> d]) =
            IF Cardinality(named) > 1 \/ Cardinality(open) > 1 THEN {0}
            ELSE IF named # {} THEN named ELSE open

-----------------------------------------------------------------------------
(***************************************************************************)
(* Part InterruptRouting.                                                  *)
(* Legacy interrupt lines from the wire to a driver's handler: the 8259    *)
(* pair (interrupts/pic.rs), the IO-APICs that replace it (ioapic.rs), the *)
(* registry of handlers (irq.rs) and the dispatch in mod.rs.  One          *)
(* processor; each registry call holds the registry's lock.  Where line i  *)
(* is wired is the platform's, and the MADT's overrides describe it.       *)
(***************************************************************************)
Gsis == 0..7

FreeSlot == [generation |-> 0, enabled |-> FALSE]
NoEntry == [irq |-> -1, masked |-> TRUE]

RoutingInit ==
    /\ \E overrides \in Overrides, controllers \in ControllerLists :
        state = [overrides |-> overrides, listed |-> controllers, picReady |-> FALSE, picMasks |-> Irqs,
                 controllers |-> <<>>, mappings |-> {}, ready |-> FALSE,
                 entries |-> [g \in Gsis |-> NoEntry],
                 slots |-> [i \in Irqs |-> FreeSlot], next |-> 1, handles |-> {},
                 raised |-> {}]
    /\ past = [kind |-> "none"]

\* Where the platform wires a line.
Wire(irq) ==
    LET hits == {i \in DOMAIN state.overrides : state.overrides[i].source = irq} IN
    IF hits = {} THEN irq ELSE state.overrides[CHOOSE i \in hits : \A j \in hits : i <= j].gsi

PicInitialize ==
    /\ ~state.picReady
    /\ state' = [state EXCEPT !.picReady = TRUE, !.picMasks = Irqs]
    /\ past' = [kind |-> "none"]

\* resolve_legacy_route: the first override of the line, or the line's own number.
ResolveLegacyRoute(irq) == Wire(irq)

ControllerFor(controllers, gsi) ==
    {i \in DOMAIN controllers : /\ gsi >= controllers[i].base
                                /\ gsi - controllers[i].base < controllers[i].count
                                /\ \A j \in 1..i-1 : ~(gsi >= controllers[j].base
                                                       /\ gsi - controllers[j].base < controllers[j].count)}

\* unmap_controllers after a failure.
UnmapControllers(mappings) == {}

\* The entries initialize() writes: all masked, then each line's vector in the order of the lines.
Redirections ==
    [g \in Gsis |->
        LET lines == {i \in Irqs \ {Cascade} : ResolveLegacyRoute(i) = g} IN
        IF lines = {} THEN NoEntry ELSE [irq |-> CHOOSE i \in lines : \A j \in lines : j <= i, masked |-> TRUE]]

\* ioapic::initialize; mapped: how many controllers the mapper accepted before one failed.
IoApicInitialize(mapped) ==
    LET known == SubSeq(state.listed, 1, mapped)
        all == mapped = Len(state.listed) /\ \A i \in DOMAIN known : known[i].address # 0
        mappings == {known[i].address : i \in DOMAIN known} \ {0}
        covered == \A irq \in Irqs : ControllerFor(known, ResolveLegacyRoute(irq)) # {} IN
    /\ state.picReady /\ ~state.ready /\ mapped <= Len(state.listed)
    /\ state' = IF all /\ known # <<>> /\ covered
                THEN [state EXCEPT !.ready = TRUE, !.controllers = known, !.entries = Redirections,
                                   !.mappings = mappings]
                ELSE [state EXCEPT !.mappings = UnmapControllers(mappings)]
    /\ past' = [kind |-> "none"]

\* Pic8259::set_masked: the cascade is open while a line behind it is.
PicMask(masks, irq, masked) ==
    LET changed == IF masked THEN masks \cup {irq} ELSE masks \ {irq} IN
    IF irq \notin Secondary THEN changed
    ELSE IF masked /\ Secondary \subseteq changed THEN changed \cup {Cascade}
    ELSE IF ~masked THEN changed \ {Cascade}
    ELSE changed

\* set_irq_masked: the IO-APIC once it is there, the 8259 before.
SetMasked(s, irq, masked) ==
    IF s.ready
    THEN [s EXCEPT !.entries[ResolveLegacyRoute(irq)].masked = masked]
    ELSE IF s.picReady THEN [s EXCEPT !.picMasks = PicMask(@, irq, masked)] ELSE s

Register(irq) ==
    /\ irq # Cascade /\ state.slots[irq].generation = 0 /\ state.next <= MaxRegistrations
    /\ state' = [state EXCEPT !.slots[irq] = [generation |-> state.next, enabled |-> FALSE],
                              !.next = @ + 1, !.handles = @ \cup {[irq |-> irq, generation |-> state.next]}]
    /\ past' = [kind |-> "none"]

\* A handle is good while its registration stands.
ValidHandle(h) == state.slots[h.irq].generation # 0 /\ state.slots[h.irq].generation = h.generation

SetEnabled(h, enabled) ==
    /\ h \in state.handles /\ ValidHandle(h)
    /\ state' = SetMasked([state EXCEPT !.slots[h.irq].enabled = enabled], h.irq, ~enabled)
    /\ past' = [kind |-> "enable", on |-> enabled, handle |-> h, owner |-> state.slots[h.irq].generation]

Unregister(h) ==
    /\ h \in state.handles /\ ValidHandle(h)
    /\ state' = [SetMasked(state, h.irq, TRUE) EXCEPT !.slots[h.irq] = FreeSlot]
    /\ past' = [kind |-> "enable", on |-> FALSE, handle |-> h, owner |-> state.slots[h.irq].generation]

\* Whether a device's line passes the controller in charge.
LineOpen(irq) ==
    IF state.ready THEN ~state.entries[Wire(irq)].masked
    ELSE /\ state.picReady /\ irq \notin state.picMasks
         /\ irq \in Secondary => Cascade \notin state.picMasks

\* A device pulls its line; one interrupt waits for the processor at a time.
Raise(irq) ==
    /\ irq # Cascade /\ state.raised = {} /\ LineOpen(irq)
    /\ state' = [state EXCEPT !.raised = {[irq |-> irq, via |-> IF state.ready THEN "apic" ELSE "pic"]}]
    /\ past' = [kind |-> "none"]

\* boulder_interrupt_dispatch and dispatch(): the vector names a line; its handler runs if the slot
\* has one and is enabled; then the controller in charge is told.
Dispatch ==
    \E r \in state.raised :
        LET vector == IF r.via = "apic" THEN state.entries[Wire(r.irq)].irq ELSE r.irq
            slot == state.slots[vector] IN
        /\ vector \in Irqs
        /\ state' = [state EXCEPT !.raised = {}]
        /\ past' = [kind |-> "call", wire |-> r.irq, line |-> vector, ran |-> slot.generation # 0 /\ slot.enabled]

RoutingNext ==
    \/ PicInitialize \/ Dispatch
    \/ \E mapped \in 0..3 : IoApicInitialize(mapped)
    \/ \E irq \in Irqs : Register(irq) \/ Raise(irq)
    \/ \E h \in state.handles :
        \/ Unregister(h)
        \/ \E enabled \in BOOLEAN : SetEnabled(h, enabled)

RoutingSpec == RoutingInit /\ [][RoutingNext]_vars

-----------------------------------------------------------------------------
\* A line's interrupt goes to the vector of that line and no other, whichever controller routes it
\* and whatever override the firmware lists; a line is open only while its registration is
\* enabled, and enabling one opens it; a handle whose registration was closed changes nothing of a
\* later owner's line; and a failed IO-APIC initialisation leaves no mapping behind.
LinesReachTheirOwner ==
    /\ past.kind = "call" => past.line = past.wire
    /\ past.kind = "enable" => /\ past.owner = past.handle.generation
                               /\ (state.ready \/ state.picReady) => (LineOpen(past.handle.irq) <=> past.on)
    /\ \A irq \in Irqs \ {Cascade} : LineOpen(irq) => state.slots[irq].enabled
    /\ ~state.ready => state.mappings = {}

-----------------------------------------------------------------------------
(***************************************************************************)
(* Part BootOrder.                                                         *)
(* boulder_main (main.rs) as the bootstrap processor runs it: descriptor   *)
(* tables (privilege.rs, idt.rs), the local APIC and its tests (apic.rs),  *)
(* the ordering guard IgnitionSequence (ignition.rs), and the transfer to  *)
(* PID1.  Every step may fail, and a failed step halts.  Interrupts arrive *)
(* whenever the processor accepts them.  What the steps do to memory, the  *)
(* process and the devices is the subject of other modules.                *)
(***************************************************************************)
FaultVectors == {2, 8, 18}
IpiVector == 48
TimerVector == 49
GateVector == 37

OrderInit ==
    /\ \E bases \in [FaultVectors -> StackBases] :
        state = [at |-> "entry", phase |-> "entry", bases |-> bases, ist |-> [v \in FaultVectors |-> 0],
                 tss |-> FALSE, cpu |-> FALSE, idt |-> FALSE, apic |-> FALSE, timer |-> "none",
                 accepting |-> FALSE, pending |-> {}, hits |-> [v \in {IpiVector, TimerVector, GateVector} |-> 0],
                 gate |-> FALSE, committed |-> FALSE]
    /\ past = [found |-> {}, entered |-> {}]

OrderHalt(s) == [s EXCEPT !.at = "halted", !.accepting = FALSE]

\* A step of the boot path: it goes on, or halts.
Step(from, s) ==
    /\ state.at = from
    /\ state' \in {s, OrderHalt(s)}
    /\ UNCHANGED past

\* validate_fault_stack_layout: no two fault stacks overlap.
DisjointStacks(bases) ==
    \A v, w \in FaultVectors : v # w => bases[v] + StackBytes <= bases[w] \/ bases[w] + StackBytes <= bases[v]

\* validate_fault_stack_layout
ValidLayout(bases) ==
    /\ \A v \in FaultVectors : /\ bases[v] # 0
                               /\ bases[v] % StackAlignment = 0
                               /\ {bases[v], bases[v] + StackBytes - 1} \subseteq Canonical
    /\ DisjointStacks(bases)

\* privilege::initialize: TSS, CPU registration, system-call entry; a failure forgets what it did.
PrivilegeTables ==
    \/ /\ ValidLayout(state.bases)
       /\ Step("entry", [state EXCEPT !.at = "privilege", !.tss = TRUE, !.cpu = TRUE,
                                      !.ist = [v \in FaultVectors |-> state.bases[v] + StackBytes]])
    \/ /\ ~ValidLayout(state.bases) /\ state.at = "entry"
       /\ state' = OrderHalt(state) /\ UNCHANGED past

\* interrupts::initialize: validate_ist_bindings, the descriptor table, the masked 8259s.
InterruptTables ==
    /\ state.tss
    /\ \A v \in FaultVectors : state.ist[v] = state.bases[v] + StackBytes
    /\ Step("privilege", [state EXCEPT !.at = "tables", !.idt = TRUE])

\* trigger_ist_probe and the breakpoint: software vectors, one hit each.
ProbeTables == Step("tables", [state EXCEPT !.at = "probed"])

\* advance: the guard's next phase, from exactly the expected one.
Advance(s, from, to) == IF s.phase = from THEN [s EXCEPT !.phase = to] ELSE OrderHalt(s)

\* The handoff, the memory map and the heap; validate_handoff and memory_ready need resources.
MemoryStage ==
    \E regions, managed, free \in 0..1 :
        LET handoff == IF regions = 0 THEN OrderHalt(state) ELSE Advance(state, "entry", "handoff")
            memory == IF managed = 0 \/ free > managed THEN OrderHalt(handoff) ELSE Advance(handoff, "handoff", "memory") IN
        Step("probed", IF memory.at = "halted" THEN memory ELSE [memory EXCEPT !.at = "memory"])

\* initialize_local_apic, after the MMIO window was tried.
LocalApic == Step("memory", [state EXCEPT !.at = "apic", !.apic = TRUE])

\* The first window: the processor accepts interrupts and sends itself one.
SelfIpi ==
    Step("apic", [state EXCEPT !.at = "ipi", !.accepting = TRUE, !.pending = @ \cup {IpiVector}])

\* interrupts::disable
Disable(s) == [s EXCEPT !.accepting = FALSE]

\* The window closes after a hit or a million tries; exactly one hit will do.
SelfIpiDone ==
    LET closed == Disable(state) IN
    Step("ipi", IF state.hits[IpiVector] = 1 THEN [closed EXCEPT !.at = "clock"] ELSE OrderHalt(closed))

\* calibrate_local_apic_deadline_clock: the timer counts, masked.
CalibrateClock == Step("clock", [state EXCEPT !.at = "topology", !.timer = "masked"])

TopologyStage ==
    \E processors \in 0..1 :
        Step("topology", IF processors = 0 THEN OrderHalt(state)
                         ELSE [Advance(state, "memory", "topology") EXCEPT !.at = "subsystems"])

\* VT-d, PID1's image, PCI, xHCI, DriverNet, Kairos; then subsystems_ready.
SubsystemStage ==
    Step("subsystems", [Advance(state, "topology", "subsystems") EXCEPT !.at = "periodic"])

\* start_periodic consumes the deadline clock; the second window opens.
StartPeriodic ==
    /\ state.timer = "masked"
    /\ Step("periodic", [state EXCEPT !.at = "ticks", !.timer = "periodic", !.accepting = TRUE])

PeriodicDone ==
    LET closed == Disable(state) IN
    Step("ticks", IF state.hits[TimerVector] >= 2 THEN [closed EXCEPT !.at = "gate"] ELSE OrderHalt(closed))

\* Register line 5, raise its vector by instruction, unregister, try the stale handle.
GateTest ==
    Step("gate", [state EXCEPT !.at = "hosts", !.hits[GateVector] = 1])

\* The linked C driver; interrupts_ready, userland_ready; then the processor accepts for good.
GoOnline ==
    LET interrupts == Advance(state, "subsystems", "interrupts")
        userland == Advance(interrupts, "interrupts", "userland") IN
    Step("hosts", IF userland.at = "halted" THEN userland
                  ELSE [Advance([userland EXCEPT !.accepting = TRUE], "userland", "online") EXCEPT !.at = "publish"])

\* The attestation, PID1's registration and its Ring 3 domain.
PublishInit == Step("publish", [state EXCEPT !.at = "transfer"])

\* The last disable, then prepare and commit against the root in CR3.
PrepareTransfer == Step("transfer", [Disable(state) EXCEPT !.at = "enter", !.committed = TRUE])

\* enter_user_process does not come back; if it refuses, the kernel halts.
EnterUser ==
    /\ state.at = "enter"
    /\ \/ /\ state' = [state EXCEPT !.at = "user"]
          /\ past' = [past EXCEPT !.entered = {[accepting |-> state.accepting, phase |-> state.phase,
                                                committed |-> state.committed, ticks |-> state.hits[TimerVector] >= 2]}]
       \/ state' = OrderHalt(state) /\ UNCHANGED past

\* The timer runs out: an interrupt if it is not masked.
TimerExpires ==
    /\ state.timer = "periodic" /\ TimerVector \notin state.pending
    /\ state' = [state EXCEPT !.pending = @ \cup {TimerVector}]
    /\ UNCHANGED past

\* boulder_interrupt_dispatch for the vectors boot meets.
Deliver(v) ==
    /\ state.accepting /\ v \in state.pending /\ state.at # "halted"
    /\ state' = [state EXCEPT !.pending = @ \ {v}, !.hits[v] = IF @ < MaxHits THEN @ + 1 ELSE @]
    /\ past' = [past EXCEPT !.found = @ \cup {[idt |-> state.idt, apic |-> state.apic, at |-> state.at]}]

Boot ==
    \/ PrivilegeTables \/ InterruptTables \/ ProbeTables \/ MemoryStage \/ LocalApic
    \/ SelfIpi \/ SelfIpiDone \/ CalibrateClock \/ TopologyStage \/ SubsystemStage
    \/ StartPeriodic \/ PeriodicDone \/ GateTest \/ GoOnline \/ PublishInit
    \/ PrepareTransfer \/ EnterUser

OrderNext ==
    \/ Boot \/ TimerExpires
    \/ \E v \in {IpiVector, TimerVector} : Deliver(v)

OrderSpec == OrderInit /\ [][OrderNext]_vars

-----------------------------------------------------------------------------
\* Interrupts are taken only in the two test windows and between going online and the transfer,
\* each time with the descriptor table and the local APIC in place; the calibration of the
\* clock sees none.  PID1 is entered with interrupts off, the boot phases complete, the timer
\* tested and the transition committed.  The stacks of double faults, NMIs and machine checks
\* share no byte once the tables are loaded, so one arriving in another keeps its frame.
BootIsOrdered ==
    /\ \A f \in past.found : f.idt /\ f.apic /\ f.at \in {"ipi", "ticks", "publish", "transfer"}
    /\ \A e \in past.entered : ~e.accepting /\ e.phase = "online" /\ e.committed /\ e.ticks
    /\ state.at = "halted" => ~state.accepting
    /\ state.idt => \A v, w \in FaultVectors :
        v # w => (state.ist[v] - StackBytes .. state.ist[v] - 1) \cap (state.ist[w] - StackBytes .. state.ist[w] - 1) = {}

\* Boot has ended in PID1 or in a halt: what it must come to, since no wait of the boot path is
\* unbounded.
Ended == state.at \in {"user", "halted"}

=============================================================================
