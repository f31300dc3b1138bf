----------------------------- MODULE MmioWindows -----------------------------
(***************************************************************************)
(* Device windows: EarlyMmioMapper behind the KernelMmio lock and the      *)
(* MmioWindow that owns one mapping (mmio.rs).  map and unmap hold the     *)
(* lock throughout.  Addresses count in units of which PageUnits make a    *)
(* page, so that a window may start and end inside one.  Handles stay      *)
(* known to the driver that was given them, and it may close one twice.    *)
(***************************************************************************)
EXTENDS Naturals, FiniteSets, FiniteSetsExt

CONSTANTS
    WindowSlots,    \* MMIO_SLOTS: entries of mmio_p1_table
    WindowRecords,  \* MAXIMUM_MAPPINGS
    GenerationMax,  \* u32::MAX of a record's generation
    PageUnits,
    Devices,        \* device ranges that are mapped: [start, length] in units
    Nowhere         \* an entry that is not present

VARIABLES
    occupied,       \* the slot bitmap
    entries,        \* mmio_p1_table: the physical page of each slot
    records,
    issued,         \* handles returned by map
    windows         \* MmioWindows not closed yet

mmioVars == <<occupied, entries, records, issued, windows>>

Slots == 0 .. WindowSlots - 1

Empty == [gen |-> 0, first |-> 0, count |-> 0, active |-> FALSE]

Init ==
    /\ occupied = {}
    /\ entries = [s \in Slots |-> Nowhere]
    /\ records = [r \in 1 .. WindowRecords |-> Empty]
    /\ issued = {}
    /\ windows = {}

Run(first, count) == first .. first + count - 1

\* find_slots: the starts of the free runs; the lowest one is taken.
FindSlots(count) ==
    {s \in Slots : s + count <= WindowSlots /\ Run(s, count) \intersect occupied = {}}

\* A record whose generation is spent is never used again.
FreeRecords == {r \in DOMAIN records : ~records[r].active /\ records[r].gen # GenerationMax}

Map(device) ==
    LET offset == device.start % PageUnits
        count == (offset + device.length + PageUnits - 1) \div PageUnits
        page == device.start \div PageUnits
        first == Min(FindSlots(count))
        r == Min(FreeRecords)
        handle == [record |-> r, gen |-> records[r].gen + 1]
    IN  /\ device.length # 0
        /\ FreeRecords # {} /\ FindSlots(count) # {}
        /\ occupied' = occupied \union Run(first, count)
        /\ entries' = [s \in Slots |->
                          IF s \in Run(first, count) THEN page + (s - first) ELSE entries[s]]
        /\ records' = [records EXCEPT ![r] =
                          [gen |-> handle.gen, first |-> first, count |-> count, active |-> TRUE]]
        /\ issued' = issued \union {handle}
        /\ windows' = windows \union
               {[handle |-> handle, device |-> device, base |-> first * PageUnits + offset]}

Names(handle) == records[handle.record].active /\ records[handle.record].gen = handle.gen

\* unmap, by close or through the service; a handle that names nothing is
\* answered STATUS_NOT_FOUND and changes nothing.
Unmap(handle) ==
    LET record == records[handle.record]
        span == Run(record.first, record.count)
    IN  /\ Names(handle)
        /\ occupied' = occupied \ span
        /\ entries' = [s \in Slots |-> IF s \in span THEN Nowhere ELSE entries[s]]
        /\ records' = [records EXCEPT ![handle.record] = [Empty EXCEPT !.gen = record.gen]]
        /\ windows' = {w \in windows : w.handle # handle}
        /\ UNCHANGED issued

Next == (\E device \in Devices : Map(device)) \/ (\E handle \in issued : Unmap(handle))

Spec == Init /\ [][Next]_mmioVars

-----------------------------------------------------------------------------

\* checked_pointer: the offsets a window admits.
Admitted(w) == 0 .. w.device.length - 1

\* The physical unit behind a virtual unit of the MMIO window.
Translate(virtual) ==
    LET entry == entries[virtual \div PageUnits]
    IN  IF entry = Nowhere THEN Nowhere ELSE entry * PageUnits + (virtual % PageUnits)

\* Every access an open MmioWindow admits reaches exactly its device register,
\* whatever else was mapped, closed, or closed twice with a kept handle; two
\* windows never share an entry, and slots nobody maps are not present.
WindowsStayMapped ==
    /\ \A w \in windows : \A o \in Admitted(w) : Translate(w.base + o) = w.device.start + o
    /\ occupied = {s \in Slots : entries[s] # Nowhere}
    /\ Cardinality(occupied) =
           MapThenSumSet(LAMBDA r : records[r].count, DOMAIN records)
    /\ {w.handle : w \in windows} =
           {[record |-> r, gen |-> records[r].gen] : r \in {q \in DOMAIN records : records[q].active}}
=============================================================================
