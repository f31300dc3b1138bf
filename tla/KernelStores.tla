---------------------------- MODULE KernelStores ----------------------------
(***************************************************************************)
(* What the kernel hands out and takes back: the object table, the flow-   *)
(* regime allocator, the growing allocator, the thermal cells and their    *)
(* budget, and the heap of foreign drivers.  The parts share no state; a   *)
(* behaviour runs one of them.                                             *)
(***************************************************************************)
EXTENDS Integers, FiniteSets, FiniteSetsExt, Sequences, SequencesExt

CONSTANTS
    \* ObjectTable
    ObjectSlots, Kinds, Payloads,
    RightSets,          \* sets of rights an allocation may carry
    MaxReferences,      \* u32::MAX, the largest reference count
    GenerationWrap,     \* generations are counted modulo this, skipping 0
    MaxMade,            \* bound on the handles ever made
    \* Laminar
    Zones,      \* memory ranges that may be added: <<first page, pages>>
    Page,       \* PAGE_SIZE, in units
    MaxOrder,   \* BUDDY_MAX_ORDER
    Pooled,     \* pages of a zone put in the pool (64)
    Classes,    \* number of size classes; class c holds objects of 2^c units
    Sizes,      \* sizes asked for
    \* Mycelium
    Pages,          \* total_pages
    Pids,           \* processes
    Radius,         \* ANASTOMOSIS_RADIUS
    Threshold,      \* SPORE_THRESHOLD
    MaxSpores,      \* MAX_SPORES
    PulseTicks,     \* ticks a nutrient pulse lasts
    MaxTips,        \* bound on tips ever grown
    \* Thermogenesis
    ThermalAddresses, \* addresses the allocator places cells at
    Size,           \* size of an allocation
    DivideSize,     \* MITOSIS_SIZE_THRESHOLD
    MaxDivisions,   \* divisions of one cell (5)
    Macrophages,    \* number of macrophages
    Budget,         \* IMMUNE_PATROL_RATE
    ThermalThreads, \* threads that use the thermal budget
    MaxCharge,      \* MAX_THERMAL_CHARGE
    Amounts,        \* amounts charged and rebated
    MaxTicks,       \* bound on ticks
    \* LinuxKpi
    KpiThreads,
    KpiBlocks,      \* blocks of the backend
    KpiSlots        \* quarantine slots

VARIABLES
    state,      \* of the part a behaviour runs
    past        \* history the properties refer to

vars == <<state, past>>

-----------------------------------------------------------------------------
(***************************************************************************)
(* Part ObjectTable.                                                       *)
(* core/kairos object.rs: the kernel object table.  A Handle is not Copy:  *)
(* it lives until its holder closes it or drops it, and a dropped handle   *)
(* keeps its reference for ever.  Every method runs under the table lock.  *)
(***************************************************************************)
EmptySlot == [occupied |-> FALSE, generation |-> 0, kind |-> {}, maximum |-> {}, references |-> 0, payload |-> {}]

ObjectInit ==
    /\ state = [slots |-> [s \in ObjectSlots |-> EmptySlot]]
    /\ past = [handles |-> {}, made |-> 0]

NextGeneration(g) == IF (g + 1) % GenerationWrap = 0 THEN 1 ELSE (g + 1) % GenerationWrap

\* A handle as its holder keeps it: the Rust value, which copy it is, and what it stands for.
NewHandle(slot, generation, kind, rights, payload) ==
    [slot |-> slot, generation |-> generation, kind |-> kind, rights |-> rights,
     payload |-> payload, copy |-> past.made]

Kept(handles) == past' = [handles |-> handles, made |-> past.made + 1]

ObjectAllocate(kind, payload, rights) ==
    LET free == {s \in ObjectSlots : ~state.slots[s].occupied} IN
    /\ free # {}
    /\ LET s == Min(free)
           g == NextGeneration(state.slots[s].generation) IN
         /\ state' = [state EXCEPT !.slots[s] =
                [occupied |-> TRUE, generation |-> g, kind |-> {kind}, maximum |-> rights,
                 references |-> 1, payload |-> {payload}]]
         /\ Kept(past.handles \cup {NewHandle(s, g, kind, rights, payload)})

ValidSlot(h) ==
    /\ state.slots[h.slot].occupied
    /\ state.slots[h.slot].generation = h.generation
    /\ state.slots[h.slot].kind = {h.kind}


Duplicate(h, rights) ==
    /\ rights \subseteq h.rights
    /\ ValidSlot(h)
    /\ rights \subseteq state.slots[h.slot].maximum
    /\ state.slots[h.slot].references < MaxReferences
    /\ state' = [state EXCEPT !.slots[h.slot].references = @ + 1]
    /\ Kept(past.handles \cup {NewHandle(h.slot, h.generation, h.kind, rights, h.payload)})

\* close consumes the handle whether or not its slot is still the one it names.
Close(h) ==
    /\ state' = IF ~ValidSlot(h) THEN state
                ELSE IF state.slots[h.slot].references = 1
                THEN [state EXCEPT !.slots[h.slot].occupied = FALSE, !.slots[h.slot].references = 0,
                                   !.slots[h.slot].maximum = {}, !.slots[h.slot].payload = {}]
                ELSE [state EXCEPT !.slots[h.slot].references = @ - 1]
    /\ past' = [past EXCEPT !.handles = @ \ {h}]

Drop(h) ==
    /\ past' = [past EXCEPT !.handles = @ \ {h}]
    /\ UNCHANGED state

ObjectNext ==
    \/ /\ past.made < MaxMade
       /\ \/ \E k \in Kinds, p \in Payloads, r \in RightSets : ObjectAllocate(k, p, r)
          \/ \E h \in past.handles, r \in RightSets : Duplicate(h, r)
    \/ \E h \in past.handles : Close(h) \/ Drop(h)

ObjectSpec == ObjectInit /\ [][ObjectNext]_vars

-----------------------------------------------------------------------------
\* Every handle alive resolves, to the object it was made for, with no right that the object
\* does not give; and a slot counts at least the handles alive on it, so an object lives as
\* long as its last handle.
HandlesStayGood ==
    /\ \A h \in past.handles :
         /\ ValidSlot(h)
         /\ state.slots[h.slot].payload = {h.payload}
         /\ h.rights \subseteq state.slots[h.slot].maximum
    /\ \A s \in ObjectSlots : Cardinality({h \in past.handles : h.slot = s}) <= state.slots[s].references

-----------------------------------------------------------------------------
(***************************************************************************)
(* Part Laminar.                                                           *)
(* memory/laminar.rs: slab caches over single pages, buddy zones over      *)
(* power-of-two runs of pages, and the allocator that routes a request to  *)
(* one or the other by the flow regime its sensor reports.  Block          *)
(* addresses are page numbers; an object's address counts units, Page of   *)
(* them to a page.  The sensor's floating-point classification, and the    *)
(* pressure that orders the zones, are any value they could be.            *)
(***************************************************************************)
Orders == 0..MaxOrder-1

LaminarInit ==
    state = [zones |-> <<>>, pool |-> <<>>, large |-> {},
             slabs |-> [c \in 0..Classes-1 |-> <<>>], colour |-> [c \in 0..Classes-1 |-> 0]]

\* BuddyZone::new: one block, as large as the zone allows.
NewZone(z) ==
    LET top == Max({o \in Orders : 2^o <= z[2]}) IN
    [base |-> z[1], total |-> z[2], free |-> [o \in Orders |-> IF o = top THEN <<z[1]>> ELSE <<>>],
     allocated |-> {}, pages |-> z[2]]

\* add_zone also puts the first pages in the pool of the slab caches.
AddZone(z) ==
    /\ \A i \in DOMAIN state.zones : z[1] + z[2] <= state.zones[i].base
                                     \/ state.zones[i].base + state.zones[i].total <= z[1]
    /\ state' = [state EXCEPT !.zones = Append(@, NewZone(z)),
                              !.pool = @ \o [i \in 1..Min({Pooled, z[2]}) |-> z[1] + i - 1]]

\* The half of a block left over when it is split down to an order.
Half(block, order) == block + 2^order

\* alloc_order: the smallest block large enough, split; the set of outcomes is empty when none is.
AllocOrder(zone, order) ==
    LET enough == {o \in Orders : o >= order /\ zone.free[o] # <<>>} IN
    {[block |-> Last(zone.free[found]),
      zone |-> [zone EXCEPT
        !.free = [o \in Orders |->
                    IF o = found THEN Front(zone.free[o])
                    ELSE IF o \in order..found-1 THEN Append(zone.free[o], Half(Last(zone.free[found]), o))
                    ELSE zone.free[o]],
        !.allocated = @ \cup {<<Last(zone.free[found]), order>>},
        !.pages = @ - 2^order]] : found \in (IF enough = {} THEN {} ELSE {Min(enough)})}

\* buddy_addr: the address with the bit of the block's size flipped.
BuddyAddr(block, order) == IF (block \div 2^order) % 2 = 0 THEN block + 2^order ELSE block - 2^order

\* A block and its buddy begin where the lower of them does.
Merged(block, buddy) == Min({block, buddy})

\* The coalescing loop of free_block.
RECURSIVE Coalesce(_, _, _)
Coalesce(free, block, order) ==
    LET buddy == BuddyAddr(block, order) IN
    IF order < MaxOrder - 1 /\ Contains(free[order], buddy)
    THEN Coalesce([free EXCEPT ![order] = RemoveFirst(@, buddy)], Merged(block, buddy), order + 1)
    ELSE [free EXCEPT ![order] = Append(@, block)]

\* free_block, of a block that is allocated.
LaminarFreeBlock(zone, entry) ==
    [zone EXCEPT !.free = Coalesce(@, entry[1], entry[2]),
                 !.allocated = @ \ {entry}, !.pages = @ + 2^entry[2]]

\* Slab::new: what fits behind the colour.
NewSlab(page, size, colour) ==
    LET fits == (Page - colour) \div size IN
    [base |-> page * Page + colour, capacity |-> fits, free |-> 0..fits-1]

\* A slab of a class that is asked for an object: the first free one.
FirstFree(slab) == Min(slab.free)
LaminarTaken(slab) == [slab EXCEPT !.free = @ \ {FirstFree(slab)}]

SizeClass(size) == {c \in 0..Classes-1 : 2^c >= size /\ \A d \in 0..c-1 : 2^d < size}

\* Where a cache without a free object finds a page: the pool, else a block of the first zone.
PageSource ==
    IF state.pool # <<>>
    THEN {[page |-> Last(state.pool), after |-> [state EXCEPT !.pool = Front(@)]]}
    ELSE IF state.zones = <<>> THEN {}
    ELSE {[page |-> a.block, after |-> [state EXCEPT !.zones[1] = a.zone]] : a \in AllocOrder(state.zones[1], 0)}

\* SlabCache::alloc: a slab with a free object first; a new slab is kept even when no object fits in it.
AllocLaminar(c) ==
    LET ready == {i \in DOMAIN state.slabs[c] : state.slabs[c][i].free # {}} IN
    IF ready # {} THEN {[state EXCEPT !.slabs[c][Min(ready)] = LaminarTaken(@)]}
    ELSE {LET slab == NewSlab(s.page, 2^c, state.colour[c]) IN
          [s.after EXCEPT !.slabs[c] = Append(@, IF slab.free = {} THEN slab ELSE LaminarTaken(slab)),
                          !.colour[c] = (@ + 1) % Page] : s \in PageSource}

\* alloc_turbulent: any zone with enough free pages may have the least pressure.
PagesFor(size) == (size + Page - 1) \div Page
OrderFor(pages) == Min({o \in Orders : 2^o >= pages} \cup {MaxOrder - 1})
AllocTurbulent(size) ==
    UNION {{[state EXCEPT !.zones[i] = a.zone, !.large = @ \cup {a.block}]
            : a \in AllocOrder(state.zones[i], OrderFor(PagesFor(size)))}
           : i \in {j \in DOMAIN state.zones : state.zones[j].pages >= PagesFor(size)}}

\* What the sensor's window of sizes may be classified as, every sixteenth request.
Regimes == {"laminar", "transitional", "turbulent"}

\* alloc: the sensor has classified the flow; its regime routes the request.
LaminarAlloc(size, regime) ==
    IF regime = "laminar" \/ (regime = "transitional" /\ size <= Page)
    THEN \E c \in SizeClass(size) : \E s \in AllocLaminar(c) : state' = s
    ELSE \E a \in AllocTurbulent(size) : state' = a

\* Slab::free: an object boundary inside the slab whose object is taken.
Holds(slab, size, address) ==
    /\ address >= slab.base /\ (address - slab.base) % size = 0
    /\ LET i == (address - slab.base) \div size IN i < slab.capacity /\ i \notin slab.free

\* free: the slabs in order, the large allocations when no slab has the address.
LaminarFree(address) ==
    LET places == {p \in (0..Classes-1) \X (1..8) :
                    p[2] \in DOMAIN state.slabs[p[1]] /\ Holds(state.slabs[p[1]][p[2]], 2^p[1], address)}
        page == address \div Page
    IN
    IF places # {}
    THEN \E p \in places :
           /\ \A q \in places : p[1] < q[1] \/ (p[1] = q[1] /\ p[2] <= q[2])
           /\ state' = [state EXCEPT !.slabs[p[1]][p[2]].free =
                          @ \cup {(address - state.slabs[p[1]][p[2]].base) \div 2^p[1]}]
    ELSE /\ address % Page = 0 /\ page \in state.large
         /\ \E i \in DOMAIN state.zones : \E e \in state.zones[i].allocated :
              /\ e[1] = page
              /\ state' = [state EXCEPT !.large = @ \ {page}, !.zones[i] = LaminarFreeBlock(@, e)]

LaminarAddresses == UNION {z[1] * Page .. (z[1] + z[2]) * Page - 1 : z \in Zones}

LaminarNext ==
    \/ \E z \in Zones : AddZone(z)
    \/ \E s \in Sizes, r \in Regimes : LaminarAlloc(s, r)
    \/ \E a \in LaminarAddresses : LaminarFree(a)

LaminarSpec == LaminarInit /\ [][LaminarNext]_state

-----------------------------------------------------------------------------

Span(block, order) == block .. block + 2^order - 1
FreeBlocks(z) == UNION {{<<z.free[o][i], o>> : i \in DOMAIN z.free[o]} : o \in Orders}
LaminarBlocks(z) == FreeBlocks(z) \cup z.allocated

\* Whatever is split, allocated and coalesced, a zone's free and allocated blocks stay disjoint
\* and together make up the block it began with, its page count is exact, and an aligned zone
\* nobody holds a block of is one block again.  A large allocation has its block in some zone.
BlocksTile ==
    /\ \A page \in state.large :
        \E k \in DOMAIN state.zones : \E a \in state.zones[k].allocated : a[1] = page
    /\ \A k \in DOMAIN state.zones :
        LET z == state.zones[k]  top == Max({o \in Orders : 2^o <= z.total}) IN
        /\ \A a, b \in LaminarBlocks(z) : a # b => Span(a[1], a[2]) \cap Span(b[1], b[2]) = {}
        /\ UNION {Span(a[1], a[2]) : a \in LaminarBlocks(z)} = Span(z.base, top)
        /\ z.pages + Cardinality(UNION {Span(a[1], a[2]) : a \in z.allocated}) = z.total
        /\ z.allocated = {} /\ z.base % 2^top = 0 => FreeBlocks(z) = {<<z.base, top>>}

-----------------------------------------------------------------------------
(***************************************************************************)
(* Part Mycelium.                                                          *)
(* memory/mycelium.rs: pages claimed one at a time by growing tips, tips   *)
(* of one process that meet fused into one, ranges of large cords cached   *)
(* as spores, and freed pages that decompose before they are free again.   *)
(* The fixed-point gradient that ranks the free pages is any ranking; a *)
(* callers only pages that are claimed.                              *)
(***************************************************************************)
PageNumbers == 0..Pages-1

MyceliumInit ==
    /\ state = [pages |-> [p \in PageNumbers |-> "free"], pulse |-> [p \in PageNumbers |-> 0],
                free |-> Pages, tips |-> <<>>, spores |-> [i \in 1..MaxSpores |-> {}], count |-> 0,
                growing |-> <<>>]
    /\ past = [p \in PageNumbers |-> 0]

Quiet == state.growing = <<>>
IsFree(p) == p \in PageNumbers /\ state.pages[p] = "free"
\* A cord is only ever compared with the threshold.
Capped(n) == Min({n, Threshold})
Near(p, q, d) == p - q <= d /\ q - p <= d

\* claim.
Claimed(s, p, pid) == [s EXCEPT !.pages[p] = pid, !.free = @ - 1]

\* harvest: the first spore longer than what is needed.
Harvest(pages) ==
    LET fitting == {i \in 1..MaxSpores : \E s \in state.spores[i] : s[2] - s[1] >= pages}
    IN IF fitting = {} THEN {} ELSE {Min(fitting)}

\* alloc: a spore when one is long enough, else a tip on a free page.
MyceliumAlloc(pid, pages) ==
    /\ Quiet /\ Len(state.tips) < MaxTips
    /\ \/ \E i \in Harvest(pages) :
            /\ state' = [state EXCEPT !.spores[i] = {}, !.count = Max({0, @ - 1})]
            /\ UNCHANGED past
       \/ /\ Harvest(pages) = {}
          /\ \E p \in PageNumbers :
               /\ IsFree(p)
               /\ state' = [Claimed(state, p, pid) EXCEPT
                    !.tips = Append(@, [pid |-> pid, at |-> p, lo |-> p, hi |-> p, size |-> 1,
                                        stalled |-> FALSE, alive |-> TRUE])]
               /\ past' = [past EXCEPT ![p] = Len(state.tips) + 1]

\* tick_decay.
Decay ==
    LET pulse == [p \in PageNumbers |-> Max({0, state.pulse[p] - 1})] IN
    [state EXCEPT !.pulse = pulse,
                  !.pages = [p \in PageNumbers |->
                                IF @[p] = "decomposing" /\ pulse[p] = 0 THEN "free" ELSE @[p]]]

\* grow_tick begins: the pulses decay, then every live tip is to grow in turn.
GrowTick ==
    /\ Quiet
    /\ state' = [Decay EXCEPT !.growing = SetToSortSeq({t \in DOMAIN state.tips : state.tips[t].alive}, <)
                                          \o <<0>>]
    /\ UNCHANGED past

\* The pages a tip may move to.
Reach(tip) ==
    {Max({0, tip.at - 1}), Min({tip.at + 1, Pages - 1}), Min({tip.at + 2, Pages - 1}), Max({0, tip.at - 2})}

Candidates(tip) == {p \in Reach(tip) : IsFree(p)}

\* deposit: at the count, which is where a hole may not be.
Deposited(s, tip) ==
    IF tip.size >= Threshold /\ s.count < MaxSpores
    THEN [s EXCEPT !.spores[s.count + 1] = {<<tip.lo, tip.hi>>}, !.count = @ + 1]
    ELSE s

\* advance of the next tip, and its spore: it stalls without a free page, or when rivals outweigh all of them.
Grow ==
    /\ state.growing # <<>> /\ Head(state.growing) # 0
    /\ LET t == Head(state.growing)
           tip == state.tips[t]
           rest == [state EXCEPT !.growing = Tail(@)]
           rivals == \E p \in PageNumbers : state.pages[p] \in Pids \ {tip.pid}
       IN
       \/ /\ tip.stalled
          /\ state' = Deposited(rest, tip)
          /\ UNCHANGED past
       \/ /\ ~tip.stalled /\ (Candidates(tip) = {} \/ rivals)
          /\ state' = Deposited([rest EXCEPT !.tips[t].stalled = TRUE], tip)
          /\ UNCHANGED past
       \/ /\ ~tip.stalled
          /\ \E p \in Candidates(tip) :
               LET grown == [tip EXCEPT !.at = p, !.lo = Min({@, p}), !.hi = Max({@, p}), !.size = Capped(@ + 1)] IN
               /\ state' = Deposited([Claimed(rest, p, tip.pid) EXCEPT !.tips[t] = grown], grown)
               /\ past' = [past EXCEPT ![p] = t]

\* check_anastomosis: pairs in order, each compared where it stood, fused ones pruned at the end.
RECURSIVE Fused(_, _)
Fused(tips, pairs) ==
    IF pairs = <<>> THEN tips
    ELSE LET a == pairs[1][1]  b == pairs[1][2] IN
         Fused(IF tips[a].pid = tips[b].pid /\ Near(tips[a].at, tips[b].at, Radius)
               THEN [tips EXCEPT ![a].lo = Min({@, tips[b].lo}), ![a].hi = Max({@, tips[b].hi}),
                                 ![a].size = Capped(@ + tips[b].size), ![b].alive = FALSE]
               ELSE tips, Tail(pairs))

Pairs(ids) ==
    SetToSortSeq({p \in ids \X ids : p[1] < p[2]},
                 LAMBDA p, q : p[1] < q[1] \/ (p[1] = q[1] /\ p[2] < q[2]))

Fuse ==
    /\ state.growing = <<0>>
    /\ state' = [state EXCEPT !.growing = <<>>,
                    !.tips = Fused(@, Pairs({t \in DOMAIN @ : @[t].alive}))]
    /\ UNCHANGED past

\* free_pages: every page of the range is released, with a pulse around it.
FreePages(lo, hi) ==
    /\ Quiet /\ lo < hi
    /\ \A p \in lo..hi-1 : state.pages[p] \in Pids
    /\ state' = [state EXCEPT
            !.pages = [p \in PageNumbers |-> IF p \in lo..hi-1 THEN "decomposing" ELSE @[p]],
            !.pulse = [p \in PageNumbers |-> IF p \in lo..hi-1 THEN PulseTicks ELSE @[p]],
            !.free = @ + (hi - lo)]
    /\ past' = [p \in PageNumbers |-> IF p \in lo..hi-1 THEN 0 ELSE past[p]]

MyceliumNext ==
    \/ \E pid \in Pids, n \in {1, 2} : MyceliumAlloc(pid, n)
    \/ GrowTick \/ Grow \/ Fuse
    \/ \E lo \in PageNumbers, hi \in 1..Pages : FreePages(lo, hi)

MyceliumSpec == MyceliumInit /\ [][MyceliumNext]_vars

-----------------------------------------------------------------------------

\* The free count is the pages nobody has claimed, decomposing ones included; a page that is
\* claimed belongs to the process whose tip was the last to grow onto it, and was free before.
PagesAreAccounted ==
    /\ state.free = Cardinality({p \in PageNumbers : state.pages[p] \notin Pids})
    /\ \A p \in PageNumbers :
        /\ (past[p] # 0) = (state.pages[p] \in Pids)
        /\ past[p] # 0 => state.tips[past[p]].pid = state.pages[p]

-----------------------------------------------------------------------------
(***************************************************************************)
(* Part Thermogenesis.                                                     *)
(* thermogenesis.rs: allocations as cells that age, overheat, divide and   *)
(* die, the macrophages that collect the dead ones, the addresses given    *)
(* back for rebirth, and the thermal budget that charges, rebates and      *)
(* transactions of several threads draw on.  Temperature, energy and age   *)
(* are floating-point: what a metabolic tick makes of a cell is any state  *)
(* update_state can give.                                                  *)
(***************************************************************************)
ThermalIdle == [at |-> "idle", seen |-> 0, amount |-> 0]

InitCells ==
    /\ state = [part |-> "cells", cells |-> [a \in {} |-> 0], graveyard |-> <<>>, reborn |-> {},
                patrol |-> [m \in 1..Macrophages |-> 0], tick |-> 0]
    /\ past = [total |-> 0]
InitBudget ==
    /\ state = [part |-> "budget", charge |-> 0, threads |-> [t \in ThermalThreads |-> ThermalIdle]]
    /\ past = [total |-> 0]
ThermalInit == InitCells \/ InitBudget

Cells == DOMAIN state.cells
Covers(a, size) == a .. a + size - 1
NewCell(size) == [size |-> size, life |-> "embryonic", divisions |-> 0]

\* alloc at an address the allocator below chose: fresh or reborn, clear of every cell and of
\* every address still in the graveyard.
ThermalAlloc(a) ==
    /\ \A c \in Cells : Covers(a, Size) \cap Covers(c, state.cells[c].size) = {}
    /\ \A i \in DOMAIN state.graveyard : state.graveyard[i] \notin Covers(a, Size)
    /\ state' = [state EXCEPT !.cells = [c \in Cells \cup {a} |-> IF c = a THEN NewCell(Size) ELSE @[c]],
                              !.reborn = @ \ {a}]
    /\ UNCHANGED past

\* free: begin_apoptosis.
ThermalFree(a) ==
    /\ a \in Cells
    /\ state' = [state EXCEPT !.cells[a].life = "apoptotic"]
    /\ UNCHANGED past

\* update_state: a necrotic cell stays so; the others are what they measure.  Cells in heat shock
\* and senescent ones are treated here like healthy ones.
Measured == {"healthy", "stressed", "apoptotic", "necrotic"}
Outcomes(cell) == IF cell.life = "necrotic" THEN {"necrotic"} ELSE Measured

\* can_divide; the telomeres it also looks at allow it or not.
CanDivide(cell) == cell.size >= DivideSize /\ cell.life = "stressed" /\ cell.divisions < MaxDivisions

\* Mitosis: the upper half becomes a daughter.
Divided(cells, a) ==
    LET half == cells[a].size \div 2 IN
    [c \in DOMAIN cells \cup {a + half} |->
        IF c = a THEN [cells[a] EXCEPT !.size = half, !.divisions = @ + 1]
        ELSE IF c = a + half THEN NewCell(half) ELSE cells[c]]

\* patrol: the dead among the next cells in address order.
Engulfed(cells, start) ==
    LET order == SetToSortSeq(DOMAIN cells, <)  n == Len(order) IN
    SelectSeq([i \in 1..Min({Budget, n}) |-> order[(((start % n) + i - 1) % n) + 1]],
              LAMBDA a : cells[a].life \in {"apoptotic", "necrotic"})

\* A cell is buried by the first macrophage that brings it.
Buried(freed) == SelectSeq([i \in DOMAIN freed |-> IF \E j \in 1..i-1 : freed[j] = freed[i] THEN -1 ELSE freed[i]],
                           LAMBDA a : a # -1)

\* tick: metabolism of all, mitosis of some that can divide, then every macrophage's patrol and
\* only then the removals.
Tick(lives, dividing) ==
    LET aged == [c \in Cells |-> [state.cells[c] EXCEPT !.life = lives[c]]]
        split == FoldLeft(Divided, aged, SetToSortSeq(dividing, <))
        n == Max({1, Cardinality(DOMAIN split)})
        met == FoldLeft(LAMBDA acc, m : acc \o (IF split = <<>> THEN <<>> ELSE Engulfed(split, state.patrol[m])),
                        <<>>, [m \in 1..Macrophages |-> m])
        dead == Buried(met)
    IN
    /\ state.tick < MaxTicks
    /\ state' = [state EXCEPT
            !.tick = @ + 1,
            !.cells = [c \in DOMAIN split \ {met[i] : i \in DOMAIN met} |-> split[c]],
            !.graveyard = @ \o dead,
            !.patrol = [m \in 1..Macrophages |-> (@[m] + Budget) % n]]
    /\ UNCHANGED past

\* rebirth hands out the address buried last.
Rebirth ==
    /\ state.graveyard # <<>>
    /\ state' = [state EXCEPT !.graveyard = Front(@), !.reborn = @ \cup {Last(state.graveyard)}]
    /\ UNCHANGED past

-----------------------------------------------------------------------------
(* The budget *)

ThermalAt(t) == state.threads[t]

\* charge, rebate and begin read the charge ...
Load(t, kind, amount) ==
    /\ ThermalAt(t).at = "idle"
    /\ state' = [state EXCEPT !.threads[t] = [at |-> kind, seen |-> state.charge, amount |-> amount]]
    /\ UNCHANGED past

\* What the compare-exchange installs; nothing when a charge exceeds the budget.
NextCharge(kind, seen, amount) ==
    IF kind = "rebate" THEN {Max({0, seen - amount})}
    ELSE IF seen + amount > MaxCharge THEN {} ELSE {seen + amount}

Refused(t) ==
    /\ ThermalAt(t).at \in {"charge", "commit"} /\ NextCharge(ThermalAt(t).at, ThermalAt(t).seen, ThermalAt(t).amount) = {}
    /\ state' = [state EXCEPT !.threads[t] = ThermalIdle]
    /\ UNCHANGED past

\* compare_exchange succeeds when the charge is the one that was read.
Unchanged(t) == state.charge = ThermalAt(t).seen

\* ... and install what follows from it, if nobody was faster; a transaction then fails, the others try again.
Exchange(t) ==
    /\ ThermalAt(t).at \in {"charge", "rebate", "commit"}
    /\ \E next \in NextCharge(ThermalAt(t).at, ThermalAt(t).seen, ThermalAt(t).amount) :
         IF Unchanged(t)
         THEN /\ state' = [state EXCEPT !.charge = next, !.threads[t] = ThermalIdle]
              /\ past' = [past EXCEPT !.total = IF ThermalAt(t).at = "rebate" THEN Max({0, @ - ThermalAt(t).amount})
                                                ELSE @ + ThermalAt(t).amount]
         ELSE /\ state' = [state EXCEPT !.threads[t] = IF ThermalAt(t).at = "commit" THEN ThermalIdle
                                                       ELSE [ThermalAt(t) EXCEPT !.seen = state.charge]]
              /\ UNCHANGED past

ThermalNext ==
    \/ /\ state.part = "cells"
       /\ \/ \E a \in ThermalAddresses : ThermalAlloc(a)
          \/ \E a \in Cells : ThermalFree(a)
          \/ \E lives \in {f \in [Cells -> Measured] : \A c \in Cells : f[c] \in Outcomes(state.cells[c])} :
               \E dividing \in SUBSET {c \in Cells : CanDivide([state.cells[c] EXCEPT !.life = lives[c]])} :
                 Tick(lives, dividing)
          \/ Rebirth
    \/ /\ state.part = "budget"
       /\ \E t \in ThermalThreads :
            \/ \E k \in {"charge", "rebate", "commit"}, n \in Amounts : Load(t, k, n)
            \/ Refused(t) \/ Exchange(t)

ThermalSpec == ThermalInit /\ [][ThermalNext]_vars

-----------------------------------------------------------------------------

\* No two cells overlap however they divide, an address is buried once and is no cell's while it
\* waits for rebirth; and the budget is exactly what was charged less what was rebated, within
\* its maximum, whatever the interleaving of charges, rebates and transactions.
HeatIsAccounted ==
    CASE state.part = "cells" ->
            /\ \A a, b \in Cells : a # b => Covers(a, state.cells[a].size) \cap Covers(b, state.cells[b].size) = {}
            /\ \A i, j \in DOMAIN state.graveyard : i # j => state.graveyard[i] # state.graveyard[j]
            /\ \A i \in DOMAIN state.graveyard : state.graveyard[i] \notin Cells
      [] OTHER -> state.charge = past.total /\ state.charge <= MaxCharge

-----------------------------------------------------------------------------
(***************************************************************************)
(* Part LinuxKpi.                                                          *)
(* The compatibility heap of shim/linux_kpi.rs: kmalloc, kfree and         *)
(* krealloc over a backend whose calls may fail, called from several       *)
(* threads.  A replacement that krealloc can neither hand out nor give     *)
(* back is kept in a bounded quarantine, and every later heap call and     *)
(* uninstall tries the quarantine again.  The quarantine's lock is held    *)
(* for one look or one change; the backend is called outside it.  A call   *)
(* of the backend and the change of the slot it settles are one step: the  *)
(* slot is reserved, so no other call reads it between the two.            *)
(***************************************************************************)
KpiFree == [tag |-> "free", block |-> {}]

KpiIdle == [op |-> "none", at |-> "idle", slot |-> 0, index |-> 0, old |-> {}, new |-> {}]

KpiInit ==
    /\ state = [installed |-> FALSE, out |-> {}, owned |-> [t \in KpiThreads |-> {}],
                slots |-> [s \in KpiSlots |-> KpiFree], calls |-> [t \in KpiThreads |-> KpiIdle]]
    /\ past = {}

KpiAt(t, where) == state.calls[t].at = where

\* The backend takes a block back, or fails and keeps it out.
Released(block) == state.out \ block
Wrong(block) == past \cup (block \ state.out)

Install ==
    /\ ~state.installed
    /\ state' = [state EXCEPT !.installed = TRUE]
    /\ UNCHANGED past

FirstSlot == CHOOSE s \in KpiSlots : \A r \in KpiSlots : s <= r
LastSlot == CHOOSE s \in KpiSlots : \A r \in KpiSlots : s >= r

\* kmalloc, kfree (of an own block) and a krealloc that must grow start with the quarantine.
Begin(t, op, old) ==
    /\ state.installed /\ KpiAt(t, "idle")
    /\ op = "malloc" <=> old = {}
    /\ old \subseteq state.owned[t]
    /\ IF op = "realloc"
       THEN \E s \in KpiSlots :
                /\ state.slots[s].tag = "free" /\ \A r \in KpiSlots : r < s => state.slots[r].tag # "free"
                /\ state' = [state EXCEPT !.slots[s] = [tag |-> "reserved", block |-> {}],
                                          !.calls[t] = [KpiIdle EXCEPT !.op = op, !.at = "retry", !.slot = s,
                                                                       !.index = FirstSlot, !.old = old]]
       ELSE state' = [state EXCEPT !.calls[t] = [KpiIdle EXCEPT !.op = op, !.at = "retry",
                                                                !.index = FirstSlot, !.old = old]]
    /\ UNCHANGED past

\* retry_quarantined_with: a block to reclaim is taken out of the others' reach ...
KpiTaken(entry) == [entry EXCEPT !.tag = "reserved"]

\* Past the last slot the call goes on with its own work.
NextIndex(t) ==
    IF state.calls[t].index < LastSlot
    THEN [state.calls[t] EXCEPT !.at = "retry", !.index = @ + 1]
    ELSE [state.calls[t] EXCEPT !.at = IF state.calls[t].op = "free" THEN "release" ELSE "allocate"]

RetryLook(t) ==
    LET i == state.calls[t].index IN
    /\ KpiAt(t, "retry")
    /\ state' = IF state.slots[i].tag = "reclaim"
                THEN [state EXCEPT !.slots[i] = KpiTaken(@), !.calls[t].at = "again", !.calls[t].new = state.slots[i].block]
                ELSE [state EXCEPT !.calls[t] = NextIndex(t)]
    /\ UNCHANGED past

\* ... and released, or put back.
RetryRelease(t, ok) ==
    LET c == state.calls[t] IN
    /\ KpiAt(t, "again")
    /\ past' = Wrong(c.new)
    /\ state' = [state EXCEPT !.out = IF ok THEN Released(c.new) ELSE @,
                              !.slots[c.index] = IF ok THEN KpiFree ELSE [tag |-> "reclaim", block |-> c.new],
                              !.calls[t] = [NextIndex(t) EXCEPT !.new = {}]]

\* kfree: the caller gives the block up if the backend takes it; otherwise it may call again.
KpiFreeBlock(t, ok) ==
    LET c == state.calls[t] IN
    /\ KpiAt(t, "release")
    /\ past' = Wrong(c.old)
    /\ state' = [state EXCEPT !.out = IF ok THEN Released(c.old) ELSE @,
                              !.owned[t] = IF ok THEN @ \ c.old ELSE @, !.calls[t] = KpiIdle]

\* The allocation; without one, krealloc lets its reservation go.
KpiAllocate(t, block) ==
    LET c == state.calls[t] IN
    /\ KpiAt(t, "allocate") /\ block \in SUBSET (KpiBlocks \ state.out) /\ Cardinality(block) <= 1
    /\ state' = IF block = {}
                THEN [state EXCEPT !.calls[t] = KpiIdle,
                                   !.slots = IF c.op = "realloc" THEN [@ EXCEPT ![c.slot] = KpiFree] ELSE @]
                ELSE IF c.op = "malloc"
                THEN [state EXCEPT !.out = @ \cup block, !.owned[t] = @ \cup block, !.calls[t] = KpiIdle]
                ELSE [state EXCEPT !.out = @ \cup block, !.calls[t].new = block, !.calls[t].at = "attach"]
    /\ UNCHANGED past

\* attach: the reservation knows what it would keep.
Attach(t) ==
    LET c == state.calls[t] IN
    /\ KpiAt(t, "attach")
    /\ state' = [state EXCEPT !.slots[c.slot].block = c.new, !.calls[t].at = "old"]
    /\ UNCHANGED past

\* The old block is released and the replacement handed out ...
ReleaseOld(t, ok) ==
    LET c == state.calls[t] IN
    /\ KpiAt(t, "old")
    /\ past' = Wrong(c.old)
    /\ state' = IF ok
                THEN [state EXCEPT !.out = Released(c.old), !.owned[t] = (@ \ c.old) \cup c.new,
                                   !.slots[c.slot] = KpiFree, !.calls[t] = KpiIdle]
                ELSE [state EXCEPT !.calls[t].at = "new"]

\* quarantine: a reservation becomes something to reclaim.
Quarantined(entry) == [entry EXCEPT !.tag = "reclaim"]

\* ... or the replacement is released; failing that too, it is quarantined.  The caller keeps the old.
ReleaseNew(t, ok) ==
    LET c == state.calls[t] IN
    /\ KpiAt(t, "new")
    /\ past' = Wrong(c.new)
    /\ state' = [state EXCEPT !.out = IF ok THEN Released(c.new) ELSE @,
                              !.slots[c.slot] = IF ok THEN KpiFree ELSE Quarantined(@),
                              !.calls[t] = KpiIdle]

\* uninstall, after every module stopped: refused while the quarantine holds anything.
Uninstall ==
    /\ state.installed /\ \A t \in KpiThreads : KpiAt(t, "idle") /\ state.owned[t] = {}
    /\ \A s \in KpiSlots : state.slots[s].tag = "free"
    /\ state' = [state EXCEPT !.installed = FALSE]
    /\ UNCHANGED past

KpiNext ==
    \/ Install \/ Uninstall
    \/ \E t \in KpiThreads :
        \/ \E op \in {"malloc", "free", "realloc"}, old \in SUBSET KpiBlocks :
            Cardinality(old) <= 1 /\ Begin(t, op, old)
        \/ RetryLook(t) \/ Attach(t)
        \/ \E ok \in BOOLEAN : RetryRelease(t, ok) \/ KpiFreeBlock(t, ok) \/ ReleaseOld(t, ok) \/ ReleaseNew(t, ok)
        \/ \E block \in SUBSET KpiBlocks : KpiAllocate(t, block)

KpiSpec == KpiInit /\ [][KpiNext]_vars

-----------------------------------------------------------------------------
\* Every block the backend holds out is in exactly one hand: a caller's, a call's that has just
\* allocated it, or the quarantine's; none is released twice, however calls and their retries
\* of the quarantine interleave; and after uninstall nothing is out.
HeapIsAccounted ==
    /\ past = {}
    /\ \A b \in KpiBlocks :
        LET owners == {t \in KpiThreads : b \in state.owned[t]}
            kept == {s \in KpiSlots : b \in state.slots[s].block}
            fresh == {t \in KpiThreads : state.calls[t].at = "attach" /\ b \in state.calls[t].new} IN
        Cardinality(owners) + Cardinality(kept) + Cardinality(fresh) = IF b \in state.out THEN 1 ELSE 0
    /\ ~state.installed => state.out = {}

=============================================================================
