-------------------------------- MODULE Slpt --------------------------------
(***************************************************************************)
(* kernel/boulder/src/hw/vtd_slpt.rs driven by a caller that maps, unmaps, *)
(* abandons and retries in any order, holding every handle it was given.   *)
(***************************************************************************)
EXTENDS SlptTables

CONSTANTS
    Used,           \* addresses the caller maps
    Pages           \* physical pages the caller maps

VARIABLE slpt

Init == slpt = Attached

\* record_index: the handle names the slot and the generation it was given at.
Handles == (1 .. Slots) \X (1 .. GenerationMax)

Live(handle) ==
    /\ slpt.slots[handle[1]].generation = handle[2]
    /\ slpt.slots[handle[1]].record # Empty

Map(iova, page) == \E r \in MapPage(slpt, iova, page) : slpt' = r.s

Publish(handle) == Live(handle) /\ \E r \in FinishMap(slpt, handle[1]) : slpt' = r.s

Unmap(handle) == Live(handle) /\ \E r \in UnmapPage(slpt, handle[1]) : slpt' = r.s

Cancel(handle) == Live(handle) /\ \E r \in CancelPendingMap(slpt, handle[1]) : slpt' = r.s

Finish(handle) == Live(handle) /\ \E r \in FinishUnmap(slpt, handle[1]) : slpt' = r.s

Next ==
    \/ \E iova \in Used, page \in Pages : Map(iova, page)
    \/ \E handle \in Handles : Publish(handle) \/ Unmap(handle) \/ Cancel(handle) \/ Finish(handle)

Spec == Init /\ [][Next]_slpt

-----------------------------------------------------------------------------
(* Properties                                                              *)

Phases == {"AwaitingMapInvalidation", "Active", "AwaitingUnmapInvalidation", "AwaitingCleanup"}

\* The tables, the ledger of frames and the slots have their types.
TypeOK ==
    /\ slpt.tab \in [Tables -> [Index -> Frames \cup Pages \cup {Empty}]]
    /\ slpt.pool \subseteq Tables /\ Root \in slpt.pool
    /\ \A x \in 1 .. Slots :
         /\ slpt.slots[x].generation \in 1 .. GenerationMax
         /\ slpt.slots[x].record # Empty =>
              /\ Record(slpt, x).phase \in Phases
              /\ Record(slpt, x).released \in 0 .. Levels - 1

\* What the unit can use is still the kernel's to give: a translation, from
\* the tables or the caches, belongs to a mapping whose removal has not been
\* flushed yet; every table the unit can walk, or remembers having walked, is a
\* frame this owner holds; no table has two parents; and when nothing is mapped
\* any more and nothing failed beyond repair, every frame has been given back.
TablesOwned ==
    /\ TypeOK
    /\ \A e \in slpt.tlb \cup {<<i, Leaf(slpt, i)>> : i \in {j \in Used : Leaf(slpt, j) # Empty}} :
          \E x \in Recorded(slpt) :
              /\ Record(slpt, x).iova = e[1] /\ Record(slpt, x).page = e[2]
              /\ Record(slpt, x).phase # "AwaitingCleanup"
    /\ slpt.walked \cup (UNION {{PathTo(slpt, i)[n] : n \in 1 .. Levels} : i \in Used} \ {Empty})
          \subseteq slpt.pool
    /\ \A f \in Frames :
          Cardinality({<<t, i>> \in slpt.pool \X Index : slpt.tab[t][i] = f}) <= 1
    /\ (~slpt.poisoned /\ Recorded(slpt) = {}) => slpt.pool = {Root}
=============================================================================
