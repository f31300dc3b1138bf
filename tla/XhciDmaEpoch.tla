---------------------------- MODULE XhciDmaEpoch ----------------------------
(***************************************************************************)
(* kernel/boulder/src/main.rs, lines 1258-1860: the reversible DMA epoch   *)
(* of one reset-ready xHCI controller.  The boot processor allocates the   *)
(* arena, arms the registers, switches translation on, maps the arena,     *)
(* enables bus mastering, runs and halts the controller, and takes all of  *)
(* it down again; any failure stops the machine with everything retained.  *)
(* The controller obeys Run/Stop and reset in its own time and may report  *)
(* a host-system error, so a poll may give up before it has obeyed.        *)
(***************************************************************************)
EXTENDS Integers, FiniteSets, SequencesExt

CONSTANTS
    Regions         \* regions of the arena, in the order they are allocated

ASSUME EpochAssumption == Regions \in Nat \ {0}

\* The registers prepare_halted_from_evidence writes, in its order; all but
\* CONFIG and ERSTSZ hold an address of the arena.
Program == <<"DCBAAP", "CONFIG", "CRCR", "ERSTSZ", "ERSTBA", "ERDP">>

Scrub == <<"ERDP", "ERSTBA", "ERSTSZ", "CRCR", "DCBAAP", "CONFIG">>

Addresses == {"DCBAAP", "CRCR", "ERSTBA", "ERDP"}

VARIABLES
    pc,             \* where the boot processor is
    i,              \* index of the loop it is in
    region,         \* phase of each region record
    owned,          \* regions whose frames the pool has not got back
    armed,          \* registers that were written and not cleared
    run,            \* USBCMD.RS, as requested
    hc,             \* "halted", "running", "resetting", and "error" for USBSTS.HSE while halted
    bm,             \* PCI bus mastering
    vtd,            \* translation is on
    mapped          \* regions the domain maps

vars == <<pc, i, region, owned, armed, run, hc, bm, vtd, mapped>>

All == 1 .. Regions

Init ==
    /\ pc = "recheck" /\ i = 0
    /\ region = [r \in All |-> "Empty"] /\ owned = {}
    /\ armed = {} /\ run = FALSE /\ hc = "halted"
    /\ bm = FALSE /\ vtd = FALSE /\ mapped = {}

At(place) == pc = place

Goto(place, n) == pc' = place /\ i' = n

\* halt(): the machine stops and drops nothing.
Halt == pc' = "dead" /\ UNCHANGED i

controller == <<run, hc>>
arena == <<region, owned>>
authority == <<bm, vtd, mapped>>

-----------------------------------------------------------------------------
(* Building the epoch                                                      *)

\* A unit that is not proven disabled defers the epoch.
Recheck ==
    /\ At("recheck")
    /\ Goto("allocate", 1) \/ Goto("survey", 0)
    /\ UNCHANGED <<arena, armed, controller, authority>>

\* allocate_all_regions; rollback_build gives the regions back, last first,
\* until one cannot be given back.
Allocate ==
    /\ At("allocate")
    /\ \/ /\ owned' = owned \cup {i}
          /\ region' = [r \in All |-> IF i = Regions THEN "Ready"
                                      ELSE IF r = i THEN "Zeroed" ELSE region[r]]
          /\ IF i = Regions THEN Goto("prepare", 1) ELSE Goto("allocate", i + 1)
       \/ /\ \E k \in 0 .. i :
               /\ owned' = (owned \cup {i}) \ (k + 1 .. i)
               /\ region' = [r \in All |-> IF r \in k + 1 .. i THEN "Released"
                                           ELSE IF r = k THEN "ReleaseDebt" ELSE region[r]]
          /\ Halt
    /\ UNCHANGED <<armed, controller, authority>>

\* prepare_halted_from_evidence: a write that fails may have taken effect.
Prepare ==
    /\ At("prepare")
    /\ \/ armed' = armed \cup {Program[i]} /\ IF i = Len(Program) THEN Goto("build", 0) ELSE Goto("prepare", i + 1)
       \/ armed' \in {armed, armed \cup {Program[i]}} /\ Halt
    /\ UNCHANGED <<arena, controller, authority>>

\* The tables, the backend and the domain; a failed build may leave
\* translation on.
Build ==
    /\ At("build")
    /\ \/ vtd' = TRUE /\ Goto("bind", 1)
       \/ vtd' \in BOOLEAN /\ Halt
    /\ UNCHANGED <<arena, armed, controller, bm, mapped>>

\* Mutant: a region that cannot be mapped is passed over.
BindSkips ==
    /\ At("bind")
    /\ mapped' \in {mapped, mapped \cup {i}}
    /\ IF i = Regions THEN Goto("enable", 0) ELSE Goto("bind", i + 1)
    /\ UNCHANGED <<arena, armed, controller, bm, vtd>>

\* bind_core_regions; a partial binding is revoked as far as it goes.
Bind ==
    /\ At("bind")
    /\ \/ mapped' = mapped \cup {i} /\ IF i = Regions THEN Goto("enable", 0) ELSE Goto("bind", i + 1)
       \/ (\E k \in 1 .. i : mapped' = mapped \ (1 .. k - 1)) /\ Halt
    /\ UNCHANGED <<arena, armed, controller, bm, vtd>>

\* into_runtime_seed and enable_bus_master: rejected, in debt, or enabled.
Enable ==
    /\ At("enable")
    /\ \/ bm' = TRUE /\ Goto("start", 0)
       \/ bm' \in BOOLEAN /\ Halt
    /\ UNCHANGED <<arena, armed, controller, vtd, mapped>>

-----------------------------------------------------------------------------
(* Run, stop, scrub, reset                                                 *)

Start ==
    /\ At("start")
    /\ \/ hc = "halted" /\ run' = TRUE /\ Goto("waitStart", 0)
       \/ run' \in {run, TRUE} /\ Halt
    /\ UNCHANGED <<arena, armed, hc, authority>>

\* A start that is not observed is followed by a stop request.
WaitStart ==
    /\ At("waitStart")
    /\ \/ hc = "running" /\ Goto("stop", 0) /\ UNCHANGED run
       \/ run' \in {run, FALSE} /\ Halt
    /\ UNCHANGED <<arena, armed, hc, authority>>

Stop ==
    /\ At("stop")
    /\ \/ run /\ run' = FALSE /\ Goto("waitStop", 0)
       \/ run' \in {run, FALSE} /\ Halt
    /\ UNCHANGED <<arena, armed, hc, authority>>

WaitStop ==
    /\ At("waitStop")
    /\ (hc = "halted" /\ Goto("scrub", 1)) \/ Halt
    /\ UNCHANGED <<arena, armed, controller, authority>>

\* scrub_halted_registers: HCHalted is enough, before and after the writes.
ScrubRegister ==
    /\ At("scrub")
    /\ \/ /\ i # 1 \/ (~run /\ hc \in {"halted", "error"})
          /\ armed' = armed \ {Scrub[i]}
          /\ IF i = Len(Scrub) THEN Goto("reset", 0) ELSE Goto("scrub", i + 1)
       \/ armed' \in {armed, armed \ {Scrub[i]}} /\ Halt
    /\ UNCHANGED <<arena, controller, authority>>

Reset ==
    /\ At("reset")
    /\ \/ hc \in {"halted", "error"} /\ ~run /\ hc' = "resetting" /\ Goto("waitReset", 0)
       \/ UNCHANGED hc /\ Halt
    /\ UNCHANGED <<arena, armed, run, authority>>

WaitReset ==
    /\ At("waitReset")
    /\ (hc = "halted" /\ Goto("revokeMaster", 0)) \/ Halt
    /\ UNCHANGED <<arena, armed, controller, authority>>

-----------------------------------------------------------------------------
(* Taking the epoch down                                                   *)

RevokeMaster ==
    /\ At("revokeMaster")
    /\ \/ bm' = FALSE /\ Goto("revoke", 1)
       \/ bm' \in {bm, FALSE} /\ Halt
    /\ UNCHANGED <<arena, armed, controller, vtd, mapped>>

\* XhciIommuBinding::revoke stops at the first mapping that cannot go.
Revoke ==
    /\ At("revoke")
    /\ \/ mapped' = mapped \ {i} /\ IF i = Regions THEN Goto("releaseDomain", 0) ELSE Goto("revoke", i + 1)
       \/ UNCHANGED mapped /\ Halt
    /\ UNCHANGED <<arena, armed, controller, bm, vtd>>

\* domain.release, backend.shutdown and the release of the tables.
ReleaseDomain ==
    /\ At("releaseDomain")
    /\ \/ vtd' = FALSE /\ Goto("release", Regions)
       \/ vtd' \in BOOLEAN /\ Halt
    /\ UNCHANGED <<arena, armed, controller, bm, mapped>>

\* arena.release: last first, a refused region is a debt.
Release ==
    /\ At("release")
    /\ \/ /\ region' = [region EXCEPT ![i] = "Released"] /\ owned' = owned \ {i}
          /\ IF i = 1 THEN Goto("survey", 0) ELSE Goto("release", i - 1)
       \/ region' = [region EXCEPT ![i] = "ReleaseDebt"] /\ UNCHANGED owned /\ Halt
    /\ UNCHANGED <<armed, controller, authority>>

\* The controller is surveyed, retained in the census and its claim deferred.
Survey ==
    /\ At("survey")
    /\ Goto("done", 0) \/ Halt
    /\ UNCHANGED <<arena, armed, controller, authority>>

-----------------------------------------------------------------------------
(* The controller                                                          *)

ControllerObeys ==
    /\ \/ hc = "halted" /\ run /\ hc' = "running" /\ UNCHANGED <<run, armed>>
       \/ hc = "running" /\ ~run /\ hc' = "halted" /\ UNCHANGED <<run, armed>>
       \/ hc = "resetting" /\ hc' = "halted" /\ armed' = {} /\ run' = FALSE
    /\ UNCHANGED <<pc, i, arena, authority>>

\* A host-system error halts the controller and clears Run/Stop.
HostSystemError ==
    /\ hc = "running" /\ hc' = "error" /\ run' = FALSE
    /\ UNCHANGED <<pc, i, arena, armed, authority>>

Boot ==
    \/ Recheck \/ Allocate \/ Prepare \/ Build \/ Bind \/ Enable
    \/ Start \/ WaitStart \/ Stop \/ WaitStop \/ ScrubRegister \/ Reset \/ WaitReset
    \/ RevokeMaster \/ Revoke \/ ReleaseDomain \/ Release \/ Survey

Next == Boot \/ ControllerObeys \/ HostSystemError

\* Every poll is bounded, so the boot processor always moves on.
Spec == Init /\ [][Next]_vars /\ WF_vars(Boot)

-----------------------------------------------------------------------------
(* Properties                                                              *)

\* The phases and sets have their types.
TypeOK ==
    /\ i \in 0 .. Max({Regions, Len(Program)})
    /\ region \in [All -> {"Empty", "Zeroed", "Ready", "Released", "ReleaseDebt"}]
    /\ owned \subseteq All /\ mapped \subseteq All
    /\ armed \subseteq ToSet(Program)
    /\ hc \in {"halted", "running", "resetting", "error"}
    /\ {run, bm, vtd} \subseteq BOOLEAN

\* Bus mastering is only on inside the translated window, and a controller
\* that runs, or may yet start, with the bus enabled finds all of the arena
\* mapped and still owned: in particular after every failure that stops the
\* machine, when nobody is left to stop the controller.  Nothing outlives the
\* frames it points to: no register holds the address of a frame that was
\* given back, nothing mapped was given back, a record says Released exactly
\* when the frames are gone, and an epoch that completes leaves nothing behind.
DmaIsContained ==
    /\ TypeOK
    /\ bm => vtd /\ mapped = All
    /\ (bm /\ (hc = "running" \/ run)) => owned = All
    /\ (armed \cap Addresses # {}) => owned = All
    /\ \A r \in All : region[r] \in {"Zeroed", "Ready", "ReleaseDebt"} <=> r \in owned
    /\ mapped \subseteq owned
    /\ pc = "done" => /\ owned = {} /\ armed = {} /\ mapped = {} /\ ~bm /\ ~vtd
                      /\ hc = "halted" /\ ~run

\* The epoch completes or the machine stops.
EpochEnds == <>(pc \in {"done", "dead"})
=============================================================================
