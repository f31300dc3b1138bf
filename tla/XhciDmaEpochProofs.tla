------------------------- MODULE XhciDmaEpochProofs -------------------------
(***************************************************************************)
(* What the DMA epoch of main.rs promises for an arena of any number of    *)
(* regions, whichever step fails and whenever the controller obeys.        *)
(***************************************************************************)
EXTENDS XhciDmaEpoch, TLAPS

Places ==
    {"recheck", "allocate", "prepare", "build", "bind", "enable", "start", "waitStart", "stop",
     "waitStop", "scrub", "reset", "waitReset", "revokeMaster", "revoke", "releaseDomain",
     "release", "survey", "done", "dead"}

\* Where the loops of the boot processor are.
Counted ==
    /\ pc \in {"allocate", "bind", "revoke", "release"} => i \in All
    /\ pc \in {"prepare", "scrub"} => i \in 1 .. Len(Program)

\* The controller does nothing and nothing lets it reach memory.
Resting == ~run /\ hc = "halted" /\ ~bm

Untranslated == ~vtd /\ mapped = {}

\* The arena is complete.
Complete == owned = All /\ region = [r \in All |-> "Ready"]

\* The places between enabling and revoking bus mastering.
Mastering ==
    {"start", "waitStart", "stop", "waitStop", "scrub", "reset", "waitReset", "revokeMaster"}

\* Before bus mastering: the arena grows, is complete, is mapped.
Rising ==
    /\ pc \in {"recheck", "allocate"} => armed = {} /\ Resting /\ Untranslated
    /\ pc = "recheck" => owned = {} /\ region = [r \in All |-> "Empty"]
    /\ pc = "allocate" =>
         owned = 1 .. i - 1 /\ region = [r \in All |-> IF r < i THEN "Zeroed" ELSE "Empty"]
    /\ pc \in {"prepare", "build"} => Complete /\ Resting /\ Untranslated
    /\ pc = "bind" => Complete /\ Resting /\ vtd /\ mapped = 1 .. i - 1
    /\ pc = "enable" => Complete /\ Resting /\ vtd /\ mapped = All

\* With bus mastering on: what is known of the controller.
Running ==
    /\ pc \in Mastering => Complete /\ bm /\ vtd /\ mapped = All
    /\ pc = "start" => hc = "halted" /\ ~run
    /\ pc \in {"waitStop", "scrub", "reset", "waitReset"} => ~run
    /\ pc \in {"scrub", "reset"} => hc = "halted"
    /\ pc = "waitReset" => hc \in {"resetting", "halted"} /\ (hc = "halted" => armed = {})
    /\ pc = "revokeMaster" => hc = "halted" /\ ~run /\ armed = {}

\* After it: the controller was reset, and the mappings, translation and the
\* arena go in this order.
Falling ==
    /\ pc \in {"revoke", "releaseDomain", "release", "survey", "done"} => armed = {} /\ Resting
    /\ pc = "revoke" => Complete /\ vtd /\ mapped = i .. Regions
    /\ pc = "releaseDomain" => Complete /\ vtd /\ mapped = {}
    /\ pc \in {"release", "survey", "done"} => Untranslated
    /\ pc = "release" =>
         owned = 1 .. i /\ region = [r \in All |-> IF r <= i THEN "Ready" ELSE "Released"]
    /\ pc \in {"survey", "done"} => owned = {}

Sets ==
    /\ region \in [All -> {"Empty", "Zeroed", "Ready", "Released", "ReleaseDebt"}]
    /\ owned \subseteq All /\ mapped \subseteq All
    /\ armed \subseteq ToSet(Program)
    /\ hc \in {"halted", "running", "resetting", "error"}
    /\ run \in BOOLEAN /\ bm \in BOOLEAN /\ vtd \in BOOLEAN

\* What DmaIsContained says besides the types, while the boot processor may
\* have stopped anywhere.
Contained ==
    /\ bm => vtd /\ mapped = All
    /\ (bm /\ (hc = "running" \/ run)) => owned = All
    /\ (armed \cap Addresses # {}) => owned = All
    /\ \A r \in All : region[r] \in {"Zeroed", "Ready", "ReleaseDebt"} <=> r \in owned
    /\ mapped \subseteq owned

EpochInv == pc \in Places /\ Counted /\ Rising /\ Running /\ Falling /\ Sets /\ Contained

-----------------------------------------------------------------------------
(* The loops                                                               *)

LEMMA Registers ==
    /\ Len(Program) = 6 /\ Len(Scrub) = 6
    /\ ToSet(Program) = {"DCBAAP", "CONFIG", "CRCR", "ERSTSZ", "ERSTBA", "ERDP"}
    /\ \A n \in 1 .. 6 : Program[n] \in ToSet(Program)
<1>1. Len(Program) = 6 /\ Len(Scrub) = 6 /\ DOMAIN Program = 1 .. 6
  BY DEF Program, Scrub
<1>2. \A n \in 1 .. 6 : n \in {1, 2, 3, 4, 5, 6}
  OBVIOUS
<1>3. ToSet(Program) = {"DCBAAP", "CONFIG", "CRCR", "ERSTSZ", "ERSTBA", "ERDP"}
  BY <1>1, <1>2 DEF ToSet, Program
<1>4. \A n \in 1 .. 6 : Program[n] \in ToSet(Program)
  BY <1>1 DEF ToSet
<1> QED BY <1>1, <1>3, <1>4

\* The index of a loop is within the larger of the two bounds.
LEMMA IndexBound == \A n \in Nat : n <= Regions \/ n <= 6 => n \in 0 .. Max({Regions, Len(Program)})
<1>1. Regions \in Nat /\ Len(Program) = 6
  BY EpochAssumption, Registers
<1>2. \E m \in {Regions, 6} : \A n \in {Regions, 6} : m >= n
  BY <1>1
<1>3. Max({Regions, 6}) \in {Regions, 6} /\ \A n \in {Regions, 6} : Max({Regions, 6}) >= n
  BY <1>2 DEF Max
<1> QED BY <1>1, <1>3

\* The intervals that loops build and consume, one region at a time.
LEMMA Intervals ==
    ASSUME NEW n \in All
    PROVE  /\ n \in Nat /\ 1 <= n /\ n <= Regions
           /\ (1 .. n - 1) \cup {n} = 1 .. n
           /\ (n .. Regions) \ {n} = n + 1 .. Regions
           /\ (1 .. n) \ {n} = 1 .. n - 1
           /\ n = Regions => 1 .. n = All /\ n + 1 .. Regions = {}
           /\ n # Regions => n + 1 \in All
           /\ n # 1 => n - 1 \in All
           /\ 1 .. n \subseteq All /\ n .. Regions \subseteq All
BY EpochAssumption DEF All

LEMMA AllRegions == 1 \in All /\ Regions \in All /\ 1 .. Regions = All /\ 1 .. 1 - 1 = {}
BY EpochAssumption DEF All

-----------------------------------------------------------------------------
(* Where a step may lead                                                   *)

\* The machine stops, and what is retained is contained.
LEMMA Stops == ASSUME Sets', Contained', Halt PROVE EpochInv'
BY DEF EpochInv, Places, Counted, Rising, Running, Falling, Mastering, Halt

\* While the arena is complete only bus mastering matters.
LEMMA CompleteContained ==
    ASSUME Complete', mapped' \subseteq All, bm' => vtd' /\ mapped' = All
    PROVE  Contained'
BY DEF Contained, Complete

-----------------------------------------------------------------------------
(* Building the epoch                                                      *)

LEMMA RecheckStep == EpochInv /\ Recheck => EpochInv'
<1> SUFFICES ASSUME EpochInv, Recheck PROVE EpochInv'
  OBVIOUS
<1>1. /\ armed = {} /\ Resting /\ Untranslated
      /\ owned = {} /\ region = [r \in All |-> "Empty"] /\ Sets /\ Contained
  BY DEF EpochInv, Rising, Recheck, At
<1>2. UNCHANGED <<region, owned, armed, run, hc, bm, vtd, mapped>>
  BY DEF Recheck, arena, controller, authority
<1>3. Sets' /\ Contained'
  BY <1>1, <1>2 DEF Sets, Contained
<1>4. CASE Goto("allocate", 1)
  <2>1. 1 \in All /\ 1 .. 1 - 1 = {} /\ \A r \in All : ~(r < 1)
    BY EpochAssumption, AllRegions DEF All
  <2>2. region' = [r \in All |-> IF r < 1 THEN "Zeroed" ELSE "Empty"]
    BY <1>1, <1>2, <2>1
  <2> QED BY <1>1, <1>2, <1>3, <1>4, <2>1, <2>2
      
          DEF EpochInv, Places, Counted, Rising, Running, Falling, Mastering, Resting, Untranslated, Goto
<1>5. CASE Goto("survey", 0)
  BY <1>1, <1>2, <1>3, <1>5
     DEF EpochInv, Places, Counted, Rising, Running, Falling, Mastering, Resting, Untranslated, Goto
<1> QED BY <1>4, <1>5 DEF Recheck

\* A region more, or rollback_build until the first region that stays.
LEMMA AllocateStep == EpochInv /\ Allocate => EpochInv'
<1> SUFFICES ASSUME EpochInv, Allocate PROVE EpochInv'
  OBVIOUS
<1>1. /\ i \in All /\ armed = {} /\ Resting /\ Untranslated
      /\ owned = 1 .. i - 1 /\ region = [r \in All |-> IF r < i THEN "Zeroed" ELSE "Empty"] /\ Sets
  BY DEF EpochInv, Counted, Rising, Allocate, At
<1>2. UNCHANGED <<armed, run, hc, bm, vtd, mapped>>
  BY DEF Allocate, controller, authority
<1>3. i \in Nat /\ 1 <= i /\ i <= Regions /\ owned \cup {i} = 1 .. i /\ Regions \in Nat
  BY <1>1, Intervals, EpochAssumption
<1>4. CASE i = Regions /\ owned' = owned \cup {i} /\ region' = [r \in All |-> "Ready"] /\ Goto("prepare", 1)
  <2>1. Complete'
    BY <1>3, <1>4, AllRegions DEF Complete
  <2>2. mapped' \subseteq All /\ ~bm' /\ Resting' /\ Untranslated'
    BY <1>1, <1>2 DEF Resting, Untranslated
  <2>3. Sets' /\ Contained'
    BY <1>1, <1>2, <2>1, <2>2, CompleteContained DEF Sets, Complete
  <2>4. 1 \in 1 .. Len(Program)
    BY Registers
  <2> QED BY <1>4, <2>1, <2>2, <2>3, <2>4
         DEF EpochInv, Places, Counted, Rising, Running, Falling, Mastering, Goto
<1>5. CASE /\ i # Regions /\ owned' = owned \cup {i} /\ Goto("allocate", i + 1)
           /\ region' = [r \in All |-> IF r = i THEN "Zeroed" ELSE region[r]]
  <2>1. i + 1 \in All /\ owned' = 1 .. (i + 1) - 1 /\ owned' \subseteq All
    BY <1>1, <1>3, <1>5, Intervals DEF All
  <2>2. region' = [r \in All |-> IF r < i + 1 THEN "Zeroed" ELSE "Empty"]
    <3>1. \A r \in All : r \in Int /\ (r < i + 1 <=> r < i \/ r = i)
      BY <1>3 DEF All
    <3> QED BY <1>1, <1>5, <3>1
  <2>3. \A r \in All : r \in owned' <=> r < i + 1
    BY <1>3, <2>1 DEF All
  <2>4. Sets'
    BY <1>1, <1>2, <2>1, <2>2 DEF Sets
  <2>5. Contained'
    BY <1>1, <1>2, <2>2, <2>3 DEF Contained, Resting, Untranslated
  <2> QED BY <1>1, <1>2, <1>5, <2>1, <2>2, <2>4, <2>5, SMTT(30)
         DEF EpochInv, Places, Counted, Rising, Running, Falling, Mastering, Resting, Untranslated, Goto
<1>6. ASSUME NEW k \in 0 .. i, owned' = (owned \cup {i}) \ (k + 1 .. i), Halt,
             region' = [r \in All |-> IF r \in k + 1 .. i THEN "Released"
                                      ELSE IF r = k THEN "ReleaseDebt" ELSE region[r]]
      PROVE  EpochInv'
  <2>1. owned' = 1 .. k
    BY <1>3, <1>6
  <2>2. owned' \subseteq All
    BY <1>3, <2>1 DEF All
  <2>3. \A r \in All : r \in Int /\ 1 <= r /\ r <= Regions
    BY EpochAssumption DEF All
  <2>4. \A r \in All : /\ r \in owned' <=> r <= k
                       /\ r \in k + 1 .. i => ~(r <= k)
                       /\ r \notin k + 1 .. i /\ r # k => (r < i <=> r <= k)
    BY <1>3, <2>1, <2>3
  <2>5. \A r \in All : region'[r] \in {"Zeroed", "Ready", "ReleaseDebt"} <=> r \in owned'
    BY <1>1, <1>6, <2>3, <2>4
  <2>6. region' \in [All -> {"Empty", "Zeroed", "Ready", "Released", "ReleaseDebt"}]
    BY <1>1, <1>6 DEF Sets
  <2>7. Sets'
    BY <1>1, <1>2, <2>2, <2>6 DEF Sets
  <2>8. Contained'
    BY <1>1, <1>2, <2>5 DEF Contained, Resting, Untranslated
  <2> QED BY <1>6, <2>7, <2>8, Stops
<1>7. CASE i = Regions
  <2>1. \/ owned' = owned \cup {i} /\ region' = [r \in All |-> "Ready"] /\ Goto("prepare", 1)
        \/ \E k \in 0 .. i :
              /\ owned' = (owned \cup {i}) \ (k + 1 .. i) /\ Halt
              /\ region' = [r \in All |-> IF r \in k + 1 .. i THEN "Released"
                                          ELSE IF r = k THEN "ReleaseDebt" ELSE region[r]]
    BY <1>7 DEF Allocate
  <2> QED BY <1>4, <1>6, <1>7, <2>1
<1>8. CASE i # Regions
  <2>1. \/ /\ owned' = owned \cup {i} /\ Goto("allocate", i + 1)
           /\ region' = [r \in All |-> IF r = i THEN "Zeroed" ELSE region[r]]
        \/ \E k \in 0 .. i :
              /\ owned' = (owned \cup {i}) \ (k + 1 .. i) /\ Halt
              /\ region' = [r \in All |-> IF r \in k + 1 .. i THEN "Released"
                                          ELSE IF r = k THEN "ReleaseDebt" ELSE region[r]]
    BY <1>8 DEF Allocate
  <2> QED BY <1>5, <1>6, <1>8, <2>1
<1> QED BY <1>7, <1>8

LEMMA PrepareStep == EpochInv /\ Prepare => EpochInv'
<1> SUFFICES ASSUME EpochInv, Prepare PROVE EpochInv'
  OBVIOUS
<1>1. i \in 1 .. 6 /\ Complete /\ Resting /\ Untranslated /\ Sets
  BY Registers DEF EpochInv, Counted, Rising, Prepare, At
<1>2. UNCHANGED <<region, owned, run, hc, bm, vtd, mapped>>
  BY DEF Prepare, arena, controller, authority
<1>3. Complete' /\ Resting' /\ Untranslated' /\ mapped' \subseteq All
  BY <1>1, <1>2 DEF Complete, Resting, Untranslated
<1>4. armed' \subseteq ToSet(Program)
  BY <1>1, Registers DEF Prepare, Sets
<1>5. Sets' /\ Contained'
  BY <1>1, <1>2, <1>3, <1>4, CompleteContained DEF Sets, Resting
<1>6. CASE i = 6 /\ Goto("build", 0)
  BY <1>3, <1>5, <1>6 DEF EpochInv, Places, Counted, Rising, Running, Falling, Mastering, Goto
<1>7. CASE i # 6 /\ Goto("prepare", i + 1)
  <2>1. i + 1 \in 1 .. Len(Program)
    BY <1>1, <1>7, Registers
  <2> QED BY <1>3, <1>5, <1>7, <2>1
         DEF EpochInv, Places, Counted, Rising, Running, Falling, Mastering, Goto
<1>8. (IF i = Len(Program) THEN Goto("build", 0) ELSE Goto("prepare", i + 1)) \/ Halt
  BY DEF Prepare
<1>9. Len(Program) = 6
  BY Registers
<1> QED BY <1>5, <1>6, <1>7, <1>8, <1>9, Stops

LEMMA BuildStep == EpochInv /\ Build => EpochInv'
<1> SUFFICES ASSUME EpochInv, Build PROVE EpochInv'
  OBVIOUS
<1>1. Complete /\ Resting /\ Untranslated /\ Sets
  BY DEF EpochInv, Rising, Build, At
<1>2. UNCHANGED <<region, owned, armed, run, hc, bm, mapped>> /\ vtd' \in BOOLEAN
  BY DEF Build, arena, controller
<1>3. Complete' /\ Resting' /\ mapped' = {} /\ mapped' \subseteq All
  BY <1>1, <1>2 DEF Complete, Resting, Untranslated
<1>4. Sets' /\ Contained'
  BY <1>1, <1>2, <1>3, CompleteContained DEF Sets, Resting
<1>5. CASE vtd' = TRUE /\ Goto("bind", 1)
  BY <1>3, <1>4, <1>5, AllRegions
     DEF EpochInv, Places, Counted, Rising, Running, Falling, Mastering, Goto
<1> QED BY <1>4, <1>5, Stops DEF Build

LEMMA BindStep == EpochInv /\ Bind => EpochInv'
<1> SUFFICES ASSUME EpochInv, Bind PROVE EpochInv'
  OBVIOUS
<1>1. /\ pc = "bind" /\ i \in All /\ Complete /\ Resting /\ vtd /\ mapped = 1 .. i - 1
      /\ Sets /\ Contained
  BY DEF EpochInv, Counted, Rising, Bind, At
<1>2. (1 .. i - 1) \cup {i} = 1 .. i /\ 1 .. i \subseteq All
  BY <1>1, Intervals
<1>3. UNCHANGED <<region, owned, armed, run, hc, bm, vtd>>
  BY DEF Bind, arena, controller
<1>4. mapped' \subseteq All
  BY <1>1, <1>2 DEF Bind
<1>5. Sets'
  BY <1>1, <1>3, <1>4 DEF Sets
<1>6. Contained'
  BY <1>1, <1>3, <1>4, CompleteContained DEF Complete, Resting
<1>7. CASE mapped' = mapped \cup {i} /\ i = Regions /\ Goto("enable", 0)
  <2>1. mapped' = All
    BY <1>1, <1>2, <1>7, AllRegions
  <2> QED BY <1>1, <1>3, <1>5, <1>6, <1>7, <2>1, SMTT(30)
       DEF EpochInv, Places, Counted, Rising, Running, Falling, Complete, Resting, Mastering, Goto
<1>8. CASE mapped' = mapped \cup {i} /\ i # Regions /\ Goto("bind", i + 1)
  <2>1. mapped' = 1 .. (i + 1) - 1 /\ i + 1 \in All
    BY <1>1, <1>2, <1>8, Intervals DEF All
  <2> QED BY <1>1, <1>3, <1>5, <1>6, <1>8, <2>1, SMTT(30)
       DEF EpochInv, Places, Counted, Rising, Running, Falling, Complete, Resting, Mastering, Goto
<1> QED BY <1>5, <1>6, <1>7, <1>8, Stops DEF Bind

LEMMA EnableStep == EpochInv /\ Enable => EpochInv'
<1> SUFFICES ASSUME EpochInv, Enable PROVE EpochInv'
  OBVIOUS
<1>1. Complete /\ Resting /\ vtd /\ mapped = All /\ Sets
  BY DEF EpochInv, Rising, Enable, At
<1>2. UNCHANGED <<region, owned, armed, run, hc, vtd, mapped>> /\ bm' \in BOOLEAN
  BY DEF Enable, arena, controller
<1>3. Complete' /\ vtd' /\ mapped' = All /\ mapped' \subseteq All
  BY <1>1, <1>2 DEF Complete
<1>4. Sets' /\ Contained'
  BY <1>1, <1>2, <1>3, CompleteContained DEF Sets
<1>5. CASE bm' = TRUE /\ Goto("start", 0)
  BY <1>1, <1>2, <1>3, <1>4, <1>5
     DEF EpochInv, Places, Counted, Rising, Running, Falling, Mastering, Resting, Goto
<1> QED BY <1>4, <1>5, Stops DEF Enable

-----------------------------------------------------------------------------
(* Run, stop, scrub, reset                                                 *)

\* Nothing the controller is told, and nothing it does, matters while the arena
\* is complete and mapped.
LEMMA MasteringKept ==
    ASSUME EpochInv, pc \in Mastering, UNCHANGED <<arena, authority>>, run' \in BOOLEAN,
           armed' \subseteq armed, hc' \in {"halted", "running", "resetting", "error"}
    PROVE  Complete' /\ bm' /\ vtd' /\ mapped' = All /\ Sets' /\ Contained'
<1>1. Complete /\ bm /\ vtd /\ mapped = All /\ Sets
  BY DEF EpochInv, Running
<1>2. UNCHANGED <<region, owned, bm, vtd, mapped>>
  BY DEF arena, authority
<1>3. Complete' /\ bm' /\ vtd' /\ mapped' = All /\ mapped' \subseteq All
  BY <1>1, <1>2 DEF Complete
<1>4. Sets'
  BY <1>1, <1>2 DEF Sets
<1> QED BY <1>3, <1>4, CompleteContained

LEMMA StartStep == EpochInv /\ Start => EpochInv'
<1> SUFFICES ASSUME EpochInv, Start PROVE EpochInv'
  OBVIOUS
<1>1. pc = "start" /\ pc \in Mastering /\ Sets /\ hc = "halted"
  BY DEF EpochInv, Running, Mastering, Start, At
<1>2. /\ UNCHANGED <<arena, authority>> /\ run' \in BOOLEAN /\ armed' \subseteq armed
      /\ hc' \in {"halted", "running", "resetting", "error"}
  BY <1>1 DEF Start, Sets, controller
<1>3. Complete' /\ bm' /\ vtd' /\ mapped' = All /\ Sets' /\ Contained'
  BY <1>1, <1>2, MasteringKept
<1>4. CASE hc' = hc /\ run' = TRUE /\ Goto("waitStart", 0)
  BY <1>1, <1>3, <1>4
     DEF EpochInv, Places, Counted, Rising, Running, Falling, Mastering, Goto
<1> QED BY <1>3, <1>4, Stops DEF Start

LEMMA WaitStartStep == EpochInv /\ WaitStart => EpochInv'
<1> SUFFICES ASSUME EpochInv, WaitStart PROVE EpochInv'
  OBVIOUS
<1>1. pc = "waitStart" /\ pc \in Mastering /\ Sets
  BY DEF EpochInv, Running, Mastering, WaitStart, At
<1>2. /\ UNCHANGED <<arena, authority>> /\ run' \in BOOLEAN /\ armed' \subseteq armed
      /\ hc' \in {"halted", "running", "resetting", "error"}
  BY <1>1 DEF WaitStart, Sets, controller
<1>3. Complete' /\ bm' /\ vtd' /\ mapped' = All /\ Sets' /\ Contained'
  BY <1>1, <1>2, MasteringKept
<1>4. CASE Goto("stop", 0)
  BY <1>1, <1>3, <1>4
     DEF EpochInv, Places, Counted, Rising, Running, Falling, Mastering, Goto
<1> QED BY <1>3, <1>4, Stops DEF WaitStart

LEMMA StopStep == EpochInv /\ Stop => EpochInv'
<1> SUFFICES ASSUME EpochInv, Stop PROVE EpochInv'
  OBVIOUS
<1>1. pc = "stop" /\ pc \in Mastering /\ Sets
  BY DEF EpochInv, Running, Mastering, Stop, At
<1>2. /\ UNCHANGED <<arena, authority>> /\ run' \in BOOLEAN /\ armed' \subseteq armed
      /\ hc' \in {"halted", "running", "resetting", "error"}
  BY <1>1 DEF Stop, Sets, controller
<1>3. Complete' /\ bm' /\ vtd' /\ mapped' = All /\ Sets' /\ Contained'
  BY <1>1, <1>2, MasteringKept
<1>4. CASE run' = FALSE /\ Goto("waitStop", 0)
  BY <1>1, <1>3, <1>4
     DEF EpochInv, Places, Counted, Rising, Running, Falling, Mastering, Goto
<1> QED BY <1>3, <1>4, Stops DEF Stop

LEMMA WaitStopStep == EpochInv /\ WaitStop => EpochInv'
<1> SUFFICES ASSUME EpochInv, WaitStop PROVE EpochInv'
  OBVIOUS
<1>1. pc = "waitStop" /\ pc \in Mastering /\ Sets /\ ~run
  BY DEF EpochInv, Running, Mastering, WaitStop, At
<1>2. /\ UNCHANGED <<arena, authority>> /\ run' \in BOOLEAN /\ armed' \subseteq armed
      /\ hc' \in {"halted", "running", "resetting", "error"}
  BY <1>1 DEF WaitStop, Sets, controller
<1>3. Complete' /\ bm' /\ vtd' /\ mapped' = All /\ Sets' /\ Contained'
  BY <1>1, <1>2, MasteringKept
<1>4. CASE hc = "halted" /\ UNCHANGED <<run, hc>> /\ Goto("scrub", 1)
  BY <1>1, <1>3, <1>4, Registers
     DEF EpochInv, Places, Counted, Rising, Running, Falling, Mastering, Goto
<1> QED BY <1>3, <1>4, Stops DEF WaitStop, controller

LEMMA ScrubRegisterStep == EpochInv /\ ScrubRegister => EpochInv'
<1> SUFFICES ASSUME EpochInv, ScrubRegister PROVE EpochInv'
  OBVIOUS
<1>1. pc = "scrub" /\ pc \in Mastering /\ Sets /\ ~run /\ hc = "halted" /\ i \in 1 .. 6
  BY Registers DEF EpochInv, Counted, Running, Mastering, ScrubRegister, At
<1>2. /\ UNCHANGED <<arena, authority>> /\ run' \in BOOLEAN /\ armed' \subseteq armed
      /\ hc' \in {"halted", "running", "resetting", "error"}
  BY <1>1 DEF ScrubRegister, Sets, controller
<1>3. Complete' /\ bm' /\ vtd' /\ mapped' = All /\ Sets' /\ Contained'
  BY <1>1, <1>2, MasteringKept
<1>4. CASE UNCHANGED <<run, hc>> /\ Goto("reset", 0)
  BY <1>1, <1>3, <1>4
     DEF EpochInv, Places, Counted, Rising, Running, Falling, Mastering, Goto
<1>5. CASE i # 6 /\ UNCHANGED <<run, hc>> /\ Goto("scrub", i + 1)
  BY <1>1, <1>3, <1>5, Registers
     DEF EpochInv, Places, Counted, Rising, Running, Falling, Mastering, Goto
<1> QED BY <1>3, <1>4, <1>5, Stops, Registers DEF ScrubRegister, controller

LEMMA ResetStep == EpochInv /\ Reset => EpochInv'
<1> SUFFICES ASSUME EpochInv, Reset PROVE EpochInv'
  OBVIOUS
<1>1. pc = "reset" /\ pc \in Mastering /\ Sets /\ ~run
  BY DEF EpochInv, Running, Mastering, Reset, At
<1>2. /\ UNCHANGED <<arena, authority>> /\ run' \in BOOLEAN /\ armed' \subseteq armed
      /\ hc' \in {"halted", "running", "resetting", "error"}
  BY <1>1 DEF Reset, Sets, controller
<1>3. Complete' /\ bm' /\ vtd' /\ mapped' = All /\ Sets' /\ Contained'
  BY <1>1, <1>2, MasteringKept
<1>4. CASE hc' = "resetting" /\ UNCHANGED run /\ Goto("waitReset", 0)
  BY <1>1, <1>3, <1>4
     DEF EpochInv, Places, Counted, Rising, Running, Falling, Mastering, Goto
<1> QED BY <1>3, <1>4, Stops DEF Reset

LEMMA WaitResetStep == EpochInv /\ WaitReset => EpochInv'
<1> SUFFICES ASSUME EpochInv, WaitReset PROVE EpochInv'
  OBVIOUS
<1>1. pc = "waitReset" /\ pc \in Mastering /\ Sets /\ ~run /\ (hc = "halted" => armed = {})
  BY DEF EpochInv, Running, Mastering, WaitReset, At
<1>2. /\ UNCHANGED <<arena, authority>> /\ run' \in BOOLEAN /\ armed' \subseteq armed
      /\ hc' \in {"halted", "running", "resetting", "error"}
  BY <1>1 DEF WaitReset, Sets, controller
<1>3. Complete' /\ bm' /\ vtd' /\ mapped' = All /\ Sets' /\ Contained'
  BY <1>1, <1>2, MasteringKept
<1>4. CASE hc = "halted" /\ UNCHANGED <<armed, run, hc>> /\ Goto("revokeMaster", 0)
  BY <1>1, <1>3, <1>4
     DEF EpochInv, Places, Counted, Rising, Running, Falling, Mastering, Goto
<1> QED BY <1>3, <1>4, Stops DEF WaitReset, controller

-----------------------------------------------------------------------------
(* Taking the epoch down                                                   *)

LEMMA RevokeMasterStep == EpochInv /\ RevokeMaster => EpochInv'
<1> SUFFICES ASSUME EpochInv, RevokeMaster PROVE EpochInv'
  OBVIOUS
<1>1. /\ Complete /\ bm /\ vtd /\ mapped = All /\ Sets
      /\ hc = "halted" /\ ~run /\ armed = {}
  BY DEF EpochInv, Running, Mastering, RevokeMaster, At
<1>2. UNCHANGED <<region, owned, armed, run, hc, vtd, mapped>> /\ bm' \in BOOLEAN
  BY <1>1 DEF RevokeMaster, arena, controller, Sets
<1>3. Complete' /\ vtd' /\ mapped' = All /\ mapped' \subseteq All
  BY <1>1, <1>2 DEF Complete
<1>4. Sets' /\ Contained'
  BY <1>1, <1>2, <1>3, CompleteContained DEF Sets
<1>5. CASE bm' = FALSE /\ Goto("revoke", 1)
  BY <1>1, <1>2, <1>3, <1>4, <1>5, AllRegions, SMTT(30)
     DEF EpochInv, Places, Counted, Rising, Running, Falling, Mastering, Resting, Goto
<1> QED BY <1>4, <1>5, Stops DEF RevokeMaster

LEMMA RevokeStep == EpochInv /\ Revoke => EpochInv'
<1> SUFFICES ASSUME EpochInv, Revoke PROVE EpochInv'
  OBVIOUS
<1>1. i \in All /\ Complete /\ armed = {} /\ Resting /\ vtd /\ mapped = i .. Regions /\ Sets
  BY DEF EpochInv, Counted, Falling, Revoke, At
<1>2. UNCHANGED <<region, owned, armed, run, hc, bm, vtd>>
  BY DEF Revoke, arena, controller
<1>3. Complete' /\ armed' = {} /\ Resting' /\ vtd'
  BY <1>1, <1>2 DEF Complete, Resting
<1>4. mapped' \subseteq All
  BY <1>1 DEF Revoke, Sets
<1>5. Sets' /\ Contained'
  BY <1>1, <1>2, <1>3, <1>4, CompleteContained DEF Sets, Resting
<1>6. CASE i = Regions /\ mapped' = mapped \ {i} /\ Goto("releaseDomain", 0)
  <2>1. mapped' = {}
    BY <1>1, <1>6, Intervals
  <2> QED BY <1>3, <1>5, <1>6, <2>1
         DEF EpochInv, Places, Counted, Rising, Running, Falling, Mastering, Goto
<1>7. CASE i # Regions /\ mapped' = mapped \ {i} /\ Goto("revoke", i + 1)
  <2>1. mapped' = i + 1 .. Regions /\ i + 1 \in All
    BY <1>1, <1>7, Intervals
  <2> QED BY <1>3, <1>5, <1>7, <2>1, SMTT(30)
         DEF EpochInv, Places, Counted, Rising, Running, Falling, Mastering, Goto
<1> QED BY <1>5, <1>6, <1>7, Stops DEF Revoke

LEMMA ReleaseDomainStep == EpochInv /\ ReleaseDomain => EpochInv'
<1> SUFFICES ASSUME EpochInv, ReleaseDomain PROVE EpochInv'
  OBVIOUS
<1>1. Complete /\ armed = {} /\ Resting /\ mapped = {} /\ Sets
  BY DEF EpochInv, Falling, ReleaseDomain, At
<1>2. UNCHANGED <<region, owned, armed, run, hc, bm, mapped>> /\ vtd' \in BOOLEAN
  BY DEF ReleaseDomain, arena, controller
<1>3. Complete' /\ armed' = {} /\ Resting' /\ mapped' = {} /\ mapped' \subseteq All
  BY <1>1, <1>2 DEF Complete, Resting
<1>4. Sets' /\ Contained'
  BY <1>1, <1>2, <1>3, CompleteContained DEF Sets, Resting
<1>5. CASE vtd' = FALSE /\ Goto("release", Regions)
  <2>1. \A r \in All : r <= Regions
    BY EpochAssumption DEF All
  <2>2. region' = [r \in All |-> IF r <= Regions THEN "Ready" ELSE "Released"]
    BY <1>3, <2>1 DEF Complete
  <2>3. owned' = 1 .. Regions /\ Regions \in All
    BY <1>3, AllRegions DEF Complete
  <2> QED BY <1>3, <1>4, <1>5, <2>2, <2>3, SMTT(30)
         DEF EpochInv, Places, Counted, Rising, Running, Falling, Mastering, Untranslated, Goto
<1> QED BY <1>4, <1>5, Stops DEF ReleaseDomain

LEMMA ReleaseStep == EpochInv /\ Release => EpochInv'
<1> SUFFICES ASSUME EpochInv, Release PROVE EpochInv'
  OBVIOUS
<1>1. /\ i \in All /\ armed = {} /\ Resting /\ Untranslated /\ Sets
      /\ owned = 1 .. i /\ region = [r \in All |-> IF r <= i THEN "Ready" ELSE "Released"]
  BY DEF EpochInv, Counted, Falling, Release, At
<1>2. UNCHANGED <<armed, run, hc, bm, vtd, mapped>>
  BY DEF Release, controller, authority
<1>3. armed' = {} /\ Resting' /\ Untranslated'
  BY <1>1, <1>2 DEF Resting, Untranslated
<1>4. i \in Nat /\ \A r \in All : r \in Int /\ 1 <= r
  BY <1>1, EpochAssumption DEF All
<1>5. CASE region' = [region EXCEPT ![i] = "Released"] /\ owned' = owned \ {i}
  <2>1. owned' = 1 .. i - 1 /\ owned' \subseteq All
    BY <1>1, <1>5, Intervals DEF Sets
  <2>2. \A r \in All : (r = i => ~(r <= i - 1)) /\ (r # i => (r <= i <=> r <= i - 1))
    BY <1>4
  <2>3. region' = [r \in All |-> IF r <= i - 1 THEN "Ready" ELSE "Released"]
    BY <1>1, <1>5, <2>2
  <2>4. \A r \in All : r \in owned' <=> r <= i - 1
    BY <1>4, <2>1
  <2>5. Sets'
    BY <1>1, <1>2, <2>1, <2>3 DEF Sets
  <2>6. Contained'
    BY <1>3, <2>3, <2>4 DEF Contained, Resting, Untranslated
  <2>7. CASE i = 1 /\ Goto("survey", 0)
    <3>1. owned' = {}
      BY <2>1, <2>7
    <3> QED BY <1>3, <2>5, <2>6, <2>7, <3>1, SMTT(30)
           DEF EpochInv, Places, Counted, Rising, Running, Falling, Mastering, Goto
  <2>8. CASE i # 1 /\ Goto("release", i - 1)
    <3>1. i - 1 \in All
      BY <1>1, <2>8, Intervals
    <3> QED BY <1>3, <2>1, <2>3, <2>5, <2>6, <2>8, <3>1, SMTT(30)
           DEF EpochInv, Places, Counted, Rising, Running, Falling, Mastering, Goto
  <2> QED BY <2>5, <2>6, <2>7, <2>8, Stops, SMTT(30) DEF Release
<1>6. CASE region' = [region EXCEPT ![i] = "ReleaseDebt"] /\ UNCHANGED owned /\ Halt
  <2>1. \A r \in All : r \in owned' <=> r <= i
    BY <1>1, <1>4, <1>6
  <2>2. i <= i
    BY <1>4
  <2>3. \A r \in All : region'[r] \in {"Zeroed", "Ready", "ReleaseDebt"} <=> r \in owned'
    BY <1>1, <1>6, <2>1, <2>2
  <2>4. Sets'
    BY <1>1, <1>2, <1>6 DEF Sets
  <2>5. Contained'
    BY <1>3, <2>3 DEF Contained, Resting, Untranslated
  <2> QED BY <1>6, <2>4, <2>5, Stops
<1> QED BY <1>5, <1>6 DEF Release

LEMMA SurveyStep == EpochInv /\ Survey => EpochInv'
<1> SUFFICES ASSUME EpochInv, Survey PROVE EpochInv'
  OBVIOUS
<1>1. armed = {} /\ Resting /\ Untranslated /\ owned = {} /\ Sets /\ Contained
  BY DEF EpochInv, Falling, Survey, At
<1>2. UNCHANGED <<region, owned, armed, run, hc, bm, vtd, mapped>>
  BY DEF Survey, arena, controller, authority
<1>3. armed' = {} /\ Resting' /\ Untranslated' /\ owned' = {} /\ Sets' /\ Contained'
  BY <1>1, <1>2 DEF Resting, Untranslated, Sets, Contained
<1>4. CASE Goto("done", 0)
  BY <1>3, <1>4 DEF EpochInv, Places, Counted, Rising, Running, Falling, Mastering, Goto
<1> QED BY <1>3, <1>4, Stops DEF Survey

-----------------------------------------------------------------------------
(* The controller, wherever the boot processor is                          *)

\* A controller that was not told to rest moves only where the boot processor
\* waits for it, or has stopped.
LEMMA Moves ==
    ASSUME EpochInv
    PROVE  /\ run \/ hc = "running" => pc \in {"waitStart", "stop", "waitStop", "dead"}
           /\ run => pc # "waitStop"
           /\ hc = "resetting" => pc \in {"waitStart", "stop", "waitStop", "waitReset", "dead"}
BY DEF EpochInv, Places, Rising, Running, Falling, Mastering, Resting

LEMMA ControllerObeysStep == EpochInv /\ ControllerObeys => EpochInv'
<1> SUFFICES ASSUME EpochInv, ControllerObeys PROVE EpochInv'
  OBVIOUS
<1>1. UNCHANGED <<pc, i, region, owned, bm, vtd, mapped>>
  BY DEF ControllerObeys, arena, authority
<1>2. /\ Sets /\ Contained
      /\ pc \in Mastering => Complete /\ bm /\ vtd /\ mapped = All
      /\ pc \in {"waitStop", "waitReset"} => ~run
  BY DEF EpochInv, Running
<1>3. pc' \in Mastering => Complete' /\ bm' /\ vtd' /\ mapped' = All
  BY <1>1, <1>2 DEF Complete
<1>4. CASE hc = "halted" /\ run /\ hc' = "running" /\ UNCHANGED <<run, armed>>
  <2>1. Sets' /\ Contained'
    BY <1>1, <1>2, <1>4 DEF Sets, Contained
  <2>2. pc' \in {"waitStart", "stop", "dead"}
    BY <1>1, <1>4, Moves
  <2> QED BY <1>3, <2>1, <2>2 DEF EpochInv, Places, Counted, Rising, Running, Falling, Mastering
<1>5. CASE hc = "running" /\ ~run /\ hc' = "halted" /\ UNCHANGED <<run, armed>>
  <2>1. Sets' /\ Contained'
    BY <1>1, <1>2, <1>5 DEF Sets, Contained
  <2>2. pc' \in {"waitStart", "stop", "waitStop", "dead"} /\ ~run'
    BY <1>1, <1>5, Moves
  <2> QED BY <1>3, <2>1, <2>2 DEF EpochInv, Places, Counted, Rising, Running, Falling, Mastering
<1>6. CASE hc = "resetting" /\ hc' = "halted" /\ armed' = {} /\ run' = FALSE
  <2>1. Sets' /\ Contained'
    BY <1>1, <1>2, <1>6 DEF Sets, Contained
  <2>2. pc' \in {"waitStart", "stop", "waitStop", "waitReset", "dead"}
    BY <1>1, <1>6, Moves
  <2> QED BY <1>3, <1>6, <2>1, <2>2
         DEF EpochInv, Places, Counted, Rising, Running, Falling, Mastering
<1> QED BY <1>4, <1>5, <1>6 DEF ControllerObeys

LEMMA HostSystemErrorStep == EpochInv /\ HostSystemError => EpochInv'
<1> SUFFICES ASSUME EpochInv, HostSystemError PROVE EpochInv'
  OBVIOUS
<1>1. /\ UNCHANGED <<pc, i, region, owned, armed, bm, vtd, mapped>>
      /\ hc = "running" /\ hc' = "error" /\ run' = FALSE
  BY DEF HostSystemError, arena, authority
<1>2. Sets /\ Contained /\ (pc \in Mastering => Complete /\ bm /\ vtd /\ mapped = All)
  BY DEF EpochInv, Running
<1>3. pc' \in Mastering => Complete' /\ bm' /\ vtd' /\ mapped' = All
  BY <1>1, <1>2 DEF Complete
<1>4. Sets' /\ Contained'
  BY <1>1, <1>2 DEF Sets, Contained
<1>5. pc' \in {"waitStart", "stop", "waitStop", "dead"}
  BY <1>1, Moves
<1> QED BY <1>1, <1>3, <1>4, <1>5
       DEF EpochInv, Places, Counted, Rising, Running, Falling, Mastering

-----------------------------------------------------------------------------
(* The invariant                                                           *)

\* The index of the loops, also where the machine stopped in one.
Indexed == i \in 0 .. Max({Regions, Len(Program)})

LEMMA EpochInit == Init => EpochInv /\ Indexed
<1> SUFFICES ASSUME Init PROVE EpochInv /\ Indexed
  OBVIOUS
<1>1. Sets /\ Contained
  BY DEF Init, Sets, Contained
<1>2. Indexed
  BY IndexBound, EpochAssumption DEF Init, Indexed
<1> QED BY <1>1, <1>2
       DEF Init, EpochInv, Places, Counted, Rising, Running, Falling, Mastering, Resting, Untranslated

LEMMA EpochStep == EpochInv /\ [Next]_vars => EpochInv'
<1> SUFFICES ASSUME EpochInv, [Next]_vars PROVE EpochInv'
  OBVIOUS
<1>1. CASE Boot
  BY <1>1, RecheckStep, AllocateStep, PrepareStep, BuildStep, BindStep, EnableStep,
     StartStep, WaitStartStep, StopStep, WaitStopStep, ScrubRegisterStep, ResetStep,
     WaitResetStep, RevokeMasterStep, RevokeStep, ReleaseDomainStep, ReleaseStep, SurveyStep, SMTT(30)
     DEF Boot
<1>2. CASE UNCHANGED vars
  <2>1. UNCHANGED <<pc, i, region, owned, armed, run, hc, bm, vtd, mapped>>
    BY <1>2 DEF vars
  <2>2. UNCHANGED Sets /\ UNCHANGED Contained /\ UNCHANGED Counted
    BY <2>1 DEF Sets, Contained, Counted
  <2>3. UNCHANGED Rising
    BY <2>1 DEF Rising, Complete, Resting, Untranslated
  <2>4. UNCHANGED Running
    BY <2>1 DEF Running, Complete
  <2>5. UNCHANGED Falling
    BY <2>1 DEF Falling, Complete, Resting, Untranslated
  <2> QED BY <2>1, <2>2, <2>3, <2>4, <2>5 DEF EpochInv
<1> QED BY <1>1, <1>2, ControllerObeysStep, HostSystemErrorStep DEF Next

LEMMA IndexStep == EpochInv /\ Indexed /\ [Next]_vars => Indexed'
<1> SUFFICES ASSUME EpochInv, Indexed, [Next]_vars PROVE Indexed'
  OBVIOUS
<1>1. Counted /\ Regions \in Nat /\ 1 <= Regions /\ Len(Program) = 6 /\ Len(Scrub) = 6
  BY EpochAssumption, Registers DEF EpochInv
<1>2. CASE i' = i
  BY <1>2 DEF Indexed
<1>3. CASE i' \in {0, 1, Regions}
  BY <1>1, <1>3, IndexBound DEF Indexed
<1>4. CASE pc \in {"allocate", "bind", "revoke", "release"} /\ ((i' = i + 1 /\ i # Regions) \/ i' = i - 1)
  <2>1. i' \in Nat /\ i' <= Regions
    BY <1>1, <1>4 DEF Counted, All
  <2> QED BY <2>1, IndexBound DEF Indexed
<1>5. CASE pc \in {"prepare", "scrub"} /\ i' = i + 1 /\ i # 6
  <2>1. i' \in Nat /\ i' <= 6
    BY <1>1, <1>5 DEF Counted
  <2> QED BY <2>1, IndexBound DEF Indexed
<1>6. ASSUME Recheck \/ Build \/ Enable \/ Start \/ WaitStart \/ Stop \/ WaitStop \/ Reset
             \/ WaitReset \/ RevokeMaster \/ ReleaseDomain \/ Survey
      PROVE  i' = i \/ i' \in {0, 1, Regions}
  BY <1>6 DEF Recheck, Build, Enable, Start, WaitStart, Stop, WaitStop, Reset, WaitReset,
     RevokeMaster, ReleaseDomain, Survey, Goto, Halt
<1>7. ASSUME Allocate \/ Bind \/ Revoke \/ Release
      PROVE  \/ i' = i \/ i' \in {0, 1}
             \/ /\ pc \in {"allocate", "bind", "revoke", "release"}
                /\ (i' = i + 1 /\ i # Regions) \/ i' = i - 1
  BY <1>7 DEF Allocate, Bind, Revoke, Release, At, Goto, Halt
<1>8. ASSUME Prepare \/ ScrubRegister
      PROVE  i' = i \/ i' = 0 \/ (pc \in {"prepare", "scrub"} /\ i' = i + 1 /\ i # 6)
  <2>1. i' = i \/ i' = 0 \/ (pc \in {"prepare", "scrub"} /\ i' = i + 1 /\ i # Len(Program))
    BY <1>1, <1>8 DEF Prepare, ScrubRegister, At, Goto, Halt
  <2> QED BY <1>1, <2>1
<1>9. ASSUME ControllerObeys \/ HostSystemError \/ UNCHANGED vars
      PROVE  i' = i
  BY <1>9 DEF ControllerObeys, HostSystemError, vars
<1>10. Boot => \/ Recheck \/ Build \/ Enable \/ Start \/ WaitStart \/ Stop \/ WaitStop \/ Reset
               \/ WaitReset \/ RevokeMaster \/ ReleaseDomain \/ Survey
               \/ Allocate \/ Bind \/ Revoke \/ Release
               \/ Prepare \/ ScrubRegister
  BY DEF Boot
<1> QED BY <1>2, <1>3, <1>4, <1>5, <1>6, <1>7, <1>8, <1>9, <1>10, SMTT(30) DEF Next

LEMMA EpochContained == EpochInv /\ Indexed => DmaIsContained
<1> SUFFICES ASSUME EpochInv, Indexed PROVE DmaIsContained
  OBVIOUS
<1>1. Sets /\ Contained
  BY DEF EpochInv
<1>2. TypeOK
  BY <1>1 DEF Sets, Indexed, TypeOK
<1>3. pc = "done" => /\ owned = {} /\ armed = {} /\ mapped = {} /\ ~bm /\ ~vtd
                     /\ hc = "halted" /\ ~run
  BY DEF EpochInv, Falling, Resting, Untranslated
<1> QED BY <1>1, <1>2, <1>3 DEF Contained, DmaIsContained

\* main.rs, the DMA epoch: whatever number of regions the arena has, whichever
\* step fails, and whenever the controller obeys or errs, a controller that
\* can reach memory reaches only the mapped and owned arena, no register and
\* no mapping outlives its frames, and a completed epoch leaves nothing.
THEOREM DmaAlwaysContained == Spec => []DmaIsContained
<1>1. Init => EpochInv /\ Indexed
  BY EpochInit
<1>2. EpochInv /\ Indexed /\ [Next]_vars => (EpochInv /\ Indexed)'
  BY EpochStep, IndexStep
<1>3. EpochInv /\ Indexed => DmaIsContained
  BY EpochContained
<1> QED BY <1>1, <1>2, <1>3, PTL DEF Spec

=============================================================================
