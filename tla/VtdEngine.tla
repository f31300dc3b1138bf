----------------------------- MODULE VtdEngine ------------------------------
(***************************************************************************)
(* kernel/boulder/src/hw/vtd.rs: VtdRemappingEngine.  One register access  *)
(* per step; the remapping unit completes commands, fills its context      *)
(* cache and its IOTLB, and answers late or never between the steps.       *)
(***************************************************************************)
EXTENDS Integers, Sequences

CONSTANTS
    Roots,          \* root tables the kernel may install
    FirmwareRoot,   \* what RTADDR holds before the kernel touches the unit
    None,
    RequiresFlush,  \* CAP.RWBF
    MaxOperations   \* bound: operations started on the engine

VARIABLES
    engine,     \* VtdRemappingEngine.state
    owned,      \* VtdRemappingEngine.owned_root
    job,        \* the call in progress: operation, stage, script, roots
    hw,         \* the unit's registers
    cache,      \* context entries and translations the unit holds
    version,    \* how often the software has rewritten the owned tables
    started     \* operations started

vars == <<engine, owned, job, hw, cache, version, started>>

AllRoots == Roots \cup {FirmwareRoot}

Idle == [op |-> "none", stage |-> "main", script |-> <<>>, root |-> None, previous |-> None]

Operations == {"enable", "disable", "commit"}

\* A probed unit: firmware may still translate, or have a command in flight,
\* and the caches may hold what firmware left in them.
Init ==
    /\ \E translating, pending \in BOOLEAN, stale \in SUBSET {FirmwareRoot} :
         /\ hw = [te |-> translating, tes |-> translating,
                  rtaddr |-> FirmwareRoot, loaded |-> FirmwareRoot,
                  srtp |-> FALSE, rtps |-> FALSE, wbf |-> FALSE,
                  icc |-> pending, ivt |-> FALSE,
                  ctxOk |-> FALSE, tlbOk |-> FALSE, ite |-> FALSE]
         /\ engine = IF translating \/ pending THEN "ForeignOwned" ELSE "Disabled"
         /\ cache = [ctx |-> stale, tlb |-> {<<r, 0>> : r \in stale}]
    /\ owned = None
    /\ job = Idle
    /\ version = 0
    /\ started = 0

-----------------------------------------------------------------------------
(* The register sequences                                                  *)

InstallRootPointer == <<"rtaddr", "srtp", "rtps">>

FlushWriteBuffer == IF RequiresFlush THEN <<"wbf", "wbfs">> ELSE <<>>

Invalidate == <<"ccmd", "icc", "iotlb", "ivt">>

ConfigureRoot == InstallRootPointer \o FlushWriteBuffer \o Invalidate \o <<"te", "tes">>

RollbackEnable == <<"td", "tds">> \o InstallRootPointer \o FlushWriteBuffer \o Invalidate

DisableAndPurge == <<"td", "tds">> \o Invalidate

CommitTableUpdate == FlushWriteBuffer \o Invalidate

-----------------------------------------------------------------------------
(* The calls                                                               *)

Begin(op, script, root) ==
    /\ job.op = "none"
    /\ started < MaxOperations
    /\ started' = started + 1
    /\ job' = [op |-> op, stage |-> "main", script |-> script, root |-> root,
               previous |-> hw.rtaddr]

\* enable: a unit found busy is firmware's; a latched invalidation time-out
\* is an error that changes nothing.
StartEnable(root) ==
    /\ job.op = "none"
    /\ engine = "Disabled"
    /\ ~hw.ite
    /\ IF hw.tes \/ hw.wbf \/ hw.icc \/ hw.ivt
       THEN engine' = "ForeignOwned" /\ UNCHANGED <<job, started>>
       ELSE Begin("enable", ConfigureRoot, root) /\ UNCHANGED engine
    /\ UNCHANGED <<owned, hw, cache, version>>

StartDisable ==
    /\ engine = "Enabled"
    /\ Begin("disable", DisableAndPurge, owned)
    /\ UNCHANGED <<engine, owned, hw, cache, version>>

\* commit_table_update: the caller has just rewritten a table.
StartCommit ==
    /\ engine = "Enabled"
    /\ Begin("commit", CommitTableUpdate, owned)
    /\ version' = version + 1
    /\ UNCHANGED <<engine, owned, hw, cache>>

\* What the call returns when its sequence, or its rollback, ran to the end.
Finish ==
    /\ job.op # "none"
    /\ job.script = <<>>
    /\ engine' = CASE job.op = "enable" -> IF job.stage = "main" THEN "Enabled" ELSE "Disabled"
                   [] job.op = "disable" -> IF job.stage = "main" THEN "Disabled" ELSE "Enabled"
                   [] OTHER -> engine
    /\ owned' = CASE job.op = "enable" /\ job.stage = "main" -> job.root
                  [] job.op = "disable" /\ job.stage = "main" -> None
                  [] OTHER -> owned
    /\ job' = Idle
    /\ UNCHANGED <<hw, cache, version, started>>

\* A failed access, wait or completion.  The first failure of enable and of
\* disable is rolled back; a disable is left as it was when TES is still set.
Fail ==
    /\ IF job.op = "commit" \/ job.stage = "rollback"
       THEN engine' = "Poisoned" /\ job' = Idle
       ELSE IF job.op = "enable"
       THEN /\ job' = [job EXCEPT !.stage = "rollback", !.script = RollbackEnable,
                                  !.root = job.previous]
            /\ UNCHANGED engine
       ELSE \E readable \in BOOLEAN :
              IF ~readable
              THEN engine' = "Poisoned" /\ job' = Idle
              ELSE IF hw.tes
              THEN engine' = "Enabled" /\ job' = Idle
              ELSE /\ job' = [job EXCEPT !.stage = "rollback", !.script = ConfigureRoot]
                   /\ UNCHANGED engine
    /\ UNCHANGED owned

At(step) == job.script # <<>> /\ Head(job.script) = step

Advance == job' = [job EXCEPT !.script = Tail(@)] /\ UNCHANGED <<engine, owned>>

-----------------------------------------------------------------------------
(* The steps                                                               *)

\* write_u64(RTADDR) and the read-back.
WriteRoot ==
    /\ At("rtaddr")
    /\ hw' = [hw EXCEPT !.rtaddr = job.root]
    /\ Advance
    /\ UNCHANGED <<cache, version, started>>

\* issue_global_command: GCMD is composed from what GSTS shows now, then one
\* transition is applied to it.
GlobalCommand ==
    /\ \/ /\ At("te")
          /\ hw' = [hw EXCEPT !.te = TRUE]
       \/ /\ At("td")
          /\ hw' = [hw EXCEPT !.te = FALSE]
       \/ /\ At("srtp")
          /\ hw' = [hw EXCEPT !.te = hw.tes, !.srtp = TRUE, !.rtps = FALSE]
       \/ /\ At("wbf")
          /\ hw' = [hw EXCEPT !.te = hw.tes, !.wbf = TRUE]
    /\ Advance
    /\ UNCHANGED <<cache, version, started>>

\* invalidate_context, invalidate_iotlb: a command already in flight is an
\* error.
InvalidateCommand ==
    /\ \/ /\ At("ccmd")
          /\ IF hw.icc THEN Fail /\ UNCHANGED hw
             ELSE Advance /\ hw' = [hw EXCEPT !.icc = TRUE, !.ctxOk = FALSE]
       \/ /\ At("iotlb")
          /\ IF hw.ivt THEN Fail /\ UNCHANGED hw
             ELSE Advance /\ hw' = [hw EXCEPT !.ivt = TRUE, !.tlbOk = FALSE]
    /\ UNCHANGED <<cache, version, started>>

\* What wait_u32 / wait_u64 polls for.
Awaited ==
    CASE At("tes") -> hw.tes
      [] At("tds") -> ~hw.tes
      [] At("rtps") -> hw.rtps
      [] At("wbfs") -> ~hw.wbf
      [] At("icc") -> ~hw.icc
      [] At("ivt") -> ~hw.ivt
      [] OTHER -> FALSE

\* The completion was performed at the granularity asked for, and FSTS shows
\* no invalidation time-out.
Accepted ==
    CASE At("icc") -> hw.ctxOk /\ ~hw.ite
      [] At("ivt") -> hw.tlbOk /\ ~hw.ite
      [] OTHER -> TRUE

Waits == {"tes", "tds", "rtps", "wbfs", "icc", "ivt"}

\* A poll that finds what it waits for.
Observe ==
    /\ Awaited
    /\ IF Accepted THEN Advance ELSE Fail
    /\ UNCHANGED <<hw, cache, version, started>>

\* The poll limit runs out before the unit answers.
Timeout ==
    /\ \E wait \in Waits : At(wait)
    /\ ~Awaited
    /\ Fail
    /\ UNCHANGED <<hw, cache, version, started>>

\* The register transport reports an error before the access.
RegisterError ==
    /\ job.script # <<>>
    /\ Fail
    /\ UNCHANGED <<hw, cache, version, started>>

-----------------------------------------------------------------------------
(* The remapping unit                                                      *)

HwTranslation ==
    /\ hw.te # hw.tes
    /\ hw' = [hw EXCEPT !.tes = hw.te]
    /\ UNCHANGED <<engine, owned, job, cache, version, started>>

HwLoadRoot ==
    /\ hw.srtp
    /\ hw' = [hw EXCEPT !.srtp = FALSE, !.rtps = TRUE, !.loaded = hw.rtaddr]
    /\ UNCHANGED <<engine, owned, job, cache, version, started>>

HwFlush ==
    /\ hw.wbf
    /\ hw' = [hw EXCEPT !.wbf = FALSE]
    /\ UNCHANGED <<engine, owned, job, cache, version, started>>

\* A global invalidation performed, or refused, possibly with a time-out.
HwInvalidate ==
    /\ \E done \in BOOLEAN, late \in BOOLEAN :
         \/ /\ hw.icc
            /\ hw' = [hw EXCEPT !.icc = FALSE, !.ctxOk = done, !.ite = @ \/ late]
            /\ cache' = IF done THEN [cache EXCEPT !.ctx = {}] ELSE cache
         \/ /\ hw.ivt
            /\ hw' = [hw EXCEPT !.ivt = FALSE, !.tlbOk = done, !.ite = @ \/ late]
            /\ cache' = IF done THEN [cache EXCEPT !.tlb = {}] ELSE cache
    /\ UNCHANGED <<engine, owned, job, version, started>>

\* A translated request: the walk uses cached context entries where it can.
HwWalk ==
    /\ hw.tes
    /\ cache' = [ctx |-> cache.ctx \cup {hw.loaded},
                 tlb |-> cache.tlb \cup {<<r, version>> : r \in cache.ctx \cup {hw.loaded}}]
    /\ UNCHANGED <<engine, owned, job, hw, version, started>>

-----------------------------------------------------------------------------

Call == (\E root \in Roots : StartEnable(root)) \/ StartDisable \/ StartCommit

Step == Finish \/ WriteRoot \/ GlobalCommand \/ InvalidateCommand \/ Observe \/ Timeout

Unit == HwTranslation \/ HwLoadRoot \/ HwFlush \/ HwInvalidate \/ HwWalk

Next == Call \/ Step \/ RegisterError \/ Unit

\* Every wait is a loop of at most poll_limit reads, so a call keeps stepping.
Spec == Init /\ [][Next]_vars /\ WF_vars(Step)

-----------------------------------------------------------------------------
(* Properties                                                              *)

\* Every variable has its type.
TypeOK ==
    /\ engine \in {"Disabled", "Enabled", "ForeignOwned", "Poisoned"}
    /\ owned \in Roots \cup {None}
    /\ job.op \in Operations \cup {"none"}
    /\ job.root \in AllRoots \cup {None}
    /\ hw.rtaddr \in AllRoots /\ hw.loaded \in AllRoots
    /\ cache.ctx \subseteq AllRoots
    /\ cache.tlb \subseteq AllRoots \X (0 .. version)
    /\ started \in 0 .. MaxOperations

Quiet == job.op = "none"

\* When enable or commit_table_update has returned Ok the unit walks the owned
\* root, and none of its caches holds a context entry of another root or a
\* translation read before the last table rewrite.  When the engine says
\* Disabled, after disable or after an enable that was rolled back, the unit
\* neither translates nor is about to, and holds nothing read through the
\* kernel's tables: their frames can be given back.
CachesAgree ==
    /\ TypeOK
    /\ (Quiet /\ engine = "Enabled") =>
          /\ hw.loaded = owned
          /\ cache.ctx \subseteq {owned}
          /\ cache.tlb \subseteq {<<owned, version>>}
    /\ (Quiet /\ engine = "Disabled") =>
          /\ ~hw.tes /\ ~hw.te
          /\ cache.ctx \subseteq {FirmwareRoot}
          /\ \A e \in cache.tlb : e[1] = FirmwareRoot

\* A failed disable "rolls back to the owned enabled state", as the test of
\* that name says: an engine that reports Enabled is translating.
EnabledTranslates == (Quiet /\ engine = "Enabled") => hw.tes
=============================================================================
