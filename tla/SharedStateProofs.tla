------------------------- MODULE SharedStateProofs --------------------------
(***************************************************************************)
(* What two structures that are shared without a lock promise: the         *)
(* deferred ticks of NexusDeferred for any number of runners, any cap and  *)
(* any number of interrupts, and core/aether's PolicyConstellation for     *)
(* every number of contexts.                                               *)
(***************************************************************************)
EXTENDS NexusDeferred, PolicyConstellation, FiniteSetTheorems, TLAPS

-----------------------------------------------------------------------------
(* NexusDeferred                                                           *)

\* RUNNING is held by exactly the call that is past its compare_exchange.
RunningHeld ==
    /\ OneRunner
    /\ ~running => \A r \in Runners : runner[r].pc = "idle"

\* A pass has ticks left to run while it is in the loop.
PassesLeft == \A r \in Runners : runner[r].pc \in {"swap", "load", "drive"} => runner[r].left # 0

\* A newer wall tick is in memory than the one any counted request carries.
WallTickAhead ==
    /\ latest = irq.tick
    /\ counted <= latest
    /\ \A r \in Runners : runner[r].newest <= latest

TickInv == TypeOK /\ RunningHeld /\ PassesLeft /\ WallTickAhead /\ TicksConserved /\ FreshWallTick

LEMMA SaturateBound ==
    ASSUME NEW n \in 0 .. Cap
    PROVE  Saturate(n) \in 0 .. Cap /\ Saturate(n) <= n + 1
BY CapAssumption DEF Saturate

LEMMA TickInit == Init => TickInv
<1> SUFFICES ASSUME Init PROVE TickInv
    OBVIOUS
<1>1. \A r \in Runners : runner[r] = IdleRunner
    BY DEF Init
<1>2. TypeOK
    <2>1. IdleRunner \in [pc : Labels, left : Nat, taken : Nat, newest : Nat, wall : Nat]
        BY DEF IdleRunner, Labels
    <2>2. irq \in [pc : {"off", "update", "count"}, tick : Nat, previous : Nat]
        BY DEF Init
    <2>3. totals \in [requests : Nat, runs : Nat, coalesced : Nat]
        BY DEF Init
    <2>4. runner \in [Runners -> [pc : Labels, left : Nat, taken : Nat, newest : Nat, wall : Nat]]
        BY <2>1 DEF Init
    <2>5. running \in BOOLEAN
        BY DEF Init
    <2>6. pending \in 0 .. Cap
        BY CapAssumption DEF Init
    <2> QED BY <2>2, <2>3, <2>4, <2>5, <2>6 DEF Init, TypeOK
<1>3. RunningHeld /\ PassesLeft /\ FreshWallTick
    BY <1>1 DEF RunningHeld, OneRunner, PassesLeft, FreshWallTick, IdleRunner
<1>4. WallTickAhead
    BY <1>1 DEF Init, WallTickAhead, IdleRunner
<1>5. TicksConserved
    BY <1>1 DEF Init, TicksConserved, Holding, Uncounted, IdleRunner
<1> QED BY <1>2, <1>3, <1>4, <1>5 DEF TickInv

LEMMA StoreLatestInv == TickInv /\ StoreLatest => TickInv'
<1> SUFFICES ASSUME TickInv, StoreLatest PROVE TickInv'
    OBVIOUS
<1>1. TypeOK'
    <2>1. irq' \in [pc : {"off", "update", "count"}, tick : Nat, previous : Nat]
        <3>1. irq \in [pc : {"off", "update", "count"}, tick : Nat, previous : Nat]
            BY DEF TickInv, TypeOK
        <3>2. irq' = [irq EXCEPT !.pc = "update", !.tick = irq.tick + 1]
            BY DEF StoreLatest
        <3>3. irq.tick + 1 \in Nat
            BY <3>1
        <3> QED BY <3>1, <3>2, <3>3
    <2>2. latest' \in Nat
        BY DEF TickInv, StoreLatest, TypeOK
    <2> QED BY <2>1, <2>2 DEF TickInv, StoreLatest, TypeOK
<1>2. (RunningHeld /\ PassesLeft /\ FreshWallTick)'
    BY DEF TickInv, StoreLatest, RunningHeld, OneRunner, PassesLeft, FreshWallTick
<1>3. WallTickAhead'
    BY DEF TickInv, StoreLatest, TypeOK, WallTickAhead
<1>4. TicksConserved'
    BY DEF TickInv, StoreLatest, TypeOK, TicksConserved, Holding, Uncounted
<1> QED BY <1>1, <1>2, <1>3, <1>4 DEF TickInv

LEMMA UpdatePendingInv == TickInv /\ UpdatePending => TickInv'
<1> SUFFICES ASSUME TickInv, UpdatePending PROVE TickInv'
    OBVIOUS
<1>1. Saturate(pending) \in 0 .. Cap /\ Saturate(pending) <= pending + 1
    BY SaturateBound DEF TickInv, TypeOK
<1>2. TypeOK'
    <2>1. pending \in Nat /\ pending' \in 0 .. Cap /\ pending' <= pending + 1
        BY <1>1, CapAssumption DEF TickInv, UpdatePending, TypeOK
    <2>2. irq' \in [pc : {"off", "update", "count"}, tick : Nat, previous : Nat]
        BY <2>1 DEF TickInv, UpdatePending, TypeOK
    <2>3. dropped' \in Nat /\ counted' \in Nat
        BY <2>1, CapAssumption DEF TickInv, UpdatePending, TypeOK
    <2> QED BY <2>1, <2>2, <2>3 DEF TickInv, UpdatePending, TypeOK
<1>3. TicksConserved'
    BY <1>1, CapAssumption DEF TickInv, UpdatePending, TypeOK, TicksConserved, Holding, Uncounted
<1>4. (RunningHeld /\ PassesLeft /\ WallTickAhead /\ FreshWallTick)'
    BY DEF TickInv, UpdatePending, TypeOK, RunningHeld, OneRunner, PassesLeft, WallTickAhead,
       FreshWallTick
<1> QED BY <1>2, <1>3, <1>4 DEF TickInv

LEMMA CountRequestInv == TickInv /\ CountRequest => TickInv'
<1> SUFFICES ASSUME TickInv, CountRequest PROVE TickInv'
    OBVIOUS
<1>1. TypeOK'
    <2>1. irq' \in [pc : {"off", "update", "count"}, tick : Nat, previous : Nat]
        BY DEF TickInv, CountRequest, TypeOK
    <2>2. totals' \in [requests : Nat, runs : Nat, coalesced : Nat]
        <3>1. totals \in [requests : Nat, runs : Nat, coalesced : Nat]
            BY DEF TickInv, TypeOK
        <3> DEFINE c == IF irq.previous # 0 THEN totals.coalesced + 1 ELSE totals.coalesced
        <3>2. totals' = [totals EXCEPT !.requests = totals.requests + 1, !.coalesced = c]
            BY DEF CountRequest
        <3>3. c \in Nat /\ totals.requests + 1 \in Nat
            BY <3>1
        <3> HIDE DEF c
        <3> QED BY <3>1, <3>2, <3>3
    <2> QED BY <2>1, <2>2 DEF TickInv, CountRequest, TypeOK
<1>2. (RunningHeld /\ PassesLeft /\ FreshWallTick)'
    BY DEF TickInv, CountRequest, RunningHeld, OneRunner, PassesLeft, FreshWallTick
<1>3. WallTickAhead'
    BY DEF TickInv, CountRequest, TypeOK, WallTickAhead
<1>4. totals'.requests = totals.requests + 1
    BY DEF TickInv, CountRequest, TypeOK
<1>5. TicksConserved'
    BY <1>4 DEF TickInv, CountRequest, TypeOK, TicksConserved, Holding, Uncounted
<1> QED BY <1>1, <1>2, <1>3, <1>5 DEF TickInv

LEMMA EnterInv ==
    ASSUME TickInv, NEW r \in Runners, NEW passes \in Passes, Enter(r, passes)
    PROVE  TickInv'
<1>1. TypeOK'
  <2>1. [runner[r] EXCEPT !.pc = "swap", !.left = passes] \in
            [pc : Labels, left : Nat, taken : Nat, newest : Nat, wall : Nat]
    BY PassesAssumption DEF TickInv, TypeOK, Labels
  <2>2. runner' \in [Runners -> [pc : Labels, left : Nat, taken : Nat, newest : Nat, wall : Nat]]
    BY <2>1 DEF TickInv, Enter, TypeOK
  <2> QED BY <2>2 DEF TickInv, Enter, TypeOK
<1>2. (RunningHeld /\ PassesLeft)'
    BY DEF TickInv, Enter, TypeOK, RunningHeld, OneRunner, PassesLeft
<1>3. (WallTickAhead /\ FreshWallTick)'
    BY DEF TickInv, Enter, TypeOK, WallTickAhead, FreshWallTick
<1>4. TicksConserved'
    BY DEF TickInv, Enter, TypeOK, RunningHeld, TicksConserved, Holding, Uncounted
<1> QED BY <1>1, <1>2, <1>3, <1>4 DEF TickInv

LEMMA SwapPendingInv ==
    ASSUME TickInv, NEW r \in Runners, SwapPending(r)
    PROVE  TickInv'
<1>1. TypeOK'
    BY CapAssumption DEF TickInv, SwapPending, TypeOK, Labels
<1>2. (RunningHeld /\ PassesLeft)'
    BY DEF TickInv, SwapPending, TypeOK, RunningHeld, OneRunner, PassesLeft
<1>3. (WallTickAhead /\ FreshWallTick)'
    BY DEF TickInv, SwapPending, TypeOK, WallTickAhead, FreshWallTick
<1>4. \A q \in Runners : ~Holding(q)
    BY DEF TickInv, SwapPending, TypeOK, RunningHeld, OneRunner, Holding
<1>5. TicksConserved'
    BY <1>4, CapAssumption DEF TickInv, SwapPending, TypeOK, TicksConserved, Holding, Uncounted
<1> QED BY <1>1, <1>2, <1>3, <1>5 DEF TickInv

LEMMA LoadLatestInv ==
    ASSUME TickInv, NEW r \in Runners, LoadLatest(r)
    PROVE  TickInv'
<1>1. TypeOK'
  <2>1. [runner[r] EXCEPT !.pc = "drive", !.wall = latest] \in
            [pc : Labels, left : Nat, taken : Nat, newest : Nat, wall : Nat]
    BY DEF TickInv, TypeOK, Labels
  <2>2. runner' \in [Runners -> [pc : Labels, left : Nat, taken : Nat, newest : Nat, wall : Nat]]
    BY <2>1 DEF TickInv, LoadLatest, TypeOK
  <2> QED BY <2>2 DEF TickInv, LoadLatest, TypeOK
<1>2. (RunningHeld /\ PassesLeft)'
    BY DEF TickInv, LoadLatest, TypeOK, RunningHeld, OneRunner, PassesLeft
<1>3. (WallTickAhead /\ FreshWallTick)'
    BY DEF TickInv, LoadLatest, TypeOK, WallTickAhead, FreshWallTick
<1>4. TicksConserved'
    BY DEF TickInv, LoadLatest, TypeOK, TicksConserved, Holding, Uncounted
<1> QED BY <1>1, <1>2, <1>3, <1>4 DEF TickInv

LEMMA DriveInv ==
    ASSUME TickInv, NEW r \in Runners, Drive(r)
    PROVE  TickInv'
<1>1. TypeOK'
    BY DEF TickInv, Drive, TypeOK, Labels, PassesLeft
<1>2. (RunningHeld /\ PassesLeft)'
    BY DEF TickInv, Drive, TypeOK, RunningHeld, OneRunner, PassesLeft
<1>3. (WallTickAhead /\ FreshWallTick)'
    BY DEF TickInv, Drive, TypeOK, WallTickAhead, FreshWallTick
<1>4. \A q \in Runners : Holding(q) => q = r
    BY DEF TickInv, Drive, TypeOK, RunningHeld, OneRunner, Holding
<1>5. \A q \in Runners : ~Holding(q)'
    BY <1>4 DEF TickInv, Drive, TypeOK, Holding
<1>6. TicksConserved'
    BY <1>5, CapAssumption DEF TickInv, Drive, TypeOK, TicksConserved, Holding, Uncounted
<1> QED BY <1>1, <1>2, <1>3, <1>6 DEF TickInv

LEMMA LeaveInv ==
    ASSUME TickInv, NEW r \in Runners, Leave(r)
    PROVE  TickInv'
<1>1. TypeOK'
    BY DEF TickInv, Leave, TypeOK, Labels, IdleRunner
<1>2. (RunningHeld /\ PassesLeft)'
    BY DEF TickInv, Leave, TypeOK, RunningHeld, OneRunner, PassesLeft, IdleRunner
<1>3. (WallTickAhead /\ FreshWallTick)'
    BY DEF TickInv, Leave, TypeOK, WallTickAhead, FreshWallTick, IdleRunner
<1>4. TicksConserved'
    BY DEF TickInv, Leave, TypeOK, TicksConserved, Holding, Uncounted, IdleRunner
<1> QED BY <1>1, <1>2, <1>3, <1>4 DEF TickInv

\* The inductive invariant holds in every reachable state.
THEOREM Invariance == Spec => []TickInv
<1>1. TickInv /\ [Next]_vars => TickInv'
    <2> SUFFICES ASSUME TickInv, [Next]_vars PROVE TickInv'
        OBVIOUS
    <2>1. CASE Next
        BY <2>1, StoreLatestInv, UpdatePendingInv, CountRequestInv, EnterInv, SwapPendingInv,
           LoadLatestInv, DriveInv, LeaveInv DEF Next, IrqStep, RunnerStep
    <2>2. CASE UNCHANGED vars
        BY <2>2 DEF vars, TickInv, TypeOK, RunningHeld, OneRunner, PassesLeft, WallTickAhead,
           TicksConserved, FreshWallTick, Holding, Uncounted
    <2> QED BY <2>1, <2>2
<1> QED BY TickInit, <1>1, PTL DEF Spec

\* Every variable of the tick queue keeps its type, whatever the constants.
THEOREM TypesHold == Spec => []TypeOK
<1>1. TickInv => TypeOK
    BY DEF TickInv
<1> QED BY <1>1, Invariance, PTL

\* run_deferred never drives the matrix from two contexts at once.
THEOREM DrivesAlone == Spec => []OneRunner
<1>1. TickInv => OneRunner
    BY DEF TickInv, RunningHeld
<1> QED BY <1>1, Invariance, PTL

\* No tick that request_from_irq counted is lost or driven twice.
THEOREM NoTickLost == Spec => []TicksConserved
<1>1. TickInv => TicksConserved
    BY DEF TickInv
<1> QED BY <1>1, Invariance, PTL

\* drive_once is never given a wall tick older than a request it absorbs.
THEOREM WallTickFresh == Spec => []FreshWallTick
<1>1. TickInv => FreshWallTick
    BY DEF TickInv
<1> QED BY <1>1, Invariance, PTL

-----------------------------------------------------------------------------
(* PolicyConstellation                                                     *)

Counting == {"check", "guard", "retry"}

Writing == {"target", "write", "finish", "activate", "release"}

Spots == {"idle", "initialize", "enter", "again"} \cup Counting \cup Writing

Words == Nat \X Nat

ContextRecords == [at : Spots, bank : BankIndices, seen : Words]

PolicyTypeOK ==
    /\ state \in {"EMPTY", "INITIALIZING", "READY"}
    /\ lock \in BOOLEAN
    /\ active \in BankIndices
    /\ generation \in Nat
    /\ readers \in [BankIndices -> Nat]
    /\ policyBanks \in [BankIndices -> Words]
    /\ ctx \in [Contexts -> ContextRecords]

Counted(b) == {c \in Contexts : ctx[c].at \in Counting /\ ctx[c].bank = b}

Writers == {c \in Contexts : ctx[c].at \in Writing}

Whole(words) == words[1] = words[2] /\ words # Uninit

\* initialize runs alone and before everything else.
Started ==
    /\ state = "EMPTY" => generation = 0 /\ \A c \in Contexts : ctx[c].at = "idle"
    /\ state = "INITIALIZING" =>
         /\ \A c \in Contexts : ctx[c].at \in {"idle", "initialize"}
         /\ \A c, d \in Contexts : ctx[c].at = "initialize" /\ ctx[d].at = "initialize" => c = d
         /\ generation # 0 => Whole(policyBanks[active])
    /\ state = "READY" =>
         /\ Whole(policyBanks[active])
         /\ \A c \in Contexts : ctx[c].at # "initialize"

\* The writer flag is one context's, and the bank it writes is not the active
\* one; the last thing it writes makes the bank whole.
Exclusive ==
    /\ \A c \in Writers : lock
    /\ \A c, d \in Writers : c = d
    /\ lock => Writers # {}
    /\ \A c \in Contexts :
         /\ ctx[c].at \in {"write", "finish", "activate"} => ctx[c].bank # active
         /\ ctx[c].at = "finish" => policyBanks[ctx[c].bank][1] = generation + 1
         /\ ctx[c].at = "activate" => Whole(policyBanks[ctx[c].bank])

\* A guard's bank is whole, is what the guard saw and is not being written.
Pinned ==
    \A c \in Contexts : ctx[c].at = "guard" =>
        /\ policyBanks[ctx[c].bank] = ctx[c].seen
        /\ Whole(ctx[c].seen)
        /\ \A w \in Contexts : ctx[w].at \in {"write", "finish"} => ctx[w].bank # ctx[c].bank

Exact == \A b \in BankIndices : readers[b] = Cardinality(Counted(b))

PolicyInv == PolicyTypeOK /\ Started /\ Exclusive /\ Pinned /\ Exact

\* The steps of one context.
PolicyStep(c) ==
    \/ Claim(c) \/ Initialize(c)
    \/ Read(c) \/ EnterBank(c) \/ Check(c) \/ LeaveBank(c) \/ ReadAgain(c)
    \/ Publish(c) \/ Target(c) \/ Write(c) \/ Finish(c) \/ ActivateBank(c) \/ Release(c)

\* Writing one half of a bank.
LEMMA Halves ==
    ASSUME NEW w \in Words, NEW n \in Nat
    PROVE  /\ [w EXCEPT ![1] = n] = <<n, w[2]>> /\ [w EXCEPT ![1] = n] \in Words
           /\ [w EXCEPT ![2] = n] = <<w[1], n>> /\ [w EXCEPT ![2] = n] \in Words
<1>1. PICK x \in Nat, y \in Nat : w = <<x, y>>
  BY DEF Words
<1>2. [w EXCEPT ![1] = n] = <<n, y>> /\ [w EXCEPT ![2] = n] = <<x, n>>
  BY <1>1
<1> QED BY <1>1, <1>2 DEF Words

LEMMA WordsTyped == Uninit \in Words /\ <<1, 1>> \in Words
BY DEF Uninit, Words

LEMMA IdleTyped ==
    /\ Idle \in ContextRecords
    /\ \A b \in BankIndices : Entering(b) \in ContextRecords
<1>1. 0 \in BankIndices /\ "idle" \in Spots /\ "enter" \in Spots
  BY DEF BankIndices, Spots
<1> QED BY <1>1, WordsTyped DEF Idle, Entering, ContextRecords

\* The initial state is idle.
LEMMA PolicyInitInv == PolicyInit => PolicyInv
<1> SUFFICES ASSUME PolicyInit PROVE PolicyInv
  OBVIOUS
<1> USE DEF PolicyInit
<1>1. PolicyTypeOK
  <2>1. 0 \in BankIndices /\ 0 \in Nat
    BY DEF BankIndices
  <2>2. lock \in BOOLEAN
    OBVIOUS
  <2> QED BY <2>1, <2>2, IdleTyped, WordsTyped DEF PolicyTypeOK
<1>2. \A c \in Contexts : ctx[c].at = "idle"
  BY DEF Idle
<1>3. Started /\ Exclusive /\ Pinned
  BY <1>2 DEF Started, Exclusive, Pinned, Writers, Writing
<1>4. Exact
  <2>1. \A b \in BankIndices : Counted(b) = {}
    BY <1>2 DEF Counted, Counting
  <2> QED BY <2>1, FS_EmptySet DEF Exact, BankIndices
<1> QED BY <1>1, <1>3, <1>4 DEF PolicyInv

\* A step of a context leaves the others where they are.
LEMMA PolicyOthers ==
    ASSUME PolicyTypeOK, NEW c \in Contexts, PolicyStep(c), NEW d \in Contexts, d # c
    PROVE  ctx'[d] = ctx[d]
BY DEF PolicyTypeOK, PolicyStep, Claim, Initialize, Read, EnterBank, Check, LeaveBank, ReadAgain,
       Publish, Target, Write, Finish, ActivateBank, Release, Goto

\* Types.
LEMMA PolicyTyped ==
    ASSUME PolicyInv, NEW c \in Contexts, PolicyStep(c)
    PROVE  PolicyTypeOK'
<1> USE DEF PolicyInv, PolicyTypeOK, Spots, Counting, Writing
<1>0. ctx[c] \in ContextRecords /\ ctx[c].bank \in BankIndices
  BY DEF ContextRecords
<1>1. CASE Claim(c) \/ Publish(c)
  <2>1. PICK place \in {"initialize", "target"} : ctx' = [ctx EXCEPT ![c].at = place]
    BY <1>1 DEF Claim, Publish, Goto
  <2>2. [ctx[c] EXCEPT !.at = place] \in ContextRecords
    BY <1>0 DEF ContextRecords
  <2>3. ctx' \in [Contexts -> ContextRecords]
    BY <2>1, <2>2
  <2> QED BY <1>1, <2>3 DEF Claim, Publish
<1>2. CASE Initialize(c)
  BY <1>2, WordsTyped DEF Initialize, Goto, ContextRecords, BankIndices
<1>3. CASE Read(c) \/ ReadAgain(c)
  BY <1>3, IdleTyped DEF Read, ReadAgain
<1>4. CASE EnterBank(c)
  BY <1>0, <1>4 DEF EnterBank, Goto, ContextRecords
<1>5. CASE Check(c)
  BY <1>0, <1>5 DEF Check, Goto, ContextRecords
<1>6. CASE LeaveBank(c)
  <2>1. ctx' \in [Contexts -> ContextRecords]
    <3>1. CASE At(c, "guard")
      BY <1>6, <3>1, IdleTyped DEF LeaveBank
    <3>2. CASE ~At(c, "guard")
      <4>1. [ctx[c] EXCEPT !.at = "again"] \in ContextRecords
        BY <1>0 DEF ContextRecords
      <4> QED BY <1>6, <3>2, <4>1 DEF LeaveBank, Goto
    <3> QED BY <3>1, <3>2
  <2>2. readers[ctx[c].bank] \in Nat \ {0}
    <3>1. IsFiniteSet(Counted(ctx[c].bank))
      BY FS_Subset, ContextsAssumption DEF Counted
    <3>2. Counted(ctx[c].bank) # {}
      BY <1>6 DEF LeaveBank, At, Counted
    <3> QED BY <1>0, <3>1, <3>2, FS_EmptySet DEF Exact
  <2>3. readers' \in [BankIndices -> Nat]
    BY <1>0, <1>6, <2>2 DEF LeaveBank
  <2> QED BY <1>6, <2>1, <2>3 DEF LeaveBank
<1>7. CASE Target(c)
  <2>1. 1 - active \in BankIndices
    BY DEF BankIndices
  <2>2. [ctx[c] EXCEPT !.at = "write", !.bank = 1 - active] \in ContextRecords
    BY <1>0, <2>1 DEF ContextRecords
  <2>3. ctx' \in [Contexts -> ContextRecords] /\ lock' \in BOOLEAN
    BY <1>7, <2>2, IdleTyped DEF Target
  <2> QED BY <1>7, <2>3 DEF Target
<1>8. CASE Write(c) \/ Finish(c)
  <2>1. policyBanks' \in [BankIndices -> Words]
    <3> DEFINE b == ctx[c].bank
    <3>1. policyBanks[b] \in Words /\ generation + 1 \in Nat
      BY <1>0
    <3>2. /\ [policyBanks[b] EXCEPT ![1] = generation + 1] \in Words
          /\ [policyBanks[b] EXCEPT ![2] = generation + 1] \in Words
      BY <3>1, Halves
    <3> QED BY <1>0, <1>8, <3>2 DEF Write, Finish
  <2> QED BY <1>8, <2>1 DEF Write, Finish, Goto, ContextRecords
<1>9. CASE ActivateBank(c)
  BY <1>0, <1>9 DEF ActivateBank, Goto, ContextRecords
<1>10. CASE Release(c)
  BY <1>10, IdleTyped DEF Release
<1> QED BY <1>1, <1>2, <1>3, <1>4, <1>5, <1>6, <1>7, <1>8, <1>9, <1>10 DEF PolicyStep

\* The reader counts: EnterBank and LeaveBank are the steps that move a context
\* into and out of the counted places.
LEMMA PolicyExact ==
    ASSUME PolicyInv, NEW c \in Contexts, PolicyStep(c)
    PROVE  Exact'
<1> USE DEF PolicyInv
<1>0. /\ ctx[c] \in ContextRecords /\ ctx[c].bank \in BankIndices
      /\ ctx \in [Contexts -> ContextRecords] /\ readers \in [BankIndices -> Nat]
  BY DEF PolicyTypeOK, ContextRecords
<1>1. \A d \in Contexts : d # c => ctx'[d] = ctx[d]
  BY PolicyOthers
<1>2. \A b \in BankIndices : IsFiniteSet(Counted(b))
  BY FS_Subset, ContextsAssumption DEF Counted
<1>3. CASE EnterBank(c)
  <2> PICK h \in BankIndices : h = ctx[c].bank
    BY <1>0
  <2>1. ctx[c].at = "enter" /\ ctx'[c].at = "check" /\ ctx'[c].bank = h
    BY <1>0, <1>3 DEF EnterBank, At, Goto, ContextRecords
  <2>2. c \notin Counted(h) /\ Counted(h)' = Counted(h) \cup {c}
    BY <1>1, <2>1 DEF Counted, Counting
  <2>3. \A b \in BankIndices : b # h => Counted(b)' = Counted(b)
    BY <1>1, <2>1 DEF Counted, Counting
  <2>4. Cardinality(Counted(h)') = Cardinality(Counted(h)) + 1
    BY <1>0, <1>2, <2>2, FS_AddElement
  <2>5. /\ readers'[h] = readers[h] + 1
        /\ \A b \in BankIndices : b # h => readers'[b] = readers[b]
    BY <1>0, <1>3 DEF EnterBank
  <2> QED BY <1>0, <2>3, <2>4, <2>5 DEF Exact
<1>4. CASE LeaveBank(c)
  <2> PICK h \in BankIndices : h = ctx[c].bank
    BY <1>0
  <2>1. ctx[c].at \in {"guard", "retry"} /\ ctx'[c].at \in {"idle", "again"}
    BY <1>0, <1>4 DEF LeaveBank, At, Goto, ContextRecords, Idle
  <2>2. c \in Counted(h) /\ Counted(h)' = Counted(h) \ {c}
    BY <1>1, <2>1 DEF Counted, Counting
  <2>3. \A b \in BankIndices : b # h => Counted(b)' = Counted(b)
    BY <1>1, <2>1 DEF Counted, Counting
  <2>4. Cardinality(Counted(h)') = Cardinality(Counted(h)) - 1
    <3>1. Cardinality(Counted(h) \ {c}) = Cardinality(Counted(h)) - 1
      BY <1>2, <2>2, FS_RemoveElement
    <3> QED BY <2>2, <3>1
  <2>5. /\ readers'[h] = readers[h] - 1
        /\ \A b \in BankIndices : b # h => readers'[b] = readers[b]
    BY <1>0, <1>4 DEF LeaveBank
  <2> QED BY <1>0, <2>3, <2>4, <2>5 DEF Exact
<1>5. CASE ~EnterBank(c) /\ ~LeaveBank(c)
  <2>1. readers' = readers
    BY <1>5 DEF PolicyStep, Claim, Initialize, Read, Check, ReadAgain, Publish, Target, Write,
                Finish, ActivateBank, Release
  <2>2. \/ ctx[c].at \notin Counting /\ ctx'[c].at \notin Counting
        \/ ctx[c].at \in Counting /\ ctx'[c].at \in Counting /\ ctx'[c].bank = ctx[c].bank
    <3>1. CASE Check(c)
      BY <1>0, <3>1 DEF Check, At, Goto, ContextRecords, Counting
    <3>2. CASE Read(c) \/ ReadAgain(c)
      BY <1>0, <3>2 DEF Read, ReadAgain, At, Counting, Entering
    <3>3. CASE Target(c)
      BY <1>0, <3>3 DEF Target, At, Counting, Idle, ContextRecords
    <3>4. CASE Release(c)
      BY <1>0, <3>4 DEF Release, At, Counting, Idle
    <3>5. CASE Initialize(c)
      BY <1>0, <3>5 DEF Initialize, At, Goto, Counting, ContextRecords
    <3>6. CASE Claim(c) \/ Publish(c) \/ Write(c) \/ Finish(c) \/ ActivateBank(c)
      BY <1>0, <3>6 DEF Claim, Publish, Write, Finish, ActivateBank, At, Goto, Counting,
                        ContextRecords
    <3> QED BY <1>5, <3>1, <3>2, <3>3, <3>4, <3>5, <3>6 DEF PolicyStep
  <2>3. \A b \in BankIndices : Counted(b)' = Counted(b)
    BY <1>1, <2>2 DEF Counted
  <2> QED BY <2>1, <2>3 DEF Exact
<1> QED BY <1>3, <1>4, <1>5

\* Past initialize the state is READY and no step goes back.
LEMMA PolicyReady ==
    ASSUME PolicyInv, NEW c \in Contexts, PolicyStep(c), ~Claim(c), ~Initialize(c)
    PROVE  state = "READY" /\ state' = "READY" /\ ctx[c].at # "initialize" /\ ctx'[c].at # "initialize"
<1> USE DEF PolicyInv
<1>0. ctx[c] \in ContextRecords /\ ctx \in [Contexts -> ContextRecords]
  BY DEF PolicyTypeOK
<1>1. state = "READY"
  BY DEF PolicyTypeOK, Started, PolicyStep, Read, EnterBank, Check, LeaveBank, ReadAgain, Publish,
         Target, Write, Finish, ActivateBank, Release, At
<1>2. state' = state
  BY DEF PolicyStep, Read, EnterBank, Check, LeaveBank, ReadAgain, Publish, Target, Write, Finish,
         ActivateBank, Release
<1>3. ctx'[c].at # "initialize"
  <2>1. CASE Read(c) \/ ReadAgain(c)
    BY <1>0, <2>1 DEF Read, ReadAgain, Entering
  <2>2. CASE LeaveBank(c) \/ Release(c)
    BY <1>0, <2>2 DEF LeaveBank, Release, Idle, Goto, ContextRecords
  <2>3. CASE Check(c)
    BY <1>0, <2>3 DEF Check, Goto, ContextRecords
  <2>4. CASE Target(c)
    BY <1>0, <2>4 DEF Target, Idle, ContextRecords
  <2>5. CASE EnterBank(c) \/ Publish(c) \/ Write(c) \/ Finish(c) \/ ActivateBank(c)
    BY <1>0, <2>5 DEF EnterBank, Publish, Write, Finish, ActivateBank, Goto, ContextRecords
  <2> QED BY <2>1, <2>2, <2>3, <2>4, <2>5 DEF PolicyStep
<1> QED BY <1>1, <1>2, <1>3 DEF Started

LEMMA PolicyStarted ==
    ASSUME PolicyInv, NEW c \in Contexts, PolicyStep(c)
    PROVE  Started'
<1> USE DEF PolicyInv
<1>0. /\ ctx[c] \in ContextRecords /\ ctx[c].bank \in BankIndices /\ active \in BankIndices
      /\ ctx \in [Contexts -> ContextRecords] /\ policyBanks \in [BankIndices -> Words]
      /\ state \in {"EMPTY", "INITIALIZING", "READY"}
  BY DEF PolicyTypeOK, ContextRecords
<1>1. \A d \in Contexts : d # c => ctx'[d] = ctx[d]
  BY PolicyOthers
<1>2. CASE Claim(c)
  <2>1. ctx'[c].at = "initialize" /\ state = "EMPTY" /\ state' = "INITIALIZING" /\ generation' = generation
    BY <1>0, <1>2 DEF Claim, Goto, ContextRecords
  <2> QED BY <1>1, <2>1 DEF Started
<1>3. CASE Initialize(c)
  <2>0. state = "INITIALIZING" /\ \A d \in Contexts : d # c => ctx[d].at = "idle"
    BY <1>0, <1>3 DEF Started, Initialize, At
  <2>1. CASE generation = 0
    <3>1. active' = 0 /\ policyBanks' = [b \in BankIndices |-> <<1, 1>>] /\ state' = state /\ ctx' = ctx
      BY <1>3, <2>1 DEF Initialize
    <3>2. policyBanks'[active'] = <<1, 1>>
      BY <3>1 DEF BankIndices
    <3>3. <<1, 1>>[1] = <<1, 1>>[2] /\ <<1, 1>> # Uninit
      BY DEF Uninit
    <3>4. Whole(policyBanks'[active'])
      BY <3>2, <3>3 DEF Whole
    <3> QED BY <2>0, <3>1, <3>4 DEF Started
  <2>2. CASE generation # 0
    <3>1. /\ state' = "READY" /\ ctx'[c].at = "idle" /\ active' = active
          /\ policyBanks' = policyBanks
      BY <1>0, <1>3, <2>2 DEF Initialize, Goto, ContextRecords
    <3> QED BY <1>1, <2>0, <2>2, <3>1 DEF Started
  <2> QED BY <2>1, <2>2
<1>4. CASE ~Claim(c) /\ ~Initialize(c)
  <2>1. state = "READY" /\ state' = "READY" /\ ctx'[c].at # "initialize"
    BY <1>4, PolicyReady
  <2>2. Whole(policyBanks'[active'])
    <3>1. CASE Write(c) \/ Finish(c)
      <4>1. ctx[c].bank # active
        BY <3>1 DEF Exclusive, Write, Finish, At
      <4>2. policyBanks'[active] = policyBanks[active] /\ active' = active
        BY <1>0, <3>1, <4>1 DEF Write, Finish
      <4> QED BY <2>1, <4>2 DEF Started
    <3>2. CASE ActivateBank(c)
      BY <3>2 DEF ActivateBank, Exclusive, At
    <3>3. CASE ~Write(c) /\ ~Finish(c) /\ ~ActivateBank(c)
      <4>1. policyBanks' = policyBanks /\ active' = active
        BY <1>4, <3>3 DEF PolicyStep, Read, EnterBank, Check, LeaveBank, ReadAgain, Publish, Target,
                          Release
      <4> QED BY <2>1, <4>1 DEF Started
    <3> QED BY <3>1, <3>2, <3>3
  <2> QED BY <1>1, <2>1, <2>2 DEF Started
<1> QED BY <1>2, <1>3, <1>4

\* The writer flag, and what its holder has written.
LEMMA PolicyExclusive ==
    ASSUME PolicyInv, NEW c \in Contexts, PolicyStep(c)
    PROVE  Exclusive'
<1> USE DEF PolicyInv
<1>0. /\ ctx[c] \in ContextRecords /\ ctx[c].bank \in BankIndices /\ active \in BankIndices
      /\ ctx \in [Contexts -> ContextRecords] /\ policyBanks \in [BankIndices -> Words]
      /\ generation \in Nat
  BY DEF PolicyTypeOK, ContextRecords
<1>1. \A d \in Contexts : d # c => ctx'[d] = ctx[d]
  BY PolicyOthers
<1>2. CASE Publish(c)
  <2>1. ~lock /\ lock' /\ ctx[c].at = "idle" /\ ctx'[c].at = "target"
    BY <1>0, <1>2 DEF Publish, At, Goto, ContextRecords
  <2>2. \A d \in Contexts : d # c => ctx'[d].at \notin Writing
    BY <1>1, <2>1 DEF Exclusive, Writers
  <2> QED BY <2>1, <2>2 DEF Exclusive, Writers, Writing
<1>3. ASSUME ctx[c].at \in Writing
      PROVE  lock /\ \A d \in Contexts : d # c => ctx'[d].at \notin Writing
  BY <1>1, <1>3 DEF Exclusive, Writers
<1>4. CASE Target(c)
  <2>1. ctx[c].at \in Writing
    BY <1>4 DEF Target, At, Writing
  <2>2. CASE readers[1 - active] # 0
    <3>1. ~lock' /\ ctx'[c].at = "idle"
      BY <1>0, <1>4, <2>2 DEF Target, Idle
    <3> QED BY <1>3, <2>1, <3>1 DEF Exclusive, Writers, Writing
  <2>3. CASE readers[1 - active] = 0
    <3>1. lock' = lock /\ ctx'[c].at = "write" /\ ctx'[c].bank = 1 - active /\ active' = active
      BY <1>0, <1>4, <2>3 DEF Target, ContextRecords
    <3>2. 1 - active # active
      BY <1>0 DEF BankIndices
    <3> QED BY <1>3, <2>1, <3>1, <3>2 DEF Exclusive, Writers, Writing
  <2> QED BY <2>2, <2>3
<1>5. CASE Write(c)
  <2>1. /\ ctx[c].at = "write" /\ ctx'[c].at = "finish" /\ ctx'[c].bank = ctx[c].bank
        /\ lock' = lock /\ active' = active /\ generation' = generation
    BY <1>0, <1>5 DEF Write, At, Goto, ContextRecords
  <2>2. policyBanks'[ctx[c].bank] = [policyBanks[ctx[c].bank] EXCEPT ![1] = generation + 1]
    BY <1>0, <1>5 DEF Write
  <2>3. policyBanks'[ctx[c].bank][1] = generation + 1
    <3>1. policyBanks[ctx[c].bank] \in Words /\ generation + 1 \in Nat
      BY <1>0
    <3>2. policyBanks'[ctx[c].bank] = <<generation + 1, policyBanks[ctx[c].bank][2]>>
      BY <2>2, <3>1, Halves
    <3> QED BY <3>2
  <2>4. ctx[c].bank # active
    BY <2>1 DEF Exclusive
  <2> QED BY <1>3, <2>1, <2>3, <2>4 DEF Exclusive, Writers, Writing
<1>6. CASE Finish(c)
  <2>1. /\ ctx[c].at = "finish" /\ ctx'[c].at = "activate" /\ ctx'[c].bank = ctx[c].bank
        /\ lock' = lock /\ active' = active
    BY <1>0, <1>6 DEF Finish, At, Goto, ContextRecords
  <2>2. policyBanks'[ctx[c].bank] = [policyBanks[ctx[c].bank] EXCEPT ![2] = generation + 1]
    BY <1>0, <1>6 DEF Finish
  <2>3. policyBanks[ctx[c].bank][1] = generation + 1 /\ ctx[c].bank # active
    BY <2>1 DEF Exclusive
  <2>4. policyBanks'[ctx[c].bank] = <<generation + 1, generation + 1>>
    <3>1. policyBanks[ctx[c].bank] \in Words /\ generation + 1 \in Nat
      BY <1>0
    <3>2. policyBanks'[ctx[c].bank] = <<policyBanks[ctx[c].bank][1], generation + 1>>
      BY <2>2, <3>1, Halves
    <3> QED BY <2>3, <3>2
  <2>5. <<generation + 1, generation + 1>> # Uninit
    BY <1>0 DEF Uninit
  <2>6. Whole(policyBanks'[ctx[c].bank])
    BY <2>4, <2>5 DEF Whole
  <2> QED BY <1>3, <2>1, <2>3, <2>6 DEF Exclusive, Writers, Writing
<1>7. CASE ActivateBank(c)
  <2>1. ctx[c].at = "activate" /\ ctx'[c].at = "release" /\ lock' = lock
    BY <1>0, <1>7 DEF ActivateBank, At, Goto, ContextRecords
  <2> QED BY <1>3, <2>1 DEF Exclusive, Writers, Writing
<1>8. CASE Release(c)
  <2>1. ctx[c].at = "release" /\ ctx'[c].at = "idle" /\ ~lock'
    BY <1>0, <1>8 DEF Release, At, Idle
  <2> QED BY <1>3, <2>1 DEF Exclusive, Writers, Writing
<1>9. CASE Initialize(c)
  <2>1. \A d \in Contexts : ctx[d].at \in {"idle", "initialize"}
    BY <1>9 DEF PolicyTypeOK, Started, Initialize, At
  <2>2. ctx'[c].at \in {"idle", "initialize"} /\ lock' = lock
    BY <1>0, <1>9 DEF Initialize, At, Goto, ContextRecords
  <2>3. ~lock
    BY <2>1 DEF Exclusive, Writers, Writing
  <2> QED BY <1>1, <2>1, <2>2, <2>3 DEF Exclusive, Writers, Writing
<1>10. CASE Claim(c) \/ Read(c) \/ EnterBank(c) \/ Check(c) \/ LeaveBank(c) \/ ReadAgain(c)
  <2>1. /\ lock' = lock /\ active' = active /\ generation' = generation
        /\ policyBanks' = policyBanks
    BY <1>10 DEF Claim, Read, EnterBank, Check, LeaveBank, ReadAgain
  <2>2. ctx[c].at \notin Writing
    BY <1>10 DEF Claim, Read, EnterBank, Check, LeaveBank, ReadAgain, At, Writing
  <2>3. ctx'[c].at \notin Writing
    <3>1. CASE Claim(c) \/ EnterBank(c)
      BY <1>0, <3>1 DEF Claim, EnterBank, Goto, ContextRecords, Writing
    <3>2. CASE Read(c) \/ ReadAgain(c)
      BY <1>0, <3>2 DEF Read, ReadAgain, Entering, Writing
    <3>3. CASE Check(c)
      BY <1>0, <3>3 DEF Check, Goto, ContextRecords, Writing
    <3>4. CASE LeaveBank(c)
      BY <1>0, <3>4 DEF LeaveBank, Goto, Idle, ContextRecords, Writing
    <3> QED BY <1>10, <3>1, <3>2, <3>3, <3>4
  <2>4. Writers' = Writers
    BY <1>1, <2>2, <2>3 DEF Writers
  <2> QED BY <1>1, <2>1, <2>3, <2>4 DEF Exclusive, Writing
<1> QED BY <1>2, <1>4, <1>5, <1>6, <1>7, <1>8, <1>9, <1>10 DEF PolicyStep

\* Target does not choose a bank with a guard, Check does not put a guard on a
\* bank that is being written, and nobody else writes.
LEMMA PolicyPinned ==
    ASSUME PolicyInv, NEW c \in Contexts, PolicyStep(c)
    PROVE  Pinned'
<1> USE DEF PolicyInv
<1>0. /\ ctx[c] \in ContextRecords /\ ctx[c].bank \in BankIndices /\ active \in BankIndices
      /\ ctx \in [Contexts -> ContextRecords] /\ policyBanks \in [BankIndices -> Words]
  BY DEF PolicyTypeOK, ContextRecords
<1>1. \A d \in Contexts : d # c => ctx'[d] = ctx[d]
  BY PolicyOthers
<1>2. CASE Check(c)
  <2>1. policyBanks' = policyBanks /\ ctx[c].at = "check" /\ ctx'[c].bank = ctx[c].bank
    BY <1>0, <1>2 DEF Check, At, Goto, ContextRecords
  <2>2. CASE active = ctx[c].bank
    <3>1. ctx'[c].at = "guard" /\ ctx'[c].seen = policyBanks[active]
      BY <1>0, <1>2, <2>2 DEF Check, ContextRecords
    <3>2. state = "READY"
      BY <1>0, <2>1 DEF PolicyTypeOK, Started
    <3>3. Whole(ctx'[c].seen)
      BY <3>1, <3>2 DEF Started
    <3>4. \A w \in Contexts : ctx'[w].at \in {"write", "finish"} => ctx[w].bank # active /\ ctx'[w] = ctx[w]
      BY <1>1, <3>1 DEF Exclusive
    <3> QED BY <1>1, <2>1, <2>2, <3>1, <3>3, <3>4 DEF Pinned
  <2>3. CASE active # ctx[c].bank
    <3>1. ctx'[c].at = "retry"
      BY <1>0, <1>2, <2>3 DEF Check, Goto, ContextRecords
    <3> QED BY <1>1, <2>1, <3>1 DEF Pinned
  <2> QED BY <2>2, <2>3
<1>3. CASE Target(c)
  <2>1. policyBanks' = policyBanks /\ ctx[c].at = "target"
    BY <1>3 DEF Target, At
  <2>2. CASE readers[1 - active] # 0
    <3>1. ctx'[c].at = "idle"
      BY <1>0, <1>3, <2>2 DEF Target, Idle
    <3> QED BY <1>1, <2>1, <3>1 DEF Pinned
  <2>3. CASE readers[1 - active] = 0
    <3>1. ctx'[c].at = "write" /\ ctx'[c].bank = 1 - active
      BY <1>0, <1>3, <2>3 DEF Target, ContextRecords
    <3>2. Counted(1 - active) = {}
      <4>1. 1 - active \in BankIndices
        BY <1>0 DEF BankIndices
      <4>2. IsFiniteSet(Counted(1 - active))
        BY FS_Subset, ContextsAssumption DEF Counted
      <4> QED BY <2>3, <4>1, <4>2, FS_EmptySet DEF Exact
    <3>3. \A d \in Contexts : ctx[d].at = "guard" => ctx[d].bank # 1 - active
      BY <3>2 DEF Counted, Counting
    <3> QED BY <1>1, <2>1, <3>1, <3>3 DEF Pinned
  <2> QED BY <2>2, <2>3
<1>4. CASE Write(c) \/ Finish(c)
  <2>1. /\ ctx[c].at \in {"write", "finish"} /\ ctx'[c].at \in {"finish", "activate"}
        /\ ctx'[c].bank = ctx[c].bank
    BY <1>0, <1>4 DEF Write, Finish, At, Goto, ContextRecords
  <2>2. \A b \in BankIndices : b # ctx[c].bank => policyBanks'[b] = policyBanks[b]
    BY <1>0, <1>4 DEF Write, Finish
  <2>3. \A d \in Contexts : ctx'[d].at = "guard" =>
            ctx'[d] = ctx[d] /\ ctx[d].bank # ctx[c].bank /\ ctx[d].bank \in BankIndices
    BY <1>0, <1>1, <2>1 DEF Pinned, ContextRecords
  <2> QED BY <1>1, <2>1, <2>2, <2>3 DEF Pinned
<1>5. CASE Initialize(c)
  <2>1. \A d \in Contexts : ctx[d].at \in {"idle", "initialize"}
    BY <1>5 DEF PolicyTypeOK, Started, Initialize, At
  <2>2. ctx'[c].at \in {"idle", "initialize"}
    BY <1>0, <1>5 DEF Initialize, At, Goto, ContextRecords
  <2> QED BY <1>1, <2>1, <2>2 DEF Pinned
<1>6. CASE \/ Claim(c) \/ Read(c) \/ EnterBank(c) \/ LeaveBank(c) \/ ReadAgain(c)
           \/ Publish(c) \/ ActivateBank(c) \/ Release(c)
  <2>1. policyBanks' = policyBanks
    BY <1>6 DEF Claim, Read, EnterBank, LeaveBank, ReadAgain, Publish, ActivateBank, Release
  <2>2. ctx'[c].at \notin {"guard", "write", "finish"}
    <3>1. CASE Claim(c) \/ EnterBank(c) \/ Publish(c) \/ ActivateBank(c)
      BY <1>0, <3>1 DEF Claim, EnterBank, Publish, ActivateBank, Goto, ContextRecords
    <3>2. CASE Read(c) \/ ReadAgain(c)
      BY <1>0, <3>2 DEF Read, ReadAgain, Entering
    <3>3. CASE LeaveBank(c) \/ Release(c)
      BY <1>0, <3>3 DEF LeaveBank, Release, Goto, Idle, ContextRecords
    <3> QED BY <1>6, <3>1, <3>2, <3>3
  <2> QED BY <1>1, <2>1, <2>2 DEF Pinned
<1> QED BY <1>2, <1>3, <1>4, <1>5, <1>6 DEF PolicyStep

\* The invariant says what the guards need.
LEMMA PolicyInvPins == PolicyInv => GuardsPinBanks
<1> SUFFICES ASSUME PolicyInv PROVE GuardsPinBanks
  OBVIOUS
<1> USE DEF PolicyInv
<1>1. \A c \in Places({"guard"}) :
        /\ policyBanks[ctx[c].bank] = ctx[c].seen
        /\ ctx[c].seen[1] = ctx[c].seen[2] /\ ctx[c].seen # Uninit
        /\ \A w \in Places({"write", "finish"}) : ctx[w].bank # ctx[c].bank
  BY DEF Pinned, Places, Whole
<1>2. \A b \in BankIndices : {c \in Places({"check", "guard", "retry"}) : ctx[c].bank = b} = Counted(b)
  BY DEF Places, Counted, Counting
<1>3. Places({"target", "write", "finish", "activate", "release"}) = Writers
  BY DEF Places, Writers, Writing
<1>4. Cardinality(Writers) = IF lock THEN 1 ELSE 0
  <2>1. CASE lock
    <3>1. PICK c \in Writers : TRUE
      BY <2>1 DEF Exclusive
    <3>2. Writers = {c}
      BY <3>1 DEF Exclusive
    <3> QED BY <2>1, <3>2, FS_Singleton
  <2>2. CASE ~lock
    <3>1. Writers = {}
      BY <2>2 DEF Exclusive
    <3> QED BY <2>2, <3>1, FS_EmptySet
  <2> QED BY <2>1, <2>2
<1>5. state = "READY" => policyBanks[active][1] = policyBanks[active][2] /\ policyBanks[active] # Uninit
  BY DEF Started, Whole
<1> QED BY <1>1, <1>2, <1>3, <1>4, <1>5 DEF GuardsPinBanks, Exact

\* PolicyConstellation::read, publish and the guard's drop: for any number of
\* contexts and publications a guard pins a whole policy that nobody writes,
\* the reader counts are exact, there is one writer and the active bank is whole.
THEOREM GuardsAlwaysPin == PolicySpec => []GuardsPinBanks
<1>1. PolicyInit => PolicyInv
  BY PolicyInitInv
<1>2. PolicyInv /\ [PolicyNext]_policyVars => PolicyInv'
  <2> SUFFICES ASSUME PolicyInv, [PolicyNext]_policyVars PROVE PolicyInv'
    OBVIOUS
  <2>1. CASE PolicyNext
    <3>1. PICK c \in Contexts : PolicyStep(c)
      BY <2>1 DEF PolicyNext, PolicyStep
    <3> QED BY <3>1, PolicyTyped, PolicyStarted, PolicyExclusive, PolicyPinned, PolicyExact
            DEF PolicyInv
  <2>2. CASE UNCHANGED policyVars
    BY <2>2 DEF policyVars, PolicyInv, PolicyTypeOK, Started, Exclusive, Pinned, Exact, Counted,
                Writers, Whole
  <2> QED BY <2>1, <2>2
<1> QED BY <1>1, <1>2, PolicyInvPins, PTL DEF PolicySpec
=============================================================================
