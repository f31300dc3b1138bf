----------------------------- MODULE PciConfig ------------------------------
(***************************************************************************)
(* kernel/boulder/src/hw/pci.rs: BAR sizing and bus-master transitions of  *)
(* one PCI function, one configuration access per step.  A write may take  *)
(* effect or be lost, and may be reported failed either way; a read may    *)
(* fail.  Between two calls the function may be reset behind the kernel's  *)
(* back.  A call holds the configuration lock, so calls do not interleave. *)
(***************************************************************************)
EXTENDS Integers, FiniteSets

CONSTANTS
    Bars,           \* BAR_COUNT
    Firmware        \* the command bits firmware left: a set of CommandBits

CommandBits == {"io", "mem", "bm", "other"}

Decode == {"io", "mem", "bm"}

VARIABLES
    cmd,            \* the command register: the set of bits that are on
    bar,            \* the BAR registers: "orig", "mask" while sized, "zero" after a reset
    job,            \* the call in progress
    token,          \* what the caller holds
    reset           \* the function was reset since its configuration was retained

vars == <<cmd, bar, job, token, reset>>

Idle == [op |-> "none", pc |-> "none", i |-> 0, fault |-> FALSE, sized |-> FALSE, seen |-> {}]

\* A restoration debt names the BARs that were read back exactly and what was
\* seen of the command register.
NoToken == [kind |-> "none", restored |-> {}, command |-> "none"]

Token(kind) == [NoToken EXCEPT !.kind = kind]

RestorationDebt(restored, command) ==
    [kind |-> "restorationDebt", restored |-> restored, command |-> command]

Init ==
    /\ cmd = Firmware
    /\ bar = [i \in 1 .. Bars |-> "orig"]
    /\ job = Idle
    /\ token = NoToken
    /\ reset = FALSE

Disabled == Firmware \ Decode

Committed == Firmware \ {"io", "bm"}

Enabled == (Firmware \ Decode) \cup {"mem", "bm"}

Safe == (Firmware \ Decode) \cup {"mem"}

Unchanged == cmd = Firmware /\ \A i \in 1 .. Bars : bar[i] = "orig"

\* What observe_retained_configuration compares besides the command.
Retained == \A i \in 1 .. Bars : bar[i] = "orig"

Goto(pc) == job' = [job EXCEPT !.pc = pc]

Return(result) == job' = Idle /\ token' = result

\* A configuration write of the command, and what the call sees of it.
WriteCommand(value, ok) == ok \in BOOLEAN /\ cmd' \in {value, cmd}

WriteBar(i, value, ok) ==
    ok \in BOOLEAN /\ \E effect \in BOOLEAN : bar' = IF effect THEN [bar EXCEPT ![i] = value] ELSE bar

CommandState == IF cmd \cap Decode = {} THEN "DecodeDisabled" ELSE "Observed"

-----------------------------------------------------------------------------
(* probe_bar_lengths, for measure_bar0_aperture                            *)

\* Reads and validates the retained configuration; any failure changes nothing.
ProbeStart ==
    /\ job.op = "none" /\ token.kind = "none"
    /\ Unchanged
    /\ job' = [Idle EXCEPT !.op = "probe", !.pc = "disable"]
    /\ UNCHANGED <<cmd, bar, token, reset>>

ProbeDisable ==
    /\ job.op = "probe" /\ job.pc = "disable"
    /\ \E ok \in BOOLEAN :
         /\ WriteCommand(Disabled, ok)
         /\ IF ok THEN Goto("verifyDisabled") /\ UNCHANGED token
            ELSE Return(RestorationDebt(1 .. Bars, "Unknown"))
    /\ UNCHANGED <<bar, reset>>

\* Mutant: the readback of the disabled command is not compared.
ProbeVerifyDisabledBlind ==
    /\ job.op = "probe" /\ job.pc = "verifyDisabled"
    /\ job' = [job EXCEPT !.pc = "size", !.i = 1] /\ UNCHANGED token
    /\ UNCHANGED <<cmd, bar, reset>>

\* A failed read is a debt; a command that did not change is QuiescenceFailed.
ProbeVerifyDisabled ==
    /\ job.op = "probe" /\ job.pc = "verifyDisabled"
    /\ \E readable \in BOOLEAN :
         IF ~readable THEN Return(RestorationDebt(1 .. Bars, "Unknown"))
         ELSE IF cmd # Disabled THEN Return(Token("quiescenceFailed"))
         ELSE job' = [job EXCEPT !.pc = "size", !.i = 1] /\ UNCHANGED token
    /\ UNCHANGED <<cmd, bar, reset>>

\* size_bars: a failed access or an encoding it does not accept stops it.
ProbeSize ==
    /\ job.op = "probe" /\ job.pc = "size"
    /\ \E ok \in BOOLEAN :
         /\ WriteBar(job.i, "mask", ok)
         /\ job' = IF ok /\ job.i < Bars THEN [job EXCEPT !.i = @ + 1]
                   ELSE [job EXCEPT !.pc = "restore", !.i = Bars, !.sized = ok]
    /\ UNCHANGED <<cmd, token, reset>>

\* restore_and_verify_bars: every BAR is written back, last first.
ProbeRestore ==
    /\ job.op = "probe" /\ job.pc = "restore"
    /\ \E ok \in BOOLEAN :
         /\ WriteBar(job.i, "orig", ok)
         /\ job' = IF job.i > 1 THEN [job EXCEPT !.i = @ - 1, !.fault = @ \/ ~ok]
                   ELSE [job EXCEPT !.pc = "bracket", !.fault = @ \/ ~ok]
    /\ UNCHANGED <<cmd, token, reset>>

\* The first of the two command observations that bracket the readbacks.
ProbeBracket ==
    /\ job.op = "probe" /\ job.pc = "bracket"
    /\ \E readable \in BOOLEAN :
         job' = [job EXCEPT !.pc = "verify", !.i = 1, !.fault = @ \/ ~readable \/ cmd # Disabled]
    /\ UNCHANGED <<cmd, bar, token, reset>>

ProbeVerify ==
    /\ job.op = "probe" /\ job.pc = "verify"
    /\ \E readable \in BOOLEAN :
         LET exact == readable /\ bar[job.i] = "orig" IN
         job' = [job EXCEPT !.seen = IF exact THEN @ \cup {job.i} ELSE @,
                            !.fault = @ \/ ~exact,
                            !.i = IF @ < Bars THEN @ + 1 ELSE 0,
                            !.pc = IF job.i < Bars THEN "verify" ELSE "settle"]
    /\ UNCHANGED <<cmd, bar, token, reset>>

\* The second observation; then a debt, the error of the sizing with decode
\* left off, or the commit.  build_bar0_lease may refuse the BAR.
ProbeSettle ==
    /\ job.op = "probe" /\ job.pc = "settle"
    /\ \E readable \in BOOLEAN, leased \in BOOLEAN :
         LET fault == job.fault \/ ~readable \/ cmd # Disabled IN
         IF fault THEN Return(RestorationDebt(job.seen, IF readable THEN CommandState ELSE "Unknown"))
         ELSE IF ~job.sized \/ ~leased THEN Return(Token("none"))
         ELSE Goto("commit") /\ UNCHANGED token
    /\ UNCHANGED <<cmd, bar, reset>>

ProbeCommit ==
    /\ job.op = "probe" /\ job.pc = "commit"
    /\ \E ok \in BOOLEAN :
         /\ WriteCommand(Committed, ok)
         /\ IF ok THEN Goto("verifyCommit") /\ UNCHANGED token
            ELSE Return(RestorationDebt(job.seen, "Unknown"))
    /\ UNCHANGED <<bar, reset>>

ProbeVerifyCommit ==
    /\ job.op = "probe" /\ job.pc = "verifyCommit"
    /\ \E readable \in BOOLEAN :
         Return(IF ~readable THEN RestorationDebt(job.seen, "Unknown")
                ELSE IF cmd = Committed THEN Token("aperture")
                ELSE RestorationDebt(job.seen, CommandState))
    /\ UNCHANGED <<cmd, bar, reset>>

-----------------------------------------------------------------------------
(* enable_bus_master, revoke_bus_master, retry_bus_master_revoke           *)

\* A configuration that is not the measured one is rejected with the aperture.
EnableStart ==
    /\ job.op = "none" /\ token.kind = "aperture"
    /\ Retained /\ cmd = Committed
    /\ job' = [Idle EXCEPT !.op = "enable", !.pc = "write"]
    /\ UNCHANGED <<cmd, bar, token, reset>>

EnableWrite ==
    /\ job.op = "enable" /\ job.pc = "write"
    /\ \E ok \in BOOLEAN :
         /\ WriteCommand(Enabled, ok)
         /\ IF ok THEN Goto("verify") /\ UNCHANGED token ELSE Return(Token("debt"))
    /\ UNCHANGED <<bar, reset>>

EnableVerify ==
    /\ job.op = "enable" /\ job.pc = "verify"
    /\ \E readable \in BOOLEAN :
         Return(Token(IF readable /\ cmd = Enabled THEN "lease" ELSE "debt"))
    /\ UNCHANGED <<cmd, bar, reset>>

\* revoke_bus_master wants the enabled command; a retry also takes the safe one.
RevokeStart ==
    /\ job.op = "none" /\ token.kind \in {"lease", "debt"}
    /\ \E readable \in BOOLEAN :
         IF ~readable \/ ~Retained THEN Return(Token("debt"))
         ELSE IF token.kind = "debt" /\ cmd = Safe THEN Return(Token("aperture"))
         ELSE IF cmd # Enabled THEN Return(Token("debt"))
         ELSE job' = [Idle EXCEPT !.op = "contain", !.pc = "write"] /\ UNCHANGED token
    /\ UNCHANGED <<cmd, bar, reset>>

ContainWrite ==
    /\ job.op = "contain" /\ job.pc = "write"
    /\ \E ok \in BOOLEAN :
         /\ WriteCommand(Safe, ok)
         /\ IF ok THEN Goto("verify") /\ UNCHANGED token ELSE Return(Token("debt"))
    /\ UNCHANGED <<bar, reset>>

ContainVerify ==
    /\ job.op = "contain" /\ job.pc = "verify"
    /\ \E readable \in BOOLEAN :
         Return(Token(IF readable /\ cmd = Safe THEN "aperture" ELSE "debt"))
    /\ UNCHANGED <<cmd, bar, reset>>

-----------------------------------------------------------------------------

\* The function is reset between two calls.
FunctionReset ==
    /\ job.op = "none" /\ ~reset
    /\ cmd' = {} /\ bar' = [i \in 1 .. Bars |-> "zero"] /\ reset' = TRUE
    /\ UNCHANGED <<job, token>>

Call ==
    \/ ProbeDisable \/ ProbeVerifyDisabled \/ ProbeSize \/ ProbeRestore \/ ProbeBracket
    \/ ProbeVerify \/ ProbeSettle \/ ProbeCommit \/ ProbeVerifyCommit
    \/ EnableWrite \/ EnableVerify \/ ContainWrite \/ ContainVerify

Next == ProbeStart \/ EnableStart \/ RevokeStart \/ FunctionReset \/ Call

Spec == Init /\ [][Next]_vars /\ WF_vars(Call)

-----------------------------------------------------------------------------
(* Properties                                                              *)

\* The registers, the call and the token have their types.
TypeOK ==
    /\ cmd \subseteq CommandBits
    /\ bar \in [1 .. Bars -> {"orig", "mask", "zero"}]
    /\ job.i \in 0 .. Bars /\ job.seen \subseteq 1 .. Bars
    /\ token.restored \subseteq 1 .. Bars

\* The function decodes and masters nothing while a BAR holds a sizing mask,
\* during probe_bar_lengths and for as long as a debt is left behind.  The
\* aperture is only handed out, or back, over the original BARs with I/O decode
\* and bus mastering off: the function masters the bus only under a lease or a
\* debt, which keep the aperture.  And a restoration debt says the truth about
\* the BARs and the decode it names.
ConfigurationIsQuiet ==
    /\ TypeOK
    /\ (\E i \in 1 .. Bars : bar[i] = "mask") => cmd \cap Decode = {}
    /\ (token.kind = "aperture" /\ job.op = "none") =>
          "bm" \notin cmd /\ "io" \notin cmd /\ (reset \/ Retained)
    /\ (token.kind = "restorationDebt" /\ ~reset) =>
          /\ \A i \in token.restored : bar[i] = "orig"
          /\ token.command = "DecodeDisabled" => cmd \cap Decode = {}

\* A call ends.
CallsReturn == (job.op # "none") ~> (job.op = "none")
=============================================================================
