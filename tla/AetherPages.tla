---------------------------- MODULE AetherPages -----------------------------
(***************************************************************************)
(* The pages core/aether shares without locks: the three-bank policy of    *)
(* policy_crystal.rs, the two-bank certificate page of certificate_page.rs *)
(* and the command and reply slots of resonance_split.rs.  Their banks are *)
(* the same sequence lock: an odd guard, the words, an even guard; a       *)
(* reader takes the words between two equal even guards, eight times at    *)
(* most.  One writer publishes 1, 2, ... while one reader reads.           *)
(*                                                                         *)
(* A bank has two words here, both the number of the publication, so a     *)
(* torn copy has two different words; the digest of a policy bank refuses  *)
(* exactly those.  Accesses happen in program order, as on x86.            *)
(***************************************************************************)
EXTENDS Integers, Sequences

CONSTANTS
    MaxPublications,    \* bound on publications
    Attempts,           \* of a bank, and of the certificate page: 8 in the code
    MaxReads            \* bound on calls of the reader

VARIABLES
    page,               \* "crystal", "certificate" or "slot"
    banks,              \* guard and words of each bank
    header,             \* generation, active bank, published sequence
    writer,             \* where publish is, the bank it is at
    reader,             \* where snapshot is, what it read of the bank, what of the page
    cursor,             \* private_cursor of take_new
    result              \* what the last call returned, the newest publication complete
                        \* when it was made, and a count of calls

pageVars == <<page, banks, header, writer, reader, cursor, result>>

BankCount == [crystal |-> 3, certificate |-> 2, slot |-> 1]
Banks == 1 .. BankCount[page]

WriterIdle == [at |-> "idle", bank |-> 0, value |-> 0]
ReaderAt(at, bank, published) ==
    [at |-> at, bank |-> bank, tries |-> 0, rounds |-> 0, before |-> 0,
     words |-> <<0, 0>>, copies |-> <<>>, header |-> published]
ReaderIdle == ReaderAt("idle", 0, 0)

PagesInit ==
    /\ page \in DOMAIN BankCount
    /\ banks = [b \in 1 .. BankCount[page] |-> [guard |-> 0, words |-> <<0, 0>>]]
    /\ header = [generation |-> 0, active |-> 1, published |-> 0]
    /\ writer = WriterIdle
    /\ reader = ReaderIdle
    /\ cursor = 0
    /\ result = [words |-> <<>>, fresh |-> 0, calls |-> 0]

-----------------------------------------------------------------------------
(* publish                                                                 *)

Wrote == UNCHANGED <<page, reader, cursor, result>>

\* The policy crystal draws its generation first and begins with bank 0; the
\* certificate page takes the bank that is not active.
Begin ==
    /\ writer.at = "idle" /\ writer.value < MaxPublications
    /\ writer' = [at |-> "odd", value |-> writer.value + 1,
                  bank |-> IF page = "certificate" THEN 3 - header.active ELSE 1]
    /\ header' = IF page = "crystal" THEN [header EXCEPT !.generation = @ + 1] ELSE header
    /\ UNCHANGED banks /\ Wrote

Odd ==
    /\ writer.at = "odd"
    /\ banks' = [banks EXCEPT ![writer.bank].guard = @ + 1]
    /\ writer' = [writer EXCEPT !.at = "first"]
    /\ UNCHANGED header /\ Wrote

FirstWord ==
    /\ writer.at = "first"
    /\ banks' = [banks EXCEPT ![writer.bank].words[1] = writer.value]
    /\ writer' = [writer EXCEPT !.at = "second"]
    /\ UNCHANGED header /\ Wrote

SecondWord ==
    /\ writer.at = "second"
    /\ banks' = [banks EXCEPT ![writer.bank].words[2] = writer.value]
    /\ writer' = [writer EXCEPT !.at = "even"]
    /\ UNCHANGED header /\ Wrote

\* The guard is even again; the crystal goes on with its next bank.
Even ==
    /\ writer.at = "even"
    /\ banks' = [banks EXCEPT ![writer.bank].guard = @ + 1]
    /\ writer' = IF page = "crystal" /\ writer.bank < 3
                 THEN [writer EXCEPT !.at = "odd", !.bank = @ + 1]
                 ELSE [writer EXCEPT !.at = "announce"]
    /\ UNCHANGED header /\ Wrote

\* The certificate page counts its generation and then moves active, a slot
\* stores its published sequence, the crystal releases its writer flag.
Announce ==
    /\ writer.at = "announce"
    /\ header' = CASE page = "certificate" -> [header EXCEPT !.generation = @ + 1]
                   [] page = "slot"        -> [header EXCEPT !.published = writer.value]
                   [] page = "crystal"     -> header
    /\ writer' = [writer EXCEPT !.at = IF page = "certificate" THEN "activate" ELSE "idle"]
    /\ UNCHANGED banks /\ Wrote

Activate ==
    /\ writer.at = "activate"
    /\ header' = [header EXCEPT !.active = writer.bank]
    /\ writer' = [writer EXCEPT !.at = "idle"]
    /\ UNCHANGED banks /\ Wrote

-----------------------------------------------------------------------------
(* snapshot                                                                *)

Took == UNCHANGED <<page, banks, header, writer>>

None == <<>>

\* The newest publication whose publish had returned.
Completed == IF writer.at = "idle" THEN writer.value ELSE writer.value - 1

Return(words) ==
    /\ reader' = ReaderIdle
    /\ result' = [result EXCEPT !.words = words]

\* Mutant: take_new does not look whether there is anything new.
CallAnyway ==
    /\ reader.at = "idle" /\ result.calls < MaxReads
    /\ result' = [words |-> None, fresh |-> Completed, calls |-> result.calls + 1]
    /\ reader' = ReaderAt(IF page = "certificate" THEN "generation" ELSE "before", 1,
                          IF page = "slot" THEN header.published ELSE 0)
    /\ UNCHANGED cursor /\ Took

\* take_new returns at once when there is nothing new.
Call ==
    /\ reader.at = "idle" /\ result.calls < MaxReads
    /\ result' = [words |-> None, fresh |-> Completed, calls |-> result.calls + 1]
    /\ reader' = IF page = "slot" /\ header.published \in {0, cursor} THEN ReaderIdle
                 ELSE ReaderAt(IF page = "certificate" THEN "generation" ELSE "before", 1,
                               IF page = "slot" THEN header.published ELSE 0)
    /\ UNCHANGED cursor /\ Took

\* The certificate page loads its generation and the active bank.
LoadGeneration ==
    /\ reader.at = "generation"
    /\ reader' = [reader EXCEPT !.at = "active", !.header = header.generation]
    /\ UNCHANGED <<cursor, result>> /\ Took

LoadActive ==
    /\ reader.at = "active"
    /\ reader' = [reader EXCEPT !.at = "before", !.bank = header.active, !.tries = 0]
    /\ UNCHANGED <<cursor, result>> /\ Took

Copied(copy) == reader' = [reader EXCEPT !.at = "copied", !.copies = Append(@, copy)]

\* One attempt failed: another, or the bank gives nothing.
Again ==
    IF reader.tries + 1 < Attempts
    THEN reader' = [reader EXCEPT !.at = "before", !.tries = @ + 1]
    ELSE Copied(None)

GuardBefore ==
    /\ reader.at = "before"
    /\ IF banks[reader.bank].guard % 2 = 1 THEN Again
       ELSE reader' = [reader EXCEPT !.at = "first", !.before = banks[reader.bank].guard]
    /\ UNCHANGED <<cursor, result>> /\ Took

LoadFirst ==
    /\ reader.at = "first"
    /\ reader' = [reader EXCEPT !.at = "second", !.words[1] = banks[reader.bank].words[1]]
    /\ UNCHANGED <<cursor, result>> /\ Took

LoadSecond ==
    /\ reader.at = "second"
    /\ reader' = [reader EXCEPT !.at = "after", !.words[2] = banks[reader.bank].words[2]]
    /\ UNCHANGED <<cursor, result>> /\ Took

\* The guards agree: the words are a copy.  A policy bank also checks its digest
\* and that it was ever published.
GuardAfter ==
    /\ reader.at = "after"
    /\ IF banks[reader.bank].guard # reader.before THEN Again
       ELSE IF page = "crystal" /\ (reader.words[1] # reader.words[2] \/ reader.words[2] = 0)
       THEN Copied(None)
       ELSE Copied(reader.words)
    /\ UNCHANGED <<cursor, result>> /\ Took

\* Two banks that gave the same snapshot, looked for in the order of the code.
Majority(copies) ==
    LET Same(i, j) == copies[i] # None /\ copies[i] = copies[j]
    IN  IF Same(1, 2) \/ Same(1, 3) THEN copies[1] ELSE IF Same(2, 3) THEN copies[2] ELSE None

\* PolicyCrystal::snapshot goes through its banks and takes a majority.
CrystalTakes ==
    /\ reader.at = "copied" /\ page = "crystal"
    /\ IF reader.bank < 3
       THEN reader' = [reader EXCEPT !.at = "before", !.bank = @ + 1, !.tries = 0] /\ UNCHANGED result
       ELSE Return(Majority(reader.copies))
    /\ UNCHANGED cursor /\ Took

\* CertificatePage::snapshot: kept only if the generation is still the same.
CertificateTakes ==
    /\ reader.at = "copied" /\ page = "certificate"
    /\ IF reader.copies[1] = None \/ header.generation = reader.header
       THEN Return(reader.copies[1])
       ELSE IF reader.rounds + 1 < Attempts
       THEN /\ reader' = [reader EXCEPT !.at = "generation", !.rounds = @ + 1, !.copies = <<>>]
            /\ UNCHANGED result
       ELSE Return(None)
    /\ UNCHANGED cursor /\ Took

\* ResonanceIngressPage::take_new: kept only if it is the published one.
SlotTakes ==
    /\ reader.at = "copied" /\ page = "slot"
    /\ IF reader.copies[1] # None /\ reader.copies[1][1] = reader.header
       THEN Return(reader.copies[1]) /\ cursor' = reader.header
       ELSE Return(None) /\ UNCHANGED cursor
    /\ Took

PagesNext ==
    \/ Begin \/ Odd \/ FirstWord \/ SecondWord \/ Even \/ Announce \/ Activate
    \/ Call \/ LoadGeneration \/ LoadActive \/ GuardBefore \/ LoadFirst \/ LoadSecond \/ GuardAfter
    \/ CrystalTakes \/ CertificateTakes \/ SlotTakes

PagesSpec == PagesInit /\ [][PagesNext]_pageVars

-----------------------------------------------------------------------------
(* What holds                                                              *)

\* A step that hands out a command moves the cursor forward, to that command.
HandsOutOnce ==
    cursor' # cursor \/ (page = "slot" /\ result'.words # result.words /\ result'.words # None)
      => cursor' > cursor /\ result'.words[1] = cursor'

\* policy_crystal.rs, certificate_page.rs and resonance_split.rs: what a reader
\* is given is one whole publication, never a mixture, and none older than the
\* newest one that was complete when it asked; a command is taken at most once
\* and in the order of submission.
SnapshotsAreWhole ==
    /\ [](result.words # None =>
            result.words[1] = result.words[2] /\ result.words[1] >= result.fresh)
    /\ [][HandsOutOnce]_pageVars
=============================================================================
