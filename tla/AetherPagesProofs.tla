------------------------- MODULE AetherPagesProofs --------------------------
(***************************************************************************)
(* What core/aether's lock-free pages promise for every number of          *)
(* publications, attempts and reads.                                       *)
(***************************************************************************)
EXTENDS AetherPages, TLAPS

Words == Nat \X Nat

LEMMA Blank == <<0, 0>> \in Words
BY DEF Words

\* Writing one half of a bank.
LEMMA Halves ==
    ASSUME NEW w \in Words, NEW n \in Nat
    PROVE  /\ [w EXCEPT ![1] = n] = <<n, w[2]>> /\ [w EXCEPT ![1] = n] \in Words
           /\ [w EXCEPT ![2] = n] = <<w[1], n>> /\ [w EXCEPT ![2] = n] \in Words
<1>1. PICK x \in Nat, y \in Nat : w = <<x, y>>
  BY DEF Words
<1>2. [w EXCEPT ![1] = n] = <<n, y>> /\ [w EXCEPT ![2] = n] = <<x, n>>
  BY <1>1
<1> QED BY <1>1, <1>2 DEF Words

Copies == Words \cup {None}

BankRecords == [guard : Nat, words : Words]

HeaderRecords == [generation : Nat, active : 1 .. 2, published : Nat]

WriterRecords ==
    [at : {"idle", "odd", "first", "second", "even", "announce", "activate"},
     bank : 0 .. 3, value : Nat]

Looking == {"before", "first", "second", "after"}

ReaderRecords ==
    [at : {"idle", "generation", "active", "copied"} \cup Looking, bank : 0 .. 3,
     tries : Nat, rounds : Nat, before : Nat, words : Words, copies : Seq(Copies), header : Nat]

PagesTypeOK ==
    /\ page \in {"crystal", "certificate", "slot"}
    /\ banks \in [Banks -> BankRecords]
    /\ header \in HeaderRecords
    /\ writer \in WriterRecords
    /\ reader \in ReaderRecords
    /\ cursor \in Nat
    /\ result \in [words : Copies, fresh : Nat, calls : Nat]

\* Where the writer and the reader can be on each kind of page.
Seated ==
    /\ writer.at # "idle" => writer.bank \in Banks /\ writer.value > 0
    /\ writer.at = "activate" => page = "certificate"
    /\ page = "crystal" /\ writer.at = "announce" => writer.bank = 3
    /\ page = "certificate" /\ writer.at # "idle" => writer.bank # header.active
    /\ reader.at \in Looking \cup {"copied"} => reader.bank \in Banks
    /\ reader.at \in {"generation", "active"} => page = "certificate"

\* The sequence lock: the guard is odd exactly while the bank is written, and
\* the words differ only between the two stores.
Locked ==
    /\ \A b \in Banks :
         /\ banks[b].guard % 2 =
               IF b = writer.bank /\ writer.at \in {"first", "second", "even"} THEN 1 ELSE 0
         /\ ~(b = writer.bank /\ writer.at = "second") => banks[b].words[1] = banks[b].words[2]
    /\ writer.at \in {"second", "even", "announce", "activate"} =>
         banks[writer.bank].words[1] = writer.value

AtLeast(b, n) == banks[b].words[1] >= n /\ banks[b].words[2] >= n

\* Where a publication that is complete can be found: in every bank of a policy
\* crystal, in the active bank of a certificate page, in the slot.
Found ==
    /\ result.fresh <= Completed
    /\ page = "crystal" => \A b \in Banks :
         /\ AtLeast(b, Completed)
         /\ writer.at # "idle" /\ b < writer.bank => banks[b].words[1] >= writer.value
    /\ page = "certificate" =>
         /\ AtLeast(header.active, Completed)
         /\ reader.at \in Looking => AtLeast(reader.bank, result.fresh)
    /\ page = "slot" => header.published = Completed /\ cursor <= header.published

\* What the reader has of its bank: nothing it can use, once the guard moved.
Matching ==
    reader.at \in {"first", "second", "after"} =>
        /\ reader.before % 2 = 0
        /\ reader.before <= banks[reader.bank].guard
        /\ reader.before = banks[reader.bank].guard =>
             /\ reader.at # "first" => reader.words[1] = banks[reader.bank].words[1]
             /\ reader.at = "after" => reader.words[2] = banks[reader.bank].words[2]

CopyOK(copy) == copy # None => copy[1] = copy[2] /\ (page # "slot" => copy[1] >= result.fresh)

\* The copies a call has taken, and what a slot was seen to publish.
Taken ==
    /\ Len(reader.copies) =
         IF reader.at \in Looking THEN (IF page = "crystal" THEN reader.bank - 1 ELSE 0)
         ELSE IF reader.at = "copied" THEN (IF page = "crystal" THEN reader.bank ELSE 1) ELSE 0
    /\ \A i \in 1 .. Len(reader.copies) : CopyOK(reader.copies[i])
    /\ page = "slot" /\ reader.at # "idle" => reader.header = result.fresh /\ reader.header > cursor

WholeResult ==
    result.words # None => result.words[1] = result.words[2] /\ result.words[1] >= result.fresh

PagesInv == PagesTypeOK /\ Seated /\ Locked /\ Found /\ Matching /\ Taken /\ WholeResult

LEMMA BanksAre ==
    /\ page = "crystal" => Banks = 1 .. 3
    /\ page = "certificate" => Banks = 1 .. 2
    /\ page = "slot" => Banks = 1 .. 1
BY DEF Banks, BankCount

LEMMA Parity == \A n \in Nat : n % 2 \in {0, 1} /\ (n + 1) % 2 = 1 - (n % 2)
OBVIOUS

LEMMA NoneIsNoWord == None \notin Words /\ None \in Copies /\ Words \subseteq Copies
BY DEF None, Words, Copies

\* The steps of the writer, and those of the reader.
WriterStep == Begin \/ Odd \/ FirstWord \/ SecondWord \/ Even \/ Announce \/ Activate

ReaderStep ==
    \/ Call \/ LoadGeneration \/ LoadActive \/ GuardBefore \/ LoadFirst \/ LoadSecond \/ GuardAfter
    \/ CrystalTakes \/ CertificateTakes \/ SlotTakes

LEMMA ReaderIdleTyped ==
    /\ ReaderIdle \in ReaderRecords
    /\ \A at \in {"generation", "before"}, n \in Nat : ReaderAt(at, 1, n) \in ReaderRecords
<1>1. <<0, 0>> \in Words /\ <<>> \in Seq(Copies)
  BY Blank
<1>2. \A at \in {"idle", "generation", "before"}, b \in 0 .. 3, n \in Nat :
        ReaderAt(at, b, n) \in ReaderRecords
  BY <1>1 DEF ReaderAt, ReaderRecords, Looking
<1> QED BY <1>2 DEF ReaderIdle

LEMMA PagesInitInv == PagesInit => PagesInv
<1> SUFFICES ASSUME PagesInit PROVE PagesInv
  OBVIOUS
<1>0. page \in {"crystal", "certificate", "slot"}
  BY DEF PagesInit, BankCount
<1>1. /\ banks = [b \in Banks |-> [guard |-> 0, words |-> <<0, 0>>]]
      /\ header = [generation |-> 0, active |-> 1, published |-> 0]
      /\ writer = [at |-> "idle", bank |-> 0, value |-> 0]
      /\ reader = ReaderIdle /\ cursor = 0 /\ result = [words |-> <<>>, fresh |-> 0, calls |-> 0]
  BY DEF PagesInit, Banks, WriterIdle
<1>2. reader.at = "idle" /\ reader.copies = <<>>
  BY <1>1 DEF ReaderIdle, ReaderAt
<1>3. \A b \in Banks : banks[b].guard = 0 /\ banks[b].words[1] = 0 /\ banks[b].words[2] = 0
  BY <1>1
<1>4. PagesTypeOK
  <2>1. [guard |-> 0, words |-> <<0, 0>>] \in BankRecords
    BY Blank DEF BankRecords
  <2>2. banks \in [Banks -> BankRecords]
    BY <1>1, <2>1
  <2>3. header \in HeaderRecords /\ writer \in WriterRecords
    BY <1>1 DEF HeaderRecords, WriterRecords
  <2>4. result \in [words : Copies, fresh : Nat, calls : Nat]
    BY <1>1, NoneIsNoWord DEF None
  <2> QED BY <1>0, <1>1, <2>2, <2>3, <2>4, ReaderIdleTyped DEF PagesTypeOK
<1>5. Seated
  BY <1>1, <1>2 DEF Seated, Looking
<1>6. Locked
  BY <1>1, <1>3 DEF Locked
<1>7. Found
  <2>1. Completed = 0
    BY <1>1 DEF Completed
  <2>2. page = "certificate" => 1 \in Banks
    BY BanksAre
  <2> QED BY <1>1, <1>2, <1>3, <2>1, <2>2 DEF Found, AtLeast, Looking
<1>8. Matching /\ WholeResult
  BY <1>1, <1>2 DEF Matching, WholeResult, None
<1>9. Taken
  BY <1>2 DEF Taken, Looking
<1> QED BY <1>4, <1>5, <1>6, <1>7, <1>8, <1>9 DEF PagesInv

\* What the stores of publish do to the bank they are at, and that they leave
\* the others alone.
LEMMA Stores ==
    ASSUME PagesTypeOK, Seated, Odd \/ FirstWord \/ SecondWord \/ Even
    PROVE  /\ writer.bank \in Banks
           /\ banks' \in [Banks -> BankRecords]
           /\ \A b \in Banks : b # writer.bank => banks'[b] = banks[b]
           /\ Odd \/ Even => /\ banks'[writer.bank].guard = banks[writer.bank].guard + 1
                            /\ banks'[writer.bank].words = banks[writer.bank].words
           /\ FirstWord \/ SecondWord => banks'[writer.bank].guard = banks[writer.bank].guard
           /\ FirstWord => /\ banks'[writer.bank].words[1] = writer.value
                           /\ banks'[writer.bank].words[2] = banks[writer.bank].words[2]
           /\ SecondWord => /\ banks'[writer.bank].words[1] = banks[writer.bank].words[1]
                            /\ banks'[writer.bank].words[2] = writer.value
<1> DEFINE w == writer.bank
           g == banks[w].guard
           x == banks[w].words
           n == writer.value
<1>1. writer.bank \in Banks
  BY DEF Seated, Odd, FirstWord, SecondWord, Even
<1>2. /\ banks \in [Banks -> BankRecords] /\ banks[w] \in BankRecords /\ g \in Nat /\ x \in Words
      /\ n \in Nat
  BY <1>1 DEF PagesTypeOK, BankRecords, WriterRecords
<1>3. CASE Odd \/ Even
  <2>1. banks' = [banks EXCEPT ![w].guard = g + 1]
    BY <1>2, <1>3 DEF Odd, Even
  <2>2. [banks[w] EXCEPT !.guard = g + 1] \in BankRecords
    BY <1>2 DEF BankRecords
  <2>3. /\ banks' \in [Banks -> BankRecords] /\ banks'[w] = [banks[w] EXCEPT !.guard = g + 1]
        /\ \A b \in Banks : b # w => banks'[b] = banks[b]
    BY <1>1, <1>2, <2>1, <2>2
  <2>4. banks'[w].guard = g + 1 /\ banks'[w].words = x
    BY <1>2, <2>3 DEF BankRecords
  <2>5. ~FirstWord /\ ~SecondWord
    BY <1>3 DEF Odd, Even, FirstWord, SecondWord
  <2> QED BY <1>1, <2>3, <2>4, <2>5
<1>4. CASE FirstWord
  <2>1. /\ [x EXCEPT ![1] = n] = <<n, x[2]>> /\ [x EXCEPT ![1] = n] \in Words
    BY <1>2, Halves
  <2>2. banks' = [banks EXCEPT ![w] = [banks[w] EXCEPT !.words = [x EXCEPT ![1] = n]]]
    BY <1>4 DEF FirstWord
  <2>3. [banks[w] EXCEPT !.words = [x EXCEPT ![1] = n]] \in BankRecords
    BY <1>2, <2>1 DEF BankRecords
  <2>4. /\ banks' \in [Banks -> BankRecords]
        /\ banks'[w] = [banks[w] EXCEPT !.words = [x EXCEPT ![1] = n]]
        /\ \A b \in Banks : b # w => banks'[b] = banks[b]
    BY <1>1, <1>2, <2>2, <2>3
  <2>5. banks'[w].guard = g /\ banks'[w].words = <<n, x[2]>>
    BY <1>2, <2>1, <2>4 DEF BankRecords
  <2>6. banks'[w].words[1] = n /\ banks'[w].words[2] = x[2]
    BY <2>5
  <2>7. ~Odd /\ ~Even /\ ~SecondWord
    BY <1>4 DEF Odd, Even, FirstWord, SecondWord
  <2> QED BY <1>1, <2>4, <2>5, <2>6, <2>7
<1>5. CASE SecondWord
  <2>1. /\ [x EXCEPT ![2] = n] = <<x[1], n>> /\ [x EXCEPT ![2] = n] \in Words
    BY <1>2, Halves
  <2>2. banks' = [banks EXCEPT ![w] = [banks[w] EXCEPT !.words = [x EXCEPT ![2] = n]]]
    BY <1>5 DEF SecondWord
  <2>3. [banks[w] EXCEPT !.words = [x EXCEPT ![2] = n]] \in BankRecords
    BY <1>2, <2>1 DEF BankRecords
  <2>4. /\ banks' \in [Banks -> BankRecords]
        /\ banks'[w] = [banks[w] EXCEPT !.words = [x EXCEPT ![2] = n]]
        /\ \A b \in Banks : b # w => banks'[b] = banks[b]
    BY <1>1, <1>2, <2>2, <2>3
  <2>5. banks'[w].guard = g /\ banks'[w].words = <<x[1], n>>
    BY <1>2, <2>1, <2>4 DEF BankRecords
  <2>6. banks'[w].words[1] = x[1] /\ banks'[w].words[2] = n
    BY <2>5
  <2>7. ~Odd /\ ~Even /\ ~FirstWord
    BY <1>5 DEF Odd, Even, FirstWord, SecondWord
  <2> QED BY <1>1, <2>4, <2>5, <2>6, <2>7
<1> QED BY <1>3, <1>4, <1>5

\* Where a step of publish goes.
LEMMA WriterMoves ==
    ASSUME PagesTypeOK, Seated, WriterStep
    PROVE  /\ page' = page /\ reader' = reader /\ cursor' = cursor /\ result' = result
           /\ Begin => /\ writer.at = "idle" /\ writer'.at = "odd" /\ writer'.value = writer.value + 1
                       /\ writer'.bank = (IF page = "certificate" THEN 3 - header.active ELSE 1)
                       /\ banks' = banks
           /\ ~Begin => writer'.value = writer.value /\ writer.at # "idle"
           /\ Odd => writer.at = "odd" /\ writer'.at = "first" /\ writer'.bank = writer.bank
           /\ FirstWord => writer.at = "first" /\ writer'.at = "second" /\ writer'.bank = writer.bank
           /\ SecondWord => writer.at = "second" /\ writer'.at = "even" /\ writer'.bank = writer.bank
           /\ Even => /\ writer.at = "even"
                      /\ IF page = "crystal" /\ writer.bank < 3
                         THEN writer'.at = "odd" /\ writer'.bank = writer.bank + 1
                         ELSE writer'.at = "announce" /\ writer'.bank = writer.bank
           /\ Announce => /\ writer.at = "announce" /\ writer'.bank = writer.bank /\ banks' = banks
                          /\ writer'.at = (IF page = "certificate" THEN "activate" ELSE "idle")
           /\ Activate => /\ writer.at = "activate" /\ writer'.at = "idle" /\ writer'.bank = writer.bank
                          /\ banks' = banks
<1>0. writer \in WriterRecords
  BY DEF PagesTypeOK
<1>1. page' = page /\ reader' = reader /\ cursor' = cursor /\ result' = result
  BY DEF WriterStep, Begin, Odd, FirstWord, SecondWord, Even, Announce, Activate, Wrote
<1>2. CASE Begin
  BY <1>1, <1>2 DEF Begin, Odd, FirstWord, SecondWord, Even, Announce, Activate
<1>3. CASE Odd \/ FirstWord \/ SecondWord
  BY <1>0, <1>1, <1>3 DEF Begin, Odd, FirstWord, SecondWord, Even, Announce, Activate, WriterRecords
<1>4. CASE Even
  BY <1>0, <1>1, <1>4 DEF Begin, Odd, FirstWord, SecondWord, Even, Announce, Activate, WriterRecords
<1>5. CASE Announce \/ Activate
  BY <1>0, <1>1, <1>5 DEF Begin, Odd, FirstWord, SecondWord, Even, Announce, Activate, WriterRecords
<1> QED BY <1>2, <1>3, <1>4, <1>5 DEF WriterStep

LEMMA HeaderMoves ==
    ASSUME PagesTypeOK, Seated, WriterStep
    PROVE  /\ header' \in HeaderRecords
           /\ header'.active = IF Activate THEN writer.bank ELSE header.active
           /\ header'.published = IF Announce /\ page = "slot" THEN writer.value ELSE header.published
<1>0. header \in HeaderRecords /\ writer \in WriterRecords /\ page \in {"crystal", "certificate", "slot"}
  BY DEF PagesTypeOK
<1>1. CASE Begin
  <2>1. ~Announce /\ ~Activate
    BY <1>1 DEF Begin, Announce, Activate
  <2> QED BY <1>0, <1>1, <2>1 DEF Begin, HeaderRecords
<1>2. CASE Odd \/ FirstWord \/ SecondWord \/ Even
  <2>1. ~Announce /\ ~Activate
    BY <1>2 DEF Odd, FirstWord, SecondWord, Even, Announce, Activate
  <2> QED BY <1>0, <1>2, <2>1 DEF Odd, FirstWord, SecondWord, Even, HeaderRecords
<1>3. CASE Announce
  <2>1. ~Activate
    BY <1>3 DEF Announce, Activate
  <2>2. CASE page = "certificate"
    BY <1>0, <1>3, <2>1, <2>2 DEF Announce, HeaderRecords
  <2>3. CASE page = "slot"
    BY <1>0, <1>3, <2>1, <2>3 DEF Announce, HeaderRecords, WriterRecords
  <2>4. CASE page = "crystal"
    BY <1>0, <1>3, <2>1, <2>4 DEF Announce, HeaderRecords
  <2> QED BY <1>0, <2>2, <2>3, <2>4
<1>4. CASE Activate
  <2>1. ~Announce
    BY <1>4 DEF Announce, Activate
  <2>2. writer.bank \in 1 .. 2
    BY <1>4, BanksAre DEF Activate, Seated
  <2> QED BY <1>0, <1>4, <2>1, <2>2 DEF Activate, HeaderRecords
<1> QED BY <1>1, <1>2, <1>3, <1>4 DEF WriterStep

LEMMA WriterTyped ==
    ASSUME PagesInv, WriterStep
    PROVE  PagesTypeOK' /\ Seated'
<1> USE DEF PagesInv
<1>0. /\ page \in {"crystal", "certificate", "slot"} /\ header \in HeaderRecords
      /\ writer \in WriterRecords /\ banks \in [Banks -> BankRecords]
  BY DEF PagesTypeOK
<1>1. page' = page /\ reader' = reader /\ cursor' = cursor /\ result' = result /\ Banks' = Banks
  BY WriterMoves DEF Banks
<1>2. banks' \in [Banks -> BankRecords]
  <2>1. CASE Odd \/ FirstWord \/ SecondWord \/ Even
    BY <2>1, Stores
  <2>2. CASE Begin \/ Announce \/ Activate
    BY <1>0, <2>2, WriterMoves
  <2> QED BY <2>1, <2>2 DEF WriterStep
<1>3. writer' \in WriterRecords
  <2>1. CASE Begin
    <3>1. (IF page = "certificate" THEN 3 - header.active ELSE 1) \in 0 .. 3 /\ writer.value + 1 \in Nat
      BY <1>0 DEF HeaderRecords, WriterRecords
    <3> QED BY <2>1, <3>1 DEF Begin, WriterRecords
  <2>2. CASE Odd \/ FirstWord \/ SecondWord
    BY <1>0, <2>2 DEF Odd, FirstWord, SecondWord, WriterRecords
  <2>3. CASE Even
    <3>1. CASE page = "crystal" /\ writer.bank < 3
      <4>1. writer.bank + 1 \in 0 .. 3
        BY <1>0, <3>1 DEF WriterRecords
      <4>2. writer' = [writer EXCEPT !.at = "odd", !.bank = writer.bank + 1]
        BY <2>3, <3>1 DEF Even
      <4> QED BY <1>0, <4>1, <4>2 DEF WriterRecords
    <3>2. CASE ~(page = "crystal" /\ writer.bank < 3)
      BY <1>0, <2>3, <3>2 DEF Even, WriterRecords
    <3> QED BY <3>1, <3>2
  <2>4. CASE Announce \/ Activate
    BY <1>0, <2>4 DEF Announce, Activate, WriterRecords
  <2> QED BY <2>1, <2>2, <2>3, <2>4 DEF WriterStep
<1>4. PagesTypeOK'
  BY <1>0, <1>1, <1>2, <1>3, HeaderMoves DEF PagesTypeOK
<1>5. writer'.at # "idle" => writer'.bank \in Banks /\ writer'.value > 0
  <2>1. CASE Begin
    <3>1. writer'.value > 0
      BY <1>0, <2>1, WriterMoves DEF WriterRecords
    <3>2. writer'.bank \in Banks
      <4>1. CASE page = "certificate"
        BY <1>0, <2>1, <4>1, WriterMoves, BanksAre DEF HeaderRecords
      <4>2. CASE page # "certificate"
        BY <1>0, <2>1, <4>2, WriterMoves, BanksAre
      <4> QED BY <4>1, <4>2
    <3> QED BY <3>1, <3>2
  <2>2. CASE Even
    <3>1. writer.bank \in Banks /\ writer.value > 0 /\ writer'.value = writer.value
      BY <2>2, WriterMoves DEF Seated, Begin, Even
    <3>2. CASE page = "crystal" /\ writer.bank < 3
      BY <2>2, <3>1, <3>2, WriterMoves, BanksAre
    <3>3. CASE ~(page = "crystal" /\ writer.bank < 3)
      BY <2>2, <3>1, <3>3, WriterMoves
    <3> QED BY <3>2, <3>3
  <2>3. CASE ~Begin /\ ~Even
    <3>1. writer'.value = writer.value /\ writer.at # "idle" /\ writer'.bank = writer.bank
      BY <2>3, WriterMoves DEF WriterStep
    <3> QED BY <3>1 DEF Seated
  <2> QED BY <2>1, <2>2, <2>3
<1>6. writer'.at = "activate" => page = "certificate"
  BY WriterMoves DEF WriterStep, Seated
<1>7. page = "crystal" /\ writer'.at = "announce" => writer'.bank = 3
  <2> SUFFICES ASSUME page = "crystal", writer'.at = "announce" PROVE writer'.bank = 3
    OBVIOUS
  <2>1. Even
    BY WriterMoves DEF WriterStep
  <2>2. writer.bank \in 1 .. 3
    BY <2>1, BanksAre, WriterMoves DEF Seated
  <2> QED BY <2>1, <2>2, WriterMoves
<1>8. page = "certificate" /\ writer'.at # "idle" => writer'.bank # header'.active
  <2> SUFFICES ASSUME page = "certificate", writer'.at # "idle" PROVE writer'.bank # header'.active
    OBVIOUS
  <2>1. ~Activate /\ header'.active = header.active
    BY HeaderMoves, WriterMoves
  <2>2. CASE Begin
    BY <1>0, <2>1, <2>2, WriterMoves DEF HeaderRecords
  <2>3. CASE ~Begin
    <3>1. writer.at # "idle" /\ writer'.bank = writer.bank
      BY <2>3, WriterMoves DEF WriterStep
    <3> QED BY <2>1, <3>1 DEF Seated
  <2> QED BY <2>2, <2>3
<1>9. Seated'
  BY <1>1, <1>5, <1>6, <1>7, <1>8 DEF Seated
<1> QED BY <1>4, <1>9

\* publish keeps the sequence lock.
LEMMA WriterLocked ==
    ASSUME PagesInv, WriterStep
    PROVE  Locked'
<1> USE DEF PagesInv
<1>0. page' = page /\ Banks' = Banks
  BY WriterMoves DEF Banks
<1>1. \A b \in Banks : banks[b].guard \in Nat
  BY DEF PagesTypeOK, BankRecords
<1>2. CASE Begin
  BY <1>0, <1>2, WriterMoves DEF Locked
<1>3. CASE Odd
  <2>1. (banks[writer.bank].guard + 1) % 2 = 1
    BY <1>1, <1>3, Stores, WriterMoves, Parity DEF Locked
  <2> QED BY <1>0, <1>3, <2>1, Stores, WriterMoves DEF Locked
<1>4. CASE FirstWord
  BY <1>0, <1>4, Stores, WriterMoves DEF Locked, Begin
<1>5. CASE SecondWord
  BY <1>0, <1>5, Stores, WriterMoves DEF Locked, Begin
<1>6. CASE Even
  <2>1. (banks[writer.bank].guard + 1) % 2 = 0
    BY <1>1, <1>6, Stores, WriterMoves, Parity DEF Locked
  <2>2. CASE page = "crystal" /\ writer.bank < 3
    <3>1. writer'.at = "odd" /\ writer.at = "even"
      BY <1>6, <2>2, WriterMoves
    <3> QED BY <1>0, <1>6, <2>1, <3>1, Stores DEF Locked
  <2>3. CASE ~(page = "crystal" /\ writer.bank < 3)
    <3>1. /\ writer'.at = "announce" /\ writer.at = "even" /\ writer'.bank = writer.bank
          /\ writer'.value = writer.value
      BY <1>6, <2>3, WriterMoves DEF Even, Begin
    <3> QED BY <1>0, <1>6, <2>1, <3>1, Stores DEF Locked
  <2> QED BY <2>2, <2>3
<1>7. CASE Announce \/ Activate
  <2>1. /\ writer.at \in {"announce", "activate"} /\ writer'.at \in {"activate", "idle"}
        /\ writer'.bank = writer.bank /\ writer'.value = writer.value /\ banks' = banks
    BY <1>7, WriterMoves DEF Announce, Activate, Begin
  <2> QED BY <1>0, <2>1 DEF Locked
<1> QED BY <1>2, <1>3, <1>4, <1>5, <1>6, <1>7 DEF WriterStep

\* publish never lowers what a reader can find.
LEMMA WriterFound ==
    ASSUME PagesInv, WriterStep
    PROVE  Found'
<1> USE DEF PagesInv
<1>0. /\ page \in {"crystal", "certificate", "slot"} /\ page' = page /\ Banks' = Banks
      /\ reader' = reader /\ cursor' = cursor /\ result' = result
      /\ writer.value \in Nat /\ writer.bank \in Nat /\ result.fresh \in Nat
      /\ header.published \in Nat /\ cursor \in Nat
      /\ \A b \in Banks : banks[b].words[1] \in Nat /\ banks[b].words[2] \in Nat
  BY WriterMoves DEF PagesTypeOK, BankRecords, HeaderRecords, WriterRecords, Words, Banks
<1>1. /\ Completed \in Nat /\ Completed' \in Nat
      /\ Completed' = IF writer'.at = "idle" THEN writer.value ELSE Completed
      /\ Completed <= writer.value /\ Completed <= Completed'
  <2>1. CASE Begin
    BY <1>0, <2>1, WriterMoves DEF Completed
  <2>2. CASE ~Begin
    <3>1. writer.at # "idle" /\ writer.value > 0 /\ writer'.value = writer.value
      BY <2>2, WriterMoves DEF Seated
    <3> QED BY <1>0, <3>1 DEF Completed
  <2> QED BY <2>1, <2>2
<1>2. ASSUME NEW b \in Banks, NEW n \in Nat, AtLeast(b, n), n <= writer.value
      PROVE  AtLeast(b, n)'
  <2>1. CASE Odd \/ FirstWord \/ SecondWord \/ Even
    <3>1. CASE b = writer.bank
      BY <1>0, <1>2, <2>1, <3>1, Stores DEF AtLeast
    <3>2. CASE b # writer.bank
      BY <1>2, <2>1, <3>2, Stores DEF AtLeast
    <3> QED BY <3>1, <3>2
  <2>2. CASE Begin \/ Announce \/ Activate
    BY <1>2, <2>2, WriterMoves DEF AtLeast
  <2> QED BY <2>1, <2>2 DEF WriterStep
<1>3. result'.fresh <= Completed'
  BY <1>0, <1>1 DEF Found
<1>4. ASSUME page = "crystal", NEW b \in Banks
      PROVE  /\ AtLeast(b, Completed)'
             /\ writer'.at # "idle" /\ b < writer'.bank => banks'[b].words[1] >= writer'.value
  <2>0. b \in 1 .. 3 /\ AtLeast(b, Completed)
    BY <1>4, BanksAre DEF Found
  <2>1. CASE Begin
    <3>1. AtLeast(b, Completed)'
      BY <1>1, <2>0, <2>1, WriterMoves DEF AtLeast
    <3>2. writer'.bank = 1
      BY <1>4, <2>1, WriterMoves
    <3> QED BY <2>0, <3>1, <3>2
  <2>2. CASE Odd \/ FirstWord \/ SecondWord \/ Even
    <3>0. writer.at # "idle" /\ writer'.at # "idle" /\ writer'.value = writer.value
      BY <2>2, WriterMoves DEF Begin, Odd, FirstWord, SecondWord, Even
    <3>1. AtLeast(b, Completed)'
      BY <1>1, <1>2, <2>0, <3>0 DEF AtLeast
    <3>2. CASE b < writer.bank
      <4>1. banks'[b] = banks[b] /\ banks[b].words[1] >= writer.value
        BY <1>0, <1>4, <2>2, <3>0, <3>2, Stores DEF Found
      <4> QED BY <3>0, <3>1, <4>1
    <3>3. CASE ~(b < writer.bank)
      <4>1. CASE Even /\ b = writer.bank
        <5>1. banks'[b].words[1] = writer.value
          BY <4>1, Stores DEF Locked, Even
        <5> QED BY <1>0, <3>0, <3>1, <5>1
      <4>2. CASE ~(Even /\ b = writer.bank)
        <5>1. ~(b < writer'.bank)
          BY <1>0, <2>0, <2>2, <3>3, <4>2, WriterMoves
        <5> QED BY <3>1, <5>1
      <4> QED BY <4>1, <4>2
    <3> QED BY <3>2, <3>3
  <2>3. CASE Announce
    <3>1. /\ writer'.at = "idle" /\ writer.at = "announce" /\ writer.bank = 3 /\ banks' = banks
          /\ Completed' = writer.value
      BY <1>1, <1>4, <2>3, WriterMoves DEF Seated
    <3>2. banks[b].words[1] = banks[b].words[2]
      BY <3>1 DEF Locked
    <3>3. banks[b].words[1] >= writer.value
      <4>1. CASE b = 3
        BY <1>0, <3>1, <4>1 DEF Locked
      <4>2. CASE b < 3
        BY <1>4, <3>1, <4>2 DEF Found
      <4> QED BY <2>0, <4>1, <4>2
    <3> QED BY <3>1, <3>2, <3>3 DEF AtLeast
  <2>4. CASE Activate
    BY <1>4, <2>4 DEF Activate, Seated
  <2> QED BY <2>1, <2>2, <2>3, <2>4 DEF WriterStep
<1>5. ASSUME page = "certificate"
      PROVE  /\ AtLeast(header.active, Completed)'
             /\ reader'.at \in Looking => AtLeast(reader.bank, result.fresh)'
  <2>0. header.active \in Banks
    BY <1>5, BanksAre DEF PagesTypeOK, HeaderRecords
  <2>1. CASE Activate
    <3>1. /\ header'.active = writer.bank /\ writer.bank \in Banks /\ banks' = banks
          /\ writer.at = "activate" /\ Completed' = writer.value
      BY <1>1, <2>1, HeaderMoves, WriterMoves DEF Seated
    <3>2. banks[writer.bank].words[1] = writer.value /\ banks[writer.bank].words[2] = writer.value
      BY <3>1 DEF Locked
    <3> QED BY <1>0, <1>5, <3>1, <3>2 DEF AtLeast, Found
  <2>2. CASE ~Activate
    <3>1. header'.active = header.active /\ Completed' = Completed
      BY <1>1, <1>5, <2>2, HeaderMoves, WriterMoves DEF WriterStep
    <3>2. AtLeast(header.active, Completed)
      BY <1>5 DEF Found
    <3>3. AtLeast(header.active, Completed)'
      BY <1>1, <1>2, <2>0, <3>1, <3>2 DEF AtLeast
    <3>4. reader.at \in Looking => AtLeast(reader.bank, result.fresh)'
      <4>1. reader.at \in Looking => reader.bank \in Banks /\ AtLeast(reader.bank, result.fresh)
        BY <1>5 DEF Found, Seated
      <4>2. result.fresh <= writer.value
        BY <1>0, <1>1 DEF Found
      <4> QED BY <1>0, <1>2, <4>1, <4>2 DEF AtLeast
    <3> QED BY <1>0, <3>3, <3>4
  <2> QED BY <2>1, <2>2
<1>6. ASSUME page = "slot"
      PROVE  header'.published = Completed' /\ cursor' <= header'.published
  <2>0. header.published = Completed /\ cursor <= header.published
    BY <1>6 DEF Found
  <2>1. CASE Announce
    BY <1>0, <1>1, <1>6, <2>0, <2>1, HeaderMoves, WriterMoves
  <2>2. CASE ~Announce
    <3>1. writer'.at # "idle"
      BY <1>6, <2>2, WriterMoves DEF WriterStep, Seated
    <3> QED BY <1>0, <1>1, <1>6, <2>0, <2>2, <3>1, HeaderMoves
  <2> QED BY <2>1, <2>2
<1> QED BY <1>0, <1>3, <1>4, <1>5, <1>6 DEF Found

\* A store to the reader's bank moves its guard away from the one the reader holds.
LEMMA WriterMatching ==
    ASSUME PagesInv, WriterStep
    PROVE  Matching' /\ Taken' /\ WholeResult'
<1> USE DEF PagesInv
<1>0. page' = page /\ reader' = reader /\ cursor' = cursor /\ result' = result
  BY WriterMoves
<1>1. Taken' /\ WholeResult'
  BY <1>0 DEF Taken, CopyOK, WholeResult
<1>2. CASE reader.at \notin {"first", "second", "after"}
  BY <1>0, <1>1, <1>2 DEF Matching
<1>3. CASE reader.at \in {"first", "second", "after"}
  <2> DEFINE g == banks[reader.bank].guard
  <2>0. reader.bank \in Banks /\ g \in Nat /\ reader.before \in Nat
    BY <1>3 DEF Seated, Looking, PagesTypeOK, BankRecords, ReaderRecords
  <2>1. /\ reader.before % 2 = 0 /\ reader.before <= g
        /\ reader.before = g =>
              /\ reader.at # "first" => reader.words[1] = banks[reader.bank].words[1]
              /\ reader.at = "after" => reader.words[2] = banks[reader.bank].words[2]
    BY <1>3 DEF Matching
  <2>2. CASE Odd \/ Even
    <3>1. CASE reader.bank = writer.bank
      <4>1. banks'[reader.bank].guard = g + 1
        BY <2>2, <3>1, Stores
      <4>2. reader.before <= g + 1 /\ reader.before # g + 1
        BY <2>0, <2>1
      <4> QED BY <1>0, <1>1, <2>1, <4>1, <4>2 DEF Matching
    <3>2. CASE reader.bank # writer.bank
      <4>1. banks'[reader.bank] = banks[reader.bank]
        BY <2>0, <2>2, <3>2, Stores
      <4> QED BY <1>0, <1>1, <2>1, <4>1 DEF Matching
    <3> QED BY <3>1, <3>2
  <2>3. CASE FirstWord \/ SecondWord
    <3>1. CASE reader.bank = writer.bank
      <4>1. banks'[reader.bank].guard = g
        BY <2>3, <3>1, Stores
      <4>2. g % 2 = 1
        BY <2>0, <2>3, <3>1 DEF Locked, FirstWord, SecondWord
      <4>3. reader.before # g
        BY <2>1, <4>2
      <4> QED BY <1>0, <1>1, <2>1, <4>1, <4>3 DEF Matching
    <3>2. CASE reader.bank # writer.bank
      <4>1. banks'[reader.bank] = banks[reader.bank]
        BY <2>0, <2>3, <3>2, Stores
      <4> QED BY <1>0, <1>1, <2>1, <4>1 DEF Matching
    <3> QED BY <3>1, <3>2
  <2>4. CASE Begin \/ Announce \/ Activate
    <3>1. banks' = banks
      BY <2>4, WriterMoves
    <3> QED BY <1>0, <1>1, <2>1, <3>1 DEF Matching
  <2> QED BY <2>2, <2>3, <2>4 DEF WriterStep
<1> QED BY <1>2, <1>3

\* A step of snapshot or take_new leaves the page to its writer.
LEMMA ReaderKeeps ==
    ASSUME PagesInv, Took
    PROVE  /\ Locked' /\ Completed' = Completed /\ Banks' = Banks
           /\ \A b, n : AtLeast(b, n)' <=> AtLeast(b, n)
BY DEF PagesInv, Took, Locked, Completed, Banks, AtLeast

\* A call that ends with nothing, or with a copy that is whole and new enough.
LEMMA Returns ==
    ASSUME PagesInv, Took, NEW words \in Copies, Return(words),
           words # None => words[1] = words[2] /\ words[1] >= result.fresh,
           cursor' \in Nat, page = "slot" => cursor' <= header.published
    PROVE  PagesInv'
<1> USE DEF PagesInv
<1>0. /\ reader' = ReaderIdle /\ reader'.at = "idle" /\ reader'.copies = <<>>
      /\ page' = page /\ banks' = banks /\ header' = header /\ writer' = writer
  BY DEF Return, ReaderIdle, ReaderAt, Took
<1>1. /\ result' \in [words : Copies, fresh : Nat, calls : Nat]
      /\ result'.words = words /\ result'.fresh = result.fresh
  BY DEF Return, PagesTypeOK
<1>2. PagesTypeOK'
  BY <1>0, <1>1, ReaderKeeps, ReaderIdleTyped DEF PagesTypeOK
<1>3. Seated' /\ Matching'
  BY <1>0, ReaderKeeps DEF Seated, Matching, Looking
<1>4. Found'
  BY <1>0, <1>1, ReaderKeeps DEF Found, Looking
<1>5. Taken'
  BY <1>0 DEF Taken, Looking
<1>6. WholeResult'
  BY <1>1 DEF WholeResult
<1> QED BY <1>2, <1>3, <1>4, <1>5, <1>6, ReaderKeeps

\* The steps of one attempt: what the reader record may become while the
\* call goes on.
LEMMA Continues ==
    ASSUME PagesInv, Took, UNCHANGED <<cursor, result>>, reader' \in ReaderRecords,
           reader'.at \in Looking \cup {"generation", "active"}, reader.at # "idle",
           reader'.header = reader.header \/ page # "slot",
           reader'.at \in Looking => reader'.bank \in Banks,
           reader'.at \in {"generation", "active"} => page = "certificate",
           page = "certificate" /\ reader'.at \in Looking => AtLeast(reader'.bank, result.fresh),
           Len(reader'.copies) =
               IF reader'.at \in Looking /\ page = "crystal" THEN reader'.bank - 1 ELSE 0,
           \A i \in 1 .. Len(reader'.copies) : CopyOK(reader'.copies[i]),
           Matching'
    PROVE  PagesInv'
<1> USE DEF PagesInv
<1>0. page' = page /\ banks' = banks /\ header' = header /\ writer' = writer
  BY DEF Took
<1>1. PagesTypeOK'
  BY <1>0, ReaderKeeps DEF PagesTypeOK
<1>2. reader'.at # "copied" /\ reader'.at # "idle"
  BY DEF Looking
<1>3. Seated'
  BY <1>0, <1>2, ReaderKeeps DEF Seated
<1>4. Found'
  BY <1>0, ReaderKeeps DEF Found
<1>5. \A copy : CopyOK(copy)' <=> CopyOK(copy)
  BY <1>0 DEF CopyOK
<1>6. Taken'
  <2>1. page = "slot" /\ reader'.at # "idle" => reader'.header = result.fresh /\ reader'.header > cursor
    BY DEF Taken
  <2>2. \A i \in 1 .. Len(reader'.copies) : CopyOK(reader.copies[i])'
    BY <1>5
  <2> QED BY <1>0, <1>2, <2>1, <2>2 DEF Taken
<1>7. WholeResult'
  BY DEF WholeResult
<1> QED BY <1>1, <1>3, <1>4, <1>6, <1>7, ReaderKeeps

\* A bank that gave a copy, or nothing.
LEMMA CopyTaken ==
    ASSUME PagesInv, Took, UNCHANGED <<cursor, result>>, reader.at \in Looking,
           NEW copy \in Copies, CopyOK(copy), Copied(copy)
    PROVE  PagesInv'
<1> USE DEF PagesInv
<1>0. page' = page /\ banks' = banks /\ header' = header /\ writer' = writer
  BY DEF Took
<1>1. reader \in ReaderRecords /\ reader.copies \in Seq(Copies)
  BY DEF PagesTypeOK, ReaderRecords
<1>2. /\ Append(reader.copies, copy) \in Seq(Copies)
      /\ Len(Append(reader.copies, copy)) = Len(reader.copies) + 1
      /\ \A i \in 1 .. Len(reader.copies) : Append(reader.copies, copy)[i] = reader.copies[i]
      /\ Append(reader.copies, copy)[Len(reader.copies) + 1] = copy
      /\ Len(reader.copies) \in Nat
  BY <1>1
<1>3. /\ reader' \in ReaderRecords
      /\ reader'.at = "copied" /\ reader'.copies = Append(reader.copies, copy)
      /\ reader'.bank = reader.bank /\ reader'.header = reader.header
  BY <1>1, <1>2 DEF Copied, ReaderRecords
<1>4. PagesTypeOK'
  BY <1>0, <1>3, ReaderKeeps DEF PagesTypeOK
<1>5. Seated' /\ Matching'
  BY <1>0, <1>3, ReaderKeeps DEF Seated, Matching, Looking
<1>6. Found'
  BY <1>0, <1>3, ReaderKeeps DEF Found, Looking
<1>7. Taken'
  <2>1. Len(reader.copies) = IF page = "crystal" THEN reader.bank - 1 ELSE 0
    BY DEF Taken
  <2>2. reader.bank \in Nat
    BY <1>1 DEF ReaderRecords
  <2>3. Len(reader'.copies) = IF page = "crystal" THEN reader.bank ELSE 1
    BY <1>2, <1>3, <2>1, <2>2
  <2>4. \A c : CopyOK(c)' <=> CopyOK(c)
    BY <1>0 DEF CopyOK
  <2>5. \A i \in 1 .. Len(reader.copies) + 1 :
          CopyOK(Append(reader.copies, copy)[i])
    <3> SUFFICES ASSUME NEW i \in 1 .. Len(reader.copies) + 1
                 PROVE  CopyOK(Append(reader.copies, copy)[i])
      OBVIOUS
    <3>1. CASE i = Len(reader.copies) + 1
      BY <1>2, <3>1
    <3>2. CASE i # Len(reader.copies) + 1
      <4>1. i \in 1 .. Len(reader.copies)
        BY <1>2, <3>2
      <4> QED BY <1>2, <4>1 DEF Taken
    <3> QED BY <3>1, <3>2
  <2>6. \A i \in 1 .. Len(reader'.copies) : CopyOK(reader.copies[i])'
    BY <1>2, <1>3, <2>4, <2>5
  <2>7. page = "slot" => reader'.header = result.fresh /\ reader'.header > cursor
    BY <1>3 DEF Taken, Looking
  <2> QED BY <1>0, <1>3, <2>3, <2>6, <2>7 DEF Taken, Looking
<1>8. WholeResult'
  BY DEF WholeResult
<1> QED BY <1>4, <1>5, <1>6, <1>7, <1>8, ReaderKeeps

\* The attempt failed.
LEMMA AgainStep ==
    ASSUME PagesInv, Took, UNCHANGED <<cursor, result>>, reader.at \in Looking, Again
    PROVE  PagesInv'
<1> USE DEF PagesInv
<1>1. CASE reader.tries + 1 < Attempts
  <2>1. reader \in ReaderRecords
    BY DEF PagesTypeOK
  <2>2. reader' = [reader EXCEPT !.at = "before", !.tries = reader.tries + 1]
    BY <1>1 DEF Again
  <2>3. /\ reader' \in ReaderRecords /\ reader'.at = "before" /\ reader'.bank = reader.bank
        /\ reader'.copies = reader.copies /\ reader'.header = reader.header
    <3>1. reader.tries + 1 \in Nat
      BY <2>1 DEF ReaderRecords
    <3> QED BY <2>1, <2>2, <3>1 DEF ReaderRecords, Looking
  <2>4. "before" \in Looking /\ "before" \notin {"first", "second", "after"}
        /\ reader.at # "idle" /\ reader.at # "copied" /\ "before" \notin {"generation", "active"}
    BY DEF Looking
  <2>5. /\ reader.bank \in Banks
        /\ page = "certificate" => AtLeast(reader.bank, result.fresh)
        /\ Len(reader.copies) = IF page = "crystal" THEN reader.bank - 1 ELSE 0
        /\ \A i \in 1 .. Len(reader.copies) : CopyOK(reader.copies[i])
    BY DEF Seated, Found, Taken
  <2>6. Matching'
    BY <2>3, <2>4 DEF Matching
  <2> QED BY <2>3, <2>4, <2>5, <2>6, Continues
<1>2. CASE ~(reader.tries + 1 < Attempts)
  <2>1. Copied(None)
    BY <1>2 DEF Again
  <2>2. CopyOK(None) /\ None \in Copies
    BY NoneIsNoWord DEF CopyOK
  <2> QED BY <2>1, <2>2, CopyTaken
<1> QED BY <1>1, <1>2

\* The loads of one attempt; GuardAfter takes the words only between two equal
\* even guards, and then they are the bank's.
LEMMA AttemptStep ==
    ASSUME PagesInv, GuardBefore \/ LoadFirst \/ LoadSecond \/ GuardAfter
    PROVE  PagesInv'
<1> USE DEF PagesInv
<1>0. /\ Took /\ UNCHANGED <<cursor, result>> /\ reader.at \in Looking
      /\ reader.at # "idle" /\ reader.at # "copied"
      /\ banks' = banks /\ page' = page
  BY DEF GuardBefore, LoadFirst, LoadSecond, GuardAfter, Took, Looking
<1>1. /\ reader \in ReaderRecords /\ reader.bank \in Banks /\ reader.words \in Words
      /\ reader.before \in Nat
      /\ banks[reader.bank].guard \in Nat /\ banks[reader.bank].words \in Words
      /\ banks[reader.bank].words[1] \in Nat /\ banks[reader.bank].words[2] \in Nat
  BY <1>0 DEF Seated, PagesTypeOK, ReaderRecords, BankRecords, Words
<1>2. /\ page = "certificate" => AtLeast(reader.bank, result.fresh)
      /\ Len(reader.copies) = IF page = "crystal" THEN reader.bank - 1 ELSE 0
      /\ \A i \in 1 .. Len(reader.copies) : CopyOK(reader.copies[i])
  BY <1>0 DEF Found, Taken
<1>3. ASSUME reader' \in ReaderRecords, reader'.at \in {"first", "second", "after"},
             reader'.bank = reader.bank, reader'.copies = reader.copies,
             reader'.header = reader.header, Matching'
      PROVE  PagesInv'
  <2>1. reader'.at \in Looking /\ reader'.at \notin {"generation", "active"}
    BY <1>3 DEF Looking
  <2> QED BY <1>0, <1>1, <1>2, <1>3, <2>1, Continues
<1>4. CASE GuardBefore
  <2>1. CASE banks[reader.bank].guard % 2 = 1
    BY <1>0, <1>4, <2>1, AgainStep DEF GuardBefore
  <2>2. CASE banks[reader.bank].guard % 2 # 1
    <3>1. reader' = [reader EXCEPT !.at = "first", !.before = banks[reader.bank].guard]
      BY <1>4, <2>2 DEF GuardBefore
    <3>2. /\ reader' \in ReaderRecords /\ reader'.at = "first" /\ reader'.bank = reader.bank
          /\ reader'.copies = reader.copies /\ reader'.header = reader.header
          /\ reader'.before = banks[reader.bank].guard
      BY <1>1, <3>1 DEF ReaderRecords, Looking
    <3>3. banks[reader.bank].guard % 2 = 0
      BY <1>1, <2>2, Parity
    <3>4. Matching'
      BY <1>0, <1>1, <3>2, <3>3 DEF Matching
    <3> QED BY <1>3, <3>2, <3>4
  <2> QED BY <2>1, <2>2
<1>5. CASE LoadFirst
  <2> DEFINE n == banks[reader.bank].words[1]
  <2>1. [reader.words EXCEPT ![1] = n] = <<n, reader.words[2]>> /\ [reader.words EXCEPT ![1] = n] \in Words
    BY <1>1, Halves
  <2>2. reader' = [reader EXCEPT !.at = "second", !.words = [reader.words EXCEPT ![1] = n]]
    BY <1>5 DEF LoadFirst
  <2>3. /\ reader' \in ReaderRecords /\ reader'.at = "second" /\ reader'.bank = reader.bank
        /\ reader'.copies = reader.copies /\ reader'.header = reader.header
        /\ reader'.before = reader.before /\ reader'.words = <<n, reader.words[2]>>
    BY <1>1, <2>1, <2>2 DEF ReaderRecords, Looking
  <2>4. reader'.words[1] = n
    BY <2>3
  <2>5. reader.before % 2 = 0 /\ reader.before <= banks[reader.bank].guard
    BY <1>5 DEF LoadFirst, Matching
  <2>6. Matching'
    BY <1>0, <2>3, <2>4, <2>5 DEF Matching
  <2> QED BY <1>3, <2>3, <2>6
<1>6. CASE LoadSecond
  <2> DEFINE n == banks[reader.bank].words[2]
  <2>1. [reader.words EXCEPT ![2] = n] = <<reader.words[1], n>> /\ [reader.words EXCEPT ![2] = n] \in Words
    BY <1>1, Halves
  <2>2. reader' = [reader EXCEPT !.at = "after", !.words = [reader.words EXCEPT ![2] = n]]
    BY <1>6 DEF LoadSecond
  <2>3. /\ reader' \in ReaderRecords /\ reader'.at = "after" /\ reader'.bank = reader.bank
        /\ reader'.copies = reader.copies /\ reader'.header = reader.header
        /\ reader'.before = reader.before /\ reader'.words = <<reader.words[1], n>>
    BY <1>1, <2>1, <2>2 DEF ReaderRecords, Looking
  <2>4. reader'.words[1] = reader.words[1] /\ reader'.words[2] = n
    BY <2>3
  <2>5. /\ reader.before % 2 = 0 /\ reader.before <= banks[reader.bank].guard
        /\ reader.before = banks[reader.bank].guard => reader.words[1] = banks[reader.bank].words[1]
    BY <1>6 DEF LoadSecond, Matching
  <2>6. Matching'
    BY <1>0, <2>3, <2>4, <2>5 DEF Matching
  <2> QED BY <1>3, <2>3, <2>6
<1>7. CASE GuardAfter
  <2>1. CASE banks[reader.bank].guard # reader.before
    BY <1>0, <1>7, <2>1, AgainStep DEF GuardAfter
  <2>2. CASE banks[reader.bank].guard = reader.before
    <3>1. /\ reader.words[1] = banks[reader.bank].words[1]
          /\ reader.words[2] = banks[reader.bank].words[2]
          /\ banks[reader.bank].guard % 2 = 0
      BY <1>7, <2>2 DEF GuardAfter, Matching
    <3>2. banks[reader.bank].words[1] = banks[reader.bank].words[2]
      BY <1>1, <3>1 DEF Locked
    <3>3. page # "slot" => banks[reader.bank].words[1] >= result.fresh
      <4>1. CASE page = "crystal"
        <5>1. banks[reader.bank].words[1] >= Completed /\ result.fresh <= Completed
          BY <1>1, <4>1 DEF Found, AtLeast
        <5>2. Completed \in Int /\ result.fresh \in Int
          BY DEF Completed, PagesTypeOK, WriterRecords
        <5> QED BY <1>1, <5>1, <5>2
      <4>2. CASE page = "certificate"
        BY <1>2, <4>2 DEF AtLeast
      <4> QED BY <4>1, <4>2 DEF PagesTypeOK
    <3>4. CopyOK(reader.words) /\ CopyOK(None) /\ reader.words \in Copies /\ None \in Copies
      BY <1>1, <3>1, <3>2, <3>3, NoneIsNoWord DEF CopyOK
    <3>5. Copied(None) \/ Copied(reader.words)
      BY <1>7, <2>2 DEF GuardAfter
    <3> QED BY <1>0, <3>4, <3>5, CopyTaken
  <2> QED BY <2>1, <2>2
<1> QED BY <1>4, <1>5, <1>6, <1>7

\* A call begins; the certificate page chooses its bank.
LEMMA CallStep ==
    ASSUME PagesInv, Call
    PROVE  PagesInv'
<1> USE DEF PagesInv
<1>0. /\ Took /\ cursor' = cursor /\ reader.at = "idle"
      /\ page' = page /\ banks' = banks /\ header' = header /\ writer' = writer
      /\ page \in {"crystal", "certificate", "slot"} /\ header.published \in Nat /\ cursor \in Nat
  BY DEF Call, Took, PagesTypeOK, HeaderRecords
<1>1. Completed \in Nat
  BY DEF Completed, Seated, PagesTypeOK, WriterRecords
<1>2. /\ result' \in [words : Copies, fresh : Nat, calls : Nat]
      /\ result'.words = None /\ result'.fresh = Completed
  <2>1. result.calls + 1 \in Nat
    BY DEF PagesTypeOK
  <2> QED BY <1>1, <2>1, NoneIsNoWord DEF Call
<1> DEFINE quiet == page = "slot" /\ header.published \in {0, cursor}
           n == IF page = "slot" THEN header.published ELSE 0
           at == IF page = "certificate" THEN "generation" ELSE "before"
<1>3. /\ reader' \in ReaderRecords
      /\ IF quiet THEN reader'.at = "idle"
         ELSE reader'.at = at /\ reader'.bank = 1 /\ reader'.header = n
      /\ reader'.copies = <<>>
  <2>1. CASE quiet
    BY <2>1, ReaderIdleTyped DEF Call, ReaderIdle, ReaderAt
  <2>2. CASE ~quiet
    <3>1. at \in {"generation", "before"} /\ n \in Nat
      BY <1>0
    <3>2. reader' = ReaderAt(at, 1, n)
      BY <2>2 DEF Call
    <3>3. ReaderAt(at, 1, n) \in ReaderRecords
      BY <3>1, ReaderIdleTyped
    <3> HIDE DEF at, n
    <3> QED BY <2>2, <3>2, <3>3 DEF ReaderAt
  <2> QED BY <2>1, <2>2
<1>4. PagesTypeOK'
  BY <1>0, <1>2, <1>3, ReaderKeeps DEF PagesTypeOK
<1>5. 1 \in Banks
  BY <1>0, BanksAre
<1>6. Seated' /\ Matching'
  BY <1>0, <1>3, <1>5, ReaderKeeps, SMTT(30) DEF Seated, Matching, Looking
<1>7. Found'
  <2>1. page = "certificate" => reader'.at \notin Looking
    BY <1>3 DEF Looking
  <2>2. result'.fresh <= Completed
    BY <1>1, <1>2
  <2> QED BY <1>0, <2>1, <2>2, ReaderKeeps DEF Found
<1>8. Taken'
  <2>1. page = "slot" /\ reader'.at # "idle" => reader'.header = result'.fresh /\ reader'.header > cursor
    BY <1>0, <1>2, <1>3 DEF Found
  <2>2. reader'.at \in Looking => reader'.bank = 1
    BY <1>3 DEF Looking
  <2>3. reader'.at # "copied" /\ Len(reader'.copies) = 0
    BY <1>3
  <2> QED BY <1>0, <2>1, <2>2, <2>3, SMTT(30) DEF Taken
<1>9. WholeResult'
  BY <1>2 DEF WholeResult
<1> QED BY <1>0, <1>4, <1>6, <1>7, <1>8, <1>9, ReaderKeeps

LEMMA LoadStep ==
    ASSUME PagesInv, LoadGeneration \/ LoadActive
    PROVE  PagesInv'
<1> USE DEF PagesInv
<1>0. /\ Took /\ UNCHANGED <<cursor, result>> /\ page = "certificate"
      /\ reader.at \in {"generation", "active"} /\ reader \in ReaderRecords /\ header \in HeaderRecords
  BY DEF LoadGeneration, LoadActive, Seated, PagesTypeOK
<1>1. Len(reader.copies) = 0
  BY <1>0 DEF Taken, Looking
<1>2. CASE LoadGeneration
  <2>1. reader' = [reader EXCEPT !.at = "active", !.header = header.generation]
    BY <1>2 DEF LoadGeneration
  <2>2. reader' \in ReaderRecords /\ reader'.at = "active" /\ reader'.copies = reader.copies
    BY <1>0, <2>1 DEF ReaderRecords, HeaderRecords, Looking
  <2>3. Matching' /\ reader'.at \notin Looking
    BY <2>2 DEF Matching, Looking
  <2>4. \A i \in 1 .. Len(reader'.copies) : CopyOK(reader'.copies[i])
    BY <1>1, <2>2
  <2> QED BY <1>0, <1>1, <2>2, <2>3, <2>4, Continues
<1>3. CASE LoadActive
  <2>0. header.active \in 0 .. 3 /\ header.active \in Banks
    BY <1>0, BanksAre DEF HeaderRecords
  <2>1. reader' = [reader EXCEPT !.at = "before", !.bank = header.active, !.tries = 0]
    BY <1>3 DEF LoadActive
  <2>2. /\ reader' \in ReaderRecords /\ reader'.at = "before" /\ reader'.copies = reader.copies
        /\ reader'.bank = header.active
    BY <1>0, <2>0, <2>1 DEF ReaderRecords, Looking
  <2>3. Matching' /\ reader'.at \notin {"generation", "active"} /\ reader'.at \in Looking
    BY <2>2 DEF Matching, Looking
  <2>4. \A i \in 1 .. Len(reader'.copies) : CopyOK(reader'.copies[i])
    BY <1>1, <2>2
  <2>5. AtLeast(header.active, result.fresh)
    <3>1. AtLeast(header.active, Completed) /\ result.fresh <= Completed
      BY <1>0 DEF Found
    <3>2. Completed \in Int /\ result.fresh \in Int
      BY DEF Completed, PagesTypeOK, WriterRecords
    <3>3. banks[header.active].words[1] \in Int /\ banks[header.active].words[2] \in Int
      <4>1. banks[header.active].words \in Words
        BY <2>0 DEF PagesTypeOK, BankRecords
      <4> QED BY <4>1 DEF Words
    <3> QED BY <3>1, <3>2, <3>3 DEF AtLeast
  <2> QED BY <1>0, <1>1, <2>0, <2>2, <2>3, <2>4, <2>5, Continues
<1> QED BY <1>2, <1>3

\* A step that leaves the cursor and hands out no command.
LEMMA HandsOutNothing ==
    ASSUME cursor' = cursor, page # "slot" \/ result'.words = result.words \/ result'.words = None
    PROVE  HandsOutOnce
BY DEF HandsOutOnce

\* The end of a call, or of a round of it.
LEMMA TakeStep ==
    ASSUME PagesInv, CrystalTakes \/ CertificateTakes \/ SlotTakes
    PROVE  PagesInv' /\ HandsOutOnce
<1> USE DEF PagesInv
<1>0. /\ Took /\ reader.at = "copied" /\ reader \in ReaderRecords /\ cursor \in Nat
      /\ reader.bank \in Banks /\ reader.copies \in Seq(Copies)
      /\ page = "slot" => cursor <= header.published
  BY DEF CrystalTakes, CertificateTakes, SlotTakes, PagesTypeOK, Seated, ReaderRecords, Found
<1>1. /\ Len(reader.copies) = IF page = "crystal" THEN reader.bank ELSE 1
      /\ \A i \in 1 .. Len(reader.copies) :
            reader.copies[i] \in Copies /\ CopyOK(reader.copies[i])
  BY <1>0 DEF Taken, Looking
<1>2. \A i \in 1 .. Len(reader.copies) : page # "slot" /\ reader.copies[i] # None =>
        reader.copies[i][1] = reader.copies[i][2] /\ reader.copies[i][1] >= result.fresh
  BY <1>1 DEF CopyOK
<1>3. None \in Copies
  BY NoneIsNoWord
<1>4. CASE CrystalTakes
  <2>0. page = "crystal" /\ reader.bank \in 1 .. 3 /\ cursor' = cursor
    BY <1>0, <1>4, BanksAre DEF CrystalTakes
  <2>1. CASE reader.bank < 3
    <3>1. reader' = [reader EXCEPT !.at = "before", !.bank = reader.bank + 1, !.tries = 0] /\ result' = result
      BY <1>4, <2>1 DEF CrystalTakes
    <3>2. reader.bank + 1 \in 0 .. 3 /\ reader.bank + 1 \in Banks /\ (reader.bank + 1) - 1 = reader.bank
      BY <2>0, <2>1, BanksAre
    <3>3. /\ reader' \in ReaderRecords /\ reader'.at = "before" /\ reader'.bank = reader.bank + 1
          /\ reader'.copies = reader.copies /\ reader'.header = reader.header
      BY <1>0, <3>1, <3>2 DEF ReaderRecords, Looking
    <3>4. Matching' /\ reader'.at \notin {"generation", "active"} /\ reader'.at \in Looking
      BY <3>3 DEF Matching, Looking
    <3> QED BY <1>0, <1>1, <2>0, <3>1, <3>2, <3>3, <3>4, Continues, HandsOutNothing
  <2>2. CASE ~(reader.bank < 3)
    <3> DEFINE words == Majority(reader.copies)
    <3>1. Len(reader.copies) = 3
      BY <1>1, <2>0, <2>2
    <3>2. words \in {None, reader.copies[1], reader.copies[2]}
      BY DEF Majority
    <3>3. words \in Copies /\ (words # None => words[1] = words[2] /\ words[1] >= result.fresh)
      BY <1>1, <1>2, <1>3, <2>0, <3>1, <3>2
    <3>4. Return(words)
      BY <1>4, <2>2 DEF CrystalTakes
    <3> HIDE DEF words
    <3> QED BY <1>0, <2>0, <3>3, <3>4, Returns, HandsOutNothing
  <2> QED BY <2>1, <2>2
<1>5. CASE CertificateTakes
  <2>0. page = "certificate" /\ cursor' = cursor /\ Len(reader.copies) = 1
    BY <1>1, <1>5 DEF CertificateTakes
  <2>1. CASE Return(reader.copies[1])
    BY <1>0, <1>1, <1>2, <2>0, <2>1, Returns, HandsOutNothing
  <2>2. CASE Return(None)
    BY <1>0, <1>3, <2>0, <2>2, Returns, HandsOutNothing
  <2>3. CASE /\ reader' = [reader EXCEPT !.at = "generation", !.rounds = reader.rounds + 1, !.copies = <<>>]
             /\ result' = result
    <3>1. reader.rounds + 1 \in Nat /\ <<>> \in Seq(Copies)
      BY <1>0 DEF ReaderRecords
    <3>2. reader' \in ReaderRecords /\ reader'.at = "generation" /\ reader'.copies = <<>>
      BY <1>0, <2>3, <3>1 DEF ReaderRecords, Looking
    <3>3. Matching' /\ reader'.at \notin Looking
      BY <3>2 DEF Matching, Looking
    <3>4. Len(reader'.copies) = 0 /\ \A i \in 1 .. Len(reader'.copies) : CopyOK(reader'.copies[i])
      BY <3>2
    <3> QED BY <1>0, <2>0, <2>3, <3>2, <3>3, <3>4, Continues, HandsOutNothing
  <2> QED BY <1>5, <2>1, <2>2, <2>3 DEF CertificateTakes
<1>6. CASE SlotTakes
  <2>0. /\ page = "slot" /\ Len(reader.copies) = 1
        /\ reader.header = result.fresh /\ reader.header > cursor /\ reader.header \in Nat
    BY <1>0, <1>1, <1>6 DEF SlotTakes, Taken, ReaderRecords
  <2>1. CASE reader.copies[1] # None /\ reader.copies[1][1] = reader.header
    <3>1. Return(reader.copies[1]) /\ cursor' = reader.header
      BY <1>6, <2>1 DEF SlotTakes
    <3>2. reader.copies[1] \in Copies /\ reader.copies[1][1] = reader.copies[1][2]
      BY <1>1, <2>0, <2>1 DEF CopyOK
    <3>3. reader.header <= header.published
      BY <2>0 DEF Found
    <3>4. PagesInv'
      BY <1>0, <2>0, <2>1, <3>1, <3>2, <3>3, Returns
    <3>5. result'.words = reader.copies[1]
      BY <3>1 DEF Return, PagesTypeOK
    <3> QED BY <2>0, <2>1, <3>1, <3>4, <3>5 DEF HandsOutOnce
  <2>2. CASE ~(reader.copies[1] # None /\ reader.copies[1][1] = reader.header)
    <3>1. Return(None) /\ cursor' = cursor
      BY <1>6, <2>2 DEF SlotTakes
    <3>2. result'.words = None
      BY <3>1 DEF Return, PagesTypeOK
    <3> QED BY <1>0, <1>3, <3>1, <3>2, Returns, HandsOutNothing
  <2> QED BY <2>1, <2>2
<1> QED BY <1>4, <1>5, <1>6

\* PolicyCrystal::snapshot, CertificatePage::snapshot and take_new against a
\* publish at any point: what is returned is one whole publication, none older
\* than the newest that was complete at the call, and the cursor of the slot
\* moves forward, to what it hands out, whenever it hands out anything.
THEOREM SnapshotsAlwaysWhole == PagesSpec => SnapshotsAreWhole
<1>1. PagesInit => PagesInv
  BY PagesInitInv
<1>2. PagesInv /\ [PagesNext]_pageVars =>
        PagesInv' /\ [HandsOutOnce]_pageVars
  <2> SUFFICES ASSUME PagesInv, [PagesNext]_pageVars
               PROVE  PagesInv' /\ HandsOutOnce
    OBVIOUS
  <2>1. CASE WriterStep
    <3>1. cursor' = cursor /\ result' = result
      BY <2>1 DEF WriterStep, Begin, Odd, FirstWord, SecondWord, Even, Announce, Activate, Wrote
    <3> QED BY <2>1, <3>1, WriterTyped, WriterLocked, WriterFound, WriterMatching, WriterMoves,
               HandsOutNothing DEF PagesInv
  <2>2. CASE GuardBefore \/ LoadFirst \/ LoadSecond \/ GuardAfter
    <3>1. cursor' = cursor /\ result' = result
      BY <2>2 DEF GuardBefore, LoadFirst, LoadSecond, GuardAfter
    <3> QED BY <2>2, <3>1, AttemptStep, HandsOutNothing
  <2>3. CASE Call \/ LoadGeneration \/ LoadActive
    <3>1. cursor' = cursor /\ (result' = result \/ result'.words = None)
      BY <2>3 DEF Call, LoadGeneration, LoadActive
    <3> QED BY <2>3, <3>1, CallStep, LoadStep, HandsOutNothing
  <2>4. CASE CrystalTakes \/ CertificateTakes \/ SlotTakes
    BY <2>4, TakeStep, SMTT(30)
  <2>5. CASE UNCHANGED pageVars
    <3>1. /\ page' = page /\ banks' = banks /\ header' = header /\ writer' = writer
          /\ reader' = reader /\ cursor' = cursor /\ result' = result
      BY <2>5 DEF pageVars
    <3>2. Banks' = Banks /\ Completed' = Completed
      BY <3>1 DEF Banks, Completed
    <3>3. PagesTypeOK' /\ Seated' /\ Locked'
      BY <3>1, <3>2, SMTT(30) DEF PagesInv, PagesTypeOK, Seated, Locked
    <3>4. Found' /\ Matching' /\ Taken' /\ WholeResult'
      BY <3>1, <3>2 DEF PagesInv, Found, AtLeast, Matching, Taken, CopyOK, WholeResult
    <3> QED BY <3>1, <3>3, <3>4, HandsOutNothing DEF PagesInv
  <2> QED BY <2>1, <2>2, <2>3, <2>4, <2>5 DEF PagesNext, WriterStep
<1>3. PagesInv => (result.words # None =>
                     result.words[1] = result.words[2] /\ result.words[1] >= result.fresh)
  BY DEF PagesInv, WholeResult
<1> QED BY <1>1, <1>2, <1>3, PTL DEF PagesSpec, SnapshotsAreWhole

=============================================================================
