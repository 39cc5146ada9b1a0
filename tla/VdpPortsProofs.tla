--------------------------- MODULE VdpPortsProofs ---------------------------
(***************************************************************************)
(* Proofs about VdpPorts, for RAMs of any size and any register writes.    *)
(***************************************************************************)
EXTENDS VdpPorts, TLAPS

\* The address stays a word of the VRAM's range.
LEMMA WrapInRange ==
  ASSUME NEW a \in Int
  PROVE  Wrap(a) \in 0..(VramSize - 1)
BY SizeAssumption DEF Wrap

\* Strides and blocks from any start and of any length are lists of places.
LEMMA StridesAreBytes ==
  ASSUME NEW a \in Nat, NEW inc \in Nat, NEW count \in Nat
  PROVE  /\ BytesAt(a, inc, count) \in Seq(Nat)
         /\ WordsAt(a, inc, count) \in Seq(Nat)
         /\ Block(a, count) \in Seq(Nat)
<1>1. ASSUME NEW i \in 1..count PROVE Wrap(a + (i - 1) * inc) \in Nat
  BY WrapInRange
<1>2. ASSUME NEW i \in 1..(2 * count)
      PROVE  Wrap(a + ((i - 1) \div 2) * inc) + ((i - 1) % 2) \in Nat
  <2>1. (i - 1) \div 2 \in Int /\ (i - 1) % 2 \in 0..1
    OBVIOUS
  <2>2. a + ((i - 1) \div 2) * inc \in Int
    BY <2>1
  <2> QED BY <2>1, <2>2, WrapInRange
<1>3. ASSUME NEW i \in 1..count PROVE a + i - 1 \in Nat
  OBVIOUS
<1> QED BY <1>1, <1>2, <1>3 DEF BytesAt, WordsAt, Block

\* SourceHigh stands for bits above the two low bytes.
LEMMA SourceHighBits ==
  ASSUME NEW v \in Byte
  PROVE  \E k \in Nat : SourceHigh(v) = 65536 * k
<1>1. v % 64 \in Nat
  BY DEF Byte
<1>2. SourceHigh(v) = 65536 * ((v % 64) + (IF v \div 64 = 1 THEN 64 ELSE 0))
  BY <1>1 DEF SourceHigh
<1> QED BY <1>1, <1>2

\* Masking a number of two bytes and a rest.
LEMMA Masks ==
  ASSUME NEW a \in Byte, NEW b \in Byte, NEW k \in Nat
  PROVE  /\ (a + 256 * b) % 256 = a
         /\ (a + 256 * b + 65536 * k) % 256 = a
         /\ (a + 256 * b + 65536 * k) % 65536 = a + 256 * b
BY DEF Byte

\* The length follows its two registers: each handler masks the byte it replaces
\* and no more.
LEMMA LengthFollows ==
  ASSUME NEW low \in Byte, NEW high \in Byte, NEW v \in Byte,
         dma_length_words = low + 256 * high
  PROVE  /\ LengthLow(v) = v + 256 * high
         /\ (dma_length_words % 256) + 256 * v = low + 256 * v
<1>1. dma_length_words % 256 = low
  BY Masks
<1>2. dma_length_words - (dma_length_words % 256) = 256 * high
  BY <1>1 DEF Byte
<1> QED BY <1>1, <1>2 DEF LengthLow, Byte

\* The source follows its three registers.
LEMMA SourceFollows ==
  ASSUME NEW low \in Byte, NEW middle \in Byte, NEW k \in Nat, NEW v \in Byte,
         dma_source_words = low + 256 * middle + 65536 * k
  PROVE  /\ (dma_source_words - (dma_source_words % 256)) + v
              = v + 256 * middle + 65536 * k
         /\ (dma_source_words - (dma_source_words % 65536)) + 256 * v
              + (dma_source_words % 256) = low + 256 * v + 65536 * k
         /\ dma_source_words % 65536 = low + 256 * middle
<1>1. dma_source_words % 256 = low /\ dma_source_words % 65536 = low + 256 * middle
  BY Masks
<1>2. /\ dma_source_words - (dma_source_words % 256) = 256 * middle + 65536 * k
      /\ dma_source_words - (dma_source_words % 65536) = 65536 * k
  BY <1>1 DEF Byte
<1> QED BY <1>1, <1>2 DEF Byte

\* A register write keeps the fields equal to what the registers say.
LEMMA WriteFollows ==
  ASSUME registers \in [Register -> Byte], FieldsFollowRegisters,
         NEW r \in Register, NEW v \in Byte,
         registers' = [registers EXCEPT ![r] = v], Process(r, v)
  PROVE  FieldsFollowRegisters'
<1> DEFINE low    == registers["DmaLengthLow"]
           high   == registers["DmaLengthHigh"]
           source == registers["DmaSourceLow"]
           middle == registers["DmaSourceMiddle"]
<1>1. low \in Byte /\ high \in Byte /\ source \in Byte /\ middle \in Byte
  BY DEF Register
<1>2. PICK k \in Nat : SourceHigh(registers["DmaSourceHigh"]) = 65536 * k
  BY SourceHighBits DEF Register
<1>3. \A q \in Register : registers'[q] = IF q = r THEN v ELSE registers[q]
  OBVIOUS
<1>4. /\ dma_length_words = low + 256 * high
      /\ dma_source_words = source + 256 * middle + 65536 * k
  BY <1>2 DEF FieldsFollowRegisters
<1>5. CASE r = "ModeSet2"
  BY <1>3, <1>5 DEF Process, ModeSet2, FieldsFollowRegisters, Register
<1>6. CASE r = "AutoIncrement"
  BY <1>3, <1>6 DEF Process, AutoIncrement, FieldsFollowRegisters, Register
<1>7. CASE r = "DmaLengthLow"
  <2>1. dma_length_words' = v + 256 * high
    BY <1>1, <1>4, <1>7, LengthFollows DEF Process, DmaLength
  <2> QED BY <1>3, <1>7, <2>1 DEF Process, DmaLength, FieldsFollowRegisters, Register
<1>8. CASE r = "DmaLengthHigh"
  <2>1. dma_length_words' = low + 256 * v
    BY <1>1, <1>4, <1>8, LengthFollows DEF Process, DmaLength
  <2> QED BY <1>3, <1>8, <2>1 DEF Process, DmaLength, FieldsFollowRegisters, Register
<1>9. CASE r = "DmaSourceLow"
  <2>1. dma_source_words' = v + 256 * middle + 65536 * k
    BY <1>1, <1>4, <1>9, SourceFollows DEF Process, DmaSource
  <2> QED BY <1>2, <1>3, <1>9, <2>1 DEF Process, DmaSource, FieldsFollowRegisters, Register
<1>10. CASE r = "DmaSourceMiddle"
  <2>1. dma_source_words' = source + 256 * v + 65536 * k
    BY <1>1, <1>4, <1>10, SourceFollows DEF Process, DmaSource
  <2> QED BY <1>2, <1>3, <1>10, <2>1 DEF Process, DmaSource, FieldsFollowRegisters, Register
<1>11. CASE r = "DmaSourceHigh"
  <2>1. dma_source_words' = source + 256 * middle + SourceHigh(v)
    BY <1>1, <1>4, <1>11, SourceFollows DEF Process, DmaSource
  <2> QED BY <1>3, <1>11, <2>1 DEF Process, DmaSource, FieldsFollowRegisters, Register
<1> QED BY <1>5, <1>6, <1>7, <1>8, <1>9, <1>10, <1>11 DEF Register

-----------------------------------------------------------------------------
(* Types.                                                                  *)

\* A command's two halves make an address.
LEMMA CommandAddress ==
  ASSUME NEW first \in FirstHalves, NEW second \in SecondHalves
  PROVE  first.low + (VramSize \div 4) * second.high \in 0..(VramSize - 1)
<1> DEFINE q == VramSize \div 4
<1>1. q \in Nat /\ VramSize = 4 * q
  BY SizeAssumption
<1>2. first.low \in 0..(q - 1) /\ second.high \in 0..3
  BY <1>1 DEF FirstHalves, SecondHalves
<1>3. q * second.high \in 0..(3 * q)
  <2>1. second.high = 0 \/ second.high = 1 \/ second.high = 2 \/ second.high = 3
    BY <1>2
  <2> HIDE DEF q
  <2> QED BY <1>1, <2>1
<1> HIDE DEF q
<1>4. first.low + q * second.high \in 0..(VramSize - 1)
  BY <1>1, <1>2, <1>3
<1> QED BY <1>4 DEF q

\* Masking out low bits leaves a number.
LEMMA MaskedIsNat ==
  ASSUME NEW n \in Nat
  PROVE  n - (n % 256) \in Nat /\ n - (n % 65536) \in Nat /\ n % 256 \in Nat /\ n % 65536 \in Nat
OBVIOUS

\* A register write leaves the fields' types alone.
LEMMA WriteTypes ==
  ASSUME NEW r \in Register, NEW v \in Byte, Process(r, v),
         allow_dma \in BOOLEAN, vblank_interrupt_enabled \in BOOLEAN,
         auto_increment \in Byte, dma_length_words \in Nat,
         dma_source_words \in Nat, dma_type \in DmaTypes
  PROVE  /\ allow_dma' \in BOOLEAN /\ vblank_interrupt_enabled' \in BOOLEAN
         /\ auto_increment' \in Byte /\ dma_length_words' \in Nat
         /\ dma_source_words' \in Nat /\ dma_type' \in DmaTypes
<1>1. LengthLow(v) \in Nat /\ SourceHigh(v) \in Nat /\ v \in Nat
  BY MaskedIsNat, SourceHighBits DEF LengthLow, Byte
<1>2. DmaTypeOf(v) \in DmaTypes
  BY DEF DmaTypeOf, DmaTypes
<1>3. CASE r = "ModeSet2"
  BY <1>3 DEF Process, ModeSet2, Bit
<1>4. CASE r = "AutoIncrement"
  BY <1>4 DEF Process, AutoIncrement
<1>5. CASE r \in {"DmaLengthLow", "DmaLengthHigh"}
  BY <1>1, <1>5, MaskedIsNat DEF Process, DmaLength
<1>6. CASE r \in {"DmaSourceLow", "DmaSourceMiddle", "DmaSourceHigh"}
  <2> DEFINE low    == (dma_source_words - (dma_source_words % 256)) + v
             middle == (dma_source_words - (dma_source_words % 65536)) + 256 * v
                         + (dma_source_words % 256)
             high   == (dma_source_words % 65536) + SourceHigh(v)
  <2>1. low \in Nat /\ middle \in Nat /\ high \in Nat
    BY <1>1, MaskedIsNat
  <2>2. \/ DmaSource(low, dma_type)
        \/ DmaSource(middle, dma_type)
        \/ DmaSource(high, DmaTypeOf(v))
    BY <1>6 DEF Process
  <2> HIDE DEF low, middle, high
  <2> QED BY <1>2, <2>1, <2>2 DEF DmaSource
<1> QED BY <1>3, <1>4, <1>5, <1>6 DEF Register

\* An address advanced n times is one of the VRAM's range.
LEMMA AdvanceInRange ==
  ASSUME NEW a \in Nat, NEW n \in Nat, NEW inc \in Nat
  PROVE  Wrap(a + n * inc) \in 0..(VramSize - 1)
<1>1. n * inc \in Nat
  OBVIOUS
<1> DEFINE d == n * inc
<1>2. a + d \in Int
  <2> HIDE DEF d
  <2>1. d \in Nat
    BY <1>1 DEF d
  <2> QED BY <2>1
<1> QED BY <1>2, WrapInRange

\* A clipped length is a length.
LEMMA SafeLengthIsNat ==
  ASSUME NEW kind \in RamKinds, NEW a \in Nat, NEW len \in Nat
  PROVE  SafeLength(kind, a, len) \in Nat
<1>1. RamSize(kind) \in Nat
  BY SizeAssumption DEF RamKinds, RamSize
<1> QED BY <1>1 DEF SafeLength, Smaller

\* What a transfer leaves.
LEMMA TransferTypes ==
  ASSUME dma_length_words \in Nat, auto_increment \in Byte,
         first_half \in FirstHalves \cup {None},
         NEW second \in SecondHalves, TransferDma(second)
  PROVE  /\ accesses' \in Seq(Nat)
         /\ ram_address' \in 0..(VramSize - 1)
         /\ use_dma' \in BOOLEAN /\ spoiled' \in BOOLEAN
         /\ first_half' \in FirstHalves \cup {None}
         /\ ram_kind' \in RamKinds
         /\ result' \in Results
<1> DEFINE kind == SelectedKind[Mask(first_half, second)]
           from == first_half.low + (VramSize \div 4) * second.high
           Done(n, ended) ==
             /\ ram_address' = Wrap(from + n * auto_increment)
             /\ use_dma' = UsesDmaAfter(ended)
             /\ first_half' = LatchAfter(ended)
             /\ result' = [op |-> "transfer", ended |-> ended, from |-> from]
             /\ spoiled' = (ended # "ok")
<1>1. first_half \in FirstHalves
  BY DEF TransferDma
<1>2. from \in 0..(VramSize - 1) /\ from \in Nat
  BY <1>1, CommandAddress, SizeAssumption
<1>3. kind \in RamKinds /\ ram_kind' = kind
  BY DEF TransferDma, SelectedKind, RamKinds
<1>4. auto_increment \in Nat
  BY DEF Byte
<1> HIDE DEF kind, from
<1>5. ASSUME NEW n \in Nat, NEW ended \in {"ok", "error"}, Done(n, ended)
      PROVE  /\ ram_address' \in 0..(VramSize - 1)
             /\ use_dma' \in BOOLEAN /\ spoiled' \in BOOLEAN
             /\ first_half' \in FirstHalves \cup {None}
             /\ result' \in Results
  <2>1. ram_address' \in 0..(VramSize - 1)
    BY <1>2, <1>4, <1>5, AdvanceInRange
  <2>2. result' \in Results
    BY <1>2, <1>5 DEF Results
  <2> QED BY <1>1, <1>5, <2>1, <2>2 DEF UsesDmaAfter, LatchAfter
<1>6. /\ \/ /\ accesses' = Block(from, SafeLength(kind, from, 2 * dma_length_words))
            /\ Done(dma_length_words, "ok")
         \/ accesses' = <<>> /\ Done(0, "error")
         \/ /\ accesses' = WordsAt(from, auto_increment, dma_length_words)
            /\ Done(dma_length_words, "ok")
         \/ \E n \in 0..(dma_length_words - 1) :
              accesses' = WordsAt(from, auto_increment, n) /\ Done(n, "error")
  BY DEF TransferDma, kind, from
<1> HIDE DEF Done
<1>7. CASE accesses' = Block(from, SafeLength(kind, from, 2 * dma_length_words))
             /\ Done(dma_length_words, "ok")
  <2>1. 2 * dma_length_words \in Nat
    OBVIOUS
  <2>2. accesses' \in Seq(Nat)
    BY <1>2, <1>3, <1>4, <1>7, <2>1, SafeLengthIsNat, StridesAreBytes
  <2> QED BY <1>3, <1>5, <1>7, <2>2
<1>8. CASE accesses' = <<>> /\ Done(0, "error")
  BY <1>3, <1>5, <1>8
<1>9. CASE accesses' = WordsAt(from, auto_increment, dma_length_words)
             /\ Done(dma_length_words, "ok")
  <2>1. accesses' \in Seq(Nat)
    BY <1>2, <1>4, <1>9, StridesAreBytes
  <2> QED BY <1>3, <1>5, <1>9, <2>1
<1>10. ASSUME NEW n \in 0..(dma_length_words - 1),
              accesses' = WordsAt(from, auto_increment, n), Done(n, "error")
       PROVE  accesses' \in Seq(Nat) /\ Done(n, "error") /\ n \in Nat
  <2>1. n \in Nat
    OBVIOUS
  <2> QED BY <1>2, <1>4, <1>10, <2>1, StridesAreBytes
<1> QED BY <1>3, <1>5, <1>6, <1>7, <1>8, <1>9, <1>10

\* A fill starts at a place, whatever the increment.
LEMMA FillStartIsNat ==
  ASSUME ram_address \in Nat
  PROVE  FillStart \in Nat
BY DEF FillStart

\* Every access leaves the types alone.
LEMMA TypeStep == TypeOK /\ [Next]_vars => TypeOK'
<1> SUFFICES ASSUME TypeOK, [Next]_vars
             PROVE  TypeOK'
  OBVIOUS
<1> USE DEF TypeOK, vars, ports, fields, Results, Result
<1>0. ram_address \in Nat /\ <<>> \in Seq(Nat)
  BY SizeAssumption
<1>1. ASSUME NEW w \in RegisterWrites, WriteRegister(w[1], w[2])
      PROVE  TypeOK'
  <2>1. w[1] \in Register /\ w[2] \in Byte
    BY WritesAssumption
  <2>2. registers' \in [Register -> Byte]
    BY <1>1, <2>1 DEF WriteRegister
  <2>3. /\ allow_dma' \in BOOLEAN /\ vblank_interrupt_enabled' \in BOOLEAN
        /\ auto_increment' \in Byte /\ dma_length_words' \in Nat
        /\ dma_source_words' \in Nat /\ dma_type' \in DmaTypes
    BY <1>1, <2>1, WriteTypes DEF WriteRegister
  <2>4. spoiled' \in BOOLEAN
    BY <1>1 DEF WriteRegister
  <2> QED BY <1>0, <1>1, <2>2, <2>3, <2>4 DEF WriteRegister
<1>2. CASE WriteNoRegister
  BY <1>0, <1>2 DEF WriteNoRegister
<1>3. ASSUME NEW first \in FirstHalves, WriteFirstHalf(first)
      PROVE  TypeOK'
  BY <1>0, <1>3 DEF WriteFirstHalf
<1>4. ASSUME NEW second \in SecondHalves, FailCommand(second)
      PROVE  TypeOK'
  BY <1>0, <1>4, CommandAddress DEF FailCommand, Select, SelectedKind, RamKinds
<1>5. ASSUME NEW second \in SecondHalves, SelectRam(second)
      PROVE  TypeOK'
  BY <1>0, <1>5, CommandAddress DEF SelectRam, Select, SelectedKind, RamKinds
<1>6. ASSUME NEW second \in SecondHalves, TransferDma(second)
      PROVE  TypeOK'
  <2>1. UNCHANGED <<registers, fields>>
    BY <1>6 DEF TransferDma
  <2>2. /\ accesses' \in Seq(Nat)
        /\ ram_address' \in 0..(VramSize - 1)
        /\ use_dma' \in BOOLEAN /\ spoiled' \in BOOLEAN
        /\ first_half' \in FirstHalves \cup {None}
        /\ ram_kind' \in RamKinds
        /\ result' \in Results
    BY <1>6, TransferTypes
  <2> QED BY <2>1, <2>2
<1>7. CASE AbortOnData
  BY <1>0, <1>7 DEF AbortOnData
<1>8. CASE FillRam
  <2> DEFINE bytes == 2 * dma_length_words
  <2>1. bytes \in Nat /\ auto_increment \in Nat /\ FillStart \in Nat
    BY <1>0, FillStartIsNat DEF Byte
  <2>2. /\ accesses' = BytesAt(FillStart, auto_increment, bytes)
        /\ ram_address' = Wrap(FillStart + bytes * auto_increment)
    BY <1>8 DEF FillRam
  <2> HIDE DEF bytes
  <2>3. accesses' \in Seq(Nat) /\ ram_address' \in 0..(VramSize - 1)
    BY <2>1, <2>2, StridesAreBytes, AdvanceInRange
  <2> QED BY <1>8, <2>3 DEF FillRam
<1>9. CASE WriteWord
  <2>1. accesses' \in Seq(Nat)
    BY <1>0, <1>9, StridesAreBytes DEF WriteWord
  <2>2. ram_address' \in 0..(VramSize - 1)
    BY <1>0, <1>9, WrapInRange DEF WriteWord, Byte
  <2> QED BY <1>9, <2>1, <2>2 DEF WriteWord
<1>10. ASSUME NEW count \in {1, 2}, ReadBytes(count)
       PROVE  TypeOK'
  <2>1. accesses' \in Seq(Nat)
    BY <1>0, <1>10, StridesAreBytes DEF ReadBytes
  <2>2. ram_address' \in 0..(VramSize - 1)
    BY <1>0, <1>10, WrapInRange DEF ReadBytes
  <2> QED BY <1>10, <2>1, <2>2 DEF ReadBytes
<1>11. CASE UNCHANGED vars
  BY <1>11
<1> QED BY <1>1, <1>2, <1>3, <1>4, <1>5, <1>6, <1>7, <1>8, <1>9, <1>10, <1>11 DEF Next
-----------------------------------------------------------------------------
(* The properties, step by step.                                           *)

\* Only register writes change the fields, and they keep them equal to what the
\* registers say.
LEMMA FieldsStep ==
  ASSUME TypeOK, FieldsFollowRegisters, [Next]_vars
  PROVE  FieldsFollowRegisters'
<1>1. ASSUME NEW w \in RegisterWrites, WriteRegister(w[1], w[2])
      PROVE  FieldsFollowRegisters'
  <2>1. w[1] \in Register /\ w[2] \in Byte
    BY WritesAssumption
  <2> QED BY <1>1, <2>1, WriteFollows DEF WriteRegister, TypeOK
<1>2. CASE UNCHANGED <<registers, fields>>
  BY <1>2 DEF FieldsFollowRegisters, fields
<1>3. \/ \E w \in RegisterWrites : WriteRegister(w[1], w[2])
      \/ UNCHANGED <<registers, fields>>
  BY DEF Next, vars, WriteNoRegister, WriteFirstHalf, FailCommand, SelectRam,
         TransferDma, AbortOnData, FillRam, WriteWord, ReadBytes
<1> QED BY <1>1, <1>2, <1>3

\* Only a word written through the data port ends in "write" with an access, and
\* its bound is that of the selected RAM.
LEMMA WritesStep ==
  ASSUME TypeOK, WritesStayInside, [Next]_vars
  PROVE  WritesStayInside'
<1>1. ram_address \in Nat /\ RamSize(ram_kind) \in Nat
  BY SizeAssumption DEF TypeOK, RamKinds, RamSize
<1>2. CASE WriteWord
  <2>1. ram_kind' = ram_kind /\ RamSize(ram_kind)' = RamSize(ram_kind)
    BY <1>2 DEF WriteWord, RamSize
  <2>2. CASE Fits(ram_address)
    <3>1. accesses' = [i \in 1..2 |-> ram_address + i - 1]
      BY <1>2, <2>2 DEF WriteWord, Block
    <3> QED BY <1>1, <2>1, <2>2, <3>1 DEF Fits, WritesStayInside
  <2>3. CASE ~Fits(ram_address)
    <3>1. accesses' = <<>>
      BY <1>2, <2>3 DEF WriteWord
    <3> QED BY <3>1 DEF WritesStayInside
  <2> QED BY <2>2, <2>3
<1>3. CASE AbortOnData
  <2>1. accesses' = <<>>
    BY <1>3 DEF AbortOnData
  <2> QED BY <2>1 DEF WritesStayInside
<1>4. CASE result'.op # "write"
  BY <1>4 DEF WritesStayInside
<1>5. CASE UNCHANGED vars
  <2>1. UNCHANGED <<accesses, result, ram_kind>>
    BY <1>5 DEF vars, ports
  <2> QED BY <2>1 DEF WritesStayInside, RamSize
<1>6. WriteWord \/ AbortOnData \/ result'.op # "write" \/ UNCHANGED vars
  BY DEF Next, Result, WriteRegister, WriteNoRegister, WriteFirstHalf, FailCommand,
         SelectRam, TransferDma, FillRam, ReadBytes
<1> QED BY <1>2, <1>3, <1>4, <1>5, <1>6

\* A command that ends well leaves a fill or nothing waiting; every other step
\* that leaves a transfer or a copy waiting is a failure or rewrites the type.
LEMMA WaitsStep ==
  ASSUME TypeOK, OnlyFillsWait, [Next]_vars
  PROVE  OnlyFillsWait'
<1> USE DEF OnlyFillsWait, TypeOK, vars, ports, fields
<1>1. ASSUME NEW w \in RegisterWrites, WriteRegister(w[1], w[2])
      PROVE  OnlyFillsWait'
  <2>1. CASE w[1] = "DmaSourceHigh"
    BY <1>1, <2>1 DEF WriteRegister
  <2>2. CASE w[1] # "DmaSourceHigh"
    <3>1. dma_type' = dma_type
      BY <1>1, <2>2 DEF WriteRegister, Process, ModeSet2, AutoIncrement, DmaLength, DmaSource
    <3> QED BY <1>1, <3>1 DEF WriteRegister
  <2> QED BY <2>1, <2>2
<1>2. CASE WriteNoRegister
  BY <1>2 DEF WriteNoRegister
<1>3. ASSUME NEW first \in FirstHalves, WriteFirstHalf(first)
      PROVE  OnlyFillsWait'
  BY <1>3 DEF WriteFirstHalf
<1>4. ASSUME NEW second \in SecondHalves, FailCommand(second)
      PROVE  OnlyFillsWait'
  BY <1>4 DEF FailCommand
<1>5. ASSUME NEW second \in SecondHalves, SelectRam(second)
      PROVE  OnlyFillsWait'
  BY <1>5 DEF SelectRam
<1>6. ASSUME NEW second \in SecondHalves, TransferDma(second)
      PROVE  OnlyFillsWait'
  <2>1. use_dma' => spoiled'
    BY <1>6 DEF TransferDma, UsesDmaAfter
  <2> QED BY <2>1
<1>7. CASE AbortOnData
  BY <1>7 DEF AbortOnData
<1>8. CASE FillRam
  BY <1>8 DEF FillRam
<1>9. CASE WriteWord
  BY <1>9 DEF WriteWord
<1>10. ASSUME NEW count \in {1, 2}, ReadBytes(count)
       PROVE  OnlyFillsWait'
  BY <1>10 DEF ReadBytes
<1>11. CASE UNCHANGED vars
  BY <1>11
<1> QED BY <1>1, <1>2, <1>3, <1>4, <1>5, <1>6, <1>7, <1>8, <1>9, <1>10, <1>11 DEF Next

\* A first half is told from an empty latch.
LEMMA HalfIsSomething ==
  ASSUME NEW first \in FirstHalves
  PROVE  first # None
<1>1. first.low \in Nat
  BY DEF FirstHalves
<1> QED BY <1>1 DEF None

\* The latch changes with an accepted half only.
LEMMA LatchStep ==
  ASSUME TypeOK, Next
  PROVE  (first_half' # first_half) <=>
           (result'.op \in {"first", "command", "transfer"} /\ result'.ended = "ok")
<1> DEFINE Paired ==
      (first_half' # first_half) <=>
        (result'.op \in {"first", "command", "transfer"} /\ result'.ended = "ok")
<1>1. ASSUME NEW first \in FirstHalves, WriteFirstHalf(first)
      PROVE  Paired
  BY <1>1, HalfIsSomething DEF WriteFirstHalf, Result
<1>2. ASSUME NEW second \in SecondHalves, SelectRam(second)
      PROVE  Paired
  BY <1>2 DEF SelectRam, Result
<1>3. ASSUME NEW second \in SecondHalves, TransferDma(second)
      PROVE  Paired
  BY <1>3 DEF TransferDma, LatchAfter
<1>4. CASE first_half' = first_half /\ (result'.ended # "ok" \/
             result'.op \notin {"first", "command", "transfer"})
  BY <1>4
<1>5. \/ \E first \in FirstHalves : WriteFirstHalf(first)
      \/ \E second \in SecondHalves : SelectRam(second) \/ TransferDma(second)
      \/ first_half' = first_half /\ (result'.ended # "ok" \/
             result'.op \notin {"first", "command", "transfer"})
  BY DEF Next, Result, ports, WriteRegister, WriteNoRegister, FailCommand, AbortOnData,
         FillRam, WriteWord, ReadBytes
<1> QED BY <1>1, <1>2, <1>3, <1>4, <1>5

-----------------------------------------------------------------------------
(* A block is what the word-by-word loop would store, up to the end of the *)
(* RAM: before it no address wraps.                                        *)

\* A number is twice its half and the remainder.
LEMMA EvenPart ==
  ASSUME NEW i \in Nat
  PROVE  (i \div 2) * 2 + (i % 2) = i /\ (i \div 2) * 2 \in Nat
OBVIOUS

\* An address inside the VRAM does not wrap.
LEMMA NoWrap ==
  ASSUME NEW a \in Nat, a < VramSize
  PROVE  Wrap(a) = a
BY SizeAssumption DEF Wrap

\* The block is what the loop visits, up to the end of the RAM.
LEMMA BlockIsWords ==
  ASSUME NEW kind \in RamKinds, NEW a \in 0..(VramSize - 1), NEW words \in Nat,
         RamSize(kind) - a >= 0
  PROVE  Block(a, SafeLength(kind, a, 2 * words)) =
           SubSeq(WordsAt(a, 2, words), 1, Smaller(2 * words, RamSize(kind) - a))
<1> DEFINE room == RamSize(kind) - a
           n    == Smaller(2 * words, room)
           w    == WordsAt(a, 2, words)
<1>1. RamSize(kind) \in Nat /\ RamSize(kind) <= VramSize /\ VramSize \in Nat
  BY SizeAssumption DEF RamSize, RamKinds
<1>2. a \in Nat /\ room \in Nat
  BY <1>1
<1>3. n \in Nat /\ n <= 2 * words /\ n <= room
  BY <1>2 DEF Smaller
<1>4. SafeLength(kind, a, 2 * words) = n
  BY <1>1, <1>2 DEF SafeLength
<1>5. ASSUME NEW i \in 1..n
      PROVE  w[i] = a + i - 1
  <2> DEFINE even == ((i - 1) \div 2) * 2
             odd  == (i - 1) % 2
  <2>1. i - 1 \in Nat /\ i \in 1..(2 * words)
    BY <1>3
  <2>2. even + odd = i - 1 /\ even \in Nat /\ odd \in Nat
    BY <2>1, EvenPart
  <2>3. w[i] = Wrap(a + even) + odd
    BY <2>1 DEF WordsAt
  <2> HIDE DEF even, odd, w, n, room
  <2>4. a + even \in Nat /\ a + even < VramSize
    <3>1. even < n
      BY <1>3, <2>2
    <3>2. room = RamSize(kind) - a
      BY DEF room
    <3> QED BY <1>1, <1>2, <1>3, <2>2, <3>1, <3>2
  <2> QED BY <1>2, <2>2, <2>3, <2>4, NoWrap
<1>6. SubSeq(w, 1, n) = [i \in 1..n |-> w[i]]
  <2>1. w \in Seq(Nat)
    BY <1>2, StridesAreBytes
  <2> HIDE DEF w, n
  <2> QED BY <1>3, <2>1
<1>7. Block(a, n) = [i \in 1..n |-> a + i - 1]
  BY DEF Block
<1> HIDE DEF w, n
<1> QED BY <1>4, <1>5, <1>6, <1>7 DEF n, w

\* A block transfer ends as the loop would; no other step claims to be one.
LEMMA FastDmaStep ==
  ASSUME TypeOK, FastDmaIsWordByWord, [Next]_vars
  PROVE  FastDmaIsWordByWord'
<1>1. ASSUME NEW second \in SecondHalves, TransferDma(second)
      PROVE  FastDmaIsWordByWord'
  <2> DEFINE kind  == SelectedKind[Mask(first_half, second)]
             from  == first_half.low + (VramSize \div 4) * second.high
             words == dma_length_words
  <2> SUFFICES ASSUME result'.ended = "ok", auto_increment = 2
               PROVE  FastDmaIsWordByWord'
    BY <1>1 DEF FastDmaIsWordByWord, TransferDma, fields
  <2>1. /\ ram_kind' = kind /\ kind \in RamKinds
        /\ accesses' = Block(from, SafeLength(kind, from, 2 * words))
        /\ ram_address' = Wrap(from + words * 2)
        /\ result'.from = from
        /\ dma_length_words' = words
    BY <1>1 DEF TransferDma, fields, SelectedKind, RamKinds
  <2>2. first_half \in FirstHalves
    BY <1>1 DEF TransferDma, TypeOK
  <2>3. from \in 0..(VramSize - 1) /\ words \in Nat
    BY <2>2, CommandAddress DEF TypeOK
  <2> HIDE DEF kind, from, words
  <2>4. RamSize(kind) - from >= 0 =>
          accesses' = SubSeq(WordsAt(from, 2, words), 1,
                             Smaller(2 * words, RamSize(kind) - from))
    BY <2>1, <2>3, BlockIsWords
  <2>5. ram_address' = Wrap(from + 2 * words)
    BY <2>1, <2>3
  <2> QED BY <2>1, <2>4, <2>5
          DEF FastDmaIsWordByWord, RamSize, WordsAt, Wrap, Smaller
<1>2. CASE result'.op # "transfer"
  BY <1>2 DEF FastDmaIsWordByWord
<1>3. CASE UNCHANGED vars
  <2>1. UNCHANGED <<accesses, result, ram_kind, ram_address, auto_increment, dma_length_words>>
    BY <1>3 DEF vars, ports, fields
  <2> QED BY <2>1 DEF FastDmaIsWordByWord, RamSize, WordsAt, Wrap, Smaller
<1>4. \/ \E second \in SecondHalves : TransferDma(second)
      \/ result'.op # "transfer"
      \/ UNCHANGED vars
  BY DEF Next, Result, WriteRegister, WriteNoRegister, WriteFirstHalf, FailCommand,
         SelectRam, AbortOnData, FillRam, WriteWord, ReadBytes
<1> QED BY <1>1, <1>2, <1>3, <1>4

-----------------------------------------------------------------------------
(* Theorems.                                                               *)

\* The properties hold at first.
LEMMA InitHolds ==
  Init => /\ TypeOK /\ FieldsFollowRegisters /\ WritesStayInside
          /\ OnlyFillsWait /\ FastDmaIsWordByWord
<1> SUFFICES ASSUME Init
             PROVE  /\ TypeOK /\ FieldsFollowRegisters /\ WritesStayInside
                    /\ OnlyFillsWait /\ FastDmaIsWordByWord
  OBVIOUS
<1>1. TypeOK
  <2>1. registers \in [Register -> Byte] /\ auto_increment \in Byte
    BY DEF Init, Byte
  <2>2. ram_address \in 0..(VramSize - 1) /\ result \in Results
    <3>1. 0 \in 0..(VramSize - 1)
      BY SizeAssumption
    <3> QED BY <3>1 DEF Init, Results
  <2>3. /\ dma_length_words \in Nat /\ dma_source_words \in Nat
        /\ dma_type \in DmaTypes /\ ram_kind \in RamKinds
        /\ accesses \in Seq(Nat)
    BY DEF Init, DmaTypes, RamKinds
  <2>4. /\ allow_dma \in BOOLEAN /\ vblank_interrupt_enabled \in BOOLEAN
        /\ use_dma \in BOOLEAN /\ spoiled \in BOOLEAN
        /\ first_half \in FirstHalves \cup {None}
    BY DEF Init
  <2> QED BY <2>1, <2>2, <2>3, <2>4 DEF TypeOK
<1>2. FieldsFollowRegisters
  <2>1. \A r \in Register : registers[r] = 0
    BY DEF Init
  <2>2. ~Bit(0, 16) /\ ~Bit(0, 32) /\ SourceHigh(0) = 0 /\ DmaTypeOf(0) = "MemoryToVram"
    BY DEF Bit, SourceHigh, DmaTypeOf
  <2>3. /\ registers["ModeSet2"] = 0 /\ registers["AutoIncrement"] = 0
        /\ registers["DmaLengthLow"] = 0 /\ registers["DmaLengthHigh"] = 0
        /\ registers["DmaSourceLow"] = 0 /\ registers["DmaSourceMiddle"] = 0
        /\ registers["DmaSourceHigh"] = 0
    BY <2>1 DEF Register
  <2>4. /\ allow_dma = Bit(registers["ModeSet2"], 16)
        /\ vblank_interrupt_enabled = Bit(registers["ModeSet2"], 32)
    BY <2>2, <2>3 DEF Init, Bit
  <2>5. /\ auto_increment = 0 /\ dma_length_words = 0 /\ dma_source_words = 0
        /\ dma_type = DmaTypeOf(registers["DmaSourceHigh"])
        /\ SourceHigh(registers["DmaSourceHigh"]) = 0
    BY <2>2, <2>3 DEF Init
  <2> QED BY <2>3, <2>4, <2>5 DEF FieldsFollowRegisters
<1>3. WritesStayInside /\ OnlyFillsWait /\ FastDmaIsWordByWord
  BY DEF Init, WritesStayInside, OnlyFillsWait, FastDmaIsWordByWord
<1> QED BY <1>1, <1>2, <1>3

\* Every access of the ports keeps the state inside its types: the address stays
\* a word of the VRAM's range whatever lengths and increments are programmed.
THEOREM TypeCorrect == Spec => []TypeOK
<1>1. Init => TypeOK
  BY InitHolds
<1> QED BY <1>1, TypeStep, PTL DEF Spec

\* The extracted fields are a function of the bytes last written, so writing the
\* saved registers again restores them (vdp_device.cpp:309).
THEOREM RegistersDetermineFields == Spec => []FieldsFollowRegisters
<1>1. Init => FieldsFollowRegisters
  BY InitHolds
<1>2. TypeOK /\ FieldsFollowRegisters /\ [Next]_vars => FieldsFollowRegisters'
  BY FieldsStep
<1> QED BY <1>1, <1>2, TypeCorrect, PTL DEF Spec

\* The block DMA of vdp_device.cpp:444-451 stores what the loop below it would,
\* up to the end of the RAM, for every length, address and size of the RAMs.
THEOREM FastDmaIsFaithful == Spec => []FastDmaIsWordByWord
<1>1. Init => FastDmaIsWordByWord
  BY InitHolds
<1>2. TypeOK /\ FastDmaIsWordByWord /\ [Next]_vars => FastDmaIsWordByWord'
  BY FastDmaStep
<1> QED BY <1>1, <1>2, TypeCorrect, PTL DEF Spec

\* No word written through the data port leaves the selected RAM.
THEOREM DataPortStaysInside == Spec => []WritesStayInside
<1>1. Init => WritesStayInside
  BY InitHolds
<1>2. TypeOK /\ WritesStayInside /\ [Next]_vars => WritesStayInside'
  BY WritesStep
<1> QED BY <1>1, <1>2, TypeCorrect, PTL DEF Spec

\* The data port aborts (vdp_device.cpp:470-473) only after a failed command or
\* when the type of an armed fill was rewritten.
THEOREM AbortNeedsFailure == Spec => []OnlyFillsWait
<1>1. Init => OnlyFillsWait
  BY InitHolds
<1>2. TypeOK /\ OnlyFillsWait /\ [Next]_vars => OnlyFillsWait'
  BY WaitsStep
<1> QED BY <1>1, <1>2, TypeCorrect, PTL DEF Spec

\* First and second halves stay paired: nothing but an accepted half changes the
\* latch.
THEOREM HalvesArePaired == Spec => HalvesStayPaired
<1> DEFINE Paired ==
      (first_half' # first_half) <=>
        (result'.op \in {"first", "command", "transfer"} /\ result'.ended = "ok")
<1>1. TypeOK /\ [Next]_vars => [Paired]_vars
  BY LatchStep
<1> HIDE DEF Paired
<1>2. Spec => [][Paired]_vars
  BY <1>1, TypeCorrect, PTL DEF Spec
<1> QED BY <1>2 DEF HalvesStayPaired, Paired

=============================================================================
