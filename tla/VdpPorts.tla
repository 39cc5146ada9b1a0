------------------------------ MODULE VdpPorts ------------------------------
(***************************************************************************)
(* The two ports of the VDP (VdpDevice): the control port, whose words are *)
(* register writes or halves of an address command that may start a DMA,   *)
(* and the data port, which reads, writes or fills the RAM the last        *)
(* command selected.                                                       *)
(*                                                                         *)
(* The bytes stored are abstracted: `accesses` lists the bytes of the RAM  *)
(* that the last port access touched, in order, and `result` how it ended. *)
(* A byte beyond the end of the RAM is listed like any other: the code     *)
(* touches it, and none of the state below lives in that memory.           *)
(***************************************************************************)
EXTENDS Integers, Sequences

CONSTANTS
  VramSize,        \* kVramSize, which is also the range of ram_address_
  VsramSize,       \* kVsramSize
  CramSize,        \* kCramSize
  RegisterWrites   \* the <<register, byte>> pairs the program writes

Byte == 0..255

Register ==
  {"ModeSet2", "AutoIncrement", "DmaLengthLow", "DmaLengthHigh",
   "DmaSourceLow", "DmaSourceMiddle", "DmaSourceHigh"}

ASSUME SizeAssumption ==
  /\ VramSize \in Nat /\ VramSize > 0 /\ VramSize % 4 = 0
  /\ VsramSize \in 1..VramSize
  /\ CramSize \in 1..VramSize

ASSUME WritesAssumption == RegisterWrites \subseteq Register \X Byte

VARIABLES
  registers,    \* registers_, as far as they steer the ports
  \* what the process_... handlers extracted from them
  allow_dma,                 \* allow_dma_
  vblank_interrupt_enabled,  \* vblank_interrupt_enabled_
  auto_increment,            \* auto_increment_
  dma_length_words,          \* dma_length_words_
  dma_source_words,          \* dma_source_words_
  dma_type,                  \* dma_type_
  \* the ports
  first_half,   \* first_half_
  use_dma,      \* use_dma_
  ram_kind,     \* ram_kind_
  ram_address,  \* ram_address_
  accesses,     \* the places of the RAM the last access touched
  result,       \* what the last access was and how it ended
  spoiled       \* history: since the last good command, a command failed or the
                \* type of an armed DMA was rewritten

fields == <<allow_dma, vblank_interrupt_enabled, auto_increment, dma_length_words,
            dma_source_words, dma_type>>
ports == <<first_half, use_dma, ram_kind, ram_address>>
vars  == <<registers, fields, ports, accesses, result, spoiled>>

-----------------------------------------------------------------------------
(* Registers.  Bytes and words are numbers; fields are read by division.   *)

\* A one-bit field, given by its place value.
Bit(v, place) == (v \div place) % 2 = 1

DmaTypes == {"MemoryToVram", "VramFill", "VramCopy"}

\* The operation type in the two high bits of DmaSourceHigh: 0 and 1 transfer.
DmaTypeOf(v) ==
  CASE v \div 64 = 2 -> "VramFill"
    [] v \div 64 = 3 -> "VramCopy"
    [] OTHER         -> "MemoryToVram"

\* Operation 1 stands for bit 22 of the source, the highest one.
SourceHigh(v) == 65536 * (v % 64) + (IF v \div 64 = 1 THEN 4194304 ELSE 0)

\* Mutant: the old low byte is not masked out.
LengthLowUnmasked(v) == dma_length_words + v

\* dma_length_words_ with another low byte.
LengthLow(v) == (dma_length_words - (dma_length_words % 256)) + v

ModeSet2(v) ==
  /\ allow_dma' = Bit(v, 16)
  /\ vblank_interrupt_enabled' = Bit(v, 32)
  /\ UNCHANGED <<auto_increment, dma_length_words, dma_source_words, dma_type>>

AutoIncrement(v) ==
  /\ auto_increment' = v
  /\ UNCHANGED <<allow_dma, vblank_interrupt_enabled, dma_length_words,
                 dma_source_words, dma_type>>

DmaLength(words) ==
  /\ dma_length_words' = words
  /\ UNCHANGED <<allow_dma, vblank_interrupt_enabled, auto_increment,
                 dma_source_words, dma_type>>

DmaSource(words, type) ==
  /\ dma_source_words' = words
  /\ dma_type' = type
  /\ UNCHANGED <<allow_dma, vblank_interrupt_enabled, auto_increment, dma_length_words>>

\* The handler of each register.
Process(r, v) ==
  \/ r = "ModeSet2"        /\ ModeSet2(v)
  \/ r = "AutoIncrement"   /\ AutoIncrement(v)
  \/ r = "DmaLengthLow"    /\ DmaLength(LengthLow(v))
  \/ r = "DmaLengthHigh"   /\ DmaLength((dma_length_words % 256) + 256 * v)
  \/ /\ r = "DmaSourceLow"
     /\ DmaSource((dma_source_words - (dma_source_words % 256)) + v, dma_type)
  \/ /\ r = "DmaSourceMiddle"
     /\ DmaSource((dma_source_words - (dma_source_words % 65536)) + 256 * v
                    + (dma_source_words % 256), dma_type)
  \/ /\ r = "DmaSourceHigh"
     /\ DmaSource((dma_source_words % 65536) + SourceHigh(v), DmaTypeOf(v))

-----------------------------------------------------------------------------
(* Address commands.  The first half holds the low bits of the address and *)
(* CD1-CD0, the second half the high two bits of the address and CD5-CD2.  *)
(* CD4 is not looked at.                                                   *)

\* A word that begins with the bits 100 is a register write instead.
FirstHalves ==
  {h \in [low : 0..(VramSize \div 4 - 1), cd10 : 0..3] :
     h.cd10 = 2 => h.low >= VramSize \div 8}
SecondHalves == [high : 0..3, cd32 : 0..3, cd5 : BOOLEAN]

None == [low |-> -1, cd10 |-> -1]

Mask(first, second) == 4 * second.cd32 + first.cd10

RamKinds == {"Vram", "Vsram", "Cram"}

\* The RAM a mask selects; the other masks are invalid.
SelectedKind ==
  [m \in {0, 1, 3, 4, 5, 8} |->
     CASE m \in {0, 1} -> "Vram"
       [] m \in {3, 8} -> "Cram"
       [] m \in {4, 5} -> "Vsram"]

RamSize(kind) ==
  CASE kind = "Vram"  -> VramSize
    [] kind = "Vsram" -> VsramSize
    [] kind = "Cram"  -> CramSize

\* Mutant: the address is kept in a wider integer.
WrapNever(a) == a

\* ram_address_ is a 16-bit word: every assignment to it wraps.
Wrap(a) == a % VramSize

\* count bytes of which each is stored after the address was advanced by inc.
BytesAt(a, inc, count) == [i \in 1..count |-> Wrap(a + (i - 1) * inc)]

\* The bytes of count words stored that way.
WordsAt(a, inc, count) ==
  [i \in 1..(2 * count) |-> Wrap(a + ((i - 1) \div 2) * inc) + ((i - 1) % 2)]

\* A block of count bytes.
Block(a, count) == [i \in 1..count |-> a + i - 1]

Results == [op : {"start", "register", "first", "command", "transfer", "write",
                  "fill", "read"},
            ended : {"ok", "error", "abort"},
            from : 0..(VramSize - 1)]

Result(op, ended) == [op |-> op, ended |-> ended, from |-> ram_address]

Running == result.ended # "abort"

TypeOK ==
  /\ registers \in [Register -> Byte]
  /\ allow_dma \in BOOLEAN
  /\ vblank_interrupt_enabled \in BOOLEAN
  /\ auto_increment \in Byte
  /\ dma_length_words \in Nat
  /\ dma_source_words \in Nat
  /\ dma_type \in DmaTypes
  /\ first_half \in FirstHalves \cup {None}
  /\ use_dma \in BOOLEAN
  /\ ram_kind \in RamKinds
  /\ ram_address \in 0..(VramSize - 1)
  /\ accesses \in Seq(Nat)
  /\ result \in Results
  /\ spoiled \in BOOLEAN

Init ==
  /\ registers = [r \in Register |-> 0]
  /\ allow_dma = FALSE /\ vblank_interrupt_enabled = FALSE
  /\ auto_increment = 0
  /\ dma_length_words = 0 /\ dma_source_words = 0
  /\ dma_type = "MemoryToVram"
  /\ first_half = None
  /\ use_dma = FALSE
  /\ ram_kind = "Vram"
  /\ ram_address = 0
  /\ accesses = <<>>
  /\ result = [op |-> "start", ended |-> "ok", from |-> 0]
  /\ spoiled = FALSE

-----------------------------------------------------------------------------
(* The control port: process_vdp_control.                                  *)

WriteRegister(r, v) ==
  /\ registers' = [registers EXCEPT ![r] = v]
  /\ Process(r, v)
  /\ accesses' = <<>>
  /\ result' = Result("register", "ok")
  /\ spoiled' = (spoiled \/ (use_dma /\ r = "DmaSourceHigh"))
  /\ UNCHANGED ports

\* Commands 0x98..0x9F name no register.
WriteNoRegister ==
  /\ accesses' = <<>>
  /\ result' = Result("register", "error")
  /\ UNCHANGED <<registers, fields, ports, spoiled>>

WriteFirstHalf(first) ==
  /\ first_half = None
  /\ first_half' = first
  /\ accesses' = <<>>
  /\ result' = Result("first", "ok")
  /\ UNCHANGED <<registers, fields, use_dma, ram_kind, ram_address, spoiled>>

\* What a second half sets before anything can fail.
Select(second) ==
  /\ ram_address' = first_half.low + (VramSize \div 4) * second.high
  /\ use_dma' = (second.cd5 /\ allow_dma)

Transfers(second) ==
  /\ second.cd5 /\ allow_dma
  /\ dma_type = "MemoryToVram"

\* The mask is invalid, or the DMA is a VRAM copy: the command fails half-way,
\* with the first half still there.
FailCommand(second) ==
  /\ first_half # None
  /\ Select(second)
  /\ \/ /\ Mask(first_half, second) \notin DOMAIN SelectedKind
        /\ UNCHANGED ram_kind
     \/ /\ Mask(first_half, second) \in DOMAIN SelectedKind
        /\ ram_kind' = SelectedKind[Mask(first_half, second)]
        /\ use_dma' /\ dma_type = "VramCopy"
  /\ accesses' = <<>>
  /\ result' = Result("command", "error")
  /\ spoiled' = TRUE
  /\ UNCHANGED <<registers, fields, first_half>>

\* The command only selects, or it also arms a fill.
SelectRam(second) ==
  /\ first_half # None
  /\ Mask(first_half, second) \in DOMAIN SelectedKind
  /\ Select(second)
  /\ use_dma' => dma_type = "VramFill"
  /\ ram_kind' = SelectedKind[Mask(first_half, second)]
  /\ first_half' = None
  /\ accesses' = <<>>
  /\ result' = Result("command", "ok")
  /\ spoiled' = FALSE
  /\ UNCHANGED <<registers, fields>>

Smaller(a, b) == IF a < b THEN a ELSE b

\* Mutant: the length in words is used as if it were in bytes.
SafeLengthOfWords(kind, a, len) ==
  IF a <= RamSize(kind) THEN Smaller(len \div 2, RamSize(kind) - a) ELSE len \div 2

\* The 32-bit difference `ram.size() - ram_address_` of a place beyond the end
\* is huge, so that nothing is clipped.
SafeLength(kind, a, len) ==
  IF a <= RamSize(kind) THEN Smaller(len, RamSize(kind) - a) ELSE len

\* Mutant: use_dma_ is not reset when the transfer is done.
StillUsesDma(ended) == TRUE

\* use_dma_ after a transfer: an error returns before it is reset.
UsesDmaAfter(ended) == ended # "ok"

\* Mutant: the latch is not reset.
LatchKept(ended) == first_half

\* first_half_ after a transfer: an error returns before it is reset.
LatchAfter(ended) == IF ended = "ok" THEN None ELSE first_half

\* A DMA from memory is performed at once.  With an increment of 2 the bus is
\* asked for one block, otherwise for word after word, and it may fail at any.
TransferDma(second) ==
  LET kind  == SelectedKind[Mask(first_half, second)]
      from  == first_half.low + (VramSize \div 4) * second.high
      inc   == auto_increment
      words == dma_length_words
      Done(n, ended) ==
        /\ ram_address' = Wrap(from + n * inc)
        /\ use_dma' = UsesDmaAfter(ended)
        /\ first_half' = LatchAfter(ended)
        /\ result' = [op |-> "transfer", ended |-> ended, from |-> from]
        /\ spoiled' = (ended # "ok")
  IN /\ first_half # None
     /\ Mask(first_half, second) \in DOMAIN SelectedKind
     /\ Transfers(second)
     /\ ram_kind' = kind
     /\ \/ /\ inc = 2
           /\ accesses' = Block(from, SafeLength(kind, from, 2 * words))
           /\ Done(words, "ok")
        \/ /\ inc = 2
           /\ accesses' = <<>>
           /\ Done(0, "error")
        \/ /\ inc # 2
           /\ accesses' = WordsAt(from, inc, words)
           /\ Done(words, "ok")
        \/ /\ inc # 2
           /\ \E n \in 0..(words - 1) :
                accesses' = WordsAt(from, inc, n) /\ Done(n, "error")
     /\ UNCHANGED <<registers, fields>>

-----------------------------------------------------------------------------
(* The data port: process_vdp_data, and the data case of read.             *)

\* std::abort() on a DMA that is neither done nor a fill.
AbortOnData ==
  /\ use_dma /\ dma_type # "VramFill"
  /\ accesses' = <<>>
  /\ result' = Result("write", "abort")
  /\ UNCHANGED <<registers, fields, ports, spoiled>>

\* The address a fill starts from: with an increment above 1, the other byte of
\* the word.
FillStart ==
  IF auto_increment <= 1 THEN ram_address
  ELSE IF ram_address % 2 = 0 THEN ram_address + 1
  ELSE ram_address - 1

FillRam ==
  LET bytes == 2 * dma_length_words
      inc   == auto_increment
  IN /\ use_dma /\ dma_type = "VramFill"
     /\ accesses' = BytesAt(FillStart, inc, bytes)
     /\ ram_address' = Wrap(FillStart + bytes * inc)
     /\ use_dma' = FALSE
     /\ result' = Result("fill", "ok")
     /\ spoiled' = FALSE
     /\ UNCHANGED <<registers, fields, first_half, ram_kind>>

\* Mutant: the bound is off by one.
FitsLoosely(a) == a < RamSize(ram_kind)

\* Both bytes of a word at a are inside the RAM.
Fits(a) == a + 1 < RamSize(ram_kind)

\* A word that does not fit is dropped; the address advances all the same.
WriteWord ==
  /\ ~use_dma
  /\ accesses' = IF Fits(ram_address) THEN Block(ram_address, 2) ELSE <<>>
  /\ ram_address' = Wrap(ram_address + auto_increment)
  /\ result' = Result("write", "ok")
  /\ UNCHANGED <<registers, fields, first_half, use_dma, ram_kind, spoiled>>

\* Reading advances by the bytes read, whatever the increment is.
ReadBytes(count) ==
  /\ accesses' = BytesAt(ram_address, 1, count)
  /\ ram_address' = Wrap(ram_address + count)
  /\ result' = Result("read", "ok")
  /\ UNCHANGED <<registers, fields, first_half, use_dma, ram_kind, spoiled>>

Next ==
  /\ Running
  /\ \/ \E w \in RegisterWrites : WriteRegister(w[1], w[2])
     \/ WriteNoRegister
     \/ \E first \in FirstHalves : WriteFirstHalf(first)
     \/ \E second \in SecondHalves : FailCommand(second)
     \/ \E second \in SecondHalves : SelectRam(second)
     \/ \E second \in SecondHalves : TransferDma(second)
     \/ AbortOnData
     \/ FillRam
     \/ WriteWord
     \/ \E count \in {1, 2} : ReadBytes(count)

Spec == Init /\ [][Next]_vars

-----------------------------------------------------------------------------
(* Properties.                                                             *)

\* The fields depend on the bytes last written to the registers and on nothing
\* before, whatever order they came in: vdp_device.cpp:309 restores a VDP by
\* writing the saved registers_ again.
FieldsFollowRegisters ==
  /\ allow_dma = Bit(registers["ModeSet2"], 16)
  /\ vblank_interrupt_enabled = Bit(registers["ModeSet2"], 32)
  /\ auto_increment = registers["AutoIncrement"]
  /\ dma_length_words =
       registers["DmaLengthLow"] + 256 * registers["DmaLengthHigh"]
  /\ dma_source_words =
       registers["DmaSourceLow"] + 256 * registers["DmaSourceMiddle"]
         + SourceHigh(registers["DmaSourceHigh"])
  /\ dma_type = DmaTypeOf(registers["DmaSourceHigh"])

\* vdp_device.cpp:446 "can do fast DMA, just whole block of memory": the block
\* is what the word-by-word loop would have stored, up to the end of the RAM,
\* and leaves the address where that loop would have left it.
FastDmaIsWordByWord ==
  result.op = "transfer" /\ result.ended = "ok" /\ auto_increment = 2 =>
    LET room  == RamSize(ram_kind) - result.from
        words == dma_length_words
    IN /\ room >= 0 =>
            accesses = SubSeq(WordsAt(result.from, 2, words), 1, Smaller(2 * words, room))
       /\ ram_address = Wrap(result.from + 2 * words)

\* Words written through the data port stay inside the selected RAM, wherever
\* commands, DMAs and earlier accesses have left the address.
WritesStayInside ==
  result.op = "write" =>
    \A i \in DOMAIN accesses : accesses[i] < RamSize(ram_kind)

\* vdp_device.cpp:397 "set RAM address second half": halves stay paired across
\* whatever is done between them.  The latch changes with every accepted half
\* and with nothing else; a command that fails leaves its first half behind.
HalvesStayPaired ==
  [][(first_half' # first_half) <=>
       (result'.op \in {"first", "command", "transfer"} /\ result'.ended = "ok")]_vars

\* vdp_device.cpp:471 "unsupported DMA type", where the program aborts: a DMA
\* other than a fill waits for the data port only after a command that failed,
\* or when the type of an armed fill was rewritten; a later good command or
\* fill always clears it.
OnlyFillsWait ==
  use_dma /\ dma_type # "VramFill" => spoiled

=============================================================================
