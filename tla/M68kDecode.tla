----------------------------- MODULE M68kDecode -----------------------------
(***************************************************************************)
(* Instruction::decode of src/src/m68k/instruction/decode.cpp: from an     *)
(* opcode and the words that follow it to the instruction M68k executes.   *)
(*                                                                         *)
(* The decoder works on the fields that every pattern of the code is made  *)
(* of: the line (bits 15-12), r (11-9), b (8), sz (7-6), mode (5-3) and    *)
(* xn (2-0).  An extension word stands for itself by its place after the   *)
(* opcode, in bytes, so that a property can tell which word went where.    *)
(***************************************************************************)
EXTENDS M68kTypes, SequencesExt

CONSTANTS
    Opcodes,      \* the opcodes to decode
    Readable      \* how many words the bus can read from the opcode on

VARIABLES
    op,           \* the opcode, as its fields
    readable,     \* the words that can be read
    decoded       \* what decode returned

vars == <<op, readable, decoded>>

Three == 0 .. 7
Fields == [line : 0 .. 15, r : Three, b : Bit, sz : 0 .. 3, mode : Three, xn : Three]

-----------------------------------------------------------------------------
(* The chain of patterns.  A row has the form of instruction it decodes    *)
(* and the values it asks of each field; the first row that matches wins.  *)
Row(form, lines, rs, bs, szs, modes, xns) ==
    [form |-> form, line |-> lines, r |-> rs, b |-> bs, sz |-> szs, mode |-> modes, xn |-> xns]

AnySz == 0 .. 3
Sized == 0 .. 2

IfChain == <<
    Row("Reset",  {4},     {7},   {0}, {1},    {6},    {0}),
    Row("Nop",    {4},     {7},   {0}, {1},    {6},    {1}),
    Row("Dbcc",   {5},     Three, Bit, {3},    {1},    Three),
    Row("Scc",    {5},     Three, Bit, {3},    Three,  Three),
    Row("Quick",  {5},     Three, Bit, AnySz,  Three,  Three),
    Row("Bcd",    {8, 12}, Three, {1}, {0},    {0, 1}, Three),
    Row("Extend", {9, 13}, Three, {1}, Sized,  {0, 1}, Three),
    Row("Branch", {6},     Three, Bit, AnySz,  Three,  Three),
    Row("Jump",   {4},     {7},   {0}, {2, 3}, Three,  Three),
    Row("Lea",    {4},     Three, {1}, {3},    Three,  Three),
    Row("Cmpm",   {11},    Three, {1}, Sized,  {1},    Three),
    Row("Swap",   {4},     {4},   {0}, {1},    {0},    Three),
    Row("Pea",    {4},     {4},   {0}, {1},    Three,  Three),
    Row("Tas",    {4},     {5},   {0}, {3},    Three,  Three),
    Row("Exg",    {12},    Three, {1}, Sized,  {0, 1}, Three),
    Row("Ext",    {4},     {4},   {0}, {2, 3}, {0},    Three),
    Row("Link",   {4},     {7},   {0}, {1},    {2},    Three),
    Row("Unlink", {4},     {7},   {0}, {1},    {3},    Three),
    Row("Trap",   {4},     {7},   {0}, {1},    {0, 1}, Three),
    Row("Trapv",  {4},     {7},   {0}, {1},    {6},    {6}),
    Row("Rte",    {4},     {7},   {0}, {1},    {6},    {3}),
    Row("Rts",    {4},     {7},   {0}, {1},    {6},    {5}),
    Row("Rtr",    {4},     {7},   {0}, {1},    {6},    {7}),
    Row("Tst",    {4},     {5},   {0}, AnySz,  Three,  Three),
    Row("Chk",    {4},     Three, {1}, {2},    Three,  Three),
    Row("Nbcd",   {4},     {4},   {0}, {0},    Three,  Three),
    Row("Mul",    {12},    Three, Bit, {3},    Three,  Three),
    Row("Div",    {8},     Three, Bit, {3},    Three,  Three) >>

StatusRows    == << Row("ToStatus", {0}, {0, 1, 5}, {0}, {0, 1}, {7}, {4}) >>
BitRows       == << Row("BitRegister",  {0}, Three, {1}, AnySz, Three \ {1}, Three),
                    Row("BitImmediate", {0}, {4},   {0}, AnySz, Three,       Three) >>
UnaryRows     == << Row("Unary", {4}, 0 .. 3, {0}, Sized, Three, Three) >>
ShiftRows     == << Row("ShiftMemory",   {14}, 0 .. 3, Bit, {3},   Three, Three),
                    Row("ShiftRegister", {14}, Three,  Bit, Sized, Three, Three) >>
AddressRows   == << Row("BinaryAddress", {9, 11, 13}, Three, Bit, {3}, Three, Three) >>
ImmediateRows == << Row("BinaryImmediate", {0}, {0, 1, 2, 3, 5, 6}, {0}, AnySz, Three, Three) >>
BinaryRows    == << Row("Binary", {8, 9, 11, 12, 13}, Three, Bit, AnySz, Three, Three) >>
MoveRows      == << Row("Move",       1 .. 3, Three,  Bit, AnySz,  Three, Three),
                    Row("Movep",      {0},    Three,  {1}, AnySz,  {1},   Three),
                    Row("Movem",      {4},    {4, 6}, {0}, {2, 3}, Three, Three),
                    Row("Moveq",      {7},    Three,  {0}, AnySz,  Three, Three),
                    Row("MoveTo",     {4},    {2, 3}, {0}, {3},    Three, Three),
                    Row("MoveFromSr", {4},    {0},    {0}, {3},    Three, Three),
                    Row("ToUsp",      {4},    {7},    {0}, {1},    {4},   Three),
                    Row("FromUsp",    {4},    {7},    {0}, {1},    {5},   Three) >>

(* Mutant: Scc is tried before DBcc.                                       *)
ChainSccFirst ==
    InsertAt(RemoveAt(IfChain, 3), 4, IfChain[3]) \o StatusRows \o BitRows \o UnaryRows \o ShiftRows
        \o AddressRows \o ImmediateRows \o BinaryRows \o MoveRows

Chain == IfChain \o StatusRows \o BitRows \o UnaryRows \o ShiftRows
             \o AddressRows \o ImmediateRows \o BinaryRows \o MoveRows

Matches(row, o) == \A f \in DOMAIN o : o[f] \in row[f]

FirstMatch(o) == SelectInSeq(Chain, LAMBDA row : Matches(row, o))

-----------------------------------------------------------------------------
(* The decoder reads words from pc on.  d is the decoder: pc, the bytes it *)
(* has passed, and the words it can read.  The second word of an absolute  *)
(* long is different: when it cannot be read the code takes the error out  *)
(* of the first word, which has none.                                      *)
Failed == [status |-> "error"]
Unreachable == [status |-> "unreachable"]
ErrorOfValue == [status |-> "error of a value"]

CanRead(d) == d.pc < 2 * d.readable

Skip(d, n) == [d EXCEPT !.pc = @ + n]

ReadWord(d, Continue(_, _)) == IF CanRead(d) THEN Continue(Skip(d, 2), d.pc) ELSE Failed

Extended(kind, xn, w) == [kind |-> kind, index |-> xn, word |-> w]
Unindexed(kind, w) == [kind |-> kind, word |-> w]

(* An immediate is passed, not read: it is read when it is executed.       *)
Immediate(d, size, Continue(_, _)) ==
    Continue(Skip(d, IF size = Long THEN 4 ELSE 2), Imm(IF size = Byte THEN d.pc + 1 ELSE d.pc))

parse_target_with_size(d, size, mode, xn, Continue(_, _)) ==
    CASE mode = 0 -> Continue(d, DataReg(xn))
      [] mode = 1 -> Continue(d, AddrReg(xn))
      [] mode = 2 -> Continue(d, Indirect(xn))
      [] mode = 3 -> Continue(d, PostInc(xn, size))
      [] mode = 4 -> Continue(d, PreDec(xn, size))
      [] mode = 5 -> ReadWord(d, LAMBDA e, w : Continue(e, Extended("AddressDisplacement", xn, w)))
      [] mode = 6 -> ReadWord(d, LAMBDA e, w : Continue(e, Extended("AddressIndex", xn, w)))
      [] mode = 7 /\ xn = 0 -> ReadWord(d, LAMBDA e, w : Continue(e, Unindexed("AbsoluteShort", w)))
      [] mode = 7 /\ xn = 1 ->
            ReadWord(d, LAMBDA e, w :
                IF CanRead(e) THEN Continue(Skip(e, 2), AbsLong(w, e.pc)) ELSE ErrorOfValue)
      [] mode = 7 /\ xn = 2 ->
            ReadWord(d, LAMBDA e, w : Continue(e, Unindexed("ProgramCounterDisplacement", w)))
      [] mode = 7 /\ xn = 3 ->
            ReadWord(d, LAMBDA e, w : Continue(e, Unindexed("ProgramCounterIndex", w)))
      [] mode = 7 /\ xn = 4 -> Immediate(d, size, Continue)
      [] mode = 7 /\ xn > 4 -> Failed

(* 3 is an `unreachable()'; no row but that of the binary immediates asks  *)
(* for the size of such an opcode.                                         *)
get_size0(o) == CASE o.sz = 0 -> Byte [] o.sz = 1 -> Word [] o.sz = 2 -> Long
SizeOf(bit) == IF bit = 1 THEN Long ELSE Word

Conds == <<"True", "False", "Higher", "LowerOrSame", "CarryClear", "CarrySet", "NotEqual",
           "Equal", "OverflowClear", "OverflowSet", "Plus", "Minus", "GreaterOrEqual",
           "LessThan", "GreaterThan", "LessOrEqual">>
CondOf(o) == Conds[2 * o.r + o.b + 1]
LowByte(o) == 64 * o.sz + 8 * o.mode + o.xn

-----------------------------------------------------------------------------
(* What each form makes of the opcode.                                     *)
Decoded(d, inst) == [status |-> "ok", pc |-> d.pc, inst |-> inst]

Operand(d, o, size, Continue(_, _)) == parse_target_with_size(d, size, o.mode, o.xn, Continue)

Plain(d, kind) == Decoded(d, [kind |-> kind])

DecodeDbcc(d, o) ==
    ReadWord(d, LAMBDA e, w : Decoded(e, [kind |-> "Dbcc", cond |-> CondOf(o), dst |-> DataReg(o.xn),
                                          data |-> w, size |-> Word]))

(* Mutant: the operand steps by a word.                                    *)
DecodeSccOfWords(d, o) ==
    Operand(d, o, Word, LAMBDA e, t : Decoded(e, [kind |-> "Scc", cond |-> CondOf(o), dst |-> t]))

DecodeScc(d, o) ==
    Operand(d, o, Byte, LAMBDA e, t : Decoded(e, [kind |-> "Scc", cond |-> CondOf(o), dst |-> t]))

(* Mutant: the size is not stored.                                         *)
DecodeQuickUnsized(d, o) ==
    Operand(d, o, get_size0(o), LAMBDA e, t :
        Decoded(e, [kind |-> IF o.b = 1 THEN "Subq" ELSE "Addq", data |-> o.r, dst |-> t]))

DecodeQuick(d, o) ==
    Operand(d, o, get_size0(o), LAMBDA e, t :
        Decoded(e, [kind |-> IF o.b = 1 THEN "Subq" ELSE "Addq", data |-> o.r, dst |-> t,
                    size |-> get_size0(o)]))

(* Two registers, or two predecremented addresses.                         *)
Paired(mode, xn, size) == IF mode = 1 THEN PreDec(xn, size) ELSE DataReg(xn)

DecodeBcd(d, o) ==
    Decoded(d, [kind |-> IF o.line = 12 THEN "Abcd" ELSE "Sbcd",
                src |-> Paired(o.mode, o.xn, Byte), dst |-> Paired(o.mode, o.r, Byte)])

DecodeExtend(d, o) ==
    LET size == get_size0(o)
    IN  Decoded(d, [kind |-> IF o.line = 13 THEN "Addx" ELSE "Subx", size |-> size,
                    src |-> Paired(o.mode, o.xn, size), dst |-> Paired(o.mode, o.r, size)])

DecodeBranch(d, o) ==
    LET Finish(e, data, size) ==
            Decoded(e, IF CondOf(o) = "False" THEN [kind |-> "Bsr", data |-> data, size |-> size]
                       ELSE [kind |-> "Bcc", cond |-> CondOf(o), data |-> data, size |-> size])
    IN  IF LowByte(o) = 0 THEN ReadWord(d, LAMBDA e, w : Finish(e, w, Word))
                          ELSE Finish(d, LowByte(o), Byte)

DecodeJump(d, o) ==
    Operand(d, o, Long, LAMBDA e, t :
        Decoded(e, [kind |-> IF o.sz = 3 THEN "Jmp" ELSE "Jsr", dst |-> t]))

DecodeLea(d, o) ==
    Operand(d, o, Long, LAMBDA e, t : Decoded(e, [kind |-> "Lea", src |-> t, dst |-> AddrReg(o.r)]))

DecodeCmpm(d, o) ==
    LET size == get_size0(o)
    IN  Decoded(d, [kind |-> "Cmpm", size |-> size, src |-> PostInc(o.xn, size), dst |-> PostInc(o.r, size)])

DecodePea(d, o) == Operand(d, o, Long, LAMBDA e, t : Decoded(e, [kind |-> "Pea", src |-> t]))
DecodeTas(d, o) == Operand(d, o, Byte, LAMBDA e, t : Decoded(e, [kind |-> "Tas", dst |-> t]))

DecodeExg(d, o) ==
    LET Registers(src, dst) == Decoded(d, [kind |-> "Exg", src |-> src, dst |-> dst])
    IN  CASE o.sz = 1 /\ o.mode = 0 -> Registers(DataReg(o.r), DataReg(o.xn))
          [] o.sz = 1 /\ o.mode = 1 -> Registers(AddrReg(o.r), AddrReg(o.xn))
          [] OTHER                  -> Registers(DataReg(o.r), AddrReg(o.xn))

DecodeExt(d, o) == Decoded(d, [kind |-> "Ext", dst |-> DataReg(o.xn), size |-> SizeOf(o.sz % 2)])

DecodeLink(d, o) ==
    ReadWord(d, LAMBDA e, w : Decoded(e, [kind |-> "Link", dst |-> AddrReg(o.xn), data |-> w]))

DecodeTst(d, o) ==
    Operand(d, o, get_size0(o), LAMBDA e, t : Decoded(e, [kind |-> "Tst", src |-> t, size |-> get_size0(o)]))

DecodeChk(d, o) ==
    Operand(d, o, Word, LAMBDA e, t :
        Decoded(e, [kind |-> "Chk", src |-> t, dst |-> DataReg(o.r), size |-> Word]))

DecodeNbcd(d, o) ==
    Operand(d, o, Byte, LAMBDA e, t : Decoded(e, [kind |-> "Nbcd", dst |-> t, size |-> Byte]))

(* MULU, MULS, DIVU and DIVS.                                              *)
DecodeProduct(d, o, unsigned, signed) ==
    Operand(d, o, Word, LAMBDA e, t :
        Decoded(e, [kind |-> IF o.b = 1 THEN signed ELSE unsigned, src |-> t, dst |-> DataReg(o.r)]))

DecodeToStatus(d, o) ==
    LET ccr == CASE o.r = 0 -> "OriToCcr" [] o.r = 1 -> "AndiToCcr" [] o.r = 5 -> "EoriToCcr"
        sr  == CASE o.r = 0 -> "OriToSr"  [] o.r = 1 -> "AndiToSr"  [] o.r = 5 -> "EoriToSr"
    IN  Immediate(d, IF o.sz = 1 THEN Word ELSE Byte, LAMBDA e, t :
            Decoded(e, [kind |-> IF o.sz = 1 THEN sr ELSE ccr, src |-> t]))

BitKind(o) == <<"Btst", "Bchg", "Bclr", "Bset">>[o.sz + 1]

DecodeBitRegister(d, o) ==
    Operand(d, o, Byte, LAMBDA e, t :
        Decoded(e, [kind |-> BitKind(o), src |-> DataReg(o.r), dst |-> t, size |-> Byte]))

(* Mutant: the immediate is not passed.                                    *)
DecodeBitImmediateInPlace(d, o) ==
    Operand(d, o, Byte, LAMBDA f, t :
        Decoded(f, [kind |-> BitKind(o), src |-> Imm(d.pc + 1), dst |-> t, size |-> Byte]))

DecodeBitImmediate(d, o) ==
    Immediate(d, Byte, LAMBDA e, s : Operand(e, o, Byte, LAMBDA f, t :
        Decoded(f, [kind |-> BitKind(o), src |-> s, dst |-> t, size |-> Byte])))

DecodeUnary(d, o) ==
    Operand(d, o, get_size0(o), LAMBDA e, t :
        Decoded(e, [kind |-> <<"Negx", "Clr", "Neg", "Not">>[o.r + 1], dst |-> t, size |-> get_size0(o)]))

ShiftKind(o, index) ==
    IF o.b = 1 THEN <<"Asl", "Lsl", "Roxl", "Rol">>[index + 1] ELSE <<"Asr", "Lsr", "Roxr", "Ror">>[index + 1]

DecodeShiftMemory(d, o) ==
    Operand(d, o, Word, LAMBDA e, t :
        Decoded(e, [kind |-> ShiftKind(o, o.r), dst |-> t, size |-> Word, data |-> 1]))

DecodeShiftRegister(d, o) ==
    LET kind == ShiftKind(o, o.mode % 4)
    IN  Decoded(d, IF o.mode >= 4
                   THEN [kind |-> kind, dst |-> DataReg(o.xn), size |-> get_size0(o), src |-> DataReg(o.r)]
                   ELSE [kind |-> kind, dst |-> DataReg(o.xn), size |-> get_size0(o), data |-> o.r])

DecodeBinaryAddress(d, o) ==
    LET size == SizeOf(o.b)
    IN  Operand(d, o, size, LAMBDA e, t :
            Decoded(e, [kind |-> CASE o.line = 9 -> "Suba" [] o.line = 11 -> "Cmpa" [] o.line = 13 -> "Adda",
                        src |-> t, dst |-> AddrReg(o.r), size |-> size]))

DecodeBinaryImmediate(d, o) ==
    IF o.sz = 3 THEN Unreachable
    ELSE LET size == get_size0(o)
         IN  Immediate(d, size, LAMBDA e, s : Operand(e, o, size, LAMBDA f, t :
                 Decoded(f, [kind |-> <<"Ori", "Andi", "Subi", "Addi", "", "Eori", "Cmpi">>[o.r + 1],
                             src |-> s, dst |-> t, size |-> size])))

(* "some hack": without bit 8 EOR is CMP.                                  *)
DecodeBinary(d, o) ==
    LET kind == CASE o.line = 8 -> "Or" [] o.line = 9 -> "Sub" [] o.line = 12 -> "And" [] o.line = 13 -> "Add"
                  [] o.line = 11 -> IF o.b = 1 THEN "Eor" ELSE "Cmp"
        size == get_size0(o)
    IN  Operand(d, o, size, LAMBDA e, t :
            Decoded(e, IF o.b = 1
                       THEN [kind |-> kind, src |-> DataReg(o.r), dst |-> t, size |-> size]
                       ELSE [kind |-> kind, src |-> t, dst |-> DataReg(o.r), size |-> size]))

(* The destination has its mode and register the other way round; data is  *)
(* the program counter behind the source.                                  *)
MoveDstMode(o) == 4 * o.b + o.sz

DecodeMove(d, o) ==
    LET size == CASE o.line = 1 -> Byte [] o.line = 3 -> Word [] o.line = 2 -> Long
    IN  Operand(d, o, size, LAMBDA e, s :
            parse_target_with_size(e, size, MoveDstMode(o), o.r, LAMBDA f, t :
                Decoded(f, [kind |-> IF MoveDstMode(o) = 1 THEN "Movea" ELSE "Move",
                            src |-> s, dst |-> t, size |-> size, data |-> e.pc])))

DecodeMovep(d, o) ==
    ReadWord(d, LAMBDA e, w :
        LET memory == Extended("AddressDisplacement", o.xn, w)
            size   == SizeOf(o.sz % 2)
        IN  Decoded(e, IF o.sz >= 2
                       THEN [kind |-> "Movep", src |-> DataReg(o.r), dst |-> memory, size |-> size]
                       ELSE [kind |-> "Movep", src |-> memory, dst |-> DataReg(o.r), size |-> size]))

DecodeMovem(d, o) ==
    ReadWord(d, LAMBDA e, w : Operand(e, o, SizeOf(o.sz % 2), LAMBDA f, t :
        Decoded(f, IF o.r = 6
                   THEN [kind |-> "Movem", list |-> w, size |-> SizeOf(o.sz % 2), src |-> t]
                   ELSE [kind |-> "Movem", list |-> w, size |-> SizeOf(o.sz % 2), dst |-> t])))

DecodeMoveTo(d, o) ==
    Operand(d, o, Word, LAMBDA e, t :
        Decoded(e, [kind |-> IF o.r = 3 THEN "MoveToSr" ELSE "MoveToCcr", src |-> t]))

DecodeMoveFromSr(d, o) == Operand(d, o, Word, LAMBDA e, t : Decoded(e, [kind |-> "MoveFromSr", dst |-> t]))

-----------------------------------------------------------------------------
Build(form, d, o) ==
    CASE form \in {"Reset", "Nop", "Rte", "Rts", "Rtr"} -> Plain(d, form)
      [] form = "Dbcc"   -> DecodeDbcc(d, o)
      [] form = "Scc"    -> DecodeScc(d, o)
      [] form = "Quick"  -> DecodeQuick(d, o)
      [] form = "Bcd"    -> DecodeBcd(d, o)
      [] form = "Extend" -> DecodeExtend(d, o)
      [] form = "Branch" -> DecodeBranch(d, o)
      [] form = "Jump"   -> DecodeJump(d, o)
      [] form = "Lea"    -> DecodeLea(d, o)
      [] form = "Cmpm"   -> DecodeCmpm(d, o)
      [] form = "Swap"   -> Decoded(d, [kind |-> "Swap", dst |-> DataReg(o.xn)])
      [] form = "Pea"    -> DecodePea(d, o)
      [] form = "Tas"    -> DecodeTas(d, o)
      [] form = "Exg"    -> DecodeExg(d, o)
      [] form = "Ext"    -> DecodeExt(d, o)
      [] form = "Link"   -> DecodeLink(d, o)
      [] form = "Unlink" -> Decoded(d, [kind |-> "Unlink", dst |-> AddrReg(o.xn)])
      [] form = "Trap"   -> Decoded(d, [kind |-> "Trap", data |-> 32 + 8 * o.mode + o.xn])
      [] form = "Trapv"  -> Decoded(d, [kind |-> "Trapv", data |-> 7])
      [] form = "Tst"    -> DecodeTst(d, o)
      [] form = "Chk"    -> DecodeChk(d, o)
      [] form = "Nbcd"   -> DecodeNbcd(d, o)
      [] form = "Mul"    -> DecodeProduct(d, o, "Mulu", "Muls")
      [] form = "Div"    -> DecodeProduct(d, o, "Divu", "Divs")
      [] form = "ToStatus"        -> DecodeToStatus(d, o)
      [] form = "BitRegister"     -> DecodeBitRegister(d, o)
      [] form = "BitImmediate"    -> DecodeBitImmediate(d, o)
      [] form = "Unary"           -> DecodeUnary(d, o)
      [] form = "ShiftMemory"     -> DecodeShiftMemory(d, o)
      [] form = "ShiftRegister"   -> DecodeShiftRegister(d, o)
      [] form = "BinaryAddress"   -> DecodeBinaryAddress(d, o)
      [] form = "BinaryImmediate" -> DecodeBinaryImmediate(d, o)
      [] form = "Binary"     -> DecodeBinary(d, o)
      [] form = "Move"       -> DecodeMove(d, o)
      [] form = "Movep"      -> DecodeMovep(d, o)
      [] form = "Movem"      -> DecodeMovem(d, o)
      [] form = "Moveq"      -> Decoded(d, [kind |-> "Moveq", data |-> LowByte(o), dst |-> DataReg(o.r)])
      [] form = "MoveTo"     -> DecodeMoveTo(d, o)
      [] form = "MoveFromSr" -> DecodeMoveFromSr(d, o)
      [] form = "ToUsp"      -> Decoded(d, [kind |-> "MoveToUsp", src |-> AddrReg(o.xn)])
      [] form = "FromUsp"    -> Decoded(d, [kind |-> "MoveFromUsp", dst |-> AddrReg(o.xn)])

decode(o, words) ==
    ReadWord([pc |-> 0, readable |-> words], LAMBDA d, w :
        LET k == FirstMatch(o) IN IF k = 0 THEN Failed ELSE Build(Chain[k].form, d, o))

NotDecoded == [status |-> "none"]

Init ==
    /\ op \in Opcodes
    /\ readable \in Readable
    /\ decoded = NotDecoded

Decode ==
    /\ decoded = NotDecoded
    /\ decoded' = decode(op, readable)
    /\ UNCHANGED <<op, readable>>

Spec == Init /\ [][Decode]_vars

-----------------------------------------------------------------------------
IsDecoded == decoded.status = "ok"
inst == decoded.inst
Operands == Roles \cap DOMAIN inst

(* Of two patterns that match an opcode the earlier one is a special case  *)
(* of the later one: no branch of decode.cpp:462-588 hides part of what    *)
(* another was written for.                                                *)
Narrower(row, other) == \A f \in DOMAIN op \ {"line"} : row[f] \subseteq other[f]

EarlierIsNarrower ==
    \A k \in DOMAIN Chain : Matches(Chain[k], op) =>
        \A j \in k + 1 .. Len(Chain) : Matches(Chain[j], op) => Narrower(Chain[k], Chain[j])

(* The decoder sets what Instruction::execute reads of an instruction of   *)
(* its kind, no operand more, and gives the kind the operands that the     *)
(* lifter expects of it.                                                   *)
FieldsSet ==
    IsDecoded =>
        /\ Operands \in OperandsUsed(inst) /\ Given(inst)
        /\ inst.kind \in UsesSize => "size" \in DOMAIN inst
        /\ inst.kind \in UsesData \/ (inst.kind \in Shifts /\ "src" \notin DOMAIN inst) => "data" \in DOMAIN inst
        /\ inst.kind \in {"Bcc", "Dbcc", "Scc"} => "cond" \in DOMAIN inst
        /\ inst.kind = "Movem" => "list" \in DOMAIN inst

(* An operand (An)+ or -(An) steps by what the instruction transfers: the  *)
(* decoder gives the size to the target, execute.cpp reads and writes with *)
(* the size of the kind or of the instruction.                             *)
StepsByTransfer ==
    IsDecoded => \A role \in Operands :
        inst[role].kind \in {"AddressIncrement", "AddressDecrement"} => inst[role].size = TransferSize(inst)

(* The words behind the opcode belong to one part of the instruction each: *)
(* its own word first, then those of the source and of the destination, up *)
(* to the program counter the next instruction is decoded at.  MOVE's data *)
(* is where the source ends.  None but those of an immediate may be out of *)
(* the bus's reach.                                                        *)
OwnWord(i) ==
    CASE i.kind \in {"Link", "Dbcc"} -> {i.data}
      [] i.kind \in {"Bcc", "Bsr"} /\ i.size = Word -> {i.data}
      [] i.kind = "Movem" -> {i.list}
      [] OTHER -> {}

ImmediateSize(i) == CASE i.kind \in ToSrKinds -> Word [] OTHER -> TransferSize(i)

WordsOf(i, role) ==
    LET t == i[role]
    IN  CASE role \notin DOMAIN i -> {}
          [] t.kind \in {"AddressDisplacement", "AddressIndex", "AbsoluteShort",
                         "ProgramCounterDisplacement", "ProgramCounterIndex"} -> {t.word}
          [] t.kind = "AbsoluteLong" -> {t.word, t.low}
          [] t.kind = "Immediate" -> IF ImmediateSize(i) = Byte THEN {t.address - 1}
                                     ELSE {t.address + k : k \in {0, ImmediateSize(i) - 2}}
          [] OTHER -> {}

Stacked(parts, end) ==    \* the parts follow each other from the opcode to end
    LET place[k \in 0 .. Len(parts)] ==
            IF k = 0 THEN 2 ELSE place[k - 1] + 2 * Cardinality(parts[k])
    IN  /\ place[Len(parts)] = end
        /\ \A k \in DOMAIN parts : parts[k] = {place[k - 1] + 2 * n : n \in 0 .. Cardinality(parts[k]) - 1}

WordsFollow ==
    IsDecoded =>
        /\ Stacked(<<OwnWord(inst), WordsOf(inst, "src"), WordsOf(inst, "dst")>>, decoded.pc)
        /\ inst.kind \in {"Move", "Movea"} => Stacked(<<WordsOf(inst, "src")>>, inst.data)
        /\ \A w \in UNION {WordsOf(inst, role) : role \in {r \in Operands : inst[r].kind # "Immediate"}}
                 \cup OwnWord(inst) : w < 2 * readable

=============================================================================
