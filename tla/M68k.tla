-------------------------------- MODULE M68k --------------------------------
(***************************************************************************)
(* Instruction::execute of src/src/m68k/instruction/execute.cpp: what each *)
(* instruction of the interpreter does to a machine.                       *)
(*                                                                         *)
(* An instruction is a record: its kind, and the fields the kind uses:     *)
(* size, src, dst (has_src_ and has_dst_ are the presence of the field),   *)
(* data, cond, and list, the registers of MOVEM's mask.                    *)
(***************************************************************************)
EXTENDS M68kTargets

BinaryKinds  == {"Add", "Addi", "And", "Andi", "Cmp", "Cmpi", "Cmpm", "Eor", "Eori",
                 "Or", "Ori", "Sub", "Subi"}
AddressKinds == {"Adda", "Cmpa", "Suba"}
QuickKinds   == {"Addq", "Subq"}
ExtendKinds  == {"Addx", "Subx"}
ToCcrKinds   == {"AndiToCcr", "EoriToCcr", "OriToCcr"}
ToSrKinds    == {"AndiToSr", "EoriToSr", "OriToSr"}
BitKinds     == {"Bchg", "Bclr", "Bset", "Btst"}
UnaryKinds   == {"Clr", "Neg", "Negx", "Not"}

opcode_type(kind) ==
    CASE kind \in {"Add", "Adda", "Addi", "Addq", "Addx"}         -> "Add"
      [] kind \in {"And", "Andi", "AndiToCcr", "AndiToSr"}        -> "And"
      [] kind \in {"Cmp", "Cmpa", "Cmpi", "Cmpm"}                 -> "Cmp"
      [] kind \in {"Eor", "Eori", "EoriToCcr", "EoriToSr"}        -> "Eor"
      [] kind \in {"Or", "Ori", "OriToCcr", "OriToSr"}            -> "Or"
      [] kind \in {"Sub", "Suba", "Subi", "Subq", "Subx"}         -> "Sub"

(***************************************************************************)
(* The status register as a word: condition codes in the low byte, mask    *)
(* and supervisor bit in the high one.                                     *)
(***************************************************************************)
Ccr(sr) == sr.c + 2 * sr.v + 4 * sr.z + 8 * sr.n + 16 * sr.x
SrWord(sr) == Ccr(sr) + Span(Byte) * (sr.mask + 8 * sr.s)

WithCcr(sr, w) == LET bit(b) == (w \div 2 ^ b) % 2
                  IN  [sr EXCEPT !.c = bit(0), !.v = bit(1), !.z = bit(2), !.n = bit(3), !.x = bit(4)]
FromSrWord(sr, w) == LET high == w \div Span(Byte)
                     IN  [WithCcr(sr, w) EXCEPT !.mask = high % 8, !.s = (high \div 8) % 2]

(***************************************************************************)
(* Stack.  The pointer moves before the write is tried and stays moved;    *)
(* every caller of push_stack drops the error.  A pop that fails moves     *)
(* nothing.                                                                *)
(***************************************************************************)
push_stack(m, size, v) ==
    LET sp == Low(stack_ptr(m) - size, Long)
        p  == SetStackPtr(m, sp)
    IN  IF Mapped(p, sp, size) THEN Put(p, sp, size, v) ELSE p

CanPop(m, size) == Mapped(m, stack_ptr(m), size)
Popped(m, size) == Fetch(m, stack_ptr(m), size)
DropStack(m, size) == SetStackPtr(m, stack_ptr(m) + size)

(* A program counter that is set to an odd address is an error.            *)
SetPc(m, addr) == LET p == [m EXCEPT !.pc = Low(addr, Long)]
                  IN  IF p.pc % 2 = 1 THEN Fail(p) ELSE p

(* A word of displacement counts from itself: the decoder has passed it.   *)
displace_pc(m, i, ignore_parsed_word_always) ==
    LET offset == Signed(i.data, i.size)
        back   == i.size # Byte /\ (offset < 0 \/ ignore_parsed_word_always)
    IN  SetPc(m, m.pc + offset - IF back THEN 2 ELSE 0)

(* Exceptions taken by an instruction: supervisor mode first, then the     *)
(* frame, then the vector.                                                 *)
Exception(m, vector, Continue(_)) ==
    LET super  == [m EXCEPT !.sr.s = 1]
        framed == push_stack(push_stack(super, Long, m.pc), Word, SrWord(super.sr))
    IN  IF Mapped(framed, 4 * vector, Long)
        THEN Continue([framed EXCEPT !.pc = Fetch(framed, 4 * vector, Long)])
        ELSE Fail(framed)

ChkVector == 6
DivisionByZeroVector == 5

(***************************************************************************)
(* Decimal and binary arithmetic.                                          *)
(***************************************************************************)
ExecAbcd(m, i) ==
    Read(m, i, "src", Byte, LAMBDA p, s : Read(p, i, "dst", Byte, LAMBDA q, d :
        LET r == Abcd(q.sr, s, d) IN Then(Write(q, i, "dst", Byte, r.value), r.sr)))

ExecSbcd(m, i) ==
    LET Finish(q, minuend, subtrahend) ==
            LET r == Sbcd(q.sr, minuend, subtrahend)
            IN  Then(Write(q, i, "dst", Byte, r.value), r.sr)
    IN  IF i.kind = "Nbcd"
        THEN Read(m, i, "dst", Byte, LAMBDA q, d : Finish(q, 0, d))
        ELSE Read(m, i, "src", Byte, LAMBDA p, s : Read(p, i, "dst", Byte, LAMBDA q, d :
                 Finish(q, d, s)))

ExecBinary(m, i) ==
    Read(m, i, "src", i.size, LAMBDA p, s :
      Read(try_increment_address(p, i, "src"), i, "dst", i.size, LAMBDA q, d :
        LET op == opcode_type(i.kind)
            r  == do_binary_op(op, s, d)
        IN  Then(IF op = "Cmp" THEN q ELSE Write(q, i, "dst", i.size, r),
                 SetBinary(q.sr, s, d, r, i.size, op))))

(* ADDA, SUBA and CMPA: a word source is extended to 64 bits, and CMPA's   *)
(* carry compares the bits above a long of the result and of the source.   *)
ExecAddress(m, i) ==
    Read(m, i, "src", i.size, LAMBDA p, v : Read(p, i, "dst", Long, LAMBDA q, d :
        LET op == opcode_type(i.kind)
            s  == IF i.size = Word THEN Signed(v, Word) ELSE v
            r  == do_binary_op(op, s, d)
        IN  IF op = "Cmp"
            THEN [q EXCEPT !.sr = [SetCompare(q.sr, s, d, r, Long, op) EXCEPT
                     !.c = Flag(r \div Span(Long) # s \div Span(Long))]]
            ELSE Write(q, i, "dst", Long, r)))

(* A count of 0 in three bits stands for 8.                                *)
QuickValue(data) == IF data = 0 THEN 8 ELSE data

ExecQuick(m, i) ==
    Read(m, i, "dst", i.size, LAMBDA q, d :
        LET op == opcode_type(i.kind)
            s  == QuickValue(i.data)
            r  == do_binary_op(op, s, d)
            w  == Write(q, i, "dst", i.size, r)
        IN  IF i.dst.kind = "AddressRegister" THEN w
            ELSE Then(w, SetArithmetic(q.sr, s, d, r, i.size, op)))

ExecExtend(m, i) ==
    Read(m, i, "src", i.size, LAMBDA p, s : Read(p, i, "dst", i.size, LAMBDA q, d :
        LET op == opcode_type(i.kind)
            r  == do_binary_op(op, s + q.sr.x, d)
        IN  Then(Write(q, i, "dst", i.size, r),
                 StickyZero(q.sr, SetArithmetic(q.sr, s, d, r, i.size, op)))))

ExecUnary(m, i) ==
    Read(m, i, "dst", i.size, LAMBDA q, d :
        LET r == Unary(i.kind, i.size, d, q.sr)
        IN  Then(Write(q, i, "dst", i.size, r.value), SetUnary(q.sr, i.kind, i.size, r)))

ExecMul(m, i) ==
    Read(m, i, "src", Word, LAMBDA p, s : Read(p, i, "dst", Word, LAMBDA q, d :
        LET r == IF i.kind = "Mulu" THEN s * d ELSE Signed(s, Word) * Signed(d, Word)
        IN  Then(Write(q, i, "dst", Long, r), SetLogic(q.sr, r, Long))))

(* The quotient of the most negative long by -1 overflows in the division  *)
(* itself, which is undefined; the processor the program runs on traps.    *)
ExecDiv(m, i) ==
    Read(m, i, "src", Word, LAMBDA p, s : Read(p, i, "dst", Long, LAMBDA q, d :
        IF s = 0
        THEN Exception(q, DivisionByZeroVector, LAMBDA e :
                 [e EXCEPT !.sr.n = 0, !.sr.z = 0, !.sr.v = 0, !.sr.c = 0])
        ELSE IF i.kind = "Divs" /\ Signed(s, Word) = -1 /\ d = Span(Long) \div 2
        THEN [q EXCEPT !.status = "crash"]
        ELSE LET r == Divide(i.kind, q.sr, s, d)
             IN  IF r.fits THEN Then(Write(q, i, "dst", Long, r.value), r.sr) ELSE [q EXCEPT !.sr = r.sr]))

ExecChk(m, i) ==
    Read(m, i, "src", Word, LAMBDA p, s : Read(p, i, "dst", Word, LAMBDA q, d :
        LET Clear(e) == [e EXCEPT !.sr.z = 0, !.sr.v = 0, !.sr.c = 0]
            value    == Signed(d, Word)
        IN  IF value < 0 \/ value > Signed(s, Word)
            THEN Exception(q, ChkVector, LAMBDA e : Clear([e EXCEPT !.sr.n = Flag(value < 0)]))
            ELSE Clear(q)))

(***************************************************************************)
(* Status register, shifts, bits and tests.                                *)
(***************************************************************************)
ExecToCcr(m, i) ==
    Read(m, i, "src", Byte, LAMBDA p, s :
        [p EXCEPT !.sr = WithCcr(@, do_binary_op(opcode_type(i.kind), Ccr(@), s))])

ExecToSr(m, i) ==
    Read(m, i, "src", Word, LAMBDA p, s :
        [p EXCEPT !.sr = FromSrWord(@, do_binary_op(opcode_type(i.kind), SrWord(@), s))])

ExecMoveToCcr(m, i) ==
    Read(m, i, "src", Word, LAMBDA p, s : [p EXCEPT !.sr = WithCcr(@, s)])

(* The operand is incremented first: the new S bit selects the stack.      *)
ExecMoveToSr(m, i) ==
    Read(m, i, "src", Word, LAMBDA p, s :
        LET q == try_increment_address(p, i, "src") IN [q EXCEPT !.sr = FromSrWord(@, s)])

ExecMoveFromSr(m, i) == Write(m, i, "dst", Word, SrWord(m.sr))

ExecUsp(m, i) ==
    IF i.kind = "MoveToUsp"
    THEN Read(m, i, "src", Long, LAMBDA p, s : [p EXCEPT !.usp = s])
    ELSE Write(m, i, "dst", Long, m.usp)

(* A count in a register is taken modulo 64, twice the bits of a long.     *)
(* ROXL and ROXR rotate through the X flag itself, before the write that   *)
(* may fail, and ROXL drags C along.                                       *)
Rotating(sr, kind, count, done) ==
    CASE kind = "Roxl" /\ count > 0 -> [sr EXCEPT !.x = done.x, !.c = done.x]
      [] kind = "Roxr" -> [sr EXCEPT !.x = done.x]
      [] OTHER -> sr

ExecShift(m, i) ==
    LET Finish(p, d, count) ==
            LET done == Shift(i.kind, i.size, count, d, p.sr)
                busy == [p EXCEPT !.sr = Rotating(@, i.kind, count, done)]
            IN  Then(Write(busy, i, "dst", i.size, done.value),
                     ShiftFlags(i.kind, i.size, count, done, p.sr))
    IN  Read(m, i, "dst", i.size, LAMBDA p, d :
          IF "src" \in DOMAIN i
          THEN Read(p, i, "src", i.size, LAMBDA q, s : Finish(q, d, s % (2 * bit_count(Long))))
          ELSE Finish(p, d, QuickValue(i.data)))

(* A bit of a data register, modulo 32, or of a byte of memory, modulo 8.  *)
ExecBit(m, i) ==
    LET size == IF i.dst.kind = "DataRegister" THEN Long ELSE Byte
    IN  Read(m, i, "src", Byte, LAMBDA p, s : Read(p, i, "dst", size, LAMBDA q, d :
          LET bit  == {s % bit_count(size)}
              is   == BitsOf(d)
              new  == IF i.kind = "Btst" THEN d
                      ELSE FromBits(CASE i.kind = "Bchg" -> SymDiff(is, bit)
                                      [] i.kind = "Bclr" -> is \ bit
                                      [] i.kind = "Bset" -> is \cup bit)
              seen == [q EXCEPT !.sr.z = Flag(bit \cap is = {})]
          IN  IF new = d THEN seen ELSE Write(seen, i, "dst", size, new)))

ExecTst(m, i) ==
    Read(m, i, "src", i.size, LAMBDA p, s : [p EXCEPT !.sr = SetLogic(@, s, i.size)])

ExecTas(m, i) ==
    Read(m, i, "dst", Byte, LAMBDA p, d :
        Then(Write(p, i, "dst", Byte, BitOr(d, Span(Byte) \div 2)), SetLogic(p.sr, d, Byte)))

(***************************************************************************)
(* Moves.                                                                  *)
(***************************************************************************)

(* A source relative to the program counter is read at the counter that    *)
(* followed the source's extension words, which the decoder left in data.  *)
(* When the read fails that counter stays.                                 *)
ReadAtSource(m, i, Continue(_, _)) ==
    Read([m EXCEPT !.pc = i.data], i, "src", i.size, LAMBDA p, s :
        Continue([try_increment_address(p, i, "src") EXCEPT !.pc = m.pc], s))

ExecMove(m, i) ==
    ReadAtSource(m, i, LAMBDA p, s :
        Then(Write(p, i, "dst", i.size, s), SetLogic(p.sr, s, i.size)))

ExecMovea(m, i) ==
    ReadAtSource(m, i, LAMBDA p, s :
        Write(p, i, "dst", Long, IF i.size = Word THEN Signed(s, Word) ELSE s))

(* MOVEP goes through whole words: byte k is the half of word k that       *)
(* the parity of the address selects; the other half is written as 0.      *)
ExecMovep(m, i) ==
    LET loads == i.dst.kind = "DataRegister"
        addr  == effective_address(m, IF loads THEN i.src ELSE i.dst)
        even  == addr - (addr % 2)
        scale == IF addr % 2 = 1 THEN 1 ELSE Span(Byte)
        value[k \in 0 .. i.size] ==
            IF k = 0 THEN 0 ELSE value[k - 1] * Span(Byte) + m.mem[addr + 2 * (k - 1)]
        reg   == m.d[i.src.index]
        byte(k) == (reg \div 2 ^ (BYTE * (i.size - k))) % Span(Byte)
        stored[k \in 0 .. i.size] ==
            IF k = 0 \/ ~Ok(stored[k - 1]) THEN IF k = 0 THEN m ELSE stored[k - 1]
            ELSE PutOrFail(stored[k - 1], even + 2 * (k - 1), Word, byte(k) * scale)
    IN  IF ~loads THEN stored[i.size]
        ELSE IF \A k \in 0 .. i.size - 1 : Mapped(m, even + 2 * k, Word)
             THEN Write(m, i, "dst", i.size, value[i.size])
             ELSE Fail(m)

(* MOVEM: register r of the mask is D(r) or A(r - 8).                      *)
get_reg(m, r) == IF r < 8 THEN m.d[r] ELSE a_reg(m, r - 8)
Rank(r, list) == Cardinality({q \in list : q < r})

MovemLoad(m, i) ==
    LET p    == try_decrement_address(m, i, "src")
        addr == effective_address(p, i.src)
        word(r) == LET v == Fetch(p, addr + i.size * Rank(r, i.list), i.size)
                   IN  IF i.size = Word THEN Low(Signed(v, Word), Long) ELSE v
        kept == IF i.src.kind = "AddressIncrement" THEN {8 + i.src.index} ELSE {}
        new(r) == IF r \in i.list \ kept THEN word(r) ELSE get_reg(p, r)
    IN  IF Mapped(p, addr, i.size * RegisterCount(i))
        THEN [SetStackPtr(p, new(15)) EXCEPT !.d = [r \in 0 .. 7 |-> new(r)],
                                             !.a = [r \in 0 .. 6 |-> new(r + 8)]]
        ELSE Fail(p)

(* Mutant: the mask is not reversed towards lower addresses.               *)
MovemStoreInOrder(m, i) ==
    LET addr == effective_address(m, i.dst) - i.size * RegisterCount(i)
        put[r \in 0 .. 16] ==
            IF r = 0 THEN m
            ELSE IF r - 1 \in i.list
                 THEN PutOrFail(put[r - 1], addr + i.size * Rank(r - 1, i.list), i.size, get_reg(m, r - 1))
                 ELSE put[r - 1]
    IN  try_decrement_address(put[16], i, "dst")

(* Towards lower addresses the mask is reversed: bit b is register 15 - b. *)
MovemStore(m, i) ==
    LET list  == IF i.dst.kind = "AddressDecrement" THEN {15 - b : b \in i.list} ELSE i.list
        count == i.size * RegisterCount(i)
        p     == try_decrement_address(m, i, "dst")
        addr  == effective_address(p, i.dst)
        put[k \in 0 .. RegisterCount(i)] ==
            IF k = 0 THEN p
            ELSE LET r == CHOOSE q \in list : Rank(q, list) = k - 1
                 IN  Put(put[k - 1], addr + i.size * (k - 1), i.size, get_reg(m, r))
    IN  IF Mapped(p, addr, count) THEN put[RegisterCount(i)] ELSE Fail(p)

ExecMovem(m, i) == IF "src" \in DOMAIN i THEN MovemLoad(m, i) ELSE MovemStore(m, i)

ExecMoveq(m, i) ==
    LET v == Signed(i.data, Byte) IN Then(Write(m, i, "dst", Long, v), SetLogic(m.sr, v, Long))

ExecSwap(m, i) ==
    Read(m, i, "dst", Long, LAMBDA p, d :
        LET v == (d % Span(Word)) * Span(Word) + (d \div Span(Word))
        IN  Then(Write(p, i, "dst", Long, v), SetLogic(p.sr, v, Long)))

ExecExg(m, i) ==
    Read(m, i, "src", Long, LAMBDA p, s : Read(p, i, "dst", Long, LAMBDA q, d :
        Write(Write(q, i, "dst", Long, s), i, "src", Long, d)))

ExecExt(m, i) ==
    Read(m, i, "dst", i.size, LAMBDA p, d :
        LET v == Signed(d, i.size \div 2)
        IN  Then(Write(p, i, "dst", i.size, v), SetLogic(p.sr, v, i.size)))

(***************************************************************************)
(* Control: branches, calls, frames, exceptions and returns.               *)
(***************************************************************************)
ExecBcc(m, i) ==
    IF calculate_condition(m.sr, i.cond) THEN displace_pc(m, i, TRUE) ELSE m

ExecDbcc(m, i) ==
    IF calculate_condition(m.sr, i.cond) THEN m
    ELSE Read(m, i, "dst", Word, LAMBDA p, d :
           LET w    == Write(p, i, "dst", Word, d - 1)
               back == IF Signed(i.data, Word) >= 0 THEN 2 ELSE 0
           IN  IF ~Ok(w) \/ Signed(d - 1, Word) = -1 THEN w
               ELSE displace_pc([w EXCEPT !.pc = @ - back], i, FALSE))

ExecScc(m, i) ==
    Write(m, i, "dst", Byte, IF calculate_condition(m.sr, i.cond) THEN Span(Byte) - 1 ELSE 0)

ExecBsr(m, i) == displace_pc(push_stack(m, Long, m.pc), i, TRUE)

ExecJump(m, i) ==
    LET target == effective_address(m, i.dst)
    IN  SetPc(IF i.kind = "Jsr" THEN push_stack(m, Long, m.pc) ELSE m, target)

ExecLea(m, i) == Write(m, i, "dst", Long, effective_address(m, i.src))

ExecPea(m, i) == push_stack(m, Long, effective_address(m, i.src))

ExecLink(m, i) ==
    Read(m, i, "dst", Long, LAMBDA p, d :
        LET pushed == push_stack(p, Long, IF i.dst.index = 7 THEN d - 4 ELSE d)
            framed == Write(pushed, i, "dst", Long, stack_ptr(pushed))
        IN  SetStackPtr(framed, stack_ptr(framed) + Signed(i.data, Word)))

ExecUnlink(m, i) ==
    Read(m, i, "dst", Long, LAMBDA p, d :
        LET q == SetStackPtr(p, d)
        IN  IF CanPop(q, Long) THEN Write(DropStack(q, Long), i, "dst", Long, Popped(q, Long))
                               ELSE Fail(q))

ExecTrap(m, i) ==
    IF i.kind = "Trapv" /\ m.sr.v = 0 THEN m ELSE Exception(m, i.data, LAMBDA e : e)

(* The errors of the pops are dropped, and a status word that could not be *)
(* popped is whatever was in that variable.                                *)
ExecReturn(m, i) ==
    LET word  == IF CanPop(m, Word) THEN Popped(m, Word) ELSE m.garbage
        p     == IF i.kind # "Rts" /\ CanPop(m, Word) THEN DropStack(m, Word) ELSE m
        q     == IF CanPop(p, Long) THEN [DropStack(p, Long) EXCEPT !.pc = Popped(p, Long)] ELSE p
    IN  SetPc(CASE i.kind = "Rte" -> [q EXCEPT !.sr = FromSrWord(@, word)]
                [] i.kind = "Rtr" -> [q EXCEPT !.sr = WithCcr(@, word)]
                [] i.kind = "Rts" -> q,
              q.pc)

(***************************************************************************)
(* The switch, and the increments that end every instruction that did not  *)
(* return early.                                                           *)
(***************************************************************************)
Perform(m, i) ==
    CASE i.kind = "Abcd"              -> ExecAbcd(m, i)
      [] i.kind \in {"Sbcd", "Nbcd"}  -> ExecSbcd(m, i)
      [] i.kind \in BinaryKinds       -> ExecBinary(m, i)
      [] i.kind \in AddressKinds      -> ExecAddress(m, i)
      [] i.kind \in QuickKinds        -> ExecQuick(m, i)
      [] i.kind \in ExtendKinds       -> ExecExtend(m, i)
      [] i.kind \in UnaryKinds        -> ExecUnary(m, i)
      [] i.kind \in {"Mulu", "Muls"}  -> ExecMul(m, i)
      [] i.kind \in {"Divu", "Divs"}  -> ExecDiv(m, i)
      [] i.kind = "Chk"               -> ExecChk(m, i)
      [] i.kind \in ToCcrKinds        -> ExecToCcr(m, i)
      [] i.kind \in ToSrKinds         -> ExecToSr(m, i)
      [] i.kind = "MoveToCcr"         -> ExecMoveToCcr(m, i)
      [] i.kind = "MoveToSr"          -> ExecMoveToSr(m, i)
      [] i.kind = "MoveFromSr"        -> ExecMoveFromSr(m, i)
      [] i.kind \in {"MoveToUsp", "MoveFromUsp"} -> ExecUsp(m, i)
      [] i.kind \in Shifts            -> ExecShift(m, i)
      [] i.kind \in BitKinds          -> ExecBit(m, i)
      [] i.kind = "Tst"               -> ExecTst(m, i)
      [] i.kind = "Tas"               -> ExecTas(m, i)
      [] i.kind = "Move"              -> ExecMove(m, i)
      [] i.kind = "Movea"             -> ExecMovea(m, i)
      [] i.kind = "Movep"             -> ExecMovep(m, i)
      [] i.kind = "Movem"             -> ExecMovem(m, i)
      [] i.kind = "Moveq"             -> ExecMoveq(m, i)
      [] i.kind = "Swap"              -> ExecSwap(m, i)
      [] i.kind = "Exg"               -> ExecExg(m, i)
      [] i.kind = "Ext"               -> ExecExt(m, i)
      [] i.kind = "Bcc"               -> ExecBcc(m, i)
      [] i.kind = "Dbcc"              -> ExecDbcc(m, i)
      [] i.kind = "Scc"               -> ExecScc(m, i)
      [] i.kind = "Bsr"               -> ExecBsr(m, i)
      [] i.kind \in {"Jmp", "Jsr"}    -> ExecJump(m, i)
      [] i.kind = "Lea"               -> ExecLea(m, i)
      [] i.kind = "Pea"               -> ExecPea(m, i)
      [] i.kind = "Link"              -> ExecLink(m, i)
      [] i.kind = "Unlink"            -> ExecUnlink(m, i)
      [] i.kind \in {"Trap", "Trapv"} -> ExecTrap(m, i)
      [] i.kind \in {"Rte", "Rtr", "Rts"} -> ExecReturn(m, i)
      [] i.kind \in {"Nop", "Reset"}  -> m

Forget(m) == [m EXCEPT !.decremented = {}, !.incremented = {}]

Execute(m, i) ==
    LET done == Perform(Forget(m), i)
    IN  Forget(IF Ok(done)
               THEN try_increment_address(try_increment_address(done, i, "src"), i, "dst")
               ELSE done)
=============================================================================
