------------------------------ MODULE M68kLift ------------------------------
(***************************************************************************)
(* Lifter::translate_inst of src/src/recomp/lifter.cpp: the C++ statement  *)
(* emitted for each instruction, as what running it does to a machine,     *)
(* beside what the interpreter does with the same instruction.             *)
(*                                                                         *)
(* The runtime the statements call (m68k_add, recomp_mem_read, recomp_trap *)
(* and so on) is not in the repository.  Its arithmetic is taken to be     *)
(* that of the interpreter: what is modelled is which operands, sizes,     *)
(* addresses and side effects the lifter passes it.  An access of which    *)
(* the memory does not have every byte reads 0 and writes nothing.         *)
(*                                                                         *)
(* Instruction's fields are not initialized.  `unset' is what the decoder  *)
(* left in those the lifter uses nevertheless: a size and an operand.      *)
(***************************************************************************)
EXTENDS M68kTypes

CONSTANTS
    Families,     \* records of sets of instructions, of operands and of unset fields
    Machine(_)    \* the machine that holds some operands

-----------------------------------------------------------------------------
(* What the decoder makes of an opcode (FieldsSet and StepsByTransfer of   *)
(* M68kDecode): a target steps by the size of the transfer.                *)
AsDecoded(i) ==
    /\ WellFormed(i) /\ Given(i)
    /\ \A role \in Roles \cap DOMAIN i : i[role].kind \in Stepped => i[role].size = TransferSize(i)

(* The machines are those between two instructions; the bus has three      *)
(* bytes of address, and a byte the five condition codes.                  *)
ASSUME LiftAssumption ==
    /\ BYTE > 4
    /\ \A f \in Families :
        /\ \A i \in f.instructions : AsDecoded(i)
        /\ \A o \in f.operands :
            /\ Machine(o) \in Machines(DOMAIN Machine(o).mem)
            /\ Ok(Machine(o)) /\ Forget(Machine(o)) = Machine(o)
            /\ DOMAIN Machine(o).mem \subseteq 0 .. 2 ^ (3 * BYTE) - 1

VARIABLES inst, unset, before, interpreted, lifted, ran

vars == <<inst, unset, before, interpreted, lifted, ran>>

-----------------------------------------------------------------------------
(* Sizes and operands of the instruction.                                  *)
SizedKinds ==
    BinaryKinds \cup AddressKinds \cup QuickKinds \cup ExtendKinds \cup UnaryKinds \cup Shifts \cup BitKinds
        \cup {"Tst", "Chk", "Nbcd", "Move", "Movea", "Movep", "Movem", "Ext", "Bcc", "Bsr", "Dbcc"}

bytes(i, u) == IF i.kind \in SizedKinds THEN i.size ELSE u.size
operand(i, u, role) == IF role \in DOMAIN i THEN i[role] ELSE u.target

(* The runtime's memory, on a bus of three bytes of address.               *)
Bus(addr) == addr % 2 ^ (3 * BYTE)
recomp_mem_read(m, addr, size) == IF Mapped(m, addr, size) THEN Fetch(m, addr, size) ELSE 0
recomp_pop32(m) == [value |-> recomp_mem_read(m, stack_ptr(m), Long),
                    machine |-> SetStackPtr(m, stack_ptr(m) + Long)]
recomp_mem_write(m, addr, size, v) == IF Mapped(m, addr, size) THEN Put(m, addr, size, v) ELSE m
recomp_push32(m, v) ==
    LET p == SetStackPtr(m, stack_ptr(m) - Long) IN recomp_mem_write(p, stack_ptr(p), Long, v)
recomp_trap(m, vector) == Exception(m, vector, LAMBDA e : e)
m68k_flags_move(sr, v, size) == SetLogic(sr, v, size)

(* The address known when the code is emitted: of a MOVE's source, from    *)
(* the counter its data holds.  0 stands for none.                         *)
static_ea(t, pc) ==
    CASE t.kind = "AbsoluteLong"  -> t.word * Span(Word) + t.low
      [] t.kind = "AbsoluteShort" -> Low(Signed(t.word, Word), Long)
      [] t.kind = "ProgramCounterDisplacement" -> Low(pc - 2 + Signed(t.word, Word), Long)
      [] OTHER -> 0

ea(m, i, u, role) ==
    static_ea(operand(i, u, role),
              IF role = "src" /\ i.kind \in {"Move", "Movea"} THEN i.data ELSE m.pc)

Static == {"AbsoluteLong", "AbsoluteShort", "ProgramCounterDisplacement"}

(* An operand's address.  An index on the program counter is added to the  *)
(* static address, which is 0.                                             *)
operand_address(m, t, sea) ==
    CASE t.kind \in Static               -> sea
      [] t.kind = "ProgramCounterIndex"  -> Bus(indexed_address(m, t, sea))
      [] OTHER                           -> Bus(effective_address(m, t))

(* A register is read whole; what uses it cuts it.                         *)
read_operand(m, t, sea, size) ==
    CASE t.kind = "DataRegister"    -> m.d[t.index]
      [] t.kind = "AddressRegister" -> a_reg(m, t.index)
      [] t.kind = "Immediate"       -> recomp_mem_read(m, t.address, size)
      [] OTHER                      -> recomp_mem_read(m, operand_address(m, t, sea), size)

write_operand(m, t, sea, size, v) ==
    CASE t.kind = "DataRegister"    -> [m EXCEPT !.d[t.index] = Replaced(@, v, size)]
      [] t.kind = "AddressRegister" -> SetA(m, t.index, Replaced(a_reg(m, t.index), v, size))
      [] t.kind = "Immediate"       -> m
      [] OTHER                      -> recomp_mem_write(m, operand_address(m, t, sea), size, v)

(* LEA, PEA, JMP and JSR: only sums are cut to the bus.                    *)
ea_expr(m, t, sea) ==
    CASE t.kind \in {"Address", "AddressIncrement", "AddressDecrement"} -> a_reg(m, t.index)
      [] t.kind \in Static              -> sea
      [] t.kind = "ProgramCounterIndex" -> Bus(indexed_address(m, t, m.pc - 2))
      [] t.kind \in {"AddressDisplacement", "AddressIndex"} -> Bus(effective_address(m, t))
      [] OTHER                          -> 0

-----------------------------------------------------------------------------
(* Side effects, emitted before and after the statement for the operands   *)
(* listed, in this order.                                                  *)
Adjustment(t, size) == IF t.index = 7 /\ size = Byte THEN 2 ELSE size

pre_effect(m, t, size) ==
    IF t.kind = "AddressDecrement" THEN SetA(m, t.index, a_reg(m, t.index) - Adjustment(t, size)) ELSE m
post_effect(m, t, size) ==
    IF t.kind = "AddressIncrement" THEN SetA(m, t.index, a_reg(m, t.index) + Adjustment(t, size)) ELSE m

Around(first, last) == [pre |-> first, post |-> last]

SourceToDestination ==
    {"Add", "Addi", "Sub", "Subi", "And", "Andi", "Or", "Ori", "Eor", "Eori"}

(* Mutant: what is stepped after an operation on memory is its source.     *)
EffectsOnSource(kind) ==
    IF kind \in UnaryKinds \cup QuickKinds \cup Shifts THEN Around(<<"dst">>, <<>>)
    ELSE Around(<<"src">>, <<"src">>)

Effects(kind) ==
    CASE kind \in SourceToDestination -> Around(<<"src">>, <<"dst">>)
      [] kind \in ExtendKinds         -> Around(<<"dst", "src">>, <<"dst">>)
      [] kind \in BitKinds \cup {"Abcd", "Sbcd"} -> Around(<<"src", "dst">>, <<"dst", "src">>)
      [] kind = "Nbcd"                -> Around(<<"dst">>, <<"dst", "dst">>)
      [] kind \in QuickKinds \cup UnaryKinds \cup Shifts
                  \cup {"Tst", "Tas", "Scc", "MoveFromSr", "MoveFromUsp"}
                                      -> Around(<<"dst">>, <<"dst">>)
      [] kind \in AddressKinds \cup {"Cmp", "Cmpi", "Cmpm", "Mulu", "Muls", "Divu", "Divs", "Chk",
                  "Move", "Movea", "MoveToSr", "MoveToCcr", "MoveToUsp"}
                                      -> Around(<<"src">>, <<"src">>)

(* The statement between the effects, given the values of the operands.    *)
(* Bit and decimal instructions read the source before the destination     *)
(* is decremented.                                                         *)
InTurn(p, roles, Effect(_, _)) ==
    CASE Len(roles) = 0 -> p
      [] Len(roles) = 1 -> Effect(p, roles[1])
      [] Len(roles) = 2 -> Effect(Effect(p, roles[1]), roles[2])

Statement(m, i, u, Body(_, _, _)) ==
    LET size     == bytes(i, u)
        Pre(p, role)  == pre_effect(p, operand(i, u, role), size)
        Post(p, role) == post_effect(p, operand(i, u, role), size)
        Value(p, role) == read_operand(p, operand(i, u, role), ea(m, i, u, role), size)
        all      == InTurn(m, Effects(i.kind).pre, Pre)
        atSource == IF i.kind \in BitKinds \cup {"Abcd", "Sbcd"} THEN Pre(m, "src") ELSE all
    IN  InTurn(Body(all, Value(atSource, "src"), Value(all, "dst")), Effects(i.kind).post, Post)

wd(m, i, u, v) == write_operand(m, operand(i, u, "dst"), ea(m, i, u, "dst"), bytes(i, u), v)

-----------------------------------------------------------------------------
(* Register and memory operations.  The names m68k_... are the runtime's.  *)
m68k_binary(op, sr, d, s, size) ==
    LET l == Low(s, size)
        r == Low(d, size)
        v == do_binary_op(op, l, r)
    IN  [value |-> v, sr |-> SetBinary(sr, l, r, v, size, op)]

m68k_extend(op, sr, d, s, size) ==
    LET l == Low(s, size)
        r == Low(d, size)
        v == do_binary_op(op, l + sr.x, r)
    IN  [value |-> v, sr |-> StickyZero(sr, SetArithmetic(sr, l, r, v, size, op))]

StoreResult(m, i, u, r) == [wd(m, i, u, r.value) EXCEPT !.sr = r.sr]

LiftBinary(m, i, u) ==
    Statement(m, i, u, LAMBDA p, s, d :
        LET op == opcode_type(i.kind)
            r  == m68k_binary(op, p.sr, d, s, bytes(i, u))
        IN  IF op = "Cmp" THEN [p EXCEPT !.sr = r.sr] ELSE StoreResult(p, i, u, r))

LiftAddress(m, i, u) ==
    Statement(m, i, u, LAMBDA p, s, d :
        LET op == opcode_type(i.kind)
            r  == m68k_binary(op, p.sr, a_reg(p, i.dst.index), IF i.size = Word THEN Signed(s, Word) ELSE s, Long)
        IN  IF op = "Cmp" THEN [p EXCEPT !.sr = r.sr] ELSE SetA(p, i.dst.index, r.value))

LiftQuick(m, i, u) ==
    LET op == opcode_type(i.kind)
        n  == i.dst.index
    IN  IF i.dst.kind = "AddressRegister"
        THEN SetA(m, n, do_binary_op(op, QuickValue(i.data), a_reg(m, n)))
        ELSE Statement(m, i, u, LAMBDA p, s, d :
                 StoreResult(p, i, u, m68k_binary(op, p.sr, d, QuickValue(i.data), bytes(i, u))))

LiftExtend(m, i, u) ==
    Statement(m, i, u, LAMBDA p, s, d :
        StoreResult(p, i, u, m68k_extend(opcode_type(i.kind), p.sr, d, s, bytes(i, u))))

LiftUnary(m, i, u) ==
    Statement(m, i, u, LAMBDA p, s, d :
        LET r == Unary(i.kind, i.size, Low(d, i.size), p.sr)
        IN  StoreResult(p, i, u, [value |-> r.value, sr |-> SetUnary(p.sr, i.kind, i.size, r)]))

(* The runtime's divisions get no context: they cannot trap.               *)
LiftMulDiv(m, i, u) ==
    Statement(m, i, u, LAMBDA p, src, dst :
        LET n == i.dst.index
            s == Low(src, Word)
            d == p.d[n]
            v == IF i.kind = "Mulu" THEN s * Low(d, Word) ELSE Signed(s, Word) * Signed(d, Word)
            r == Divide(i.kind, p.sr, s, d)
        IN  IF i.kind \in {"Mulu", "Muls"}
            THEN [p EXCEPT !.d[n] = Low(v, Long), !.sr = SetLogic(@, v, Long)]
            ELSE IF s = 0 THEN p
            ELSE [p EXCEPT !.d[n] = IF r.fits THEN r.value ELSE @, !.sr = r.sr])

(* 64 divides the values of a byte, which it need not do in the model.     *)
LiftShift(m, i, u) ==
    Statement(m, i, u, LAMBDA p, s, d :
        LET count == IF "src" \in DOMAIN i THEN Low(s, i.size) % (2 * bit_count(Long)) ELSE QuickValue(i.data)
            done  == Shift(i.kind, i.size, count, Low(d, i.size), p.sr)
        IN  StoreResult(p, i, u, [value |-> done.value, sr |-> ShiftFlags(i.kind, i.size, count, done, p.sr)]))

LiftBit(m, i, u) ==
    Statement(m, i, u, LAMBDA p, s, d :
        LET inRegister == i.dst.kind = "DataRegister"
            bit  == {Low(s, Byte) % bit_count(IF inRegister THEN Long ELSE Byte)}
            is   == BitsOf(d)
            new  == FromBits(CASE i.kind = "Bchg" -> SymDiff(is, bit)
                               [] i.kind = "Bclr" -> is \ bit
                               [] i.kind = "Bset" -> is \cup bit)
            seen == [p EXCEPT !.sr.z = Flag(bit \cap is = {})]
        IN  IF i.kind = "Btst" THEN seen
            ELSE IF inRegister THEN [seen EXCEPT !.d[i.dst.index] = Low(new, Long)]
            ELSE wd(seen, i, u, new))

(* The text of ABCD and SBCD is the interpreter's; NBCD's overflow is      *)
(* ABCD's, of the result that became negative.                             *)
LiftDecimal(m, i, u) ==
    Statement(m, i, u, LAMBDA p, src, dst :
        LET s == Low(src, Byte)
            d == Low(dst, Byte)
            r == Sbcd(p.sr, 0, d)
        IN  StoreResult(p, i, u,
                CASE i.kind = "Abcd" -> Abcd(p.sr, s, d)
                  [] i.kind = "Sbcd" -> Sbcd(p.sr, d, s)
                  [] i.kind = "Nbcd" ->
                       [r EXCEPT !.sr.v = Flag(msb(-d - p.sr.x, Byte) = 0 /\ msb(r.value, Byte) = 1)]))

(* ctx.a[7] is one register: writing S to the status register leaves it    *)
(* what it was.                                                            *)
SetSr(m, sr) == SetStackPtr([m EXCEPT !.sr = sr], stack_ptr(m))

LiftToStatus(m, i, u) ==
    LET op == opcode_type(i.kind)
        s  == read_operand(m, i.src, ea(m, i, u, "src"), bytes(i, u))
    IN  IF i.kind \in ToCcrKinds
        THEN [m EXCEPT !.sr = WithCcr(@, do_binary_op(op, Ccr(@), Low(s, Byte)))]
        ELSE SetSr(m, FromSrWord(m.sr, do_binary_op(op, SrWord(m.sr), Low(s, Word))))

LiftMoveStatus(m, i, u) ==
    Statement(m, i, u, LAMBDA p, s, d :
        CASE i.kind = "MoveToCcr"   -> [p EXCEPT !.sr = WithCcr(@, s)]
          [] i.kind = "MoveToSr"    -> SetSr(p, FromSrWord(p.sr, Low(s, Word)))
          [] i.kind = "MoveFromSr"  -> wd(p, i, u, SrWord(p.sr))
          [] i.kind = "MoveToUsp"   -> [p EXCEPT !.usp = s]
          [] i.kind = "MoveFromUsp" -> wd(p, i, u, p.usp))

-----------------------------------------------------------------------------
(* Moves and single operands.                                              *)
LiftMove(m, i, u) ==
    Statement(m, i, u, LAMBDA p, s, d :
        IF i.kind = "Movea" THEN SetA(p, i.dst.index, IF i.size = Word THEN Signed(s, Word) ELSE s)
        ELSE StoreResult(p, i, u, [value |-> s, sr |-> m68k_flags_move(p.sr, s, i.size)]))

LiftTst(m, i, u) ==
    Statement(m, i, u, LAMBDA p, s, d : [p EXCEPT !.sr = m68k_flags_move(@, d, i.size)])

LiftTas(m, i, u) ==
    Statement(m, i, u, LAMBDA p, s, d :
        StoreResult(p, i, u, [value |-> BitOr(Low(d, Byte), Span(Byte) \div 2), sr |-> SetLogic(p.sr, d, Byte)]))

cond_expr(sr, cond) ==
    CASE cond = "GreaterThan" -> sr.z = 0 /\ sr.n = sr.v
      [] cond = "LessOrEqual" -> sr.z = 1 \/ sr.n # sr.v
      [] OTHER                -> calculate_condition(sr, cond)

LiftScc(m, i, u) ==
    Statement(m, i, u, LAMBDA p, s, d :
        wd(p, i, u, IF cond_expr(p.sr, i.cond) THEN Span(Byte) - 1 ELSE 0))

LiftChk(m, i, u) ==
    Statement(m, i, u, LAMBDA p, s, d :
        LET v == Signed(p.d[i.dst.index], Word)
            q == [p EXCEPT !.sr.n = Flag(v < 0)]
        IN  IF v < 0 \/ v > Signed(s, Word) THEN recomp_trap(q, ChkVector) ELSE q)

SetLong(m, n, v) == [m EXCEPT !.d[n] = v, !.sr = m68k_flags_move(@, v, Long)]

LiftMoveq(m, i) == SetLong(m, i.dst.index, Low(Signed(i.data, Byte), Long))

LiftSwap(m, i) ==
    LET d == m.d[i.dst.index]
    IN  SetLong(m, i.dst.index, d \div Span(Word) + (d % Span(Word)) * Span(Word))

LiftExt(m, i) ==
    LET n == i.dst.index
        v == Signed(m.d[n], i.size \div 2)
    IN  [m EXCEPT !.d[n] = Replaced(@, v, i.size), !.sr = m68k_flags_move(@, v, i.size)]

LiftExg(m, i) ==
    LET Set(p, t, v) == IF t.kind = "DataRegister" THEN [p EXCEPT !.d[t.index] = v] ELSE SetA(p, t.index, v)
        Of(t)        == read_operand(m, t, 0, Long)
    IN  Set(Set(m, i.src, Of(i.dst)), i.dst, Of(i.src))

(* MOVEM.  Towards lower addresses the bits of the mask are written from   *)
(* the first one on, at addresses that grow.                               *)
LiftMovemStore(m, i, u) ==
    LET t      == i.dst
        predec == t.kind = "AddressDecrement"
        p      == IF predec THEN SetA(m, t.index, a_reg(m, t.index) - i.size * RegisterCount(i)) ELSE m
        addr   == IF predec THEN a_reg(p, t.index) ELSE ea_expr(p, t, ea(p, i, u, "dst"))
        reg_for_bit(b) == IF predec THEN 15 - b ELSE b
        put[b \in 0 .. 16] ==
            IF b = 0 THEN p
            ELSE IF b - 1 \in i.list
                 THEN recomp_mem_write(put[b - 1], addr + i.size * Rank(b - 1, i.list), i.size,
                                       get_reg(p, reg_for_bit(b - 1)))
                 ELSE put[b - 1]
    IN  put[16]

LiftMovemLoad(m, i, u) ==
    LET t       == i.src
        postinc == t.kind = "AddressIncrement"
        addr    == ea_expr(m, t, ea(m, i, u, "src"))
        word(r) == LET v == recomp_mem_read(m, addr + i.size * Rank(r, i.list), i.size)
                   IN  IF i.size = Word THEN Signed(v, Word) ELSE v
        new(r)  == IF r \in i.list THEN Low(word(r), Long) ELSE get_reg(m, r)
        p       == [SetStackPtr(m, new(15)) EXCEPT !.d = [r \in 0 .. 7 |-> new(r)],
                                                   !.a = [r \in 0 .. 6 |-> new(r + 8)]]
    IN  IF postinc THEN SetA(p, t.index, addr + i.size * RegisterCount(i)) ELSE p

LiftMovem(m, i, u) == IF "src" \in DOMAIN i THEN LiftMovemLoad(m, i, u) ELSE LiftMovemStore(m, i, u)

-----------------------------------------------------------------------------
(* Control.  The counter of a label or of a call is where it leads.        *)
goto(m, target) == [m EXCEPT !.pc = Low(target, Long)]

branch_target(m, i) == m.pc - (IF i.size = Byte THEN 0 ELSE 2) + Signed(i.data, i.size)

LiftBcc(m, i) == IF cond_expr(m.sr, i.cond) THEN goto(m, branch_target(m, i)) ELSE m

LiftDbcc(m, i) ==
    LET n     == i.dst.index
        count == Low(m.d[n] - 1, Word)
        p     == [m EXCEPT !.d[n] = Replaced(@, count, Word)]
    IN  IF i.cond # "True" /\ cond_expr(m.sr, i.cond) THEN m
        ELSE IF Signed(count, Word) # -1 THEN goto(p, branch_target(m, i)) ELSE p

LiftBsr(m, i) == goto(recomp_push32(m, m.pc), branch_target(m, i))

(* A target known statically, or one computed after the push.              *)
LiftJump(m, i, u) ==
    LET p   == IF i.kind = "Jsr" THEN recomp_push32(m, m.pc) ELSE m
        sea == ea(m, i, u, "dst")
        at  == ea_expr(p, i.dst, sea)
    IN  goto(p, IF sea # 0 THEN sea ELSE IF i.kind = "Jmp" THEN Bus(at) ELSE at)

LiftLea(m, i, u) == SetA(m, i.dst.index, ea_expr(m, i.src, ea(m, i, u, "src")))
LiftPea(m, i, u) == recomp_push32(m, ea_expr(m, i.src, ea(m, i, u, "src")))

(* The displacement is in the data of the instruction, not in an operand.  *)
LiftLink(m, i, u) ==
    LET p == recomp_push32(m, a_reg(m, i.dst.index))
        q == SetA(p, i.dst.index, stack_ptr(p))
    IN  SetStackPtr(q, stack_ptr(q) + Signed(u.target.word, Word))

LiftUnlink(m, i) ==
    LET r == recomp_pop32(SetStackPtr(m, a_reg(m, i.dst.index)))
    IN  SetA(r.machine, i.dst.index, r.value)

(* The function returns: the address popped is not looked at.              *)
LiftReturn(m, i) ==
    LET word == recomp_mem_read(m, stack_ptr(m), Word)
        p    == SetStackPtr(m, stack_ptr(m) + Word)
    IN  CASE i.kind = "Rts" -> recomp_pop32(m).machine
          [] i.kind = "Rte" -> SetSr(recomp_pop32(SetStackPtr(p, stack_ptr(p) + 2)).machine, FromSrWord(p.sr, word))
          [] i.kind = "Rtr" -> recomp_pop32([p EXCEPT !.sr = WithCcr(@, word)]).machine

LiftTrap(m, i) ==
    IF i.kind = "Trap" THEN recomp_trap(m, 32 + (i.data % 16))
    ELSE IF m.sr.v = 1 THEN recomp_trap(m, 7) ELSE m

translate_inst(m, i, u) ==
    CASE i.kind \in BinaryKinds                      -> LiftBinary(m, i, u)
      [] i.kind \in AddressKinds                     -> LiftAddress(m, i, u)
      [] i.kind \in QuickKinds                       -> LiftQuick(m, i, u)
      [] i.kind \in ExtendKinds                      -> LiftExtend(m, i, u)
      [] i.kind \in UnaryKinds                       -> LiftUnary(m, i, u)
      [] i.kind \in {"Mulu", "Muls", "Divu", "Divs"} -> LiftMulDiv(m, i, u)
      [] i.kind \in Shifts                           -> LiftShift(m, i, u)
      [] i.kind \in BitKinds                         -> LiftBit(m, i, u)
      [] i.kind \in {"Abcd", "Sbcd", "Nbcd"}         -> LiftDecimal(m, i, u)
      [] i.kind \in ToCcrKinds \cup ToSrKinds        -> LiftToStatus(m, i, u)
      [] i.kind \in {"MoveToCcr", "MoveToSr", "MoveFromSr", "MoveToUsp", "MoveFromUsp"}
                                                     -> LiftMoveStatus(m, i, u)
      [] i.kind \in {"Move", "Movea"}                -> LiftMove(m, i, u)
      [] i.kind = "Tst"                              -> LiftTst(m, i, u)
      [] i.kind = "Tas"                              -> LiftTas(m, i, u)
      [] i.kind = "Scc"                              -> LiftScc(m, i, u)
      [] i.kind = "Chk"                              -> LiftChk(m, i, u)
      [] i.kind = "Moveq"                            -> LiftMoveq(m, i)
      [] i.kind = "Swap"                             -> LiftSwap(m, i)
      [] i.kind = "Ext"                              -> LiftExt(m, i)
      [] i.kind = "Exg"                              -> LiftExg(m, i)
      [] i.kind = "Movem"                            -> LiftMovem(m, i, u)
      [] i.kind = "Bcc"                              -> LiftBcc(m, i)
      [] i.kind = "Dbcc"                             -> LiftDbcc(m, i)
      [] i.kind = "Bsr"                              -> LiftBsr(m, i)
      [] i.kind \in {"Jmp", "Jsr"}                   -> LiftJump(m, i, u)
      [] i.kind = "Lea"                              -> LiftLea(m, i, u)
      [] i.kind = "Pea"                              -> LiftPea(m, i, u)
      [] i.kind = "Link"                             -> LiftLink(m, i, u)
      [] i.kind = "Unlink"                           -> LiftUnlink(m, i)
      [] i.kind \in {"Rts", "Rte", "Rtr"}            -> LiftReturn(m, i)
      [] i.kind \in {"Trap", "Trapv"}                -> LiftTrap(m, i)
      [] i.kind \in {"Nop", "Reset", "Movep"}        -> m

-----------------------------------------------------------------------------
Init ==
    /\ \E f \in Families : inst \in f.instructions /\ unset \in f.unset /\ \E o \in f.operands : before = Machine(o)
    /\ interpreted = before /\ lifted = before /\ ran = FALSE

Run ==
    /\ ~ran /\ ran' = TRUE
    /\ interpreted' = Execute(before, inst)
    /\ lifted' = translate_inst(before, inst, unset)
    /\ UNCHANGED <<inst, unset, before>>

Spec == Init /\ [][Run]_vars

-----------------------------------------------------------------------------
(***************************************************************************)
(* Where the emitted code is not the interpreter's, by what causes it.     *)
(***************************************************************************)
Is(i, role, kinds) == role \in DOMAIN i /\ i[role].kind \in kinds
On(t, n) == "index" \in DOMAIN t /\ t.kind # "DataRegister" /\ t.index = n
Uses(t, n) == On(t, n) \/ ("xreg" \in DOMAIN t /\ t.xreg = AddrReg(n))

(* No statement steps this operand.                                        *)
Unstepped(i, role) ==
    CASE i.kind \in SourceToDestination -> Is(i, role, IF role = "src" THEN {"AddressIncrement"} ELSE {"AddressDecrement"})
      [] i.kind \in {"Move", "Cmpi", "Cmpm"} -> role = "dst" /\ Is(i, role, Stepped)
      [] OTHER -> FALSE

(* An exception the interpreter takes, and the emitted code does not, or   *)
(* not with N as it was.                                                   *)
Excepts(m, i) ==
    LET s == OperandValue(try_decrement_address(m, i, "src"), i.src, Word)
        d == Signed(m.d[i.dst.index], Word)
    IN  IF i.kind = "Chk" THEN d < 0 \/ d > Signed(s, Word) ELSE s = 0

(* A return address that is not there: the interpreter leaves the stack.   *)
NoReturnAddress(m, i) == ~Mapped(m, stack_ptr(m), IF i.kind = "Rtr" THEN Word + Long ELSE Long)

(* Both operands on one register: stepped in another order.                *)
Entangled(i) ==
    \/ i.kind \in ExtendKinds /\ Is(i, "src", {"AddressDecrement"}) /\ i.src.index = i.dst.index
    \/ i.kind \in {"Move", "Movea"} /\ Is(i, "src", {"AddressIncrement"}) /\ Uses(i.dst, i.src.index)

(* The kinds that use a size no decoder set.                               *)
SizeUnset(i, u) ==
    CASE i.kind \in {"Abcd", "Sbcd", "Scc", "Tas"} \cup ToCcrKinds            -> u.size # Byte
      [] i.kind \in {"Mulu", "Muls", "Divu", "Divs", "MoveToCcr", "MoveToSr"} -> u.size # Word /\ ~Is(i, "src", {"DataRegister"})
      [] i.kind \in {"MoveFromSr"} \cup ToSrKinds                             -> u.size # Word
      [] i.kind = "MoveFromUsp"                                               -> u.size # Long
      [] OTHER -> FALSE

Incomplete(m, i, u, done) ==
    \/ i.kind \in {"Tst", "Movep", "Rte"}
    \/ i.kind = "Dbcc" /\ i.cond = "True"
    \/ i.kind = "Nbcd" /\ Is(i, "dst", {"AddressIncrement"})
    \/ i.kind = "Link" /\ (i.dst.index = 7 \/ u.target.word # i.data)
    \/ i.kind \in {"Divu", "Divs", "Chk"} /\ Excepts(m, i)
    \/ i.kind \in {"Rts", "Rtr"} /\ NoReturnAddress(m, i)
    \/ i.kind \in QuickKinds /\ Is(i, "dst", {"AddressRegister"}) /\ i.size # Long
    \/ i.kind \notin {"Lea", "Pea", "Jmp", "Jsr", "Movem"}
       /\ \E role \in Roles : Is(i, role, {"ProgramCounterIndex"})
    \/ i.kind = "Movem" /\ \/ i.list = {}
                           \/ Is(i, "dst", {"AddressDecrement"}) /\ (Cardinality(i.list) > 1 \/ 7 - i.dst.index \in i.list)
    \/ i.kind = "Jsr" /\ Uses(i.dst, 7)
    \/ done.sr.s # m.sr.s

(* LEA, PEA, JMP and JSR of an address the bus does not have.              *)
OffTheBus(m, i, done) ==
    \/ i.kind \in {"Lea", "Pea"} /\ effective_address(m, i.src) # Bus(effective_address(m, i.src))
    \/ i.kind \in {"Jmp", "Jsr"} /\ done.pc # Bus(done.pc)

(* What the decoder takes, and the 68000 does not have: the lifter emits   *)
(* nothing for it, or an operand that is not meant.                        *)
Illegal(i) ==
    \/ Is(i, "dst", {"Immediate"}) /\ i.kind # "Btst"
    \/ i.kind \in {"Lea", "Pea", "Movem"} /\ Is(i, "src", {"Immediate"})
    \/ i.kind \in BitKinds /\ Is(i, "dst", {"AddressRegister"})

Deviates(m, i, u, done) ==
    \/ \E role \in Roles : Unstepped(i, role)
    \/ Entangled(i) \/ SizeUnset(i, u) \/ Incomplete(m, i, u, done) \/ OffTheBus(m, i, done) \/ Illegal(i)

(* Condition codes alone: CHK clears none, NBCD takes the overflow of      *)
(* ABCD, and the interpreter's CMPA.W carries with a negative source.      *)
FlagsDeviate(i) ==
    \/ i.kind = "Chk"
    \/ i.kind = "Nbcd"
    \/ i.kind = "Cmpa" /\ i.size = Word

(* Registers, memory, condition codes and the place of control.            *)
SameOutcome(i, done, emitted) ==
    /\ emitted.d = done.d /\ emitted.a = done.a
    /\ emitted.ssp = done.ssp /\ emitted.usp = done.usp
    /\ emitted.mem = done.mem
    /\ ~FlagsDeviate(i) => emitted.sr = done.sr
    /\ i.kind \notin {"Rts", "Rtr"} => emitted.pc = done.pc

(* Recompiled code does what the interpreter does: for every instruction   *)
(* that the interpreter completes, and but for the deviations above, the   *)
(* statement of lifter.cpp:187-806 leaves the registers, the memory, the   *)
(* condition codes and the place of control as Instruction::execute does.  *)
(* A function returns to its caller and not to the address it pops.        *)
LiftedAgrees ==
    ran /\ Ok(interpreted) /\ ~Deviates(before, inst, unset, interpreted) =>
        SameOutcome(inst, interpreted, lifted)

(* Every side effect of an operand is emitted: the address registers of    *)
(* (An)+ and -(An) end where the interpreter leaves them.                  *)
SideEffectsEmitted ==
    ran /\ Ok(interpreted) =>
        \A role \in Roles : Is(inst, role, Stepped) =>
            a_reg(lifted, inst[role].index) = a_reg(interpreted, inst[role].index)
=============================================================================
