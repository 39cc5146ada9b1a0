---------------------------- MODULE M68kProgram ----------------------------
(***************************************************************************)
(* A short program on the interpreter: one instruction after the other is  *)
(* executed on the machine until the program ends or an instruction fails  *)
(* (the run of Executor::Impl::execute_single_instruction).  What the      *)
(* machine was before each instruction is remembered, so that a property   *)
(* can relate several instructions.                                        *)
(***************************************************************************)
EXTENDS M68kTypes

CONSTANTS
    Families,     \* records of a set of programs and a set of operands
    Machine(_),   \* the machine that holds some operands
    RoundTrips    \* the programs that undo what they do to the registers

ASSUME ProgramAssumption ==
    \A f \in Families :
        /\ \A p \in f.programs : p \in Seq({p[k] : k \in DOMAIN p}) /\ \A k \in DOMAIN p : WellFormed(p[k])
        /\ \A o \in f.operands : Machine(o) \in Machines(DOMAIN Machine(o).mem)

VARIABLES program, machine, past

vars == <<program, machine, past>>

Init ==
    /\ \E f \in Families : \E p \in f.programs, o \in f.operands :
           program = p /\ machine = Machine(o)
    /\ past = <<>>

ExecuteNext ==
    /\ Ok(machine)
    /\ Len(past) < Len(program)
    /\ machine' = Execute(machine, program[Len(past) + 1])
    /\ past' = Append(past, machine)
    /\ UNCHANGED program

Next == ExecuteNext

Spec == Init /\ [][Next]_vars

-----------------------------------------------------------------------------
Executed == 1 .. Len(past)
Before(k) == past[k]
After(k) == IF k = Len(past) THEN machine ELSE past[k + 1]
Ended == Len(past) = Len(program)

TypeOK ==
    /\ Len(past) <= Len(program)
    /\ machine.d \in [0 .. 7 -> Values(Long)]
    /\ machine.a \in [0 .. 6 -> Values(Long)]
    /\ {machine.usp, machine.ssp, machine.pc} \subseteq Values(Long)
    /\ machine.sr \in StatusRegisters
    /\ machine.status \in {"ok", "error", "crash"}
    /\ \A b \in DOMAIN machine.mem : machine.mem[b] \in Values(Byte)

(* The value of an operand in a register.                                  *)
InRegister(m, t, size) ==
    Low(IF t.kind = "AddressRegister" THEN a_reg(m, t.index) ELSE m.d[t.index], size)
BothInRegisters(i) == i.src.kind = "DataRegister" /\ i.dst.kind = "DataRegister"

-----------------------------------------------------------------------------
(* After a comparison or a subtraction every condition that orders two     *)
(* numbers holds exactly when the operands are so ordered, as unsigned     *)
(* numbers for HI, LS, CC and CS and as signed ones for GE, LT, GT and LE: *)
(* the flags computed at execute.cpp:340-383 mean to the conditions of     *)
(* lines 99-138 what a program compares for.  CMPA compares longs, a word  *)
(* being extended; after a negative word the code always sets the carry,   *)
(* and only the conditions that do not look at it are claimed.             *)
SignedOrder(sr, s, d, size) ==
    LET Holds(cond) == calculate_condition(sr, cond)
        s1 == Signed(s, size)
        d1 == Signed(d, size)
    IN  /\ Holds("Equal") <=> d = s
        /\ Holds("NotEqual") <=> d # s
        /\ Holds("GreaterOrEqual") <=> d1 >= s1
        /\ Holds("LessThan") <=> d1 < s1
        /\ Holds("GreaterThan") <=> d1 > s1
        /\ Holds("LessOrEqual") <=> d1 <= s1

UnsignedOrder(sr, s, d) ==
    LET Holds(cond) == calculate_condition(sr, cond)
    IN  /\ Holds("Higher") <=> d > s
        /\ Holds("LowerOrSame") <=> d <= s
        /\ Holds("CarryClear") <=> d >= s
        /\ Holds("CarrySet") <=> d < s

Compares(i) ==
    \/ i.kind \in {"Cmp", "Sub"} /\ BothInRegisters(i)
    \/ i.kind = "Cmpa" /\ IsRegister(i.src)

(* The numbers that are compared, and at which size.                       *)
ExtendsWord(i) == i.kind = "Cmpa" /\ i.size = Word
ComparedSize(i) == IF ExtendsWord(i) THEN Long ELSE i.size
Subtrahend(m, i) ==
    LET s == InRegister(m, i.src, i.size)
    IN  IF ExtendsWord(i) THEN Low(Signed(s, Word), Long) ELSE s

NegativeWord(m, i) == ExtendsWord(i) /\ Signed(InRegister(m, i.src, Word), Word) < 0

ConditionsCompare ==
    \A k \in Executed :
        LET i == program[k]
            s == Subtrahend(Before(k), i)
            d == InRegister(Before(k), i.dst, ComparedSize(i))
        IN  Compares(i) =>
                /\ SignedOrder(After(k).sr, s, d, ComparedSize(i))
                /\ ~NegativeWord(Before(k), i) => UnsignedOrder(After(k).sr, s, d)

-----------------------------------------------------------------------------
(* Numbers of two limbs.  The low limbs are the operands of the first      *)
(* instruction of the program, the high limbs those of the second.         *)
LimbPrograms == {<<"Add", "Addx">>, <<"Sub", "Subx">>, <<"Neg", "Negx">>, <<"Addx", "Addx">>,
                 <<"Abcd", "Abcd">>, <<"Sbcd", "Sbcd">>, <<"Nbcd", "Nbcd">>}

Pairs(role, base, limb(_)) ==
    IF role \in DOMAIN program[1]
    THEN limb(program[2][role].index) * base + limb(program[1][role].index)
    ELSE 0

Digits(byte) == (byte \div Nibble) * RADIX + (byte % Nibble)
IsDecimal(byte) == byte \div Nibble < RADIX /\ byte % Nibble < RADIX

(* ADD then ADDX, SUB then SUBX, NEG then NEGX add, subtract and negate    *)
(* numbers twice as wide: the limbs, the carry in C and X, the sign, the   *)
(* overflow and Z are those of the wide operation (the 64-bit results and  *)
(* the sticky zero of execute.cpp:406-423 and 653-695).                    *)
WideBinary ==
    LET size == program[1].size
        base == Span(size)
        wide == base * base
        before(role) == Pairs(role, base, LAMBDA n : Low(past[1].d[n], size))
        after == Pairs("dst", base, LAMBDA n : Low(machine.d[n], size))
        sgn(v) == IF v >= wide \div 2 THEN v - wide ELSE v
        x == IF program[1].kind = "Addx" THEN past[1].sr.x ELSE 0
        exact(f(_)) == CASE program[2].kind = "Addx" -> f(before("dst")) + f(before("src")) + x
                         [] program[2].kind = "Subx" -> f(before("dst")) - f(before("src"))
                         [] program[2].kind = "Negx" -> -f(before("dst"))
        unsigned == exact(LAMBDA v : v)
        signed == exact(sgn)
    IN  /\ after = unsigned % wide
        /\ machine.sr.c = Flag(unsigned # after) /\ machine.sr.x = machine.sr.c
        /\ machine.sr.v = Flag(signed # sgn(after))
        /\ machine.sr.n = Flag(sgn(after) < 0)
        /\ (program[1].kind # "Addx" \/ past[1].sr.z = 1) => machine.sr.z = Flag(after = 0)

(* Likewise ABCD, SBCD and NBCD on decimal numbers of four digits, when    *)
(* every byte holds two digits and the chain starts with Z set.            *)
WideDecimal ==
    LET base == RADIX * RADIX
        wide == base * base
        before(role) == Pairs(role, base, LAMBDA n : Digits(Low(past[1].d[n], Byte)))
        after == Pairs("dst", base, LAMBDA n : Digits(Low(machine.d[n], Byte)))
        exact == CASE program[2].kind = "Abcd" -> before("dst") + before("src") + past[1].sr.x
                   [] program[2].kind = "Sbcd" -> before("dst") - before("src") - past[1].sr.x
                   [] program[2].kind = "Nbcd" -> -before("dst") - past[1].sr.x
        digits == \A k \in 1 .. 2 : \A role \in Roles \cap DOMAIN program[k] :
                      IsDecimal(Low(past[1].d[program[k][role].index], Byte))
    IN  digits => /\ after = exact % wide
                  /\ machine.sr.c = Flag(exact # after) /\ machine.sr.x = machine.sr.c
                  /\ past[1].sr.z = 1 => machine.sr.z = Flag(after = 0)

Decimals == {"Abcd", "Sbcd", "Nbcd"}

(* The limbs lie in data registers, all of one size, and the high limbs    *)
(* not where the low result goes.                                          *)
InLimbs ==
    /\ \A k \in 1 .. 2 : \A role \in Roles \cap DOMAIN program[k] : program[k][role].kind = "DataRegister"
    /\ \A role \in Roles \cap DOMAIN program[2] : program[2][role].index # program[1].dst.index
    /\ program[1].kind \notin Decimals => program[1].size = program[2].size

(* Extended arithmetic is the arithmetic of wider numbers.                 *)
LimbsChain ==
    Ended /\ Len(program) = 2 /\ <<program[1].kind, program[2].kind>> \in LimbPrograms /\ InLimbs =>
        IF program[1].kind \in Decimals THEN WideDecimal ELSE WideBinary

-----------------------------------------------------------------------------
(* ASL multiplies by a power of two and V says that the product does not   *)
(* fit; ASR divides and rounds down; LSL and LSR do the same to unsigned   *)
(* numbers; a count beyond the width shifts everything out; the carry is   *)
(* the last bit shifted out (the loop of execute.cpp:466-552).             *)
ShiftsScale ==
    \A k \in Executed :
        LET i == program[k] IN
        i.kind \in {"Asl", "Asr", "Lsl", "Lsr"} /\ i.dst.kind = "DataRegister" /\ Ok(After(k)) =>
            LET count == IF "src" \in DOMAIN i
                         THEN InRegister(Before(k), i.src, i.size) % (2 * bit_count(Long))
                         ELSE IF i.data = 0 THEN 8 ELSE i.data
                size == i.size
                n  == IF count <= bit_count(size) THEN count ELSE bit_count(size) + 1
                u  == InRegister(Before(k), i.dst, size)
                v  == IF i.kind \in {"Asl", "Asr"} THEN Signed(u, size) ELSE u
                after == InRegister(After(k), i.dst, size)
                sr == After(k).sr
            IN  IF i.kind \in {"Asl", "Lsl"}
                THEN /\ after = Low(v * 2 ^ n, size)
                     /\ sr.v = Flag(i.kind = "Asl" /\ v * 2 ^ n # Signed(after, size))
                     /\ n > 0 => sr.c = ((u * 2 ^ n) \div Span(size)) % 2
                ELSE /\ after = Low(v \div 2 ^ n, size)
                     /\ sr.v = 0
                     /\ 0 < n /\ count <= bit_count(size) => sr.c = (v \div 2 ^ (n - 1)) % 2

(* A quotient and a remainder that are written give the dividend back, the *)
(* remainder is smaller than the divisor and has the dividend's sign; when *)
(* the quotient does not fit, V is set and the register keeps the dividend *)
(* (execute.cpp:1033-1081).  Only DIVS of the least long by -1 crashes.    *)
SameSign(r, d) == r = 0 \/ (r < 0) = (d < 0)

DivisionInverts ==
    \A k \in Executed :
        LET i == program[k]
            s == IF i.kind = "Divs" THEN Signed(InRegister(Before(k), i.src, Word), Word)
                                    ELSE InRegister(Before(k), i.src, Word)
            d == IF i.kind = "Divs" THEN Signed(Before(k).d[i.dst.index], Long)
                                    ELSE Before(k).d[i.dst.index]
            after == After(k).d[i.dst.index]
            quotient == IF i.kind = "Divs" THEN Signed(after, Word) ELSE after % Span(Word)
            remainder == IF i.kind = "Divs" THEN Signed(after \div Span(Word), Word)
                                            ELSE after \div Span(Word)
        IN  i.kind \in {"Divs", "Divu"} /\ BothInRegisters(i) /\ InRegister(Before(k), i.src, Word) # 0 =>
                IF After(k).status = "crash"
                THEN s = -1 /\ d = -(Span(Long) \div 2)
                ELSE IF After(k).sr.v = 1
                THEN /\ After(k).d = Before(k).d
                     /\ \A q \in IF i.kind = "Divs"
                                 THEN -(Span(Word) \div 2) .. Span(Word) \div 2 - 1
                                 ELSE Values(Word) :
                            LET r == d - q * s IN ~(Abs(r) < Abs(s) /\ SameSign(r, d))
                ELSE /\ quotient * s + remainder = d
                     /\ Abs(remainder) < Abs(s)
                     /\ SameSign(remainder, d)
                     /\ After(k).sr.n = msb(quotient, Word)
                     /\ After(k).sr.z = Flag(quotient = 0)

-----------------------------------------------------------------------------
(* However often an instruction reads and writes its operand, the address  *)
(* register of (An)+ and -(An) moves by the operand once, by two bytes for *)
(* a byte (or an empty MOVEM) at the stack pointer; two operands on the    *)
(* same register move it twice (already_decremented_ and the used_flag of  *)
(* execute.cpp:210-232).                                                   *)
StepsOnce ==
    \A k \in Executed : \A n \in 0 .. 7 :
        LET i == program[k]
            step(role) ==
                IF role \notin DOMAIN i THEN 0
                ELSE LET t == i[role]
                         bytes == t.size * IF i.kind = "Movem" THEN Cardinality(i.list) ELSE 1
                         even == IF n = 7 /\ bytes < 2 THEN 2 ELSE bytes
                     IN  CASE t.kind = "AddressIncrement" /\ t.index = n -> even
                           [] t.kind = "AddressDecrement" /\ t.index = n -> -even
                           [] OTHER -> 0
        IN  Ok(After(k)) /\ ~Writes(i, n) =>
                a_reg(After(k), n) = Low(a_reg(Before(k), n) + step("src") + step("dst"), Long)

-----------------------------------------------------------------------------
Registers(m) == [d |-> m.d, a |-> m.a, usp |-> m.usp, ssp |-> m.ssp]

(* Storing registers with MOVEM and loading them back, MOVEP there and     *)
(* back, LINK and UNLK, a call and its return, opposite rotations, two     *)
(* exchanges: the program leaves the registers as it found them.           *)
RoundTripsRestore ==
    Ended /\ program \in RoundTrips =>
        /\ Registers(machine) = Registers(past[1])
        /\ machine.sr.x = past[1].sr.x

(* An instruction that fails has changed no data register, and no          *)
(* condition code but the X and C a rotation through X works on and the Z  *)
(* of a bit operation: nothing a retry would see twice is half done.       *)
FailureKeepsOperands ==
    \A k \in Executed :
        LET i == program[k]
            changed == {f \in DOMAIN machine.sr : After(k).sr[f] # Before(k).sr[f]}
        IN  After(k).status = "error" /\ i.kind \notin {"Dbcc", "Trap", "Trapv", "Chk", "Divu",
                                                        "Divs", "Rte", "Rtr", "Rts"} =>
                /\ After(k).d = Before(k).d
                /\ changed \subseteq CASE i.kind \in {"Roxl", "Roxr"} -> {"x", "c"}
                                       [] i.kind \in BitKinds -> {"z"}
                                       [] OTHER -> {}
=============================================================================
