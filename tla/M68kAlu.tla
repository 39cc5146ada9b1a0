------------------------------ MODULE M68kAlu ------------------------------
(***************************************************************************)
(* The arithmetic of src/src/m68k/instruction/execute.cpp: what the        *)
(* interpreter computes from two operands, and the condition codes it      *)
(* derives from the 64-bit result.                                         *)
(*                                                                         *)
(* A byte has BYTE bits (8 in the code), a word and a long two and four    *)
(* bytes, so that a small BYTE makes the operands enumerable; RADIX is the *)
(* base of a decimal digit (10 in the code), which fills half a byte.      *)
(* A LongLong is an integer: the code subtracts in 64 bits and looks for a *)
(* borrow in the bits above the operand, which is what the sign of the     *)
(* difference is here.                                                     *)
(***************************************************************************)
EXTENDS Integers, FiniteSetsExt

CONSTANTS
    BYTE,     \* bits of a byte, an even number
    RADIX     \* base of a decimal digit

ASSUME ByteAssumption == BYTE \in Nat /\ BYTE >= 2 /\ BYTE % 2 = 0
ASSUME RadixAssumption == RADIX \in Nat /\ RADIX > 1 /\ RADIX <= 2 ^ (BYTE \div 2)

Byte == 1
Word == 2
Long == 4
Sizes == {Byte, Word, Long}

Bit == 0 .. 1
Flag(b) == IF b THEN 1 ELSE 0

bit_count(size) == size * BYTE
Span(size) == 2 ^ bit_count(size)
Values(size) == 0 .. Span(size) - 1

(* Truncation to `size' bytes, and the same bits read as a signed number.  *)
Low(v, size) == v % Span(size)
msb(v, size) == (v \div 2 ^ (bit_count(size) - 1)) % 2
Signed(v, size) == Low(v, size) - msb(v, size) * Span(size)

is_carry(v, size) == Flag(v # Low(v, size))
is_zero(v, size) == Flag(Low(v, size) = 0)

(***************************************************************************)
(* Bitwise operations, on the set of the bits that are 1.                  *)
(***************************************************************************)
BitsOf(v) == {b \in 0 .. 4 * BYTE - 1 : (v \div 2 ^ b) % 2 = 1}
FromBits(B) == SumSet({2 ^ b : b \in B})
BitAnd(v, w) == FromBits(BitsOf(v) \cap BitsOf(w))
BitOr(v, w) == FromBits(BitsOf(v) \cup BitsOf(w))
BitXor(v, w) == FromBits(SymDiff(BitsOf(v), BitsOf(w)))

(***************************************************************************)
(* Binary operations.  SUB and CMP compute destination minus source.       *)
(***************************************************************************)
Subtracts(op) == op \in {"Sub", "Cmp"}

do_binary_op(op, lhs, rhs) ==
    CASE op = "Add" -> lhs + rhs
      [] op = "And" -> BitAnd(lhs, rhs)
      [] op = "Eor" -> BitXor(lhs, rhs)
      [] op = "Or"  -> BitOr(lhs, rhs)
      [] Subtracts(op) -> rhs - lhs

(* Mutant: a subtraction is taken for an addition.                         *)
is_overflow_of_sum(lhs, rhs, result, size, op) ==
    Flag(msb(lhs, size) = msb(rhs, size) /\ msb(result, size) # msb(rhs, size))

is_overflow(lhs, rhs, result, size, op) ==
    LET l == IF Subtracts(op) THEN 1 - msb(lhs, size) ELSE msb(lhs, size)
        r == msb(rhs, size)
    IN  Flag(l = r /\ msb(result, size) # r)

(***************************************************************************)
(* Conditions of Bcc, DBcc and Scc.                                        *)
(***************************************************************************)
Conditions == {"True", "False", "Higher", "LowerOrSame", "CarryClear", "CarrySet",
               "NotEqual", "Equal", "OverflowClear", "OverflowSet", "Plus", "Minus",
               "GreaterOrEqual", "LessThan", "GreaterThan", "LessOrEqual"}

calculate_condition(sr, cond) ==
    CASE cond = "True"           -> TRUE
      [] cond = "False"          -> FALSE
      [] cond = "Higher"         -> sr.c = 0 /\ sr.z = 0
      [] cond = "LowerOrSame"    -> sr.c = 1 \/ sr.z = 1
      [] cond = "CarryClear"     -> sr.c = 0
      [] cond = "CarrySet"       -> sr.c = 1
      [] cond = "NotEqual"       -> sr.z = 0
      [] cond = "Equal"          -> sr.z = 1
      [] cond = "OverflowClear"  -> sr.v = 0
      [] cond = "OverflowSet"    -> sr.v = 1
      [] cond = "Plus"           -> sr.n = 0
      [] cond = "Minus"          -> sr.n = 1
      [] cond = "GreaterOrEqual" -> sr.n = sr.v
      [] cond = "LessThan"       -> sr.n # sr.v
      [] cond = "GreaterThan"    -> \/ sr.n = 1 /\ sr.v = 1 /\ sr.z = 0
                                    \/ sr.n = 0 /\ sr.v = 0 /\ sr.z = 0
      [] cond = "LessOrEqual"    -> \/ sr.z = 1
                                    \/ sr.n = 1 /\ sr.v = 0
                                    \/ sr.n = 0 /\ sr.v = 1

(***************************************************************************)
(* Flags left by the logical group (N and Z follow the value, V and C are  *)
(* cleared) and by the arithmetic group.                                   *)
(***************************************************************************)
SetLogic(sr, v, size) ==
    [sr EXCEPT !.n = msb(v, size), !.z = is_zero(v, size), !.v = 0, !.c = 0]

SetCompare(sr, lhs, rhs, result, size, op) ==
    [sr EXCEPT !.n = msb(result, size), !.z = is_zero(result, size),
               !.v = is_overflow(lhs, rhs, result, size, op), !.c = is_carry(result, size)]

SetArithmetic(sr, lhs, rhs, result, size, op) ==
    [SetCompare(sr, lhs, rhs, result, size, op) EXCEPT !.x = is_carry(result, size)]

SetBinary(sr, lhs, rhs, result, size, op) ==
    CASE op \in {"Add", "Sub"} -> SetArithmetic(sr, lhs, rhs, result, size, op)
      [] op = "Cmp"            -> SetCompare(sr, lhs, rhs, result, size, op)
      [] OTHER                 -> SetLogic(sr, result, size)

(* Mutant: Z is set afresh.                                                *)
ZeroAfresh(before, after) == after

(* Extended operations leave Z alone when the result is zero.              *)
StickyZero(before, after) == [after EXCEPT !.z = IF @ = 1 THEN before.z ELSE 0]

(***************************************************************************)
(* Decimal arithmetic on two digits.                                       *)
(***************************************************************************)
Nibble == 2 ^ (BYTE \div 2)

SetDecimal(sr, result, carry, overflow) ==
    StickyZero(sr, [sr EXCEPT !.n = msb(result, Byte), !.z = is_zero(result, Byte),
                              !.v = overflow, !.c = carry, !.x = carry])

(* The result byte and the flags of ABCD.                                  *)
Abcd(sr, src, dst) ==
    LET low    == (src % Nibble) + (dst % Nibble) + sr.x
        carry  == Flag(low >= RADIX)
        digit  == low - RADIX * carry
        spill  == Flag(digit >= Nibble)
        high   == (src \div Nibble) + (dst \div Nibble) + carry + spill
        out    == Flag(high >= RADIX)
        result == Low((high - RADIX * out) * Nibble + digit - Nibble * spill, Byte)
        binary == src + dst + sr.x
    IN  [value |-> result,
         sr    |-> SetDecimal(sr, result, out, Flag(msb(binary, Byte) = 0 /\ msb(result, Byte) = 1))]

(* minuend - subtrahend - X, for SBCD (dst - src) and NBCD (0 - dst).      *)
Sbcd(sr, minuend, subtrahend) ==
    LET low    == (minuend % Nibble) - (subtrahend % Nibble) - sr.x
        borrow == Flag(low < 0)
        digit  == low + RADIX * borrow
        high   == (minuend \div Nibble) - (subtrahend \div Nibble) - borrow
        out    == Flag(high < 0)
        upper  == high + RADIX * out
        result == Low(upper * Nibble + digit, Byte)
        binary == minuend - subtrahend - sr.x
    IN  [value |-> result,
         sr    |-> SetDecimal(sr, result, Flag(out = 1 \/ (upper = 0 /\ digit < 0)),
                              Flag(msb(binary, Byte) = 1 /\ msb(result, Byte) = 0))]

(***************************************************************************)
(* Shifts and rotates, one bit at a time: value, last bit shifted out, X,  *)
(* and whether the sign ever changed.                                      *)
(***************************************************************************)
Shifts == {"Asl", "Asr", "Lsl", "Lsr", "Rol", "Ror", "Roxl", "Roxr"}
LeftShifts == {"Asl", "Lsl", "Rol", "Roxl"}

(* Mutant: ASR shifts in a zero.                                           *)
ShiftOnceUnsigned(kind, size, i, s) ==
    LET top  == 2 ^ (bit_count(size) - 1)
        out  == IF kind \in LeftShifts THEN msb(s.value, size) ELSE s.value % 2
        next == IF kind \in LeftShifts THEN Low(2 * s.value, size) ELSE s.value \div 2
    IN  [value |-> next, last |-> out, x |-> s.x, changed |-> s.changed]

ShiftOnce(kind, size, i, s) ==
    LET top  == 2 ^ (bit_count(size) - 1)
        out  == IF kind \in LeftShifts THEN msb(s.value, size)
                ELSE IF kind = "Asr" /\ i >= bit_count(size) THEN 0 ELSE s.value % 2
        in   == CASE kind \in {"Rol", "Ror"}   -> out
                  [] kind \in {"Roxl", "Roxr"} -> s.x
                  [] kind = "Asr"              -> msb(s.value, size)
                  [] OTHER                     -> 0
        next == IF kind \in LeftShifts THEN Low(2 * s.value + in, size)
                                       ELSE s.value \div 2 + in * top
    IN  [value   |-> next,
         last    |-> out,
         x       |-> IF kind \in {"Roxl", "Roxr"} THEN out ELSE s.x,
         changed |-> s.changed \/ msb(next, size) # msb(s.value, size)]

Shift(kind, size, count, value, sr) ==
    LET step[i \in 0 .. count] ==
            IF i = 0 THEN [value |-> value, last |-> 0, x |-> sr.x, changed |-> FALSE]
                     ELSE ShiftOnce(kind, size, i - 1, step[i - 1])
    IN  step[count]

ShiftFlags(kind, size, count, done, sr) ==
    LET extends == kind \in {"Roxl", "Roxr"}
        rotates == kind \in {"Rol", "Ror"}
    IN  [sr EXCEPT !.n = msb(done.value, size), !.z = is_zero(done.value, size),
                   !.v = Flag(kind \in {"Asl", "Asr"} /\ done.changed),
                   !.c = IF count # 0 THEN done.last ELSE IF extends THEN sr.x ELSE 0,
                   !.x = IF extends THEN done.x
                         ELSE IF count = 0 \/ rotates THEN sr.x ELSE done.last]

(***************************************************************************)
(* NEG, NEGX, CLR and NOT: the 64-bit result and the overflow.             *)
(***************************************************************************)
Unary(kind, size, value, sr) ==
    LET inverted == -value - 1
        adds     == kind = "Neg" \/ sr.x = 0
    IN  CASE kind = "Clr" -> [value |-> 0, v |-> 0]
          [] kind = "Not" -> [value |-> inverted, v |-> 0]
          [] kind \in {"Neg", "Negx"} ->
               [value |-> inverted + Flag(adds),
                v     |-> Flag(adds /\ Low(inverted, size) = Span(size) \div 2 - 1)]

SetUnary(sr, kind, size, result) ==
    LET set == [SetLogic(sr, result.value, size) EXCEPT !.v = result.v]
        c   == is_carry(result.value, size)
        all == IF kind \in {"Neg", "Negx"} THEN [set EXCEPT !.c = c, !.x = c] ELSE set
    IN  IF kind = "Negx" THEN StickyZero(sr, all) ELSE all

(***************************************************************************)
(* Division towards zero of C, on a non-zero divisor.                      *)
(***************************************************************************)
Abs(n) == IF n < 0 THEN -n ELSE n

(* Mutant: the quotient is rounded down.                                   *)
FlooredQuotient(n, d) == IF d < 0 THEN (-n) \div (-d) ELSE n \div d

Quotient(n, d) == IF (n < 0) = (d < 0) THEN Abs(n) \div Abs(d) ELSE -(Abs(n) \div Abs(d))

Remainder(n, d) == n - d * Quotient(n, d)

(* DIVU and DIVS of a long by a word, not 0: the quotient in the low word  *)
(* of the result and the remainder in the high one, unless the quotient    *)
(* does not fit.                                                           *)
Divide(kind, sr, divisor, dividend) ==
    LET unsigned == kind = "Divu"
        s == IF unsigned THEN divisor ELSE Signed(divisor, Word)
        d == IF unsigned THEN dividend ELSE Signed(dividend, Long)
        quotient == Quotient(d, s)
        fits == quotient = IF unsigned THEN Low(quotient, Word) ELSE Signed(quotient, Word)
    IN  [fits  |-> fits,
         value |-> Low(Remainder(d, s), Word) * Span(Word) + Low(quotient, Word),
         sr    |-> IF fits THEN [sr EXCEPT !.v = 0, !.c = 0, !.n = msb(quotient, Word),
                                           !.z = Flag(quotient = 0)]
                           ELSE [sr EXCEPT !.v = 1, !.c = 0]]
=============================================================================
