---------------------------- MODULE M68kTargets ----------------------------
(***************************************************************************)
(* The registers and memory an instruction works on, and its operands      *)
(* (src/src/m68k/target/target.cpp, src/src/m68k/registers/registers.h).   *)
(*                                                                         *)
(* A machine is a record: the Context of the code (registers and device)   *)
(* with the outcome so far and what the two Target objects remember of     *)
(* their side effects.  Operators take a machine and give the next one; a  *)
(* status other than "ok" is the early return of an Error.                 *)
(*                                                                         *)
(* The status register keeps the fields that something reads: the five     *)
(* condition codes, the supervisor bit and the interrupt mask.             *)
(***************************************************************************)
EXTENDS M68kAlu, Sequences

Roles == {"src", "dst"}

StatusRegisters == [c : Bit, v : Bit, z : Bit, n : Bit, x : Bit, s : Bit, mask : 0 .. 7]

(***************************************************************************)
(* Targets.  `word' and `low' are the extension words; the fields of the   *)
(* brief extension word of the indexed kinds are kept apart: which         *)
(* register, whether all of it counts, and the byte of displacement.  The  *)
(* 68000 has no scale (scale_value is 1).                                  *)
(***************************************************************************)
DataReg(n)     == [kind |-> "DataRegister", index |-> n]
AddrReg(n)     == [kind |-> "AddressRegister", index |-> n]
Indirect(n)    == [kind |-> "Address", index |-> n]
PostInc(n, s)  == [kind |-> "AddressIncrement", index |-> n, size |-> s]
PreDec(n, s)   == [kind |-> "AddressDecrement", index |-> n, size |-> s]
Displaced(n, w) == [kind |-> "AddressDisplacement", index |-> n, word |-> w]
Indexed(n, x, long, disp) ==
    [kind |-> "AddressIndex", index |-> n, xreg |-> x, xlong |-> long, disp |-> disp]
PcDisplaced(w) == [kind |-> "ProgramCounterDisplacement", word |-> w]
PcIndexed(x, long, disp) ==
    [kind |-> "ProgramCounterIndex", xreg |-> x, xlong |-> long, disp |-> disp]
AbsShort(w)    == [kind |-> "AbsoluteShort", word |-> w]
AbsLong(w, low) == [kind |-> "AbsoluteLong", word |-> w, low |-> low]
Imm(address)   == [kind |-> "Immediate", address |-> address]

(***************************************************************************)
(* Registers.  A7 is the stack pointer of the current mode.                *)
(***************************************************************************)
stack_ptr(m) == IF m.sr.s = 1 THEN m.ssp ELSE m.usp

SetStackPtr(m, v) ==
    IF m.sr.s = 1 THEN [m EXCEPT !.ssp = Low(v, Long)] ELSE [m EXCEPT !.usp = Low(v, Long)]

a_reg(m, n) == IF n < 7 THEN m.a[n] ELSE stack_ptr(m)

SetA(m, n, v) == IF n < 7 THEN [m EXCEPT !.a[n] = Low(v, Long)] ELSE SetStackPtr(m, v)

(***************************************************************************)
(* Memory: big-endian, and an access outside the mapped bytes is refused.  *)
(***************************************************************************)
Mapped(m, addr, size) == addr .. addr + size - 1 \subseteq DOMAIN m.mem

Fetch(m, addr, size) ==
    LET upTo[k \in 0 .. size] ==
            IF k = 0 THEN 0 ELSE upTo[k - 1] * Span(Byte) + m.mem[addr + k - 1]
    IN  upTo[size]

Put(m, addr, size, v) ==
    [m EXCEPT !.mem = [b \in DOMAIN @ |->
        IF b \in addr .. addr + size - 1
        THEN (v \div 2 ^ (BYTE * (addr + size - 1 - b))) % Span(Byte)
        ELSE @[b]]]

Fail(m) == [m EXCEPT !.status = "error"]
Ok(m) == m.status = "ok"

PutOrFail(m, addr, size, v) == IF Mapped(m, addr, size) THEN Put(m, addr, size, v) ELSE Fail(m)

(***************************************************************************)
(* Side effects on the address register.  The stack pointer stays even.    *)
(* The count is 1 but for MOVEM, which moves by its number of registers    *)
(* when it stores (on the destination) or loads (on both operands).        *)
(***************************************************************************)
StepBytes(t, count) ==
    IF t.index = 7 THEN Max({t.size * count, 2}) ELSE t.size * count

RegisterCount(i) == Cardinality(i.list)

DecrementCount(i, role) == IF i.kind = "Movem" /\ role = "dst" THEN RegisterCount(i) ELSE 1
(* Mutant: a load of several registers moves the address by one.          *)
IncrementCountOne(i) == 1

IncrementCount(i) == IF i.kind = "Movem" /\ "src" \in DOMAIN i THEN RegisterCount(i) ELSE 1

(* Mutant: every access decrements.                                        *)
DecrementAddressAlways(m, i, role) ==
    LET t == i[role]
    IN  IF t.kind = "AddressDecrement"
        THEN SetA(m, t.index, a_reg(m, t.index) - StepBytes(t, DecrementCount(i, role)))
        ELSE m

(* Before the first access only, however often the target is accessed.     *)
try_decrement_address(m, i, role) ==
    LET t == i[role]
    IN  IF role \in m.decremented THEN m
        ELSE [IF t.kind = "AddressDecrement"
              THEN SetA(m, t.index, a_reg(m, t.index) - StepBytes(t, DecrementCount(i, role)))
              ELSE m
              EXCEPT !.decremented = @ \cup {role}]

(* Once per instruction; try_inc_address of execute.cpp.                   *)
try_increment_address(m, i, role) ==
    IF role \notin DOMAIN i \/ role \in m.incremented THEN m
    ELSE LET t == i[role]
         IN  [IF t.kind = "AddressIncrement"
              THEN SetA(m, t.index, a_reg(m, t.index) + StepBytes(t, IncrementCount(i)))
              ELSE m
              EXCEPT !.incremented = @ \cup {role}]

(***************************************************************************)
(* Addresses.                                                              *)
(***************************************************************************)
indexed_address(m, t, base) ==
    LET reg == IF t.xreg.kind = "AddressRegister" THEN a_reg(m, t.xreg.index)
                                                  ELSE m.d[t.xreg.index]
    IN  base + Signed(t.disp, Byte) + Signed(reg, IF t.xlong THEN Long ELSE Word)

effective_address(m, t) ==
    Low(CASE t.kind \in {"Address", "AddressIncrement", "AddressDecrement"} -> a_reg(m, t.index)
          [] t.kind = "AddressDisplacement" -> a_reg(m, t.index) + Signed(t.word, Word)
          [] t.kind = "AddressIndex"        -> indexed_address(m, t, a_reg(m, t.index))
          [] t.kind = "ProgramCounterDisplacement" -> m.pc - 2 + Signed(t.word, Word)
          [] t.kind = "ProgramCounterIndex" -> indexed_address(m, t, m.pc - 2)
          [] t.kind = "AbsoluteShort"       -> Signed(t.word, Word)
          [] t.kind = "AbsoluteLong"        -> t.word * Span(Word) + t.low
          [] t.kind = "Immediate"           -> t.address,
        Long)

(***************************************************************************)
(* Accesses, with the continuation of the instruction.  A register gives   *)
(* its low bytes and keeps its high ones.                                  *)
(***************************************************************************)
IsRegister(t) == t.kind \in {"DataRegister", "AddressRegister"}

RegisterValue(m, t) == IF t.kind = "DataRegister" THEN m.d[t.index] ELSE a_reg(m, t.index)

(* Can the operand be read, and its value if so.                           *)
Accessible(m, t, size) == IsRegister(t) \/ Mapped(m, effective_address(m, t), size)

OperandValue(m, t, size) ==
    IF IsRegister(t) THEN Low(RegisterValue(m, t), size) ELSE Fetch(m, effective_address(m, t), size)

Read(m, i, role, size, Continue(_, _)) ==
    LET p == try_decrement_address(m, i, role)
    IN  IF Accessible(p, i[role], size) THEN Continue(p, OperandValue(p, i[role], size)) ELSE Fail(p)

(* Mutant: the value is not cut to the size.                               *)
ReplacedWide(reg, v, size) == reg - Low(reg, size) + v

Replaced(reg, v, size) == reg - Low(reg, size) + Low(v, size)

Write(m, i, role, size, v) ==
    LET t == i[role]
        p == try_decrement_address(m, i, role)
    IN  CASE t.kind = "DataRegister"    -> [p EXCEPT !.d[t.index] = Replaced(@, v, size)]
          [] t.kind = "AddressRegister" -> SetA(p, t.index, Replaced(a_reg(p, t.index), v, size))
          [] OTHER -> PutOrFail(p, effective_address(p, t), size, v)

(* Mutant: the error of the write is not looked at.                        *)
ThenAlways(m, sr) == [m EXCEPT !.sr = sr]

(* The status register after a write that succeeded.                       *)
Then(m, sr) == IF Ok(m) THEN [m EXCEPT !.sr = sr] ELSE m
=============================================================================
