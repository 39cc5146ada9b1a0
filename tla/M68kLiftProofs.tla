---------------------------- MODULE M68kLiftProofs ---------------------------
(***************************************************************************)
(* The emitted code and the interpreter, one instruction at a time, for    *)
(* every operand and machine, at the widths of the code (EightBits).       *)
(*                                                                         *)
(* Twin(D, x, y) of M68kProofs relates a machine of the interpreter to one *)
(* of the emitted code: equal but for what only the interpreter keeps (the *)
(* marks of the operands it stepped, and its status).  A read gives        *)
(* both the same value up to what is above the size, a write and a step of *)
(* an operand keep the relation, and an instruction of the interpreter     *)
(* ends with the increments that the lifter emits as statements of their   *)
(* own.  The kinds follow from these facts, in the order in which each     *)
(* reads and writes.                                                       *)
(*                                                                         *)
(* The hypothesis of every such lemma is that the interpreter completes    *)
(* the instruction (Ok) and that no deviation of M68kLift applies.         *)
(***************************************************************************)
EXTENDS M68kLift, M68kProofs

(* All the memory is on the bus of the runtime.                            *)
OnBus(D) == D \subseteq 0 .. 2 ^ (3 * BYTE) - 1

-----------------------------------------------------------------------------
(***************************************************************************)
(* The steps of the operands, and the bus.                                 *)
(***************************************************************************)

(* The step in the emitted code is the interpreter's, A7's step of two for *)
(* a byte included.                                                        *)
LEMMA Adjusts ==
    ASSUME NEW t, t.size \in Sizes
    PROVE  StepBytes(t, 1) = Adjustment(t, t.size) /\ Adjustment(t, t.size) \in Int
<1>1. t.size \in {1, 2, 4} /\ Byte = 1
  BY DEF Sizes, Byte, Word, Long
<1>2. \A k \in Nat : \E x \in {k, 2} : \A y \in {k, 2} : x >= y
  OBVIOUS
<1>3. Max({t.size, 2}) = IF t.size = 1 THEN 2 ELSE t.size
  <2>1. Max({t.size, 2}) \in {t.size, 2} /\ \A y \in {t.size, 2} : Max({t.size, 2}) >= y
    BY <1>1, <1>2 DEF Max
  <2> QED BY <1>1, <2>1
<1>4. t.size * 1 = t.size
  BY <1>1
<1>5. Adjustment(t, t.size) = IF t.index = 7 /\ t.size = 1 THEN 2 ELSE t.size
  BY <1>1 DEF Adjustment
<1>6. StepBytes(t, 1) = IF t.index = 7 THEN Max({t.size, 2}) ELSE t.size
  BY <1>4 DEF StepBytes
<1> QED BY <1>1, <1>3, <1>5, <1>6

(* The statement before an instruction steps -(An) as the interpreter's    *)
(* first access does.                                                      *)
LEMMA DecrementTwin ==
    ASSUME EightBits, NEW D, NEW x, NEW y, Twin(D, x, y), NEW i, NEW role \in Roles, NEW t \in Targets,
               t = i[role],
           i.kind # "Movem", NEW size, t.kind \in Stepped => t.size = size, role \notin x.decremented,
           NEW p, p = try_decrement_address(x, i, role)
    PROVE  /\ Twin(D, p, pre_effect(y, t, size))
           /\ p.decremented = x.decremented \cup {role} /\ p.incremented = x.incremented /\ p.status = x.status
           /\ p.pc = x.pc /\ p.sr = x.sr /\ p.d = x.d /\ p.mem = x.mem
<1> DEFINE marks == x.decremented \cup {role}
<1>1. marks \in SUBSET Roles
  BY DEF Twin, Machines
<1>2. CASE t.kind = "AddressDecrement"
  <2> DEFINE v == a_reg(x, t.index) - StepBytes(t, 1)
             z == SetA(x, t.index, v)
  <2>1. p = [z EXCEPT !.decremented = @ \cup {role}]
    BY <1>2 DEF try_decrement_address, DecrementCount
  <2>2. t.size \in Sizes /\ t.index \in 0 .. 7 /\ t.size = size
    BY <1>2, TargetIn DEF Stepped
  <2>3. StepBytes(t, 1) = Adjustment(t, size) /\ StepBytes(t, 1) \in Int
    BY <2>2, Adjusts
  <2>4. a_reg(x, t.index) \in Int
    BY <2>2, RegisterIn, ValuesWiden DEF Twin
  <2>5. v \in Int
    BY <2>3, <2>4
  <2>6. pre_effect(y, t, size) = SetA(y, t.index, v)
    BY <1>2, <2>3, TwinRegisters DEF pre_effect
  <2> HIDE DEF v
  <2>7. Twin(D, z, SetA(y, t.index, v))
    BY <2>2, <2>5, TwinSetA
  <2>8. AddressSet(D, z, x, t.index, v)
    BY <2>2, <2>5, SetAIn DEF Twin
  <2> HIDE DEF z
  <2>9. p = [z EXCEPT !.decremented = marks]
    BY <2>1, <2>8 DEF AddressSet, OnlyAddresses, Machines
  <2>10. Twin(D, p, pre_effect(y, t, size))
    <3> HIDE DEF marks
    <3> QED BY <1>1, <2>6, <2>7, <2>9, TwinMarks
  <2>11. z \in Machines(D) /\ OnlyAddresses(z, x)
    BY <2>8 DEF AddressSet
  <2> QED BY <2>9, <2>10, <2>11 DEF OnlyAddresses, Machines
<1>3. CASE t.kind # "AddressDecrement"
  <2>1. p = [x EXCEPT !.decremented = marks]
    BY <1>3 DEF try_decrement_address, Twin, Machines
  <2>2. pre_effect(y, t, size) = y
    BY <1>3 DEF pre_effect
  <2>3. Twin(D, p, y)
    <3> HIDE DEF marks
    <3> QED BY <1>1, <2>1, TwinMarks
  <2> QED BY <2>1, <2>2, <2>3 DEF Twin, Machines
<1> QED BY <1>2, <1>3

(* The statement after an instruction steps (An)+ as the interpreter does. *)
LEMMA IncrementTwin ==
    ASSUME EightBits, NEW D, NEW x, NEW y, Twin(D, x, y), NEW i, NEW role \in Roles, NEW t \in Targets,
               t = i[role],
           role \in DOMAIN i, i.kind # "Movem", NEW size, t.kind \in Stepped => t.size = size,
               role \notin x.incremented,
           NEW p, p = try_increment_address(x, i, role)
    PROVE  /\ Twin(D, p, post_effect(y, t, size))
           /\ p.incremented = x.incremented \cup {role} /\ p.decremented = x.decremented /\ p.status = x.status
           /\ p.pc = x.pc /\ p.sr = x.sr /\ p.d = x.d /\ p.mem = x.mem
<1> DEFINE marks == x.incremented \cup {role}
<1>1. marks \in SUBSET Roles
  BY DEF Twin, Machines
<1>2. CASE t.kind = "AddressIncrement"
  <2> DEFINE v == a_reg(x, t.index) + StepBytes(t, 1)
             z == SetA(x, t.index, v)
  <2>1. p = [z EXCEPT !.incremented = @ \cup {role}]
    BY <1>2 DEF try_increment_address, IncrementCount
  <2>2. t.size \in Sizes /\ t.index \in 0 .. 7 /\ t.size = size
    BY <1>2, TargetIn DEF Stepped
  <2>3. StepBytes(t, 1) = Adjustment(t, size) /\ StepBytes(t, 1) \in Int
    BY <2>2, Adjusts
  <2>4. a_reg(x, t.index) \in Int
    BY <2>2, RegisterIn, ValuesWiden DEF Twin
  <2>5. v \in Int
    BY <2>3, <2>4
  <2>6. post_effect(y, t, size) = SetA(y, t.index, v)
    BY <1>2, <2>3, TwinRegisters DEF post_effect
  <2> HIDE DEF v
  <2>7. Twin(D, z, SetA(y, t.index, v))
    BY <2>2, <2>5, TwinSetA
  <2>8. AddressSet(D, z, x, t.index, v)
    BY <2>2, <2>5, SetAIn DEF Twin
  <2> HIDE DEF z
  <2>9. p = [z EXCEPT !.incremented = marks]
    BY <2>1, <2>8 DEF AddressSet, OnlyAddresses, Machines
  <2>10. Twin(D, p, post_effect(y, t, size))
    <3> HIDE DEF marks
    <3> QED BY <1>1, <2>6, <2>7, <2>9, TwinMarks
  <2>11. z \in Machines(D) /\ OnlyAddresses(z, x)
    BY <2>8 DEF AddressSet
  <2> QED BY <2>9, <2>10, <2>11 DEF OnlyAddresses, Machines
<1>3. CASE t.kind # "AddressIncrement"
  <2>1. p = [x EXCEPT !.incremented = marks]
    BY <1>3 DEF try_increment_address, Twin, Machines
  <2>2. post_effect(y, t, size) = y
    BY <1>3 DEF post_effect
  <2>3. Twin(D, p, y)
    <3> HIDE DEF marks
    <3> QED BY <1>1, <2>1, TwinMarks
  <2> QED BY <2>1, <2>2, <2>3 DEF Twin, Machines
<1> QED BY <1>2, <1>3

(* The bus has 2^24 addresses and leaves them what they are.               *)
LEMMA BusIs ==
    ASSUME EightBits
    PROVE  /\ 2 ^ (3 * BYTE) = 16777216
           /\ \A addr \in Int : 0 <= addr /\ addr < 16777216 => Bus(addr) = addr
           /\ \A addr \in Int : Bus(addr) \in Int
<1>1. 2 ^ (3 * BYTE) = 16777216
  BY SMT DEF EightBits
<1>2. \A addr \in Int : Bus(addr) = addr % 16777216
  BY <1>1 DEF Bus
<1> QED BY <1>1, <1>2, SMT

(* Where there is memory the bus changes nothing of an address.            *)
LEMMA MappedOnBus ==
    ASSUME EightBits, NEW D, OnBus(D), NEW x \in Machines(D), NEW addr \in Int, NEW size \in Sizes,
               Mapped(x, addr, size)
    PROVE  Bus(addr) = addr /\ 0 <= addr /\ addr < 16777216
<1>1. size \in {1, 2, 4}
  BY DEF Sizes, Byte, Word, Long
<1>2. addr \in addr .. addr + size - 1
  BY <1>1
<1>3. addr \in D
  BY <1>2 DEF Mapped, Machines
<1>4. 0 <= addr /\ addr < 16777216
  <2>1. addr \in 0 .. 2 ^ (3 * BYTE) - 1
    BY <1>3 DEF OnBus
  <2>2. 2 ^ (3 * BYTE) = 16777216
    BY BusIs
  <2> QED BY <2>1, <2>2, SMT
<1> QED BY <1>4, BusIs, SMT

(* The address computed when the code is emitted is the one the            *)
(* interpreter computes.                                                   *)
LEMMA StaticIs ==
    ASSUME EightBits, NEW D, NEW x \in Machines(D), NEW t \in Targets, t.kind \in Static
    PROVE  static_ea(t, x.pc) = effective_address(x, t)
<1>1. CASE t.kind = "AbsoluteLong"
  <2>1. t.word \in Values(Word) /\ t.low \in Values(Word)
    BY <1>1 DEF Targets, Stepped, Relative
  <2>2. 0 <= t.word * 65536 + t.low /\ t.word * 65536 + t.low < 4294967296 /\ t.word * 65536 + t.low \in Int
    <3>1. t.word \in Int /\ 0 <= t.word /\ t.word < 65536 /\ t.low \in Int /\ 0 <= t.low /\ t.low < 65536
      BY <2>1, InValues
    <3> QED BY <3>1
  <2>3. t.word * Span(Word) + t.low \in Values(Long)
    BY <2>2, SpanValues, InValues
  <2>4. Low(t.word * Span(Word) + t.low, Long) = t.word * Span(Word) + t.low
    BY <2>3, LowKeeps
  <2> QED BY <1>1, <2>4, Zenon DEF static_ea, effective_address
<1>2. CASE t.kind = "AbsoluteShort"
  BY <1>2, Zenon DEF static_ea, effective_address
<1>3. CASE t.kind = "ProgramCounterDisplacement"
  BY <1>3, Zenon DEF static_ea, effective_address
<1> QED BY <1>1, <1>2, <1>3 DEF Static

-----------------------------------------------------------------------------
(***************************************************************************)
(* Operands.                                                               *)
(***************************************************************************)

(* An operand in mapped memory is at the same address on both sides.       *)
LEMMA OperandAddress ==
    ASSUME EightBits, NEW D, OnBus(D), NEW x, NEW y, Twin(D, x, y), NEW t \in Targets, ~IsRegister(t),
           t.kind \notin {"ProgramCounterIndex", "Immediate"},
           NEW size \in Sizes, Mapped(x, effective_address(x, t), size), NEW sea, sea = static_ea(t, x.pc)
    PROVE  operand_address(y, t, sea) = effective_address(x, t)
<1> DEFINE addr == effective_address(x, t)
<1>1. addr \in Int
  BY AddressIn, ValuesWiden DEF Twin, IsMemory
<1>2. Bus(addr) = addr
  BY <1>1, MappedOnBus DEF Twin
<1>3. CASE t.kind \in Static
  <2>1. sea = addr
    BY <1>3, StaticIs DEF Twin
  <2> QED BY <1>3, <2>1 DEF operand_address
<1>4. CASE t.kind \notin Static
  <2>1. operand_address(y, t, sea) = Bus(effective_address(y, t))
    BY <1>4 DEF operand_address
  <2> QED BY <1>2, <2>1, TwinAddress
<1> QED BY <1>3, <1>4

(* What the interpreter reads is what the emitted code reads, cut to the   *)
(* size.                                                                   *)
LEMMA ReadTwin ==
    ASSUME EightBits, NEW D, OnBus(D), NEW x, NEW y, Twin(D, x, y), NEW t \in Targets,
               t.kind # "ProgramCounterIndex",
           NEW size \in Sizes, Accessible(x, t, size), NEW sea, sea = static_ea(t, x.pc),
           NEW v, v = OperandValue(x, t, size), NEW w, w = read_operand(y, t, sea, size)
    PROVE  Reads(v, w, size) /\ (~IsRegister(t) => w = v)
<1>0. x \in Machines(D)
  BY DEF Twin
<1>1. v \in Values(size)
  BY <1>0, OperandIn
<1>2. v \in Int /\ v \in Values(Long) /\ Low(v, size) = v
  BY <1>1, ValuesAreInts, ValuesWiden, LowSame DEF Sizes
<1>3. CASE IsRegister(t)
  <2>1. t.index \in 0 .. 7
    BY <1>3, TargetIn
  <2>2. w = RegisterValue(x, t)
    <3>1. y.d = x.d /\ a_reg(y, t.index) = a_reg(x, t.index)
      BY TwinRegisters
    <3>2. CASE t.kind = "DataRegister"
      BY <3>1, <3>2, Zenon DEF read_operand, RegisterValue
    <3>3. CASE t.kind = "AddressRegister"
      BY <3>1, <3>3, Zenon DEF read_operand, RegisterValue
    <3> QED BY <1>3, <3>2, <3>3 DEF IsRegister
  <2>3. w \in Values(Long)
    BY <1>0, <2>1, <2>2, RegisterIn DEF RegisterValue
  <2>4. w \in Int
    BY <2>3, ValuesWiden
  <2>5. Low(w, size) = v
    BY <1>3, <2>2 DEF OperandValue
  <2> QED BY <1>1, <1>2, <1>3, <2>3, <2>4, <2>5 DEF Reads
<1>4. CASE ~IsRegister(t)
  <2> DEFINE addr == effective_address(x, t)
  <2>1. Mapped(x, addr, size) /\ v = Fetch(x, addr, size)
    BY <1>4 DEF Accessible, OperandValue
  <2>2. recomp_mem_read(y, addr, size) = v
    <3>1. Mapped(y, addr, size) = Mapped(x, addr, size) /\ Fetch(y, addr, size) = Fetch(x, addr, size)
      BY TwinAddress
    <3> HIDE DEF addr
    <3> QED BY <2>1, <3>1, Zenon DEF recomp_mem_read
  <2>3. w = v
    <3>1. CASE t.kind = "Immediate"
      <4>1. t.address \in Values(Long)
        BY <3>1 DEF Targets, Stepped, Relative
      <4>2. addr = t.address
        <5>1. addr = Low(t.address, Long)
          BY <3>1, Zenon DEF effective_address
        <5> QED BY <4>1, <5>1, LowKeeps
      <4>3. w = recomp_mem_read(y, t.address, size)
        BY <3>1, Zenon DEF read_operand
      <4> QED BY <2>2, <4>2, <4>3
    <3>2. CASE t.kind # "Immediate"
      <4>1. w = recomp_mem_read(y, operand_address(y, t, sea), size)
        BY <1>4, <3>2, Zenon DEF read_operand, IsRegister
      <4>2. operand_address(y, t, sea) = addr
        BY <1>4, <2>1, <3>2, OperandAddress
      <4> QED BY <2>2, <4>1, <4>2
    <3> QED BY <3>1, <3>2
  <2> QED BY <1>1, <1>2, <2>3 DEF Reads
<1> QED BY <1>3, <1>4

-----------------------------------------------------------------------------
(***************************************************************************)
(* Writing an operand.                                                     *)
(***************************************************************************)

(* A write that the interpreter completes is done by the emitted code, at  *)
(* the same address.                                                       *)
LEMMA WriteTwin ==
    ASSUME EightBits, NEW D, OnBus(D), NEW x, NEW y, Twin(D, x, y), NEW i, NEW role, role \in x.decremented,
           NEW t \in Targets, t = i[role], t.kind \notin {"ProgramCounterIndex", "Immediate"},
           NEW size \in Sizes, NEW v \in Int, NEW w \in Int, Low(v, size) = Low(w, size),
           NEW sea, sea = static_ea(t, x.pc), NEW r, r = Write(x, i, role, size, v), Ok(r)
    PROVE  /\ Twin(D, r, write_operand(y, t, sea, size, w))
           /\ r.incremented = x.incremented /\ r.decremented = x.decremented /\ r.status = x.status
           /\ r.sr = x.sr /\ r.pc = x.pc
<1> DEFINE z == write_operand(y, t, sea, size, w)
           n == t.index
<1>0. x \in Machines(D) /\ try_decrement_address(x, i, role) = x
  BY DecrementedTwice DEF Twin
<1>1. CASE t.kind = "DataRegister"
  <2> DEFINE new == Replaced(x.d[n], v, size)
  <2>1. r = [x EXCEPT !.d[n] = Replaced(@, v, size)]
    BY <1>0, <1>1, Zenon DEF Write
  <2>2. z = [y EXCEPT !.d[n] = Replaced(@, w, size)]
    BY <1>1, Zenon DEF write_operand
  <2>3. n \in 0 .. 7
    BY <1>1, TargetIn DEF IsRegister
  <2>4. x.d[n] \in Values(Long) /\ y.d[n] = x.d[n]
    BY <1>0, <2>3, RegisterIn, TwinRegisters
  <2>5. new \in Values(Long) /\ Replaced(y.d[n], w, size) = new
    BY <2>4, ReplacedIn, LowReplaced
  <2>6. r = [x EXCEPT !.d[n] = new]
    BY <1>0, <2>1 DEF Machines
  <2>7. z = [y EXCEPT !.d[n] = new]
    BY <2>2, <2>5 DEF Machines, Twin
  <2> HIDE DEF new, z, n
  <2>8. Twin(D, r, z)
    BY <2>3, <2>5, <2>6, <2>7, TwinSetD
  <2> QED BY <1>0, <2>6, <2>8 DEF Machines, z
<1>2. CASE t.kind = "AddressRegister"
  <2> DEFINE new == Replaced(a_reg(x, n), v, size)
  <2>1. r = SetA(x, n, new)
    BY <1>0, <1>2, Zenon DEF Write
  <2>2. n \in 0 .. 7
    BY <1>2, TargetIn DEF IsRegister
  <2>3. a_reg(x, n) \in Values(Long) /\ a_reg(y, n) = a_reg(x, n)
    BY <1>0, <2>2, RegisterIn, TwinRegisters
  <2>4. new \in Int /\ Replaced(a_reg(y, n), w, size) = new
    <3>1. new \in Values(Long)
      BY <2>3, ReplacedIn
    <3> QED BY <2>3, <3>1, ValuesWiden, LowReplaced
  <2>5. z = SetA(y, n, new)
    BY <1>2, <2>4, Zenon DEF write_operand
  <2> HIDE DEF new, z, n
  <2>6. Twin(D, r, z)
    BY <2>1, <2>2, <2>4, <2>5, TwinSetA
  <2>7. AddressSet(D, r, x, n, new) /\ OnlyAddresses(r, x)
    <3>1. AddressSet(D, r, x, n, new)
      BY <1>0, <2>1, <2>2, <2>4, SetAIn
    <3> QED BY <3>1 DEF AddressSet
  <2> QED BY <2>6, <2>7 DEF OnlyAddresses, z
<1>3. CASE ~IsRegister(t)
  <2> DEFINE addr == effective_address(x, t)
  <2>1. r = PutOrFail(x, addr, size, v)
    BY <1>0, <1>3, Zenon DEF Write, IsRegister
  <2>2. Mapped(x, addr, size)
    <3>1. Fail(x).status = "error"
      BY <1>0 DEF Fail, Machines
    <3> QED BY <2>1, <3>1 DEF PutOrFail, Ok
  <2>3. r = Put(x, addr, size, v)
    BY <2>1, <2>2 DEF PutOrFail
  <2>4. addr \in Int
    BY <1>0, <1>3, AddressIn, ValuesWiden DEF IsMemory
  <2>5. operand_address(y, t, sea) = addr
    BY <1>3, <2>2, OperandAddress
  <2>6. z = recomp_mem_write(y, addr, size, w)
    BY <1>3, <2>5, Zenon DEF write_operand, IsRegister
  <2> HIDE DEF addr, z
  <2>7. Twin(D, r, Put(y, addr, size, v)) /\ Mapped(y, addr, size)
    BY <2>2, <2>3, <2>4, TwinPut
  <2>8. z = Put(y, addr, size, v)
    <3>1. z = Put(y, addr, size, w)
      BY <2>6, <2>7 DEF recomp_mem_write
    <3>2. Put(y, addr, size, v) = Put(y, addr, size, w)
      BY <2>4, PutLow
    <3> QED BY <3>1, <3>2
  <2>9. Pushed(D, r, x)
    BY <1>0, <2>2, <2>3, <2>4, PutIn
  <2> QED BY <2>7, <2>8, <2>9 DEF Pushed, z
<1> QED BY <1>1, <1>2, <1>3 DEF IsRegister

(* A write and the condition codes that follow it are done by the emitted  *)
(* code.                                                                   *)
LEMMA StoreTwin ==
    ASSUME EightBits, NEW D, OnBus(D), NEW x, NEW y, Twin(D, x, y), NEW i, NEW role, role \in x.decremented,
           NEW t \in Targets, t = i[role], t.kind \notin {"ProgramCounterIndex", "Immediate"},
           NEW size \in Sizes, NEW v \in Int, NEW w \in Int, Low(v, size) = Low(w, size),
           NEW sea, sea = static_ea(t, x.pc), NEW sr \in StatusRegisters,
           NEW r, r = Then(Write(x, i, role, size, v), sr), Ok(r),
           NEW written, written = [write_operand(y, t, sea, size, w) EXCEPT !.sr = sr]
    PROVE  /\ Twin(D, r, written)
           /\ r.incremented = x.incremented /\ r.decremented = x.decremented /\ r.status = x.status
           /\ r.sr = sr /\ r.pc = x.pc
<1> DEFINE put == Write(x, i, role, size, v)
           z == write_operand(y, t, sea, size, w)
<1>1. Ok(put) /\ r = [put EXCEPT !.sr = sr]
  BY ThenOk
<1>2. /\ Twin(D, put, z)
      /\ put.incremented = x.incremented /\ put.decremented = x.decremented /\ put.status = x.status
             /\ put.pc = x.pc
  <2>1. put = Write(x, i, role, size, v) /\ z = write_operand(y, t, sea, size, w)
    OBVIOUS
  <2> HIDE DEF put, z
  <2> QED BY <1>1, <2>1, WriteTwin
<1> HIDE DEF put
<1>3. Twin(D, r, written)
  <2>1. written = [z EXCEPT !.sr = sr]
    BY DEF z
  <2> HIDE DEF z
  <2> QED BY <1>1, <1>2, <2>1, TwinSetSr
<1> QED BY <1>1, <1>2, <1>3, SMTT(60) DEF z, Twin, Machines

-----------------------------------------------------------------------------
(***************************************************************************)
(* An instruction from beginning to end.                                   *)
(***************************************************************************)

(* A machine between two instructions, on the bus of the runtime, and one  *)
(* of the decoder's instructions.                                          *)
Ready(D, m, i) == m \in Machines(D) /\ Ok(m) /\ Forget(m) = m /\ OnBus(D) /\ AsDecoded(i)

(* An instruction begins with nothing stepped.                             *)
LEMMA Begins ==
    ASSUME EightBits, NEW D, NEW m, NEW i, Ready(D, m, i)
    PROVE  /\ m \in Machines(D) /\ m.decremented = {} /\ m.incremented = {} /\ WellFormed(i) /\ OnBus(D)
           /\ Fresh(m, i) /\ Twin(D, m, m) /\ DOMAIN m.mem = D
<1>1. m \in Machines(D) /\ Ok(m) /\ Forget(m) = m /\ WellFormed(i) /\ OnBus(D)
  BY DEF Ready, AsDecoded, Given
<1>2. Fresh(m, i)
  BY <1>1, BeginsFresh
<1> QED BY <1>1, <1>2, TwinSelf DEF Fresh, Machines

(* An instruction that is completed was carried out, and ends with the     *)
(* increments of its operands.                                             *)
LEMMA Completes ==
    ASSUME EightBits, NEW D, NEW m, NEW i, Ready(D, m, i), Ok(Execute(m, i)), NEW done, done = Perform(m, i)
    PROVE  /\ Ok(done) /\ done \in Machines(D)
           /\ Execute(m, i) = Forget(try_increment_address(try_increment_address(done, i, "src"), i, "dst"))
<1>1. /\ m \in Machines(D) /\ WellFormed(i) /\ Fresh(m, i) /\ DOMAIN m.mem = D
  BY Begins
<1>2. Forget(m) = m
  BY DEF Ready
<1>3. Execute(m, i) = Forget(IF Ok(done)
          THEN try_increment_address(try_increment_address(done, i, "src"), i, "dst") ELSE done)
  BY <1>2, Zenon DEF Execute
<1>4. Result(m, i, done)
  BY <1>1, Performs
<1>5. done \in Machines(D)
  BY <1>1, <1>4 DEF Result
<1>6. Ok(done)
  <2>1. SUFFICES ASSUME ~Ok(done) PROVE FALSE
    OBVIOUS
  <2>2. Forget(done).status = done.status
    BY <1>5, ForgetKeeps
  <2> QED BY <1>3, <2>1, <2>2 DEF Ok
<1> QED BY <1>3, <1>5, <1>6

(* Where no operand has an increment left, the instruction ends where it   *)
(* was carried out.                                                        *)
LEMMA EndsStill ==
    ASSUME EightBits, NEW D, NEW m, NEW i, Ready(D, m, i), Ok(Execute(m, i)), NEW done, done = Perform(m, i),
           NEW z, Twin(D, done, z),
           \A role \in Roles \cap DOMAIN i : i[role].kind # "AddressIncrement" \/ role \in done.incremented
    PROVE  Twin(D, Execute(m, i), z)
<1> DEFINE x == try_increment_address(done, i, "src")
           y == try_increment_address(x, i, "dst")
<1>0. "src" \in Roles /\ "dst" \in Roles
  BY DEF Roles
<1>1. Execute(m, i) = Forget(y)
  BY Completes
<1>2. x = try_increment_address(done, i, "src") /\ y = try_increment_address(x, i, "dst")
  OBVIOUS
<1> HIDE DEF x, y
<1>3. Twin(D, x, z) /\ done.incremented \subseteq x.incremented
          /\ x.incremented \subseteq done.incremented \cup {"src"}
  <2>1. "src" \in DOMAIN i => i["src"].kind # "AddressIncrement" \/ "src" \in done.incremented
    BY <1>0
  <2> QED BY <1>0, <1>2, <2>1, IncrementNothing
<1>4. Twin(D, y, z)
  <2>1. "dst" \in DOMAIN i => i["dst"].kind # "AddressIncrement" \/ "dst" \in x.incremented
    BY <1>0, <1>3
  <2> QED BY <1>0, <1>2, <1>3, <2>1, IncrementNothing
<1> QED BY <1>1, <1>4, TwinForget

(* Where one operand has an increment left, the instruction ends with the  *)
(* step that the lifter emits for it.                                      *)
LEMMA EndsStepping ==
    ASSUME EightBits, NEW D, NEW m, NEW i, Ready(D, m, i), Ok(Execute(m, i)), NEW done, done = Perform(m, i),
           NEW z, Twin(D, done, z), NEW role \in Roles \cap DOMAIN i, NEW t \in Targets, t = i[role],
                   i.kind # "Movem",
           NEW size, t.kind \in Stepped => t.size = size, role \notin done.incremented,
           \A other \in Roles \cap DOMAIN i : other # role =>
               i[other].kind # "AddressIncrement" \/ other \in done.incremented
    PROVE  Twin(D, Execute(m, i), post_effect(z, t, size))
<1> DEFINE x == try_increment_address(done, i, "src")
           y == try_increment_address(x, i, "dst")
           w == post_effect(z, t, size)
<1>0. "src" \in Roles /\ "dst" \in Roles /\ Roles = {"src", "dst"}
  BY DEF Roles
<1>1. Execute(m, i) = Forget(y)
  BY Completes
<1>2. x = try_increment_address(done, i, "src") /\ y = try_increment_address(x, i, "dst")
          /\ w = post_effect(z, t, size)
  OBVIOUS
<1> HIDE DEF x, y, w
<1>3. CASE role = "src"
  <2>1. Twin(D, x, w) /\ x.incremented = done.incremented \cup {"src"}
    BY <1>0, <1>2, <1>3, IncrementTwin
  <2>2. "dst" \in DOMAIN i => i["dst"].kind # "AddressIncrement" \/ "dst" \in x.incremented
    BY <1>0, <1>3, <2>1
  <2>3. Twin(D, y, w)
    BY <1>0, <1>2, <2>1, <2>2, IncrementNothing
  <2> QED BY <1>1, <2>3, TwinForget DEF w
<1>4. CASE role = "dst"
  <2>1. "src" \in DOMAIN i => i["src"].kind # "AddressIncrement" \/ "src" \in done.incremented
    BY <1>0, <1>4
  <2>2. Twin(D, x, z) /\ done.incremented \subseteq x.incremented
            /\ x.incremented \subseteq done.incremented \cup {"src"}
    BY <1>0, <1>2, <2>1, IncrementNothing
  <2>3. "dst" \notin x.incremented
    BY <1>4, <2>2
  <2>4. Twin(D, y, w)
    BY <1>0, <1>2, <1>4, <2>2, <2>3, IncrementTwin
  <2> QED BY <1>1, <2>4, TwinForget DEF w
<1> QED BY <1>0, <1>3, <1>4

(* The operands of an instruction that does not deviate.                   *)
LEMMA OperandsAre ==
    ASSUME NEW i, AsDecoded(i), NEW m, NEW u, NEW r, ~Deviates(m, i, u, r)
    PROVE  /\ WellFormed(i)
           /\ \A role \in Roles \cap DOMAIN i :
                /\ i[role] \in Targets
                /\ i[role].kind \in Stepped => i[role].size = TransferSize(i)
                /\ ~Unstepped(i, role)
                /\ i.kind \notin {"Lea", "Pea", "Jmp", "Jsr", "Movem"} => i[role].kind # "ProgramCounterIndex"
           /\ "dst" \in DOMAIN i /\ i.kind # "Btst" => i.dst.kind # "Immediate"
           /\ ~Entangled(i) /\ ~SizeUnset(i, u) /\ ~Illegal(i)
<1>0. ~Illegal(i)
  BY Zenon DEF Deviates
<1>1. WellFormed(i) /\ ("dst" \in DOMAIN i /\ i.kind # "Btst" => i.dst.kind # "Immediate")
  BY <1>0 DEF AsDecoded, Illegal, Is
<1>2. \A role \in Roles \cap DOMAIN i : i[role] \in Targets
  BY <1>1 DEF WellFormed
<1>3. \A role \in Roles \cap DOMAIN i : i[role].kind \in Stepped => i[role].size = TransferSize(i)
  BY DEF AsDecoded
<1>4. (\A role \in Roles : ~Unstepped(i, role)) /\ ~Entangled(i) /\ ~SizeUnset(i, u) /\ ~Incomplete(m, i, u, r)
  BY DEF Deviates
<1>5. i.kind \notin {"Lea", "Pea", "Jmp", "Jsr", "Movem"} =>
          \A role \in Roles \cap DOMAIN i : i[role].kind # "ProgramCounterIndex"
  <2>1. i.kind \notin {"Lea", "Pea", "Jmp", "Jsr", "Movem"}
            => ~\E role \in Roles : Is(i, role, {"ProgramCounterIndex"})
    BY <1>4, Zenon DEF Incomplete
  <2> QED BY <2>1 DEF Is
<1> QED BY <1>0, <1>1, <1>2, <1>3, <1>4, <1>5

(* The operand and the static address the lifter takes are those of the    *)
(* instruction.                                                            *)
LEMMA EaIs ==
    ASSUME NEW i, NEW u, NEW role \in Roles \cap DOMAIN i
    PROVE  /\ operand(i, u, role) = i[role]
           /\ \A m : role # "src" \/ i.kind \notin {"Move", "Movea"}
                  => ea(m, i, u, role) = static_ea(i[role], m.pc)
<1>1. operand(i, u, role) = i[role]
  BY DEF operand
<1> QED BY <1>1, Zenon DEF ea

(* The lengths and members of the lists of effects.                        *)
LEMMA Ones ==
    /\ Len(<<>>) = 0 /\ Len(<<"src">>) = 1 /\ Len(<<"dst">>) = 1
    /\ Len(<<"src", "dst">>) = 2 /\ Len(<<"dst", "src">>) = 2 /\ Len(<<"dst", "dst">>) = 2
    /\ <<"src">>[1] = "src" /\ <<"dst">>[1] = "dst"
    /\ <<"src", "dst">>[1] = "src" /\ <<"src", "dst">>[2] = "dst"
    /\ <<"dst", "src">>[1] = "dst" /\ <<"dst", "src">>[2] = "src"
    /\ <<"dst", "dst">>[1] = "dst" /\ <<"dst", "dst">>[2] = "dst"
    /\ 0 # 1 /\ 0 # 2 /\ 1 # 2 /\ 1 # 0 /\ 2 # 0 /\ 2 # 1
OBVIOUS

(* The effects emitted around the statement of each kind.                  *)
LEMMA EffectsAre ==
    ASSUME NEW kind
    PROVE  /\ kind \in SourceToDestination => Effects(kind).pre = <<"src">> /\ Effects(kind).post = <<"dst">>
           /\ kind \in ExtendKinds => Effects(kind).pre = <<"dst", "src">> /\ Effects(kind).post = <<"dst">>
           /\ kind \in BitKinds \cup {"Abcd", "Sbcd"} =>
                  Effects(kind).pre = <<"src", "dst">> /\ Effects(kind).post = <<"dst", "src">>
           /\ kind = "Nbcd" => Effects(kind).pre = <<"dst">> /\ Effects(kind).post = <<"dst", "dst">>
           /\ kind \in QuickKinds \cup UnaryKinds \cup Shifts \cup {"Tas", "Scc", "MoveFromSr",
                  "MoveFromUsp"} =>
                  Effects(kind).pre = <<"dst">> /\ Effects(kind).post = <<"dst">>
           /\ kind \in AddressKinds \cup {"Cmp", "Cmpi", "Cmpm", "Mulu", "Muls", "Divu", "Divs", "Chk",
                          "Move", "Movea", "MoveToSr", "MoveToCcr", "MoveToUsp"} =>
                  Effects(kind).pre = <<"src">> /\ Effects(kind).post = <<"src">>
BY ZenonT(40) DEF Effects, Around, SourceToDestination, ExtendKinds, BitKinds, QuickKinds, UnaryKinds, Shifts,
       AddressKinds

(* The handler of each kind in the interpreter.                            *)
LEMMA PerformIs ==
    ASSUME NEW m, NEW i
    PROVE  /\ i.kind = "Abcd" => Perform(m, i) = ExecAbcd(m, i)
           /\ i.kind \in {"Sbcd", "Nbcd"} => Perform(m, i) = ExecSbcd(m, i)
           /\ i.kind \in BinaryKinds => Perform(m, i) = ExecBinary(m, i)
           /\ i.kind \in AddressKinds => Perform(m, i) = ExecAddress(m, i)
           /\ i.kind \in QuickKinds => Perform(m, i) = ExecQuick(m, i)
           /\ i.kind \in ExtendKinds => Perform(m, i) = ExecExtend(m, i)
           /\ i.kind \in UnaryKinds => Perform(m, i) = ExecUnary(m, i)
           /\ i.kind \in {"Mulu", "Muls"} => Perform(m, i) = ExecMul(m, i)
           /\ i.kind \in {"Divu", "Divs"} => Perform(m, i) = ExecDiv(m, i)
           /\ i.kind = "Chk" => Perform(m, i) = ExecChk(m, i)
           /\ i.kind \in ToCcrKinds => Perform(m, i) = ExecToCcr(m, i)
           /\ i.kind \in ToSrKinds => Perform(m, i) = ExecToSr(m, i)
           /\ i.kind = "MoveToCcr" => Perform(m, i) = ExecMoveToCcr(m, i)
           /\ i.kind = "MoveToSr" => Perform(m, i) = ExecMoveToSr(m, i)
           /\ i.kind = "MoveFromSr" => Perform(m, i) = ExecMoveFromSr(m, i)
           /\ i.kind \in {"MoveToUsp", "MoveFromUsp"} => Perform(m, i) = ExecUsp(m, i)
           /\ i.kind \in Shifts => Perform(m, i) = ExecShift(m, i)
           /\ i.kind \in BitKinds => Perform(m, i) = ExecBit(m, i)
           /\ i.kind = "Tst" => Perform(m, i) = ExecTst(m, i)
           /\ i.kind = "Tas" => Perform(m, i) = ExecTas(m, i)
           /\ i.kind = "Move" => Perform(m, i) = ExecMove(m, i)
           /\ i.kind = "Movea" => Perform(m, i) = ExecMovea(m, i)
           /\ i.kind = "Movep" => Perform(m, i) = ExecMovep(m, i)
           /\ i.kind = "Movem" => Perform(m, i) = ExecMovem(m, i)
           /\ i.kind = "Moveq" => Perform(m, i) = ExecMoveq(m, i)
           /\ i.kind = "Swap" => Perform(m, i) = ExecSwap(m, i)
           /\ i.kind = "Exg" => Perform(m, i) = ExecExg(m, i)
           /\ i.kind = "Ext" => Perform(m, i) = ExecExt(m, i)
           /\ i.kind = "Bcc" => Perform(m, i) = ExecBcc(m, i)
           /\ i.kind = "Dbcc" => Perform(m, i) = ExecDbcc(m, i)
           /\ i.kind = "Scc" => Perform(m, i) = ExecScc(m, i)
           /\ i.kind = "Bsr" => Perform(m, i) = ExecBsr(m, i)
           /\ i.kind \in {"Jmp", "Jsr"} => Perform(m, i) = ExecJump(m, i)
           /\ i.kind = "Lea" => Perform(m, i) = ExecLea(m, i)
           /\ i.kind = "Pea" => Perform(m, i) = ExecPea(m, i)
           /\ i.kind = "Link" => Perform(m, i) = ExecLink(m, i)
           /\ i.kind = "Unlink" => Perform(m, i) = ExecUnlink(m, i)
           /\ i.kind \in {"Trap", "Trapv"} => Perform(m, i) = ExecTrap(m, i)
           /\ i.kind \in {"Rte", "Rtr", "Rts"} => Perform(m, i) = ExecReturn(m, i)
           /\ i.kind \in {"Nop", "Reset"} => Perform(m, i) = m
<1> USE DEF Perform, BinaryKinds, AddressKinds, QuickKinds, ExtendKinds, UnaryKinds,
            ToCcrKinds, ToSrKinds, Shifts, BitKinds
<1>1. i.kind = "Abcd" => Perform(m, i) = ExecAbcd(m, i)
  BY Zenon
<1>2. i.kind \in {"Sbcd", "Nbcd"} => Perform(m, i) = ExecSbcd(m, i)
  BY Zenon
<1>3. i.kind \in BinaryKinds => Perform(m, i) = ExecBinary(m, i)
  BY Zenon
<1>4. i.kind \in AddressKinds => Perform(m, i) = ExecAddress(m, i)
  BY Zenon
<1>5. i.kind \in QuickKinds => Perform(m, i) = ExecQuick(m, i)
  BY Zenon
<1>6. i.kind \in ExtendKinds => Perform(m, i) = ExecExtend(m, i)
  BY Zenon
<1>7. i.kind \in UnaryKinds => Perform(m, i) = ExecUnary(m, i)
  BY Zenon
<1>8. i.kind \in {"Mulu", "Muls"} => Perform(m, i) = ExecMul(m, i)
  BY Zenon
<1>9. i.kind \in {"Divu", "Divs"} => Perform(m, i) = ExecDiv(m, i)
  BY Zenon
<1>10. i.kind = "Chk" => Perform(m, i) = ExecChk(m, i)
  BY Zenon
<1>11. i.kind \in ToCcrKinds => Perform(m, i) = ExecToCcr(m, i)
  BY Zenon
<1>12. i.kind \in ToSrKinds => Perform(m, i) = ExecToSr(m, i)
  BY Zenon
<1>13. i.kind = "MoveToCcr" => Perform(m, i) = ExecMoveToCcr(m, i)
  BY Zenon
<1>14. i.kind = "MoveToSr" => Perform(m, i) = ExecMoveToSr(m, i)
  BY Zenon
<1>15. i.kind = "MoveFromSr" => Perform(m, i) = ExecMoveFromSr(m, i)
  BY Zenon
<1>16. i.kind \in {"MoveToUsp", "MoveFromUsp"} => Perform(m, i) = ExecUsp(m, i)
  BY Zenon
<1>17. i.kind \in Shifts => Perform(m, i) = ExecShift(m, i)
  BY Zenon
<1>18. i.kind \in BitKinds => Perform(m, i) = ExecBit(m, i)
  BY Zenon
<1>19. i.kind = "Tst" => Perform(m, i) = ExecTst(m, i)
  BY Zenon
<1>20. i.kind = "Tas" => Perform(m, i) = ExecTas(m, i)
  BY Zenon
<1>21. i.kind = "Move" => Perform(m, i) = ExecMove(m, i)
  BY Zenon
<1>22. i.kind = "Movea" => Perform(m, i) = ExecMovea(m, i)
  BY Zenon
<1>23. i.kind = "Movep" => Perform(m, i) = ExecMovep(m, i)
  BY Zenon
<1>24. i.kind = "Movem" => Perform(m, i) = ExecMovem(m, i)
  BY Zenon
<1>25. i.kind = "Moveq" => Perform(m, i) = ExecMoveq(m, i)
  BY Zenon
<1>26. i.kind = "Swap" => Perform(m, i) = ExecSwap(m, i)
  BY Zenon
<1>27. i.kind = "Exg" => Perform(m, i) = ExecExg(m, i)
  BY Zenon
<1>28. i.kind = "Ext" => Perform(m, i) = ExecExt(m, i)
  BY Zenon
<1>29. i.kind = "Bcc" => Perform(m, i) = ExecBcc(m, i)
  BY Zenon
<1>30. i.kind = "Dbcc" => Perform(m, i) = ExecDbcc(m, i)
  BY Zenon
<1>31. i.kind = "Scc" => Perform(m, i) = ExecScc(m, i)
  BY Zenon
<1>32. i.kind = "Bsr" => Perform(m, i) = ExecBsr(m, i)
  BY Zenon
<1>33. i.kind \in {"Jmp", "Jsr"} => Perform(m, i) = ExecJump(m, i)
  BY Zenon
<1>34. i.kind = "Lea" => Perform(m, i) = ExecLea(m, i)
  BY Zenon
<1>35. i.kind = "Pea" => Perform(m, i) = ExecPea(m, i)
  BY Zenon
<1>36. i.kind = "Link" => Perform(m, i) = ExecLink(m, i)
  BY Zenon
<1>37. i.kind = "Unlink" => Perform(m, i) = ExecUnlink(m, i)
  BY Zenon
<1>38. i.kind \in {"Trap", "Trapv"} => Perform(m, i) = ExecTrap(m, i)
  BY Zenon
<1>39. i.kind \in {"Rte", "Rtr", "Rts"} => Perform(m, i) = ExecReturn(m, i)
  BY Zenon
<1>40. i.kind \in {"Nop", "Reset"} => Perform(m, i) = m
  BY Zenon
<1> QED BY <1>1, <1>2, <1>3, <1>4, <1>5, <1>6, <1>7, <1>8, <1>9, <1>10, <1>11, <1>12, <1>13, <1>14, <1>15,
        <1>16, <1>17, <1>18, <1>19, <1>20, <1>21, <1>22, <1>23, <1>24, <1>25, <1>26, <1>27, <1>28, <1>29,
            <1>30, <1>31, <1>32, <1>33, <1>34, <1>35, <1>36, <1>37, <1>38, <1>39, <1>40, ZenonT(40)

(* The handler of each kind in the lifter.                                 *)
LEMMA TranslateIs ==
    ASSUME NEW m, NEW i, NEW u
    PROVE  /\ i.kind \in BinaryKinds => translate_inst(m, i, u) = LiftBinary(m, i, u)
           /\ i.kind \in AddressKinds => translate_inst(m, i, u) = LiftAddress(m, i, u)
           /\ i.kind \in QuickKinds => translate_inst(m, i, u) = LiftQuick(m, i, u)
           /\ i.kind \in ExtendKinds => translate_inst(m, i, u) = LiftExtend(m, i, u)
           /\ i.kind \in UnaryKinds => translate_inst(m, i, u) = LiftUnary(m, i, u)
           /\ i.kind \in {"Mulu", "Muls", "Divu", "Divs"} => translate_inst(m, i, u) = LiftMulDiv(m, i, u)
           /\ i.kind \in Shifts => translate_inst(m, i, u) = LiftShift(m, i, u)
           /\ i.kind \in BitKinds => translate_inst(m, i, u) = LiftBit(m, i, u)
           /\ i.kind \in {"Abcd", "Sbcd", "Nbcd"} => translate_inst(m, i, u) = LiftDecimal(m, i, u)
           /\ i.kind \in ToCcrKinds \cup ToSrKinds => translate_inst(m, i, u) = LiftToStatus(m, i, u)
           /\ i.kind \in {"MoveToCcr", "MoveToSr", "MoveFromSr", "MoveToUsp", "MoveFromUsp"}
                  => translate_inst(m, i, u) = LiftMoveStatus(m, i, u)
           /\ i.kind \in {"Move", "Movea"} => translate_inst(m, i, u) = LiftMove(m, i, u)
           /\ i.kind = "Tst" => translate_inst(m, i, u) = LiftTst(m, i, u)
           /\ i.kind = "Tas" => translate_inst(m, i, u) = LiftTas(m, i, u)
           /\ i.kind = "Scc" => translate_inst(m, i, u) = LiftScc(m, i, u)
           /\ i.kind = "Chk" => translate_inst(m, i, u) = LiftChk(m, i, u)
           /\ i.kind = "Moveq" => translate_inst(m, i, u) = LiftMoveq(m, i)
           /\ i.kind = "Swap" => translate_inst(m, i, u) = LiftSwap(m, i)
           /\ i.kind = "Ext" => translate_inst(m, i, u) = LiftExt(m, i)
           /\ i.kind = "Exg" => translate_inst(m, i, u) = LiftExg(m, i)
           /\ i.kind = "Movem" => translate_inst(m, i, u) = LiftMovem(m, i, u)
           /\ i.kind = "Bcc" => translate_inst(m, i, u) = LiftBcc(m, i)
           /\ i.kind = "Dbcc" => translate_inst(m, i, u) = LiftDbcc(m, i)
           /\ i.kind = "Bsr" => translate_inst(m, i, u) = LiftBsr(m, i)
           /\ i.kind \in {"Jmp", "Jsr"} => translate_inst(m, i, u) = LiftJump(m, i, u)
           /\ i.kind = "Lea" => translate_inst(m, i, u) = LiftLea(m, i, u)
           /\ i.kind = "Pea" => translate_inst(m, i, u) = LiftPea(m, i, u)
           /\ i.kind = "Link" => translate_inst(m, i, u) = LiftLink(m, i, u)
           /\ i.kind = "Unlink" => translate_inst(m, i, u) = LiftUnlink(m, i)
           /\ i.kind \in {"Rts", "Rte", "Rtr"} => translate_inst(m, i, u) = LiftReturn(m, i)
           /\ i.kind \in {"Trap", "Trapv"} => translate_inst(m, i, u) = LiftTrap(m, i)
           /\ i.kind \in {"Nop", "Reset", "Movep"} => translate_inst(m, i, u) = m
<1> USE DEF translate_inst, BinaryKinds, AddressKinds, QuickKinds, ExtendKinds, UnaryKinds,
            ToCcrKinds, ToSrKinds, Shifts, BitKinds
<1>1. i.kind \in BinaryKinds => translate_inst(m, i, u) = LiftBinary(m, i, u)
  BY Zenon
<1>2. i.kind \in AddressKinds => translate_inst(m, i, u) = LiftAddress(m, i, u)
  BY Zenon
<1>3. i.kind \in QuickKinds => translate_inst(m, i, u) = LiftQuick(m, i, u)
  BY Zenon
<1>4. i.kind \in ExtendKinds => translate_inst(m, i, u) = LiftExtend(m, i, u)
  BY Zenon
<1>5. i.kind \in UnaryKinds => translate_inst(m, i, u) = LiftUnary(m, i, u)
  BY Zenon
<1>6. i.kind \in {"Mulu", "Muls", "Divu", "Divs"} => translate_inst(m, i, u) = LiftMulDiv(m, i, u)
  BY Zenon
<1>7. i.kind \in Shifts => translate_inst(m, i, u) = LiftShift(m, i, u)
  BY Zenon
<1>8. i.kind \in BitKinds => translate_inst(m, i, u) = LiftBit(m, i, u)
  BY Zenon
<1>9. i.kind \in {"Abcd", "Sbcd", "Nbcd"} => translate_inst(m, i, u) = LiftDecimal(m, i, u)
  BY Zenon
<1>10. i.kind \in ToCcrKinds \cup ToSrKinds => translate_inst(m, i, u) = LiftToStatus(m, i, u)
  BY Zenon
<1>11. i.kind \in {"MoveToCcr", "MoveToSr", "MoveFromSr", "MoveToUsp", "MoveFromUsp"}
           => translate_inst(m, i, u) = LiftMoveStatus(m, i, u)
  BY Zenon
<1>12. i.kind \in {"Move", "Movea"} => translate_inst(m, i, u) = LiftMove(m, i, u)
  BY Zenon
<1>13. i.kind = "Tst" => translate_inst(m, i, u) = LiftTst(m, i, u)
  BY Zenon
<1>14. i.kind = "Tas" => translate_inst(m, i, u) = LiftTas(m, i, u)
  BY Zenon
<1>15. i.kind = "Scc" => translate_inst(m, i, u) = LiftScc(m, i, u)
  BY Zenon
<1>16. i.kind = "Chk" => translate_inst(m, i, u) = LiftChk(m, i, u)
  BY Zenon
<1>17. i.kind = "Moveq" => translate_inst(m, i, u) = LiftMoveq(m, i)
  BY Zenon
<1>18. i.kind = "Swap" => translate_inst(m, i, u) = LiftSwap(m, i)
  BY Zenon
<1>19. i.kind = "Ext" => translate_inst(m, i, u) = LiftExt(m, i)
  BY Zenon
<1>20. i.kind = "Exg" => translate_inst(m, i, u) = LiftExg(m, i)
  BY Zenon
<1>21. i.kind = "Movem" => translate_inst(m, i, u) = LiftMovem(m, i, u)
  BY Zenon
<1>22. i.kind = "Bcc" => translate_inst(m, i, u) = LiftBcc(m, i)
  BY Zenon
<1>23. i.kind = "Dbcc" => translate_inst(m, i, u) = LiftDbcc(m, i)
  BY Zenon
<1>24. i.kind = "Bsr" => translate_inst(m, i, u) = LiftBsr(m, i)
  BY Zenon
<1>25. i.kind \in {"Jmp", "Jsr"} => translate_inst(m, i, u) = LiftJump(m, i, u)
  BY Zenon
<1>26. i.kind = "Lea" => translate_inst(m, i, u) = LiftLea(m, i, u)
  BY Zenon
<1>27. i.kind = "Pea" => translate_inst(m, i, u) = LiftPea(m, i, u)
  BY Zenon
<1>28. i.kind = "Link" => translate_inst(m, i, u) = LiftLink(m, i, u)
  BY Zenon
<1>29. i.kind = "Unlink" => translate_inst(m, i, u) = LiftUnlink(m, i)
  BY Zenon
<1>30. i.kind \in {"Rts", "Rte", "Rtr"} => translate_inst(m, i, u) = LiftReturn(m, i)
  BY Zenon
<1>31. i.kind \in {"Trap", "Trapv"} => translate_inst(m, i, u) = LiftTrap(m, i)
  BY Zenon
<1>32. i.kind \in {"Nop", "Reset", "Movep"} => translate_inst(m, i, u) = m
  BY Zenon
<1> QED BY <1>1, <1>2, <1>3, <1>4, <1>5, <1>6, <1>7, <1>8, <1>9, <1>10, <1>11, <1>12, <1>13, <1>14, <1>15,
        <1>16, <1>17, <1>18, <1>19, <1>20, <1>21, <1>22, <1>23, <1>24, <1>25, <1>26, <1>27, <1>28, <1>29,
            <1>30, <1>31, <1>32, ZenonT(40)

(* Which operands are stepped in an instruction that does not deviate.     *)
LEMMA UnsteppedIs ==
    ASSUME NEW i, NEW role, role \in DOMAIN i, ~Unstepped(i, role)
    PROVE  /\ i.kind \in SourceToDestination =>
                  i[role].kind # (IF role = "src" THEN "AddressIncrement" ELSE "AddressDecrement")
           /\ i.kind \in {"Move", "Cmpi", "Cmpm"} /\ role = "dst" => i[role].kind \notin Stepped
BY SMT DEF Unstepped, Is, SourceToDestination

(* What the kinds that agree are shown to do.                              *)
Agrees(D, m, i, u) == Twin(D, Execute(m, i), translate_inst(m, i, u))

-----------------------------------------------------------------------------
(***************************************************************************)
(* The kinds, from here on.  Each has a lemma that ends in Agrees, Matches *)
(* or Returns.                                                             *)
(***************************************************************************)

(* ADD, SUB, AND, OR and EOR, to a register or to memory, and their        *)
(* immediate forms.                                                        *)
LEMMA BinaryAgrees ==
    ASSUME EightBits, NEW D, NEW m, NEW i, Ready(D, m, i), i.kind \in SourceToDestination, Ok(Execute(m, i)),
           NEW u, ~Deviates(m, i, u, Execute(m, i))
    PROVE  Agrees(D, m, i, u)
<1> DEFINE size == i.size
           op == opcode_type(i.kind)
           S == i["src"]
           T == i["dst"]
           p == try_decrement_address(m, i, "src")
           s == OperandValue(p, S, size)
           k == try_increment_address(p, i, "src")
           q == try_decrement_address(k, i, "dst")
           d == OperandValue(q, T, size)
           v == do_binary_op(op, s, d)
           sr == SetBinary(q.sr, s, d, v, size, op)
           done == Perform(m, i)
           P == pre_effect(m, S, size)
           a == static_ea(S, m.pc)
           b == static_ea(T, m.pc)
           s2 == read_operand(P, S, a, size)
           d2 == read_operand(P, T, b, size)
           z == [write_operand(P, T, b, size, v) EXCEPT !.sr = sr]
<1>0. i.kind \in BinaryKinds /\ op # "Cmp" /\ op \in Operations
  BY SMT DEF SourceToDestination, BinaryKinds, opcode_type, Operations
<1>1. /\ m \in Machines(D) /\ m.decremented = {} /\ m.incremented = {} /\ WellFormed(i) /\ OnBus(D)
             /\ Twin(D, m, m)
      /\ AsDecoded(i)
  BY Begins DEF Ready
<1>2. /\ "src" \in DOMAIN i /\ "dst" \in DOMAIN i /\ "src" \in Roles /\ "dst" \in Roles /\ size \in Sizes
  BY <1>0, <1>1, Operands, SizeIn DEF UsesSrc, UsesDst, UsesBoth, Roles, Shifts, BinaryKinds, UsesSize
<1>3. TransferSize(i) = size /\ bytes(i, u) = size /\ i.kind # "Movem" /\ i.kind \notin {"Move", "Movea"}
          /\ i.kind # "Btst"
      /\ i.kind \notin {"Lea", "Pea", "Jmp", "Jsr", "Movem"}
  BY <1>0 DEF TransferSize, BinaryKinds, bytes, SizedKinds, BitKinds, ToCcrKinds
<1>4. /\ S \in Targets /\ T \in Targets /\ S.kind # "ProgramCounterIndex"
             /\ T.kind \notin {"ProgramCounterIndex", "Immediate"}
      /\ (S.kind \in Stepped => S.size = size) /\ (T.kind \in Stepped => T.size = size)
      /\ ~Unstepped(i, "src") /\ ~Unstepped(i, "dst")
  BY <1>1, <1>2, <1>3, OperandsAre
<1>5. S.kind # "AddressIncrement" /\ T.kind # "AddressDecrement"
  BY <1>2, <1>4, UnsteppedIs
<1>6. done = IF Accessible(p, S, size)
             THEN IF Accessible(q, T, size)
                 THEN Then(IF op = "Cmp" THEN q ELSE Write(q, i, "dst", size, v), sr) ELSE Fail(q)
             ELSE Fail(p)
  <2>1. done = ExecBinary(m, i)
    BY <1>0, PerformIs
  <2> QED BY <2>1, Zenon DEF ExecBinary, Read
<1>7. translate_inst(m, i, u) = post_effect(StoreResult(P, i, u, m68k_binary(op, P.sr, d2, s2, size)), T, size)
  <2>1. translate_inst(m, i, u) = LiftBinary(m, i, u)
    BY <1>0, TranslateIs
  <2>2. Effects(i.kind).pre = <<"src">> /\ Effects(i.kind).post = <<"dst">>
    BY EffectsAre
  <2>3. operand(i, u, "src") = S /\ operand(i, u, "dst") = T /\ ea(m, i, u, "src") = a /\ ea(m, i, u, "dst") = b
    BY <1>2, <1>3, EaIs, ZenonT(40)
  <2>4. i.kind \notin BitKinds \cup {"Abcd", "Sbcd"}
    BY <1>0 DEF BinaryKinds, BitKinds
  <2> QED BY <1>0, <1>3, <2>1, <2>2, <2>3, <2>4, Ones, Zenon DEF LiftBinary, Statement, InTurn
<1>8. p = try_decrement_address(m, i, "src") /\ k = try_increment_address(p, i, "src")
          /\ q = try_decrement_address(k, i, "dst")
      /\ done = Perform(m, i) /\ P = pre_effect(m, S, size) /\ S = i["src"] /\ T = i["dst"]
      /\ a = static_ea(S, m.pc) /\ b = static_ea(T, m.pc)
  OBVIOUS
<1> HIDE DEF p, k, q, done, P, op, size, S, T, a, b
<1>9. Twin(D, p, P) /\ p.decremented = {"src"} /\ p.incremented = {} /\ p.pc = m.pc
  BY <1>1, <1>2, <1>3, <1>4, <1>8, DecrementTwin
<1>10. Twin(D, k, P) /\ k.decremented = {"src"} /\ k.pc = m.pc /\ k.incremented \subseteq {"src"}
  BY <1>2, <1>5, <1>8, <1>9, IncrementNothing
<1>11. pre_effect(P, T, size) = P
  BY <1>5 DEF pre_effect
<1>12. Twin(D, q, P) /\ q.decremented = {"src", "dst"} /\ q.incremented \subseteq {"src"} /\ q.pc = m.pc
  <2>1. "dst" \notin k.decremented
    BY <1>10
  <2> QED BY <1>2, <1>3, <1>4, <1>8, <1>10, <1>11, <2>1, DecrementTwin
<1>13. Ok(done) /\ done \in Machines(D)
  BY <1>8, Completes
<1>14. Accessible(p, S, size) /\ Accessible(q, T, size) /\ done = Then(Write(q, i, "dst", size, v), sr)
  <2>1. ~Ok(Fail(p)) /\ ~Ok(Fail(q))
    BY <1>9, <1>12, FailIsNotOk DEF Twin
  <2> QED BY <1>0, <1>6, <1>13, <2>1
<1>15. Reads(s, s2, size)
  BY <1>1, <1>2, <1>4, <1>8, <1>9, <1>14, ReadTwin
<1>16. Reads(d, d2, size)
  BY <1>1, <1>2, <1>4, <1>8, <1>12, <1>14, ReadTwin
<1>17. q.sr = P.sr /\ q.sr \in StatusRegisters
  BY <1>12, TwinStatus
<1> HIDE DEF s, d, s2, d2
<1>18. m68k_binary(op, P.sr, d2, s2, size) = [value |-> v, sr |-> sr]
  BY <1>15, <1>16, <1>17, Zenon DEF m68k_binary, Reads
<1>19. v \in Int /\ sr \in StatusRegisters
  <2>1. v \in Int
    BY <1>0, <1>15, <1>16, BinaryOpIn DEF Reads
  <2> HIDE DEF v
  <2>2. NewFlags(q.sr, sr)
    BY <1>0, <1>2, <1>15, <1>16, <1>17, <2>1, SetBinaryIn DEF Reads
  <2> QED BY <2>1, <2>2 DEF NewFlags
<1> HIDE DEF v, sr
<1>20. StoreResult(P, i, u, [value |-> v, sr |-> sr]) = z
  <2>1. P.pc = m.pc
    BY <1>9 DEF Twin, Same
  <2>2. ea(P, i, u, "dst") = b /\ operand(i, u, "dst") = T
    BY <1>2, <1>3, <1>8, <2>1, EaIs
  <2> QED BY <1>3, <2>2, Zenon DEF StoreResult, wd
<1>21. Twin(D, done, z) /\ done.incremented = q.incremented
  <2>1. "dst" \in q.decremented /\ b = static_ea(T, q.pc) /\ z
            = [write_operand(P, T, b, size, v) EXCEPT !.sr = sr]
    BY <1>8, <1>12
  <2> HIDE DEF z
  <2> QED BY <1>1, <1>2, <1>4, <1>8, <1>12, <1>13, <1>14, <1>19, <2>1, StoreTwin
<1>22. Twin(D, Execute(m, i), post_effect(z, T, size))
  <2>1. "dst" \notin done.incremented
    BY <1>12, <1>21
  <2>2. \A other \in Roles \cap DOMAIN i : other # "dst"
            => i[other].kind # "AddressIncrement" \/ other \in done.incremented
    BY <1>5, <1>8 DEF Roles
  <2> HIDE DEF z
  <2> QED BY <1>2, <1>3, <1>4, <1>8, <1>21, <2>1, <2>2, EndsStepping
<1> QED BY <1>7, <1>18, <1>20, <1>22 DEF Agrees

(* Condition codes and the step after an instruction are set in either     *)
(* order.                                                                  *)
LEMMA PostCommutes ==
    ASSUME NEW D, NEW z \in Machines(D), NEW e \in StatusRegisters, e.s = z.sr.s, NEW f, f
               = [z EXCEPT !.sr = e],
           NEW t, NEW size
    PROVE  post_effect(f, t, size) = [post_effect(z, t, size) EXCEPT !.sr = e]
<1>1. a_reg(f, t.index) = a_reg(z, t.index)
  BY FlagsApart
<1> DEFINE v == a_reg(z, t.index) + Adjustment(t, size)
<1>2. SetA(f, t.index, v) = [SetA(z, t.index, v) EXCEPT !.sr = e]
  BY FlagsApart
<1> QED BY <1>1, <1>2, Zenon DEF post_effect

(* Only -(An) is stepped before and only (An)+ after.                      *)
LEMMA EffectNone ==
    ASSUME NEW m, NEW t, NEW size
    PROVE  /\ t.kind # "AddressDecrement" => pre_effect(m, t, size) = m
           /\ t.kind # "AddressIncrement" => post_effect(m, t, size) = m
BY DEF pre_effect, post_effect

(* A data register is read whole, whatever the size.                       *)
LEMMA SizeMoot ==
    ASSUME NEW m, NEW t, t.kind = "DataRegister", NEW size, NEW other, NEW sea
    PROVE  /\ pre_effect(m, t, size) = pre_effect(m, t, other)
                  /\ post_effect(m, t, size) = post_effect(m, t, other)
           /\ read_operand(m, t, sea, size) = read_operand(m, t, sea, other)
BY DEF pre_effect, post_effect, read_operand

(* An instruction that reads one of its operands first: it was accessible, *)
(* and both sides read it.                                                 *)
LEMMA ReadsFirst ==
    ASSUME EightBits, NEW D, NEW m, NEW i, Ready(D, m, i), Ok(Execute(m, i)), NEW role \in Roles \cap DOMAIN i,
           NEW t \in Targets, t = i[role], t.kind # "ProgramCounterIndex", i.kind # "Movem", NEW size \in Sizes,
           t.kind \in Stepped => t.size = size,
           NEW p, p = try_decrement_address(m, i, role), NEW P, P = pre_effect(m, t, size),
           NEW sea, sea = static_ea(t, m.pc),
           NEW v, v = OperandValue(p, t, size), NEW w, w = read_operand(P, t, sea, size),
           NEW next, Perform(m, i) = IF Accessible(p, t, size) THEN next ELSE Fail(p)
    PROVE  /\ Twin(D, p, P) /\ p.decremented = {role} /\ p.incremented = {} /\ p.pc = m.pc /\ P.pc = m.pc
           /\ p.sr = m.sr /\ P.sr = m.sr /\ m.sr \in StatusRegisters
           /\ Reads(v, w, size) /\ (~IsRegister(t) => w = v)
           /\ Perform(m, i) = next /\ Ok(next) /\ next \in Machines(D)
<1>1. /\ m \in Machines(D) /\ m.decremented = {} /\ m.incremented = {} /\ OnBus(D) /\ Twin(D, m, m)
  BY Begins
<1>2. /\ Twin(D, p, P) /\ p.decremented = {role} /\ p.incremented = {} /\ p.pc = m.pc /\ p.sr = m.sr
  BY <1>1, DecrementTwin
<1>3. P.pc = m.pc /\ P.sr = m.sr /\ m.sr \in StatusRegisters
  BY <1>1, <1>2 DEF Twin, Same, Machines
<1>4. Ok(Perform(m, i)) /\ Perform(m, i) \in Machines(D)
  BY Completes, Zenon
<1>5. Accessible(p, t, size) /\ Perform(m, i) = next
  BY <1>2, <1>4, FailIsNotOk DEF Twin
<1>6. Reads(v, w, size) /\ (~IsRegister(t) => w = v)
  <2>1. sea = static_ea(t, p.pc)
    BY <1>2
  <2> QED BY <1>1, <1>2, <1>5, <2>1, ReadTwin
<1> QED BY <1>2, <1>3, <1>4, <1>5, <1>6

(* A register that is accessed next leaves everything as it is.            *)
LEMMA RegisterNext ==
    ASSUME EightBits, NEW D, NEW x, NEW y, Twin(D, x, y), NEW i, NEW role \in Roles, NEW t \in Targets,
               t = i[role],
           IsRegister(t), i.kind # "Movem", role \notin x.decremented, NEW q,
               q = try_decrement_address(x, i, role)
    PROVE  /\ Twin(D, q, y) /\ q.decremented = x.decremented \cup {role} /\ q.incremented = x.incremented
           /\ q.pc = x.pc /\ q.sr = x.sr /\ q.d = x.d
           /\ \A size : Accessible(q, t, size) /\ OperandValue(q, t, size) = Low(RegisterValue(y, t), size)
<1>1. t.kind \notin Stepped
  BY DEF IsRegister, Stepped
<1>2. pre_effect(y, t, Word) = y
  BY <1>1, EffectNone DEF Stepped
<1>3. /\ Twin(D, q, y) /\ q.decremented = x.decremented \cup {role} /\ q.incremented = x.incremented
      /\ q.pc = x.pc /\ q.sr = x.sr /\ q.d = x.d
  BY <1>1, <1>2, DecrementTwin
<1>4. RegisterValue(q, t) = RegisterValue(y, t)
  BY <1>3, TwinRegisters DEF RegisterValue
<1> QED BY <1>3, <1>4 DEF Accessible, OperandValue

(* An instruction that ends by writing its destination and the condition   *)
(* codes agrees when the emitted code does the same and then steps.        *)
LEMMA StoresLast ==
    ASSUME EightBits, NEW D, NEW m, NEW i, Ready(D, m, i), Ok(Execute(m, i)),
           i.kind # "Movem", "dst" \in DOMAIN i, NEW t \in Targets, t = i["dst"],
           t.kind \notin {"ProgramCounterIndex", "Immediate"}, NEW size \in Sizes, t.kind \in Stepped
               => t.size = size,
           NEW x, NEW y, Twin(D, x, y), "dst" \in x.decremented, "dst" \notin x.incremented, x.pc = m.pc,
           "src" \in DOMAIN i => i["src"].kind # "AddressIncrement" \/ "src" \in x.incremented,
           NEW v \in Int, NEW w \in Int, Low(v, size) = Low(w, size), NEW sr \in StatusRegisters,
           Perform(m, i) = Then(Write(x, i, "dst", size, v), sr),
           NEW sea, sea = static_ea(t, m.pc),
           NEW z, z = [write_operand(y, t, sea, size, w) EXCEPT !.sr = sr]
    PROVE  Twin(D, Execute(m, i), post_effect(z, t, size))
<1> DEFINE done == Perform(m, i)
<1>1. Ok(done) /\ OnBus(D)
  <2>1. Ok(done)
    BY Completes, Zenon
  <2>2. OnBus(D)
    BY Begins, Zenon
  <2> QED BY <2>1, <2>2
<1>0. done = Perform(m, i) /\ done = Then(Write(x, i, "dst", size, v), sr)
  OBVIOUS
<1> HIDE DEF done
<1>2. Twin(D, done, z) /\ done.incremented = x.incremented
  BY <1>0, <1>1, StoreTwin
<1>3. "dst" \notin done.incremented /\ "dst" \in Roles \cap DOMAIN i
  BY <1>2 DEF Roles
<1>4. \A other \in Roles \cap DOMAIN i : other # "dst"
          => i[other].kind # "AddressIncrement" \/ other \in done.incremented
  BY <1>2 DEF Roles
<1> QED BY <1>0, <1>2, <1>3, <1>4, EndsStepping

(* Agreement but for the condition codes.                                  *)
Aside(D, x, y) == \E e \in StatusRegisters : Twin(D, x, [y EXCEPT !.sr = e])

(* A machine that agrees but for the condition codes does so after the     *)
(* step too.                                                               *)
LEMMA AsideEnds ==
    ASSUME EightBits, NEW D, NEW x, NEW y \in Machines(D), NEW e \in StatusRegisters, e.s = y.sr.s,
           NEW t, NEW size, NEW z, z = [y EXCEPT !.sr = e], Twin(D, x, post_effect(z, t, size))
    PROVE  Aside(D, x, post_effect(y, t, size))
<1>1. post_effect(z, t, size) = [post_effect(y, t, size) EXCEPT !.sr = e]
  BY PostCommutes
<1> QED BY <1>1 DEF Aside

(* CMP and CMPI.                                                           *)
LEMMA CompareAgrees ==
    ASSUME EightBits, NEW D, NEW m, NEW i, Ready(D, m, i), i.kind \in {"Cmp", "Cmpi"}, Ok(Execute(m, i)),
           NEW u, ~Deviates(m, i, u, Execute(m, i))
    PROVE  Agrees(D, m, i, u)
<1> DEFINE size == i.size
           S == i["src"]
           T == i["dst"]
           p == try_decrement_address(m, i, "src")
           s == OperandValue(p, S, size)
           k == try_increment_address(p, i, "src")
           q == try_decrement_address(k, i, "dst")
           d == OperandValue(q, T, size)
           v == do_binary_op("Cmp", s, d)
           sr == SetBinary(q.sr, s, d, v, size, "Cmp")
           done == Perform(m, i)
           P == pre_effect(m, S, size)
           K == post_effect(P, S, size)
           a == static_ea(S, m.pc)
           b == static_ea(T, m.pc)
           s2 == read_operand(P, S, a, size)
           d2 == read_operand(P, T, b, size)
           next == IF Accessible(q, T, size) THEN Then(q, sr) ELSE Fail(q)
<1>0. i.kind \in BinaryKinds /\ opcode_type(i.kind) = "Cmp" /\ i.kind \notin SourceToDestination
  BY SMT DEF SourceToDestination, BinaryKinds, opcode_type
<1>1. /\ m \in Machines(D) /\ WellFormed(i) /\ OnBus(D) /\ AsDecoded(i)
  BY Begins DEF Ready
<1>2. /\ "src" \in DOMAIN i /\ "dst" \in DOMAIN i /\ "src" \in Roles /\ "dst" \in Roles /\ size \in Sizes
  BY <1>0, <1>1, Operands, SizeIn DEF UsesSrc, UsesDst, UsesBoth, Roles, Shifts, BinaryKinds, UsesSize
<1>3. TransferSize(i) = size /\ bytes(i, u) = size /\ i.kind # "Movem" /\ i.kind \notin {"Move", "Movea"}
          /\ i.kind # "Btst"
      /\ i.kind \notin {"Lea", "Pea", "Jmp", "Jsr", "Movem"}
  BY <1>0 DEF TransferSize, BinaryKinds, bytes, SizedKinds, BitKinds, ToCcrKinds
<1>4. /\ S \in Targets /\ T \in Targets /\ S.kind # "ProgramCounterIndex"
             /\ T.kind \notin {"ProgramCounterIndex", "Immediate"}
      /\ (S.kind \in Stepped => S.size = size) /\ (T.kind \in Stepped => T.size = size)
      /\ ~Unstepped(i, "src") /\ ~Unstepped(i, "dst")
  BY <1>1, <1>2, <1>3, OperandsAre
<1>5. T.kind \notin Stepped /\ (T.kind = "DataRegister" \/ S.kind = "Immediate")
  <2>1. CASE i.kind = "Cmp"
    BY <1>1, <2>1 DEF AsDecoded, Given, Stepped
  <2>2. CASE i.kind = "Cmpi"
    <3>1. S.kind = "Immediate"
      BY <1>1, <2>2 DEF AsDecoded, Given, Immediates
    <3>2. T.kind \notin Stepped
      BY <1>0, <1>2, <1>4, <2>2 DEF Unstepped, Is
    <3> QED BY <3>1, <3>2
  <2> QED BY <2>1, <2>2
<1>6. Perform(m, i) = IF Accessible(p, S, size) THEN next ELSE Fail(p)
  <2>1. done = ExecBinary(m, i)
    BY <1>0, PerformIs
  <2> QED BY <1>0, <2>1, Zenon DEF ExecBinary, Read
<1>7. translate_inst(m, i, u) = post_effect([P EXCEPT !.sr = m68k_binary("Cmp", P.sr, d2, s2, size).sr], S,
          size)
  <2>1. translate_inst(m, i, u) = LiftBinary(m, i, u)
    BY <1>0, TranslateIs
  <2>2. Effects(i.kind).pre = <<"src">> /\ Effects(i.kind).post = <<"src">>
    BY EffectsAre
  <2>3. operand(i, u, "src") = S /\ operand(i, u, "dst") = T /\ ea(m, i, u, "src") = a /\ ea(m, i, u, "dst") = b
    BY <1>2, <1>3, EaIs
  <2>4. i.kind \notin BitKinds \cup {"Abcd", "Sbcd"}
    BY <1>0 DEF BinaryKinds, BitKinds
  <2> QED BY <1>0, <1>3, <2>1, <2>2, <2>3, <2>4, Ones, Zenon DEF LiftBinary, Statement, InTurn
<1>8. p = try_decrement_address(m, i, "src") /\ k = try_increment_address(p, i, "src")
          /\ q = try_decrement_address(k, i, "dst")
      /\ done = Perform(m, i) /\ P = pre_effect(m, S, size) /\ K = post_effect(P, S, size) /\ S = i["src"]
             /\ T = i["dst"]
      /\ a = static_ea(S, m.pc) /\ b = static_ea(T, m.pc) /\ s = OperandValue(p, S, size)
             /\ s2 = read_operand(P, S, a, size)
      /\ d = OperandValue(q, T, size) /\ d2 = read_operand(P, T, b, size)
      /\ next = IF Accessible(q, T, size) THEN Then(q, sr) ELSE Fail(q)
  OBVIOUS
<1> HIDE DEF p, k, q, done, P, K, size, S, T, a, b, s, s2, d, d2, next
<1>9. /\ Twin(D, p, P) /\ p.decremented = {"src"} /\ p.incremented = {} /\ p.pc = m.pc
      /\ Reads(s, s2, size) /\ done = next /\ Ok(done)
  BY <1>2, <1>3, <1>4, <1>6, <1>8, ReadsFirst, SMTT(60)
<1>10. /\ Twin(D, k, K) /\ k.decremented = {"src"} /\ k.incremented = {"src"} /\ k.pc = m.pc
       /\ k.d = p.d /\ k.sr = p.sr
  BY <1>2, <1>3, <1>4, <1>8, <1>9, IncrementTwin
<1>11. Twin(D, q, K) /\ q.decremented = {"src", "dst"} /\ q.incremented = {"src"} /\ q.pc = m.pc /\ q.sr = k.sr
  <2>1. "dst" \notin k.decremented
    BY <1>10
  <2>2. pre_effect(K, T, size) = K
    BY <1>5, EffectNone DEF Stepped
  <2> QED BY <1>2, <1>3, <1>4, <1>8, <1>10, <2>1, <2>2, DecrementTwin
<1>12. Accessible(q, T, size) /\ done = [q EXCEPT !.sr = sr]
  <2>1. ~Ok(Fail(q)) /\ Ok(q)
    <3>1. p.status = m.status /\ k.status = p.status /\ q.status = k.status
      <4>1. p.status = m.status
        <5>1. m.decremented = {} /\ Twin(D, m, m)
          BY Begins
        <5> QED BY <1>2, <1>3, <1>4, <1>8, <5>1, DecrementTwin
      <4>2. k.status = p.status
        BY <1>2, <1>3, <1>4, <1>8, <1>9, IncrementTwin
      <4>3. q.status = k.status
        <5>1. "dst" \notin k.decremented
          BY <1>10
        <5> QED BY <1>2, <1>3, <1>4, <1>8, <1>10, <5>1, DecrementTwin
      <4> QED BY <4>1, <4>2, <4>3
    <3> QED BY <1>11, <3>1, FailIsNotOk DEF Twin, Ready, Ok
  <2> QED BY <1>8, <1>9, <2>1 DEF Then
<1>13. d2 = read_operand(K, T, b, size)
  <2>1. CASE T.kind = "DataRegister"
    <3>1. K.d = P.d
      BY <1>9, <1>10 DEF Twin, Same
    <3> QED BY <1>8, <2>1, <3>1 DEF read_operand
  <2>2. CASE S.kind = "Immediate"
    <3>1. K = P
      BY <1>8, <2>2, EffectNone
    <3> QED BY <1>8, <3>1
  <2> QED BY <1>5, <2>1, <2>2
<1>14. Reads(d, d2, size)
  <2>1. b = static_ea(T, q.pc)
    BY <1>8, <1>11
  <2> QED BY <1>1, <1>2, <1>4, <1>8, <1>11, <1>12, <1>13, <2>1, ReadTwin
<1>15. q.sr = P.sr /\ q.sr \in StatusRegisters /\ K.sr = P.sr
  BY <1>9, <1>10, <1>11 DEF Twin, Same, Machines
<1>16. m68k_binary("Cmp", P.sr, d2, s2, size).sr = sr
  BY <1>9, <1>14, <1>15, Zenon DEF m68k_binary, Reads
<1>17. sr \in StatusRegisters /\ sr.s = P.sr.s
  <2>1. v \in Int
    BY <1>9, <1>14, BinaryOpIn DEF Reads, Operations
  <2> HIDE DEF v
  <2>2. NewFlags(q.sr, sr)
    BY <1>2, <1>9, <1>14, <1>15, <2>1, SetBinaryIn DEF Reads
  <2> QED BY <1>15, <2>2 DEF NewFlags
<1> HIDE DEF v, sr
<1>18. post_effect([P EXCEPT !.sr = sr], S, size) = [K EXCEPT !.sr = sr]
  BY <1>8, <1>9, <1>17, PostCommutes DEF Twin
<1>19. Twin(D, done, [K EXCEPT !.sr = sr])
  BY <1>11, <1>12, <1>17, TwinSetSr
<1>20. \A role \in Roles \cap DOMAIN i : i[role].kind # "AddressIncrement" \/ role \in done.incremented
  <2>1. done.incremented = {"src"}
    BY <1>11, <1>12 DEF Twin, Machines
  <2> QED BY <1>5, <1>8, <2>1 DEF Roles, Stepped
<1>21. Twin(D, Execute(m, i), [K EXCEPT !.sr = sr])
  BY <1>8, <1>19, <1>20, EndsStill
<1> QED BY <1>7, <1>16, <1>18, <1>21 DEF Agrees

-----------------------------------------------------------------------------
(***************************************************************************)
(* One operand.                                                            *)
(***************************************************************************)

(* The conditions as text (lifter.cpp) are those of calculate_condition,   *)
(* with GT and LE written without the nested ifs.                          *)
LEMMA ConditionSame ==
    ASSUME NEW sr \in StatusRegisters, NEW cond \in Conditions
    PROVE  cond_expr(sr, cond) <=> calculate_condition(sr, cond)
<1>1. sr.n \in {0, 1} /\ sr.v \in {0, 1} /\ sr.z \in {0, 1}
  BY DEF StatusRegisters, Bit
<1>2. CASE cond = "GreaterThan"
  BY <1>1, <1>2 DEF cond_expr, calculate_condition
<1>3. CASE cond = "LessOrEqual"
  BY <1>1, <1>3 DEF cond_expr, calculate_condition
<1>4. CASE cond \notin {"GreaterThan", "LessOrEqual"}
  BY <1>4, Zenon DEF cond_expr
<1> QED BY <1>2, <1>3, <1>4

(* The kinds that change their only operand.                               *)
OneOperand == QuickKinds \cup UnaryKinds \cup Shifts \cup {"Tas", "Scc", "MoveFromSr", "MoveFromUsp"}

(* The operand of an instruction with one operand, and the effects around  *)
(* it.                                                                     *)
LEMMA AtDestination ==
    ASSUME EightBits, NEW D, NEW m, NEW i, Ready(D, m, i), i.kind \in OneOperand, NEW u, NEW r,
               ~Deviates(m, i, u, r),
           NEW t, t = i["dst"], NEW size, size = bytes(i, u)
    PROVE  /\ i.kind # "Movem" /\ i.kind \notin BitKinds \cup {"Abcd", "Sbcd"}
           /\ "dst" \in DOMAIN i /\ "dst" \in Roles /\ t \in Targets
                  /\ t.kind \notin {"ProgramCounterIndex", "Immediate"}
           /\ size \in Sizes /\ (t.kind \in Stepped => t.size = size)
           /\ operand(i, u, "dst") = t /\ (\A x : ea(x, i, u, "dst") = static_ea(t, x.pc))
           /\ Effects(i.kind).pre = <<"dst">> /\ Effects(i.kind).post = <<"dst">>
           /\ i.kind \in QuickKinds \cup UnaryKinds \cup Shifts => size = i.size
           /\ i.kind \in {"Tas", "Scc"} => size = Byte
           /\ i.kind = "MoveFromSr" => size = Word
           /\ i.kind = "MoveFromUsp" => size = Long
           /\ "src" \in DOMAIN i => i.kind \in Shifts /\ i["src"].kind = "DataRegister" /\ i["src"] \in Targets
<1>1. AsDecoded(i) /\ WellFormed(i)
  BY DEF Ready, AsDecoded, Given
<1>2. i.kind # "Movem" /\ i.kind \notin BitKinds \cup {"Abcd", "Sbcd"} /\ i.kind # "Btst" /\ i.kind \in UsesDst
      /\ i.kind \notin {"Lea", "Pea", "Jmp", "Jsr", "Movem"}
  BY SMT DEF OneOperand, QuickKinds, UnaryKinds, Shifts, BitKinds, UsesDst
<1>3. "dst" \in DOMAIN i /\ "dst" \in Roles
  BY <1>1, <1>2, Operands DEF Roles
<1>4. /\ t \in Targets /\ t.kind \notin {"ProgramCounterIndex", "Immediate"}
             /\ (t.kind \in Stepped => t.size = TransferSize(i))
      /\ ~SizeUnset(i, u)
  BY <1>1, <1>2, <1>3, OperandsAre
<1>5. operand(i, u, "dst") = t /\ (\A x : ea(x, i, u, "dst") = static_ea(t, x.pc))
  BY <1>3, EaIs
<1>6. Effects(i.kind).pre = <<"dst">> /\ Effects(i.kind).post = <<"dst">>
  BY EffectsAre DEF OneOperand
<1>7. CASE i.kind \in QuickKinds \cup UnaryKinds \cup Shifts
  <2>1. size = i.size
    BY <1>7, SMT DEF bytes, SizedKinds
  <2>2. TransferSize(i) = i.size
    BY <1>7, SMT DEF QuickKinds, UnaryKinds, Shifts, TransferSize, BitKinds, ToCcrKinds
  <2>3. i.size \in Sizes
    BY <1>1, <1>7, SizeIn DEF UsesSize
  <2>4. i.kind \notin {"Tas", "Scc", "MoveFromSr", "MoveFromUsp"}
    BY <1>7, SMT DEF QuickKinds, UnaryKinds, Shifts
  <2>5. "src" \in DOMAIN i => i.kind \in Shifts /\ i["src"].kind = "DataRegister" /\ i["src"] \in Targets
    <3>1. CASE i.kind \in Shifts
      BY <1>1, <3>1 DEF WellFormed, OperandsFit, Roles
    <3>2. CASE i.kind \notin Shifts
      <4>1. i.kind \notin UsesSrc
        BY <1>7, <3>2, SMT DEF QuickKinds, UnaryKinds, UsesSrc, UsesBoth, BinaryKinds, AddressKinds,
               ExtendKinds, BitKinds,
           ToCcrKinds, ToSrKinds
      <4> QED BY <1>1, <1>2, <3>2, <4>1 DEF WellFormed, OperandsUsed, Roles
    <3> QED BY <3>1, <3>2
  <2> QED BY <1>2, <1>3, <1>4, <1>5, <1>6, <2>1, <2>2, <2>3, <2>4, <2>5
<1>8. CASE i.kind \in {"Tas", "Scc", "MoveFromSr", "MoveFromUsp"}
  <2>1. i.kind \notin QuickKinds \cup UnaryKinds \cup Shifts \cup UsesSrc /\ i.kind \notin SizedKinds
    BY <1>8, SMT DEF QuickKinds, UnaryKinds, Shifts, UsesSrc, UsesBoth, BinaryKinds, AddressKinds,
           ExtendKinds, BitKinds,
           ToCcrKinds, ToSrKinds, SizedKinds
  <2>2. size = u.size
    BY <2>1 DEF bytes
  <2>3. "src" \notin DOMAIN i
    BY <1>1, <1>2, <2>1 DEF WellFormed, OperandsUsed, Roles
  <2>4. /\ i.kind \in {"Tas", "Scc"} => size = Byte /\ TransferSize(i) = Byte
        /\ i.kind = "MoveFromSr" => size = Word /\ TransferSize(i) = Word
        /\ i.kind = "MoveFromUsp" => size = Long /\ t.kind \notin Stepped
    <3>1. i.kind \in {"Tas", "Scc"} => size = Byte /\ TransferSize(i) = Byte
      BY <1>4, <2>2, SMT DEF SizeUnset, TransferSize, ToCcrKinds, ToSrKinds
    <3>2. i.kind = "MoveFromSr" => size = Word /\ TransferSize(i) = Word
      BY <1>4, <2>2, SMT DEF SizeUnset, TransferSize, ToCcrKinds, ToSrKinds, BitKinds
    <3>3. i.kind = "MoveFromUsp" => size = Long
      BY <1>4, <2>2, SMT DEF SizeUnset, ToCcrKinds, ToSrKinds
    <3>4. i.kind = "MoveFromUsp" => t.kind \notin Stepped
      BY <1>1 DEF AsDecoded, Given, Stepped
    <3> QED BY <3>1, <3>2, <3>3, <3>4
  <2>5. size \in Sizes
    BY <1>8, <2>4 DEF Sizes
  <2> QED BY <1>2, <1>3, <1>4, <1>5, <1>6, <1>8, <2>1, <2>3, <2>4, <2>5
<1> QED BY <1>7, <1>8 DEF OneOperand

(* The same as StoresLast of an instruction that sets no condition codes.  *)
LEMMA WritesLast ==
    ASSUME EightBits, NEW D, NEW m, NEW i, Ready(D, m, i), Ok(Execute(m, i)),
           i.kind # "Movem", "dst" \in DOMAIN i, NEW t \in Targets, t = i["dst"],
           t.kind \notin {"ProgramCounterIndex", "Immediate"}, NEW size \in Sizes, t.kind \in Stepped
               => t.size = size,
           NEW x, NEW y, Twin(D, x, y), "dst" \in x.decremented, "dst" \notin x.incremented, x.pc = m.pc,
           "src" \in DOMAIN i => i["src"].kind # "AddressIncrement" \/ "src" \in x.incremented,
           NEW v \in Int, NEW w \in Int, Low(v, size) = Low(w, size),
           Perform(m, i) = Write(x, i, "dst", size, v), NEW sea, sea = static_ea(t, m.pc),
           NEW z, z = write_operand(y, t, sea, size, w)
    PROVE  Twin(D, Execute(m, i), post_effect(z, t, size))
<1> DEFINE done == Perform(m, i)
<1>1. Ok(done)
  BY Completes, Zenon
<1>2. OnBus(D)
  BY Begins, Zenon
<1>0. done = Perform(m, i) /\ done = Write(x, i, "dst", size, v)
  OBVIOUS
<1> HIDE DEF done
<1>3. Twin(D, done, z) /\ done.incremented = x.incremented
  BY <1>0, <1>1, <1>2, WriteTwin
<1>4. "dst" \notin done.incremented /\ "dst" \in Roles \cap DOMAIN i
  BY <1>3 DEF Roles
<1>5. \A other \in Roles \cap DOMAIN i : other # "dst"
          => i[other].kind # "AddressIncrement" \/ other \in done.incremented
  BY <1>3 DEF Roles
<1> QED BY <1>0, <1>3, <1>4, <1>5, EndsStepping

(* The data of a quick instruction is between 1 and 8.                     *)
LEMMA QuickLow ==
    ASSUME EightBits, NEW i, AsDecoded(i),
               i.kind \in QuickKinds \/ (i.kind \in Shifts /\ "src" \notin DOMAIN i), NEW size \in Sizes
    PROVE  Low(QuickValue(i.data), size) = QuickValue(i.data) /\ QuickValue(i.data) \in 1 .. 8
<1>1. i.data \in 0 .. 7
  BY DEF AsDecoded, Given
<1>2. QuickValue(i.data) \in 1 .. 8
  BY <1>1 DEF QuickValue
<1>3. QuickValue(i.data) \in Values(size)
  BY <1>2, InValues DEF Sizes
<1> QED BY <1>2, <1>3, LowSame

(* CLR, NEG, NEGX and NOT.                                                 *)
LEMMA UnaryAgrees ==
    ASSUME EightBits, NEW D, NEW m, NEW i, Ready(D, m, i), i.kind \in UnaryKinds, Ok(Execute(m, i)),
           NEW u, ~Deviates(m, i, u, Execute(m, i))
    PROVE  Agrees(D, m, i, u)
<1> DEFINE size == i.size
           T == i["dst"]
           p == try_decrement_address(m, i, "dst")
           d == OperandValue(p, T, size)
           P == pre_effect(m, T, size)
           b == static_ea(T, m.pc)
           d2 == read_operand(P, T, b, size)
           v == Unary(i.kind, size, d, p.sr).value
           sr == SetUnary(p.sr, i.kind, size, Unary(i.kind, size, d, p.sr))
           next == Then(Write(p, i, "dst", size, v), sr)
           z == [write_operand(P, T, b, size, v) EXCEPT !.sr = sr]
<1>0. i.kind \in UnaryKinds /\ i.kind \notin Shifts
  BY SMT DEF UnaryKinds, Shifts
<1>1. i.kind \in OneOperand
  BY <1>0 DEF OneOperand
<1>2. bytes(i, u) = size
  BY <1>0, <1>1, AtDestination
<1>3. /\ i.kind # "Movem" /\ i.kind \notin BitKinds \cup {"Abcd", "Sbcd"}
      /\ "dst" \in DOMAIN i /\ "dst" \in Roles /\ T \in Targets
             /\ T.kind \notin {"ProgramCounterIndex", "Immediate"}
      /\ size \in Sizes /\ (T.kind \in Stepped => T.size = size)
      /\ operand(i, u, "dst") = T /\ (\A x : ea(x, i, u, "dst") = static_ea(T, x.pc))
      /\ Effects(i.kind).pre = <<"dst">> /\ Effects(i.kind).post = <<"dst">>
      /\ ("src" \in DOMAIN i => i.kind \in Shifts)
  BY <1>1, <1>2, AtDestination
<1>4. Perform(m, i) = IF Accessible(p, T, size) THEN next ELSE Fail(p)
  <2>1. Perform(m, i) = ExecUnary(m, i)
    BY <1>0, PerformIs
  <2> QED BY <1>0, <2>1, Zenon DEF ExecUnary, Read
<1>5. translate_inst(m, i, u) = post_effect(StoreResult(P, i, u,
          [value |-> Unary(i.kind, size, Low(d2, size), P.sr).value,
              sr |-> SetUnary(P.sr, i.kind, size, Unary(i.kind, size, Low(d2, size), P.sr))]), T, size)
  <2>1. translate_inst(m, i, u) = LiftUnary(m, i, u)
    BY <1>0, TranslateIs
  <2>2. ea(m, i, u, "dst") = b
    BY <1>3
  <2> QED BY <1>0, <1>2, <1>3, <2>1, <2>2, Ones, Zenon DEF LiftUnary, Statement, InTurn
<1>6. p = try_decrement_address(m, i, "dst") /\ P = pre_effect(m, T, size) /\ T = i["dst"]
          /\ b = static_ea(T, m.pc)
      /\ d = OperandValue(p, T, size) /\ d2 = read_operand(P, T, b, size) /\ size = i.size
      /\ z = [write_operand(P, T, b, size, v) EXCEPT !.sr = sr] /\ next = Then(Write(p, i, "dst", size, v), sr)
  OBVIOUS
<1> HIDE DEF p, P, T, b, d, d2, next, z, size
<1>7. /\ Twin(D, p, P) /\ p.decremented = {"dst"} /\ p.incremented = {} /\ p.pc = m.pc /\ P.pc = m.pc
      /\ p.sr = m.sr /\ P.sr = m.sr /\ m.sr \in StatusRegisters
      /\ Reads(d, d2, size) /\ Perform(m, i) = next
  BY <1>3, <1>4, <1>6, ReadsFirst, SMTT(30)
<1>8. [value |-> Unary(i.kind, size, Low(d2, size), P.sr).value,
          sr |-> SetUnary(P.sr, i.kind, size, Unary(i.kind, size, Low(d2, size), P.sr))]
              = [value |-> v, sr |-> sr]
  BY <1>7, Zenon DEF Reads
<1>9. v \in Int /\ sr \in StatusRegisters
  <2> DEFINE r == Unary(i.kind, size, d, p.sr)
  <2>1. d \in Int /\ p.sr.x \in Int
    BY <1>7 DEF Reads, StatusRegisters, Bit
  <2>2. r.value \in Int /\ r.v \in Bit
    BY <1>0, <1>3, <1>7, <2>1, UnaryIn
  <2> HIDE DEF r
  <2>3. NewFlags(p.sr, SetUnary(p.sr, i.kind, size, r))
    BY <1>3, <1>7, <2>2, SetUnaryIn
  <2> QED BY <2>2, <2>3 DEF NewFlags, r
<1> HIDE DEF v, sr
<1>10. StoreResult(P, i, u, [value |-> v, sr |-> sr]) = z
  <2>1. ea(P, i, u, "dst") = b
    BY <1>3, <1>6, <1>7
  <2> QED BY <1>2, <1>3, <1>6, <2>1, Zenon DEF StoreResult, wd
<1>11. Twin(D, Execute(m, i), post_effect(z, T, size))
  <2>1. "dst" \in p.decremented /\ "dst" \notin p.incremented /\ p.pc = m.pc
        /\ ("src" \in DOMAIN i => i["src"].kind # "AddressIncrement" \/ "src" \in p.incremented)
    BY <1>0, <1>3, <1>7
  <2>2. Perform(m, i) = Then(Write(p, i, "dst", size, v), sr)
    BY <1>6, <1>7
  <2> QED BY <1>3, <1>6, <1>7, <1>9, <2>1, <2>2, StoresLast
<1> QED BY <1>5, <1>8, <1>10, <1>11 DEF Agrees

(* TAS.                                                                    *)
LEMMA TasAgrees ==
    ASSUME EightBits, NEW D, NEW m, NEW i, Ready(D, m, i), i.kind = "Tas", Ok(Execute(m, i)),
           NEW u, ~Deviates(m, i, u, Execute(m, i))
    PROVE  Agrees(D, m, i, u)
<1> DEFINE size == Byte
           T == i["dst"]
           p == try_decrement_address(m, i, "dst")
           d == OperandValue(p, T, size)
           P == pre_effect(m, T, size)
           b == static_ea(T, m.pc)
           d2 == read_operand(P, T, b, size)
           v == BitOr(d, Span(Byte) \div 2)
           sr == SetLogic(p.sr, d, size)
           next == Then(Write(p, i, "dst", size, v), sr)
           z == [write_operand(P, T, b, size, v) EXCEPT !.sr = sr]
<1>0. i.kind = "Tas" /\ i.kind \notin Shifts
  BY SMT DEF Shifts
<1>1. i.kind \in OneOperand
  BY <1>0 DEF OneOperand
<1>2. bytes(i, u) = size
  BY <1>0, <1>1, AtDestination
<1>3. /\ i.kind # "Movem" /\ i.kind \notin BitKinds \cup {"Abcd", "Sbcd"}
      /\ "dst" \in DOMAIN i /\ "dst" \in Roles /\ T \in Targets
             /\ T.kind \notin {"ProgramCounterIndex", "Immediate"}
      /\ size \in Sizes /\ (T.kind \in Stepped => T.size = size)
      /\ operand(i, u, "dst") = T /\ (\A x : ea(x, i, u, "dst") = static_ea(T, x.pc))
      /\ Effects(i.kind).pre = <<"dst">> /\ Effects(i.kind).post = <<"dst">>
      /\ ("src" \in DOMAIN i => i.kind \in Shifts)
  BY <1>1, <1>2, AtDestination
<1>4. Perform(m, i) = IF Accessible(p, T, size) THEN next ELSE Fail(p)
  <2>1. Perform(m, i) = ExecTas(m, i)
    BY <1>0, PerformIs
  <2> QED BY <1>0, <2>1, Zenon DEF ExecTas, Read
<1>5. translate_inst(m, i, u) = post_effect(StoreResult(P, i, u,
          [value |-> BitOr(Low(d2, size), Span(Byte) \div 2), sr |-> SetLogic(P.sr, d2, size)]), T, size)
  <2>1. translate_inst(m, i, u) = LiftTas(m, i, u)
    BY <1>0, TranslateIs
  <2>2. ea(m, i, u, "dst") = b
    BY <1>3
  <2> QED BY <1>0, <1>2, <1>3, <2>1, <2>2, Ones, Zenon DEF LiftTas, Statement, InTurn
<1>6. p = try_decrement_address(m, i, "dst") /\ P = pre_effect(m, T, size) /\ T = i["dst"]
          /\ b = static_ea(T, m.pc)
      /\ d = OperandValue(p, T, size) /\ d2 = read_operand(P, T, b, size) /\ size = Byte
      /\ z = [write_operand(P, T, b, size, v) EXCEPT !.sr = sr] /\ next = Then(Write(p, i, "dst", size, v), sr)
  OBVIOUS
<1> HIDE DEF p, P, T, b, d, d2, next, z, size
<1>7. /\ Twin(D, p, P) /\ p.decremented = {"dst"} /\ p.incremented = {} /\ p.pc = m.pc /\ P.pc = m.pc
      /\ p.sr = m.sr /\ P.sr = m.sr /\ m.sr \in StatusRegisters
      /\ Reads(d, d2, size) /\ Perform(m, i) = next
  BY <1>3, <1>4, <1>6, ReadsFirst, SMTT(30)
<1>8. [value |-> BitOr(Low(d2, size), Span(Byte) \div 2), sr |-> SetLogic(P.sr, d2, size)]
          = [value |-> v, sr |-> sr]
  <2>1. Low(d2, size) = d /\ Low(d2, size) = Low(d, size) /\ d \in Int /\ d2 \in Int
    BY <1>7 DEF Reads
  <2>2. SetLogic(P.sr, d2, size) = SetLogic(P.sr, d, size)
    BY <1>3, <1>7, ReadsSame
  <2> QED BY <1>7, <2>1, <2>2
<1>9. v \in Int /\ sr \in StatusRegisters
  <2>1. v \in Int
    BY BitwiseIn
  <2>2. NewFlags(p.sr, sr)
    BY <1>3, <1>7, SetLogicIn DEF Reads
  <2> QED BY <2>1, <2>2 DEF NewFlags
<1> HIDE DEF v, sr
<1>10. StoreResult(P, i, u, [value |-> v, sr |-> sr]) = z
  <2>1. ea(P, i, u, "dst") = b
    BY <1>3, <1>6, <1>7
  <2> QED BY <1>2, <1>3, <1>6, <2>1, Zenon DEF StoreResult, wd
<1>11. Twin(D, Execute(m, i), post_effect(z, T, size))
  <2>1. "dst" \in p.decremented /\ "dst" \notin p.incremented /\ p.pc = m.pc
        /\ ("src" \in DOMAIN i => i["src"].kind # "AddressIncrement" \/ "src" \in p.incremented)
    BY <1>0, <1>3, <1>7
  <2>2. Perform(m, i) = Then(Write(p, i, "dst", size, v), sr)
    BY <1>6, <1>7
  <2> QED BY <1>3, <1>6, <1>7, <1>9, <2>1, <2>2, StoresLast
<1> QED BY <1>5, <1>8, <1>10, <1>11 DEF Agrees

(* ADDQ and SUBQ to anything but an address register.                      *)
LEMMA QuickStores ==
    ASSUME EightBits, NEW D, NEW m, NEW i, Ready(D, m, i), i.kind \in QuickKinds,
               i["dst"].kind # "AddressRegister", Ok(Execute(m, i)),
           NEW u, ~Deviates(m, i, u, Execute(m, i))
    PROVE  Agrees(D, m, i, u)
<1> DEFINE size == i.size
           T == i["dst"]
           p == try_decrement_address(m, i, "dst")
           d == OperandValue(p, T, size)
           P == pre_effect(m, T, size)
           b == static_ea(T, m.pc)
           d2 == read_operand(P, T, b, size)
           v == do_binary_op(opcode_type(i.kind), QuickValue(i.data), d)
           sr == SetArithmetic(p.sr, QuickValue(i.data), d, v, size, opcode_type(i.kind))
           next == Then(Write(p, i, "dst", size, v), sr)
           z == [write_operand(P, T, b, size, v) EXCEPT !.sr = sr]
<1>0. i.kind \in QuickKinds /\ i.kind \notin Shifts /\ opcode_type(i.kind) \in {"Add", "Sub"}
          /\ i["dst"].kind # "AddressRegister"
  BY SMT DEF QuickKinds, Shifts, opcode_type
<1>1. i.kind \in OneOperand
  BY <1>0 DEF OneOperand
<1>2. bytes(i, u) = size
  BY <1>0, <1>1, AtDestination
<1>3. /\ i.kind # "Movem" /\ i.kind \notin BitKinds \cup {"Abcd", "Sbcd"}
      /\ "dst" \in DOMAIN i /\ "dst" \in Roles /\ T \in Targets
             /\ T.kind \notin {"ProgramCounterIndex", "Immediate"}
      /\ size \in Sizes /\ (T.kind \in Stepped => T.size = size)
      /\ operand(i, u, "dst") = T /\ (\A x : ea(x, i, u, "dst") = static_ea(T, x.pc))
      /\ Effects(i.kind).pre = <<"dst">> /\ Effects(i.kind).post = <<"dst">>
      /\ ("src" \in DOMAIN i => i.kind \in Shifts)
  BY <1>1, <1>2, AtDestination
<1>4. Perform(m, i) = IF Accessible(p, T, size) THEN next ELSE Fail(p)
  <2>1. Perform(m, i) = ExecQuick(m, i)
    BY <1>0, PerformIs
  <2> QED BY <1>0, <2>1, Zenon DEF ExecQuick, Read
<1>5. translate_inst(m, i, u) = post_effect(StoreResult(P, i, u,
          m68k_binary(opcode_type(i.kind), P.sr, d2, QuickValue(i.data), size)), T, size)
  <2>1. translate_inst(m, i, u) = LiftQuick(m, i, u)
    BY <1>0, TranslateIs
  <2>2. ea(m, i, u, "dst") = b
    BY <1>3
  <2> QED BY <1>0, <1>2, <1>3, <2>1, <2>2, Ones, Zenon DEF LiftQuick, Statement, InTurn
<1>6. p = try_decrement_address(m, i, "dst") /\ P = pre_effect(m, T, size) /\ T = i["dst"]
          /\ b = static_ea(T, m.pc)
      /\ d = OperandValue(p, T, size) /\ d2 = read_operand(P, T, b, size) /\ size = i.size
      /\ z = [write_operand(P, T, b, size, v) EXCEPT !.sr = sr] /\ next = Then(Write(p, i, "dst", size, v), sr)
  OBVIOUS
<1> HIDE DEF p, P, T, b, d, d2, next, z, size
<1>7. /\ Twin(D, p, P) /\ p.decremented = {"dst"} /\ p.incremented = {} /\ p.pc = m.pc /\ P.pc = m.pc
      /\ p.sr = m.sr /\ P.sr = m.sr /\ m.sr \in StatusRegisters
      /\ Reads(d, d2, size) /\ Perform(m, i) = next
  BY <1>3, <1>4, <1>6, ReadsFirst, SMTT(30)
<1>8. m68k_binary(opcode_type(i.kind), P.sr, d2, QuickValue(i.data), size) = [value |-> v, sr |-> sr]
  <2>1. Low(QuickValue(i.data), size) = QuickValue(i.data)
    BY <1>3, <1>0, QuickLow DEF Ready
  <2>2. Low(d2, size) = d
    BY <1>7 DEF Reads
  <2>3. P.sr = p.sr
    BY <1>7
  <2> QED BY <1>0, <2>1, <2>2, <2>3, Zenon DEF m68k_binary, SetBinary
<1>9. v \in Int /\ sr \in StatusRegisters
  <2> DEFINE n == QuickValue(i.data)  op == opcode_type(i.kind)
  <2>1. n \in Int /\ d \in Int /\ op \in Operations
    BY <1>0, <1>3, <1>7, QuickLow DEF Ready, Reads, Operations
  <2> HIDE DEF n, op
  <2>2. do_binary_op(op, n, d) \in Int
    BY <2>1, BinaryOpIn
  <2>3. NewFlags(p.sr, SetArithmetic(p.sr, n, d, do_binary_op(op, n, d), size, op))
    BY <1>3, <1>7, <2>1, <2>2, SetArithmeticIn
  <2> QED BY <2>2, <2>3 DEF NewFlags, n, op
<1> HIDE DEF v, sr
<1>10. StoreResult(P, i, u, [value |-> v, sr |-> sr]) = z
  <2>1. ea(P, i, u, "dst") = b
    BY <1>3, <1>6, <1>7
  <2> QED BY <1>2, <1>3, <1>6, <2>1, Zenon DEF StoreResult, wd
<1>11. Twin(D, Execute(m, i), post_effect(z, T, size))
  <2>1. "dst" \in p.decremented /\ "dst" \notin p.incremented /\ p.pc = m.pc
        /\ ("src" \in DOMAIN i => i["src"].kind # "AddressIncrement" \/ "src" \in p.incremented)
    BY <1>0, <1>3, <1>7
  <2>2. Perform(m, i) = Then(Write(p, i, "dst", size, v), sr)
    BY <1>6, <1>7
  <2> QED BY <1>3, <1>6, <1>7, <1>9, <2>1, <2>2, StoresLast
<1> QED BY <1>5, <1>8, <1>10, <1>11 DEF Agrees

(* ADDQ and SUBQ: an address register takes the whole sum and leaves the   *)
(* condition codes.                                                        *)
LEMMA QuickAgrees ==
    ASSUME EightBits, NEW D, NEW m, NEW i, Ready(D, m, i), i.kind \in QuickKinds, Ok(Execute(m, i)),
           NEW u, ~Deviates(m, i, u, Execute(m, i))
    PROVE  Agrees(D, m, i, u)
<1>1. CASE i["dst"].kind # "AddressRegister"
  BY <1>1, QuickStores
<1>2. CASE i["dst"].kind = "AddressRegister"
  <2> DEFINE T == i["dst"]
             p == try_decrement_address(m, i, "dst")
             op == opcode_type(i.kind)
             n == QuickValue(i.data)
             d == OperandValue(p, T, Long)
             v == do_binary_op(op, n, d)
             b == static_ea(T, m.pc)
  <2>1. i.kind \in OneOperand /\ i.kind \notin Shifts /\ i.kind # "Movem" /\ op \in Operations
    BY SMT DEF OneOperand, QuickKinds, Shifts, opcode_type, Operations
  <2>2. /\ "dst" \in DOMAIN i /\ "dst" \in Roles /\ T \in Targets
               /\ T.kind \notin {"ProgramCounterIndex", "Immediate"}
        /\ "src" \notin DOMAIN i
    BY <2>1, AtDestination
  <2>3. i.size = Long
    BY <1>2, <2>2 DEF Deviates, Incomplete, Is
  <2>4. /\ m \in Machines(D) /\ m.decremented = {} /\ m.incremented = {} /\ Twin(D, m, m) /\ AsDecoded(i)
    BY Begins DEF Ready
  <2>5. IsRegister(T) /\ T.kind \notin Stepped /\ T.index \in 0 .. 7 /\ Long \in Sizes
            /\ RegisterValue(m, T) = a_reg(m, T.index)
    BY <1>2, <2>2, TargetIn DEF IsRegister, Stepped, Sizes, RegisterValue
  <2>6. p = try_decrement_address(m, i, "dst") /\ T = i["dst"] /\ b = static_ea(T, m.pc)
    OBVIOUS
  <2>7. Perform(m, i) = IF Accessible(p, T, Long) THEN Write(p, i, "dst", Long, v) ELSE Fail(p)
    <3>1. Perform(m, i) = ExecQuick(m, i)
      BY PerformIs
    <3> QED BY <1>2, <2>3, <3>1, Zenon DEF ExecQuick, Read
  <2> HIDE DEF p
  <2>8. /\ Twin(D, p, m) /\ p.decremented = {"dst"} /\ p.incremented = {} /\ p.pc = m.pc
        /\ Accessible(p, T, Long) /\ d = Low(RegisterValue(m, T), Long)
    BY <2>1, <2>2, <2>4, <2>5, <2>6, RegisterNext
  <2>9. d = a_reg(m, T.index) /\ a_reg(m, T.index) \in Values(Long) /\ d \in Int
    BY <2>4, <2>5, <2>8, RegisterIn, LowKeeps, ValuesWiden
  <2>10. translate_inst(m, i, u) = SetA(m, T.index, v)
    <3>1. translate_inst(m, i, u) = LiftQuick(m, i, u)
      BY TranslateIs
    <3> QED BY <1>2, <2>9, <3>1, Zenon DEF LiftQuick
  <2>11. v \in Int
    <3>1. n \in Int
      BY <2>4, <2>5, QuickLow
    <3> HIDE DEF d, n, op
    <3> QED BY <2>1, <2>9, <3>1, BinaryOpIn
  <2> HIDE DEF d, v
  <2>12. write_operand(m, T, b, Long, v) = SetA(m, T.index, v)
    <3>1. write_operand(m, T, b, Long, v) = SetA(m, T.index, Replaced(a_reg(m, T.index), v, Long))
      BY <1>2 DEF write_operand
    <3> QED BY <2>9, <2>11, <3>1, ReplacedLong, SetALow
  <2>13. Perform(m, i) = Write(p, i, "dst", Long, v)
    BY <2>7, <2>8
  <2> DEFINE z == write_operand(m, T, b, Long, v)
  <2>14. z = write_operand(m, T, b, Long, v)
    OBVIOUS
  <2> HIDE DEF b, z, T
  <2>15. "dst" \in p.decremented /\ "dst" \notin p.incremented /\ (T.kind \in Stepped => T.size = Long)
         /\ ("src" \in DOMAIN i => i["src"].kind # "AddressIncrement" \/ "src" \in p.incremented)
    BY <2>2, <2>5, <2>8
  <2>16. Twin(D, Execute(m, i), post_effect(z, T, Long))
    BY <2>1, <2>2, <2>5, <2>6, <2>8, <2>11, <2>13, <2>14, <2>15, WritesLast
  <2>17. post_effect(z, T, Long) = z
    BY <2>5, EffectNone DEF Stepped
  <2> QED BY <2>10, <2>12, <2>14, <2>16, <2>17 DEF Agrees
<1> QED BY <1>1, <1>2

(* Scc.                                                                    *)
LEMMA SccAgrees ==
    ASSUME EightBits, NEW D, NEW m, NEW i, Ready(D, m, i), i.kind = "Scc", Ok(Execute(m, i)),
           NEW u, ~Deviates(m, i, u, Execute(m, i))
    PROVE  Agrees(D, m, i, u)
<1> DEFINE size == Byte
           T == i["dst"]
           p == try_decrement_address(m, i, "dst")
           P == pre_effect(m, T, size)
           b == static_ea(T, m.pc)
           v == IF calculate_condition(m.sr, i.cond) THEN Span(Byte) - 1 ELSE 0
           w == IF cond_expr(P.sr, i.cond) THEN Span(Byte) - 1 ELSE 0
           z == write_operand(P, T, b, size, v)
<1>0. i.kind \in OneOperand /\ i.kind \notin Shifts
  BY SMT DEF OneOperand, Shifts
<1>2. bytes(i, u) = size
  BY <1>0, AtDestination
<1>3. /\ i.kind # "Movem" /\ i.kind \notin BitKinds \cup {"Abcd", "Sbcd"}
      /\ "dst" \in DOMAIN i /\ "dst" \in Roles /\ T \in Targets
             /\ T.kind \notin {"ProgramCounterIndex", "Immediate"}
      /\ size \in Sizes /\ (T.kind \in Stepped => T.size = size)
      /\ operand(i, u, "dst") = T /\ (\A x : ea(x, i, u, "dst") = static_ea(T, x.pc))
      /\ Effects(i.kind).pre = <<"dst">> /\ Effects(i.kind).post = <<"dst">>
      /\ "src" \notin DOMAIN i
  BY <1>0, <1>2, AtDestination
<1>4. /\ m \in Machines(D) /\ m.decremented = {} /\ m.incremented = {} /\ Twin(D, m, m) /\ WellFormed(i)
             /\ AsDecoded(i)
  BY Begins DEF Ready
<1>6. p = try_decrement_address(m, i, "dst") /\ P = pre_effect(m, T, size) /\ T = i["dst"]
          /\ b = static_ea(T, m.pc)
      /\ size = Byte /\ z = write_operand(P, T, b, size, v)
  OBVIOUS
<1>5. translate_inst(m, i, u) = post_effect(wd(P, i, u, w), T, size)
  <2>1. translate_inst(m, i, u) = LiftScc(m, i, u)
    BY TranslateIs
  <2> QED BY <1>2, <1>3, <2>1, Ones, Zenon DEF LiftScc, Statement, InTurn
<1>7. Perform(m, i) = Write(m, i, "dst", size, v)
  <2>1. Perform(m, i) = ExecScc(m, i)
    BY PerformIs
  <2> QED BY <2>1, Zenon DEF ExecScc
<1> HIDE DEF p, P, T, b, z, size
<1>8. Twin(D, p, P) /\ p.decremented = {"dst"} /\ p.incremented = {} /\ p.pc = m.pc /\ P.pc = m.pc
          /\ P.sr = m.sr
      /\ m.sr \in StatusRegisters
  <2>1. Twin(D, p, P) /\ p.decremented = {"dst"} /\ p.incremented = {} /\ p.pc = m.pc /\ p.sr = m.sr
    BY <1>3, <1>4, <1>6, DecrementTwin
  <2> QED BY <1>4, <2>1 DEF Twin, Same, Machines
<1>9. w = v
  <2>1. i.cond \in Conditions
    BY <1>4 DEF WellFormed
  <2>2. cond_expr(P.sr, i.cond) <=> calculate_condition(m.sr, i.cond)
    BY <1>8, <2>1, ConditionSame
  <2>3. CASE calculate_condition(m.sr, i.cond)
    BY <2>2, <2>3
  <2>4. CASE ~calculate_condition(m.sr, i.cond)
    BY <2>2, <2>4
  <2> QED BY <2>3, <2>4
<1>10. v \in Int
  BY SpanValues
<1> HIDE DEF v, w
<1>11. wd(P, i, u, v) = z
  <2>1. ea(P, i, u, "dst") = b
    BY <1>3, <1>6, <1>8
  <2> QED BY <1>2, <1>3, <1>6, <2>1, Zenon DEF wd
<1>12. Twin(D, Execute(m, i), post_effect(z, T, size))
  <2>1. "dst" \in p.decremented /\ "dst" \notin p.incremented /\ p.pc = m.pc
        /\ ("src" \in DOMAIN i => i["src"].kind # "AddressIncrement" \/ "src" \in p.incremented)
    BY <1>3, <1>8
  <2>2. Perform(m, i) = Write(p, i, "dst", size, v)
    BY <1>4, <1>6, <1>7, <2>1, WriteAfter
  <2> QED BY <1>3, <1>6, <1>8, <1>10, <2>1, <2>2, WritesLast
<1> QED BY <1>5, <1>9, <1>11, <1>12 DEF Agrees

(* MOVE from SR.                                                           *)
LEMMA MoveFromSrAgrees ==
    ASSUME EightBits, NEW D, NEW m, NEW i, Ready(D, m, i), i.kind = "MoveFromSr", Ok(Execute(m, i)),
           NEW u, ~Deviates(m, i, u, Execute(m, i))
    PROVE  Agrees(D, m, i, u)
<1> DEFINE size == Word
           T == i["dst"]
           p == try_decrement_address(m, i, "dst")
           P == pre_effect(m, T, size)
           b == static_ea(T, m.pc)
           v == SrWord(m.sr)
           w == SrWord(P.sr)
           z == write_operand(P, T, b, size, v)
<1>0. i.kind \in OneOperand /\ i.kind \notin Shifts
  BY SMT DEF OneOperand, Shifts
<1>2. bytes(i, u) = size
  BY <1>0, AtDestination
<1>3. /\ i.kind # "Movem" /\ i.kind \notin BitKinds \cup {"Abcd", "Sbcd"}
      /\ "dst" \in DOMAIN i /\ "dst" \in Roles /\ T \in Targets
             /\ T.kind \notin {"ProgramCounterIndex", "Immediate"}
      /\ size \in Sizes /\ (T.kind \in Stepped => T.size = size)
      /\ operand(i, u, "dst") = T /\ (\A x : ea(x, i, u, "dst") = static_ea(T, x.pc))
      /\ Effects(i.kind).pre = <<"dst">> /\ Effects(i.kind).post = <<"dst">>
      /\ "src" \notin DOMAIN i
  BY <1>0, <1>2, AtDestination
<1>4. /\ m \in Machines(D) /\ m.decremented = {} /\ m.incremented = {} /\ Twin(D, m, m) /\ WellFormed(i)
             /\ AsDecoded(i)
  BY Begins DEF Ready
<1>6. p = try_decrement_address(m, i, "dst") /\ P = pre_effect(m, T, size) /\ T = i["dst"]
          /\ b = static_ea(T, m.pc)
      /\ size = Word /\ z = write_operand(P, T, b, size, v)
  OBVIOUS
<1>5. translate_inst(m, i, u) = post_effect(wd(P, i, u, w), T, size)
  <2>1. translate_inst(m, i, u) = LiftMoveStatus(m, i, u)
    BY TranslateIs
  <2> QED BY <1>2, <1>3, <2>1, Ones, Zenon DEF LiftMoveStatus, Statement, InTurn
<1>7. Perform(m, i) = Write(m, i, "dst", size, v)
  <2>1. Perform(m, i) = ExecMoveFromSr(m, i)
    BY PerformIs
  <2> QED BY <2>1, Zenon DEF ExecMoveFromSr
<1> HIDE DEF p, P, T, b, z, size
<1>8. Twin(D, p, P) /\ p.decremented = {"dst"} /\ p.incremented = {} /\ p.pc = m.pc /\ P.pc = m.pc
          /\ P.sr = m.sr
      /\ m.sr \in StatusRegisters
  <2>1. Twin(D, p, P) /\ p.decremented = {"dst"} /\ p.incremented = {} /\ p.pc = m.pc /\ p.sr = m.sr
    BY <1>3, <1>4, <1>6, DecrementTwin
  <2> QED BY <1>4, <2>1 DEF Twin, Same, Machines
<1>9. w = v
  BY <1>8
<1>10. v \in Int
  BY <1>8, SrWordIn
<1> HIDE DEF v, w
<1>11. wd(P, i, u, v) = z
  <2>1. ea(P, i, u, "dst") = b
    BY <1>3, <1>6, <1>8
  <2> QED BY <1>2, <1>3, <1>6, <2>1, Zenon DEF wd
<1>12. Twin(D, Execute(m, i), post_effect(z, T, size))
  <2>1. "dst" \in p.decremented /\ "dst" \notin p.incremented /\ p.pc = m.pc
        /\ ("src" \in DOMAIN i => i["src"].kind # "AddressIncrement" \/ "src" \in p.incremented)
    BY <1>3, <1>8
  <2>2. Perform(m, i) = Write(p, i, "dst", size, v)
    BY <1>4, <1>6, <1>7, <2>1, WriteAfter
  <2> QED BY <1>3, <1>6, <1>8, <1>10, <2>1, <2>2, WritesLast
<1> QED BY <1>5, <1>9, <1>11, <1>12 DEF Agrees

(* MOVE from USP.                                                          *)
LEMMA MoveFromUspAgrees ==
    ASSUME EightBits, NEW D, NEW m, NEW i, Ready(D, m, i), i.kind = "MoveFromUsp", Ok(Execute(m, i)),
           NEW u, ~Deviates(m, i, u, Execute(m, i))
    PROVE  Agrees(D, m, i, u)
<1> DEFINE size == Long
           T == i["dst"]
           p == try_decrement_address(m, i, "dst")
           P == pre_effect(m, T, size)
           b == static_ea(T, m.pc)
           v == m.usp
           w == P.usp
           z == write_operand(P, T, b, size, v)
<1>0. i.kind \in OneOperand /\ i.kind \notin Shifts
  BY SMT DEF OneOperand, Shifts
<1>2. bytes(i, u) = size
  BY <1>0, AtDestination
<1>3. /\ i.kind # "Movem" /\ i.kind \notin BitKinds \cup {"Abcd", "Sbcd"}
      /\ "dst" \in DOMAIN i /\ "dst" \in Roles /\ T \in Targets
             /\ T.kind \notin {"ProgramCounterIndex", "Immediate"}
      /\ size \in Sizes /\ (T.kind \in Stepped => T.size = size)
      /\ operand(i, u, "dst") = T /\ (\A x : ea(x, i, u, "dst") = static_ea(T, x.pc))
      /\ Effects(i.kind).pre = <<"dst">> /\ Effects(i.kind).post = <<"dst">>
      /\ "src" \notin DOMAIN i
  BY <1>0, <1>2, AtDestination
<1>4. /\ m \in Machines(D) /\ m.decremented = {} /\ m.incremented = {} /\ Twin(D, m, m) /\ WellFormed(i)
             /\ AsDecoded(i)
  BY Begins DEF Ready
<1>6. p = try_decrement_address(m, i, "dst") /\ P = pre_effect(m, T, size) /\ T = i["dst"]
          /\ b = static_ea(T, m.pc)
      /\ size = Long /\ z = write_operand(P, T, b, size, v)
  OBVIOUS
<1>5. translate_inst(m, i, u) = post_effect(wd(P, i, u, w), T, size)
  <2>1. translate_inst(m, i, u) = LiftMoveStatus(m, i, u)
    BY TranslateIs
  <2> QED BY <1>2, <1>3, <2>1, Ones, Zenon DEF LiftMoveStatus, Statement, InTurn
<1>7. Perform(m, i) = Write(m, i, "dst", size, v)
  <2>1. Perform(m, i) = ExecUsp(m, i)
    BY PerformIs
  <2> QED BY <2>1, Zenon DEF ExecUsp
<1> HIDE DEF p, P, T, b, z, size
<1>8. Twin(D, p, P) /\ p.decremented = {"dst"} /\ p.incremented = {} /\ p.pc = m.pc /\ P.pc = m.pc
          /\ P.sr = m.sr
      /\ m.sr \in StatusRegisters
  <2>1. Twin(D, p, P) /\ p.decremented = {"dst"} /\ p.incremented = {} /\ p.pc = m.pc /\ p.sr = m.sr
    BY <1>3, <1>4, <1>6, DecrementTwin
  <2> QED BY <1>4, <2>1 DEF Twin, Same, Machines
<1>9. w = v
  <2>1. T.kind = "AddressRegister"
    BY <1>4, <1>6 DEF AsDecoded, Given
  <2> QED BY <1>6, <2>1, EffectNone
<1>10. v \in Int
  BY <1>4, ValuesWiden DEF Machines
<1> HIDE DEF v, w
<1>11. wd(P, i, u, v) = z
  <2>1. ea(P, i, u, "dst") = b
    BY <1>3, <1>6, <1>8
  <2> QED BY <1>2, <1>3, <1>6, <2>1, Zenon DEF wd
<1>12. Twin(D, Execute(m, i), post_effect(z, T, size))
  <2>1. "dst" \in p.decremented /\ "dst" \notin p.incremented /\ p.pc = m.pc
        /\ ("src" \in DOMAIN i => i["src"].kind # "AddressIncrement" \/ "src" \in p.incremented)
    BY <1>3, <1>8
  <2>2. Perform(m, i) = Write(p, i, "dst", size, v)
    BY <1>4, <1>6, <1>7, <2>1, WriteAfter
  <2> QED BY <1>3, <1>6, <1>8, <1>10, <2>1, <2>2, WritesLast
<1> QED BY <1>5, <1>9, <1>11, <1>12 DEF Agrees

-----------------------------------------------------------------------------
(***************************************************************************)
(* Shifts and rotations.                                                   *)
(***************************************************************************)

(* The mode is not a condition code: an address does not depend on the     *)
(* others.                                                                 *)
LEMMA AddressApart ==
    ASSUME NEW D, NEW y \in Machines(D), NEW e \in StatusRegisters, e.s = y.sr.s, NEW x, x
               = [y EXCEPT !.sr = e],
           NEW t, NEW sea
    PROVE  operand_address(x, t, sea) = operand_address(y, t, sea)
               /\ effective_address(x, t) = effective_address(y, t)
<1>1. x.d = y.d /\ x.pc = y.pc /\ x.mem = y.mem
  BY DEF Machines
<1>2. \A n : a_reg(x, n) = a_reg(y, n)
  BY FlagsApart
<1>3. \A base : indexed_address(x, t, base) = indexed_address(y, t, base)
  BY <1>1, <1>2 DEF indexed_address
<1>4. effective_address(x, t) = effective_address(y, t)
  BY <1>1, <1>2, <1>3, Zenon DEF effective_address
<1> QED BY <1>3, <1>4, Zenon DEF operand_address

(* Condition codes and an operand are set in either order.                 *)
LEMMA WriteApart ==
    ASSUME EightBits, NEW D, NEW y \in Machines(D), NEW e \in StatusRegisters, e.s = y.sr.s, NEW x, x
               = [y EXCEPT !.sr = e],
           NEW t \in Targets, NEW sea, NEW size \in Sizes, NEW v \in Int
    PROVE  write_operand(x, t, sea, size, v) = [write_operand(y, t, sea, size, v) EXCEPT !.sr = e]
<1>1. x.d = y.d /\ x.mem = y.mem /\ \A n : a_reg(x, n) = a_reg(y, n)
  BY FlagsApart DEF Machines
<1>2. CASE t.kind = "DataRegister"
  <2> DEFINE r == Replaced(y.d[t.index], v, size)
             n == t.index
  <2>1. write_operand(x, t, sea, size, v) = [x EXCEPT !.d[n] = r]
    BY <1>1, <1>2 DEF write_operand
  <2>2. write_operand(y, t, sea, size, v) = [y EXCEPT !.d[n] = r]
    BY <1>2 DEF write_operand
  <2> HIDE DEF r, n
  <2>3. [x EXCEPT !.d[n] = r] = [[y EXCEPT !.d[n] = r] EXCEPT !.sr = e]
    BY DEF Machines
  <2> QED BY <2>1, <2>2, <2>3
<1>3. CASE t.kind = "AddressRegister"
  <2> DEFINE r == Replaced(a_reg(y, t.index), v, size)
             n == t.index
  <2>1. write_operand(x, t, sea, size, v) = SetA(x, n, r)
    BY <1>1, <1>3 DEF write_operand
  <2>2. write_operand(y, t, sea, size, v) = SetA(y, n, r)
    BY <1>3 DEF write_operand
  <2> HIDE DEF r, n
  <2> QED BY <2>1, <2>2, FlagsApart
<1>4. CASE t.kind = "Immediate"
  BY <1>4 DEF write_operand
<1>5. CASE t.kind \notin {"DataRegister", "AddressRegister", "Immediate"}
  <2> DEFINE at == operand_address(y, t, sea)
  <2>1. write_operand(x, t, sea, size, v) = recomp_mem_write(x, at, size, v)
    <3>1. operand_address(x, t, sea) = at
      BY AddressApart
    <3> QED BY <1>5, <3>1 DEF write_operand
  <2>2. write_operand(y, t, sea, size, v) = recomp_mem_write(y, at, size, v)
    BY <1>5 DEF write_operand
  <2> HIDE DEF at
  <2>3. Mapped(x, at, size) = Mapped(y, at, size)
    BY <1>1, Zenon DEF Mapped
  <2>4. Put(x, at, size, v) = [Put(y, at, size, v) EXCEPT !.sr = e]
    <3> DEFINE mem == [k \in DOMAIN y.mem |-> IF k \in at .. at + size - 1
                        THEN (v \div 2 ^ (BYTE * (at + size - 1 - k))) % Span(Byte) ELSE y.mem[k]]
    <3>1. Put(x, at, size, v) = [x EXCEPT !.mem = mem] /\ Put(y, at, size, v) = [y EXCEPT !.mem = mem]
      BY <1>1, Zenon DEF Put
    <3> HIDE DEF mem
    <3>2. [x EXCEPT !.mem = mem] = [[y EXCEPT !.mem = mem] EXCEPT !.sr = e]
      BY DEF Machines
    <3> QED BY <3>1, <3>2
  <2> QED BY <2>1, <2>2, <2>3, <2>4 DEF recomp_mem_write
<1> QED BY <1>2, <1>3, <1>4, <1>5

(* The count of a shift is a number.                                       *)
LEMMA SixtyFour == ASSUME EightBits, NEW s \in Int PROVE s % (2 * bit_count(Long)) \in Nat
BY SpanValues

(* Shifts and rotations, by a register, by data and of memory.             *)
LEMMA ShiftAgrees ==
    ASSUME EightBits, NEW D, NEW m, NEW i, Ready(D, m, i), i.kind \in Shifts, Ok(Execute(m, i)),
           NEW u, ~Deviates(m, i, u, Execute(m, i))
    PROVE  Agrees(D, m, i, u)
<1> DEFINE size == i.size
           S == i["src"]
           T == i["dst"]
           p == try_decrement_address(m, i, "dst")
           d == OperandValue(p, T, size)
           q == try_decrement_address(p, i, "src")
           s == OperandValue(q, S, size)
           x == IF "src" \in DOMAIN i THEN q ELSE p
           count == IF "src" \in DOMAIN i THEN s % (2 * bit_count(Long)) ELSE QuickValue(i.data)
           shifted == Shift(i.kind, size, count, d, x.sr)
           v == shifted.value
           e == Rotating(x.sr, i.kind, count, shifted)
           busy == [x EXCEPT !.sr = e]
           sr == ShiftFlags(i.kind, size, count, shifted, x.sr)
           P == pre_effect(m, T, size)
           b == static_ea(T, m.pc)
           d2 == read_operand(P, T, b, size)
           s2 == read_operand(P, operand(i, u, "src"), ea(m, i, u, "src"), size)
           count2 == IF "src" \in DOMAIN i THEN Low(s2, size) % (2 * bit_count(Long)) ELSE QuickValue(i.data)
           shifted2 == Shift(i.kind, size, count2, Low(d2, size), P.sr)
           last == Then(Write(busy, i, "dst", size, v), sr)
           next == IF "src" \in DOMAIN i THEN IF Accessible(q, S, size) THEN last ELSE Fail(q) ELSE last
           y == [P EXCEPT !.sr = e]
           z == [write_operand(y, T, b, size, v) EXCEPT !.sr = sr]
<1>1. i.kind \in OneOperand
  BY DEF OneOperand
<1>2. bytes(i, u) = size
  BY <1>1, AtDestination
<1>3. /\ i.kind # "Movem" /\ i.kind \notin BitKinds \cup {"Abcd", "Sbcd"}
      /\ "dst" \in DOMAIN i /\ "dst" \in Roles /\ T \in Targets
             /\ T.kind \notin {"ProgramCounterIndex", "Immediate"}
      /\ size \in Sizes /\ (T.kind \in Stepped => T.size = size)
      /\ operand(i, u, "dst") = T /\ (\A k : ea(k, i, u, "dst") = static_ea(T, k.pc))
      /\ Effects(i.kind).pre = <<"dst">> /\ Effects(i.kind).post = <<"dst">>
      /\ ("src" \in DOMAIN i => S.kind = "DataRegister" /\ S \in Targets)
  BY <1>1, <1>2, AtDestination
<1>4. Perform(m, i) = IF Accessible(p, T, size) THEN next ELSE Fail(p)
  <2>1. Perform(m, i) = ExecShift(m, i)
    BY PerformIs
  <2> QED BY <2>1, Zenon DEF ExecShift, Read
<1>5. translate_inst(m, i, u) = post_effect(StoreResult(P, i, u,
          [value |-> shifted2.value, sr |-> ShiftFlags(i.kind, size, count2, shifted2, P.sr)]), T, size)
  <2>1. translate_inst(m, i, u) = LiftShift(m, i, u)
    BY TranslateIs
  <2> DEFINE B == bytes(i, u)
             T0 == operand(i, u, "dst")
             P0 == pre_effect(m, T0, B)
             s0 == read_operand(P0, operand(i, u, "src"), ea(m, i, u, "src"), B)
             d0 == read_operand(P0, T0, ea(m, i, u, "dst"), B)
             count0 == IF "src" \in DOMAIN i THEN Low(s0, i.size) % (2 * bit_count(Long))
                 ELSE QuickValue(i.data)
             done0 == Shift(i.kind, i.size, count0, Low(d0, i.size), P0.sr)
  <2>2. LiftShift(m, i, u) = post_effect(StoreResult(P0, i, u,
            [value |-> done0.value, sr |-> ShiftFlags(i.kind, i.size, count0, done0, P0.sr)]), T0, B)
    <3> DEFINE Body(k, sv, dv) ==
                 LET c == IF "src" \in DOMAIN i THEN Low(sv, i.size) % (2 * bit_count(Long))
                     ELSE QuickValue(i.data)
                     done == Shift(i.kind, i.size, c, Low(dv, i.size), k.sr)
                 IN  StoreResult(k, i, u, [value |-> done.value,
                         sr |-> ShiftFlags(i.kind, i.size, c, done, k.sr)])
    <3>1. LiftShift(m, i, u) = Statement(m, i, u, Body)
      BY DEF LiftShift
    <3>2. Body(P0, s0, d0) = StoreResult(P0, i, u,
              [value |-> done0.value, sr |-> ShiftFlags(i.kind, i.size, count0, done0, P0.sr)])
      OBVIOUS
    <3> HIDE DEF Body
    <3>3. Statement(m, i, u, Body) = post_effect(Body(P0, s0, d0), T0, B)
      BY <1>3, Ones, Zenon DEF Statement, InTurn
    <3> QED BY <3>1, <3>2, <3>3
  <2>3. B = size /\ T0 = T /\ ea(m, i, u, "dst") = b
    BY <1>2, <1>3
  <2>4. P0 = P /\ s0 = s2 /\ d0 = d2
    BY <2>3
  <2> HIDE DEF s0, d0, s2, d2, P0, P
  <2>5. count0 = count2 /\ done0 = shifted2
    BY <2>4
  <2> HIDE DEF count0, count2, done0, shifted2
  <2> QED BY <2>1, <2>2, <2>3, <2>4, <2>5
<1>6. p = try_decrement_address(m, i, "dst") /\ P = pre_effect(m, T, size) /\ T = i["dst"] /\ S = i["src"]
          /\ b = static_ea(T, m.pc)
      /\ d = OperandValue(p, T, size) /\ d2 = read_operand(P, T, b, size) /\ size = i.size
      /\ q = try_decrement_address(p, i, "src")
      /\ z = [write_operand(y, T, b, size, v) EXCEPT !.sr = sr]
      /\ y = [P EXCEPT !.sr = e] /\ busy = [x EXCEPT !.sr = e] /\ last
             = Then(Write(busy, i, "dst", size, v), sr)
  OBVIOUS
<1> HIDE DEF p, q, P, T, S, b, d, d2, z, size, last, next, y, busy
<1>7. /\ Twin(D, p, P) /\ p.decremented = {"dst"} /\ p.incremented = {} /\ p.pc = m.pc /\ P.pc = m.pc
      /\ p.sr = m.sr /\ P.sr = m.sr /\ m.sr \in StatusRegisters
      /\ Reads(d, d2, size) /\ Perform(m, i) = next /\ Ok(next)
  BY <1>3, <1>4, <1>6, ReadsFirst, SMTT(60)
<1>8. s2 = read_operand(P, operand(i, u, "src"), ea(m, i, u, "src"), size)
  OBVIOUS
<1> HIDE DEF s2
<1>10. /\ Twin(D, x, P) /\ "dst" \in x.decremented /\ x.incremented = {} /\ x.pc = m.pc /\ x.sr = m.sr
       /\ count = count2 /\ count \in Nat /\ next = last
  <2>1. CASE "src" \in DOMAIN i
    <3>1. IsRegister(S) /\ RegisterValue(P, S) = P.d[S.index] /\ "src" \in Roles /\ "src" \notin p.decremented
      BY <1>3, <1>7, <2>1 DEF IsRegister, RegisterValue, Roles
    <3>2. /\ Twin(D, q, P) /\ q.decremented = p.decremented \cup {"src"} /\ q.incremented = p.incremented
          /\ q.pc = p.pc /\ q.sr = p.sr /\ Accessible(q, S, size)
                 /\ OperandValue(q, S, size) = Low(P.d[S.index], size)
      BY <1>3, <1>6, <1>7, <2>1, <3>1, RegisterNext, SMTT(60)
    <3>3. s2 = P.d[S.index]
      <4>1. operand(i, u, "src") = S
        BY <1>6, <2>1, <3>1, EaIs, SMTT(60)
      <4> QED BY <1>3, <1>8, <2>1, <4>1 DEF read_operand
    <3>4. s = Low(s2, size)
      BY <3>2, <3>3
    <3>5. s \in Int
      <4>1. S.index \in 0 .. 7
        BY <1>3, <2>1, <3>1, TargetIn
      <4>2. P.d[S.index] \in Int
        BY <1>7, <4>1, RegisterIn, ValuesWiden DEF Twin
      <4> QED BY <1>3, <3>3, <3>4, <4>2, LowInt
    <3> HIDE DEF s
    <3>6. count = s % (2 * bit_count(Long)) /\ count2 = s % (2 * bit_count(Long)) /\ count \in Nat
      BY <2>1, <3>4, <3>5, SixtyFour
    <3>7. x = q /\ next = last
      BY <2>1, <3>2 DEF next
    <3> QED BY <1>7, <3>2, <3>6, <3>7
  <2>2. CASE "src" \notin DOMAIN i
    <3>1. count = QuickValue(i.data) /\ count2 = QuickValue(i.data) /\ count \in Nat
      <4>1. QuickValue(i.data) \in 1 .. 8
        BY <1>3, <2>2, QuickLow DEF Ready
      <4> QED BY <2>2, <4>1
    <3>2. x = p /\ next = last
      BY <2>2 DEF next
    <3> QED BY <1>7, <3>1, <3>2
  <2> QED BY <2>1, <2>2
<1> HIDE DEF x, count, count2, s
<1>11. shifted2.value = v /\ ShiftFlags(i.kind, size, count2, shifted2, P.sr) = sr
  BY <1>7, <1>10, Zenon DEF Reads
<1>12. v \in Int /\ sr \in StatusRegisters /\ e \in StatusRegisters /\ e.s = x.sr.s
  <2>1. shifted \in Shifted
    BY <1>3, <1>7, <1>10, ShiftIn DEF Reads
  <2> HIDE DEF shifted
  <2>2. NewFlags(x.sr, sr)
    BY <1>3, <1>7, <1>10, <2>1, ShiftFlagsIn
  <2>4. e = Rotating(x.sr, i.kind, count, shifted) /\ x.sr \in StatusRegisters
    BY <1>7, <1>10
  <2> HIDE DEF e
  <2>3. e \in StatusRegisters /\ e.s = x.sr.s
    BY <2>1, <2>4, RotatingFlags
  <2> QED BY <2>1, <2>2, <2>3, <2>4 DEF NewFlags, Shifted
<1> HIDE DEF v, sr, e
<1>13. Twin(D, busy, y) /\ "dst" \in busy.decremented /\ "dst" \notin busy.incremented /\ busy.pc = m.pc
  <2>1. Twin(D, busy, y)
    BY <1>6, <1>10, <1>12, TwinSetSr
  <2>2. busy.decremented = x.decremented /\ busy.incremented = x.incremented /\ busy.pc = x.pc
    BY <1>6, <1>10 DEF Twin, Machines
  <2> QED BY <1>10, <2>1, <2>2
<1>14. Twin(D, Execute(m, i), post_effect(z, T, size))
  <2>1. "src" \in DOMAIN i => i["src"].kind # "AddressIncrement" \/ "src" \in busy.incremented
    BY <1>3, <1>6
  <2>2. Perform(m, i) = Then(Write(busy, i, "dst", size, v), sr)
    BY <1>6, <1>7, <1>10
  <2> QED BY <1>3, <1>6, <1>12, <1>13, <2>1, <2>2, StoresLast, ZenonT(40)
<1>15. StoreResult(P, i, u, [value |-> v, sr |-> sr]) = z
  <2>1. ea(P, i, u, "dst") = b
    BY <1>3, <1>6, <1>7
  <2>2. P \in Machines(D) /\ e.s = P.sr.s
    BY <1>7, <1>10, <1>12 DEF Twin
  <2> DEFINE w == write_operand(P, T, b, size, v)
  <2>3. write_operand(y, T, b, size, v) = [w EXCEPT !.sr = e]
    BY <1>3, <1>6, <1>12, <2>2, WriteApart
  <2>4. StoreResult(P, i, u, [value |-> v, sr |-> sr]) = [w EXCEPT !.sr = sr]
    BY <1>2, <1>3, <1>6, <2>1, Zenon DEF StoreResult, wd
  <2> HIDE DEF w
  <2>5. [[w EXCEPT !.sr = e] EXCEPT !.sr = sr] = [w EXCEPT !.sr = sr]
    OBVIOUS
  <2> QED BY <1>6, <2>3, <2>4, <2>5
<1> DEFINE w2 == shifted2.value
           f2 == ShiftFlags(i.kind, size, count2, shifted2, P.sr)
<1>16. translate_inst(m, i, u) = post_effect(StoreResult(P, i, u, [value |-> w2, sr |-> f2]), T, size)
           /\ w2 = v /\ f2 = sr
  BY <1>5, <1>11
<1> HIDE DEF w2, f2
<1> QED BY <1>14, <1>15, <1>16 DEF Agrees

-----------------------------------------------------------------------------
(***************************************************************************)
(* The source, and a register.                                             *)
(***************************************************************************)

(* A register is not stepped, and is read whole.                           *)
LEMMA RegisterMoot ==
    ASSUME NEW m, NEW t, IsRegister(t), NEW size, NEW other, NEW sea
    PROVE  /\ pre_effect(m, t, size) = m /\ post_effect(m, t, size) = m
           /\ read_operand(m, t, sea, size) = RegisterValue(m, t)
BY DEF IsRegister, pre_effect, post_effect, read_operand, RegisterValue

(* The kinds that read their source, and the size they read.               *)
SourceKinds == AddressKinds \cup {"Mulu", "Muls", "Divu", "Divs", "Chk", "MoveToSr", "MoveToCcr", "MoveToUsp"}
SourceSize(i) == IF i.kind \in AddressKinds THEN i.size ELSE IF i.kind = "MoveToUsp" THEN Long ELSE Word
(* Those of them that go on with a register.                               *)
ToRegister == AddressKinds \cup {"Mulu", "Muls", "Divu", "Divs", "Chk"}

(* The operand of an instruction that reads its source first, and the      *)
(* effects around it.                                                      *)
LEMMA AtSource ==
    ASSUME EightBits, NEW D, NEW m, NEW i, Ready(D, m, i), i.kind \in SourceKinds, NEW u, NEW r,
               ~Deviates(m, i, u, r),
           NEW t, t = i["src"], NEW size, size = SourceSize(i)
    PROVE  /\ i.kind # "Movem" /\ i.kind \notin BitKinds \cup {"Abcd", "Sbcd"}
           /\ "src" \in DOMAIN i /\ "src" \in Roles /\ t \in Targets /\ t.kind # "ProgramCounterIndex"
           /\ size \in Sizes /\ (t.kind \in Stepped => t.size = size)
           /\ operand(i, u, "src") = t /\ (\A x : ea(x, i, u, "src") = static_ea(t, x.pc))
           /\ Effects(i.kind).pre = <<"src">> /\ Effects(i.kind).post = <<"src">>
           /\ IsRegister(t) \/ bytes(i, u) = size
           /\ i.kind \in ToRegister => /\ "dst" \in DOMAIN i /\ i["dst"] \in Targets /\ i["dst"].index \in 0 .. 7
                                       /\ operand(i, u, "dst") = i["dst"]
                                       /\ i["dst"].kind = IF i.kind \in AddressKinds THEN "AddressRegister"
                                              ELSE "DataRegister"
           /\ i.kind \notin ToRegister => "dst" \notin DOMAIN i
<1>1. AsDecoded(i) /\ WellFormed(i)
  BY Begins DEF Ready
<1>2. i.kind # "Movem" /\ i.kind \notin BitKinds \cup {"Abcd", "Sbcd"} /\ i.kind \notin {"Move", "Movea"}
      /\ i.kind \notin {"Lea", "Pea", "Jmp", "Jsr", "Movem"} /\ i.kind \notin Shifts /\ i.kind # "Btst"
      /\ i.kind \in UsesSrc /\ (i.kind \in ToRegister <=> i.kind \in UsesDst)
  BY SMT DEF SourceKinds, ToRegister, AddressKinds, BitKinds, Shifts, UsesSrc, UsesDst, UsesBoth,
         BinaryKinds, ExtendKinds,
     ToCcrKinds, ToSrKinds, QuickKinds, UnaryKinds
<1>3. /\ "src" \in DOMAIN i /\ t \in Targets /\ "src" \in Roles
      /\ (i.kind \in ToRegister => "dst" \in DOMAIN i /\ i["dst"] \in Targets)
      /\ (i.kind \notin ToRegister => "dst" \notin DOMAIN i)
  BY <1>1, <1>2, Operands DEF Roles
<1>4. t.kind # "ProgramCounterIndex" /\ (t.kind \in Stepped => t.size = TransferSize(i)) /\ ~SizeUnset(i, u)
  BY <1>1, <1>2, <1>3, OperandsAre
<1>5. operand(i, u, "src") = t /\ (\A x : ea(x, i, u, "src") = static_ea(t, x.pc))
  BY <1>2, <1>3, EaIs
<1>6. Effects(i.kind).pre = <<"src">> /\ Effects(i.kind).post = <<"src">>
  BY EffectsAre DEF SourceKinds
<1>7. i.kind \in ToRegister =>
          /\ i["dst"].kind = IF i.kind \in AddressKinds THEN "AddressRegister" ELSE "DataRegister"
          /\ i["dst"].index \in 0 .. 7 /\ operand(i, u, "dst") = i["dst"]
  <2>1. SUFFICES ASSUME i.kind \in ToRegister
                 PROVE  /\ i["dst"].kind = IF i.kind \in AddressKinds THEN "AddressRegister" ELSE "DataRegister"
                        /\ i["dst"].index \in 0 .. 7 /\ operand(i, u, "dst") = i["dst"]
    OBVIOUS
  <2>2. i["dst"].kind = IF i.kind \in AddressKinds THEN "AddressRegister" ELSE "DataRegister"
    BY <1>1, <2>1 DEF ToRegister, AsDecoded, Given, WellFormed, OperandsFit
  <2>3. IsRegister(i["dst"])
    BY <2>2 DEF IsRegister
  <2>4. operand(i, u, "dst") = i["dst"]
    BY <1>3, <2>1 DEF operand
  <2> QED BY <1>3, <2>1, <2>2, <2>3, <2>4, TargetIn
<1>8. size \in Sizes /\ (t.kind \in Stepped => t.size = size) /\ (IsRegister(t) \/ bytes(i, u) = size)
  <2>1. CASE i.kind \in AddressKinds
    <3>1. size = i.size /\ i.kind \in UsesSize /\ i.kind \in SizedKinds /\ TransferSize(i) = i.size
      BY <2>1, SMT DEF SourceSize, UsesSize, SizedKinds, TransferSize, AddressKinds, BitKinds, ToCcrKinds
    <3> QED BY <1>1, <1>4, <3>1, SizeIn DEF bytes
  <2>2. CASE i.kind \in {"Mulu", "Muls", "Divu", "Divs", "MoveToSr", "MoveToCcr"}
    <3>1. size = Word /\ i.kind \notin SizedKinds /\ TransferSize(i) = Word
      BY <2>2, SMT DEF SourceSize, SizedKinds, TransferSize, AddressKinds, BitKinds, ToCcrKinds,
             BinaryKinds, QuickKinds, ExtendKinds,
         UnaryKinds, Shifts
    <3>2. u.size = Word \/ t.kind = "DataRegister"
      BY <1>3, <1>4, <2>2, SMT DEF SizeUnset, Is, ToCcrKinds, ToSrKinds
    <3> QED BY <1>4, <3>1, <3>2 DEF bytes, Sizes, IsRegister
  <2>3. CASE i.kind = "Chk"
    <3>1. size = Word /\ i.kind \in SizedKinds /\ TransferSize(i) = Word
      BY <2>3, SMT DEF SourceSize, SizedKinds, TransferSize, AddressKinds, BitKinds, ToCcrKinds
    <3>2. i.size = Word
      BY <1>1, <2>3, <3>1 DEF AsDecoded, Given
    <3> QED BY <1>4, <3>1, <3>2 DEF bytes, Sizes
  <2>4. CASE i.kind = "MoveToUsp"
    <3>1. size = Long /\ t.kind = "AddressRegister"
      BY <1>1, <2>4 DEF SourceSize, AddressKinds, AsDecoded, Given
    <3> QED BY <3>1 DEF Sizes, IsRegister, Stepped
  <2> QED BY <2>1, <2>2, <2>3, <2>4 DEF SourceKinds
<1> QED BY <1>2, <1>3, <1>4, <1>5, <1>6, <1>7, <1>8

(* MULU and MULS.                                                          *)
LEMMA MulAgrees ==
    ASSUME EightBits, NEW D, NEW m, NEW i, Ready(D, m, i), i.kind \in {"Mulu", "Muls"}, Ok(Execute(m, i)),
           NEW u, ~Deviates(m, i, u, Execute(m, i))
    PROVE  Agrees(D, m, i, u)
<1> DEFINE size == SourceSize(i)
           S == i["src"]
           p == try_decrement_address(m, i, "src")
           s == OperandValue(p, S, size)
           P == pre_effect(m, S, size)
           a == static_ea(S, m.pc)
           s2 == read_operand(P, S, a, size)
           T == i["dst"]
           n == T.index
           q == try_decrement_address(p, i, "dst")
           d == OperandValue(q, T, Word)
           next == IF Accessible(q, T, Word)
                   THEN Then(Write(q, i, "dst", Long, IF i.kind = "Mulu" THEN s * d
                       ELSE Signed(s, Word) * Signed(d, Word)),
                             SetLogic(q.sr, IF i.kind = "Mulu" THEN s * d
                                 ELSE Signed(s, Word) * Signed(d, Word), Long))
                   ELSE Fail(q)
<1>0. i.kind \in {"Mulu", "Muls"} /\ size = Word
  BY SMT DEF SourceSize, AddressKinds
<1>1. i.kind \in SourceKinds /\ i.kind \in ToRegister /\ i.kind \notin AddressKinds
  BY <1>0, SMT DEF SourceKinds, AddressKinds, ToRegister
<1>2. /\ i.kind # "Movem" /\ i.kind \notin BitKinds \cup {"Abcd", "Sbcd"}
      /\ "src" \in DOMAIN i /\ "src" \in Roles /\ S \in Targets /\ S.kind # "ProgramCounterIndex"
      /\ size \in Sizes /\ (S.kind \in Stepped => S.size = size)
      /\ operand(i, u, "src") = S /\ (\A k : ea(k, i, u, "src") = static_ea(S, k.pc))
      /\ Effects(i.kind).pre = <<"src">> /\ Effects(i.kind).post = <<"src">>
      /\ (IsRegister(S) \/ bytes(i, u) = size)
  BY <1>1, AtSource
<1>3. /\ "dst" \in DOMAIN i /\ "dst" \in Roles /\ T \in Targets /\ n \in 0 .. 7 /\ T.kind = "DataRegister"
             /\ n = T.index
      /\ operand(i, u, "dst") = T
  <2>1. i.kind \in ToRegister /\ "dst" \in Roles
    BY <1>1 DEF Roles
  <2> QED BY <1>0, <1>1, <2>1, AtSource
<1>4. Perform(m, i) = IF Accessible(p, S, size) THEN next ELSE Fail(p)
  <2>1. Perform(m, i) = ExecMul(m, i)
    BY <1>0, PerformIs
  <2> QED BY <1>0, <2>1, Zenon DEF ExecMul, Read
<1>5. translate_inst(m, i, u) = post_effect([P EXCEPT !.d[n] = Low(IF i.kind = "Mulu"
          THEN Low(s2, Word) * Low(P.d[n], Word) ELSE Signed(Low(s2, Word), Word) * Signed(P.d[n], Word), Long),
                 !.sr = SetLogic(@, IF i.kind = "Mulu" THEN Low(s2, Word) * Low(P.d[n], Word)
                     ELSE Signed(Low(s2, Word), Word) * Signed(P.d[n], Word), Long)], S, size)
  <2> DEFINE Body(k, sv, dv) ==
                 LET l == i.dst.index
                     sw == Low(sv, Word)
                     dw == k.d[l]
                     v == IF i.kind = "Mulu" THEN sw * Low(dw, Word) ELSE Signed(sw, Word) * Signed(dw, Word)
                     r == Divide(i.kind, k.sr, sw, dw)
                 IN  IF i.kind \in {"Mulu", "Muls"}
                     THEN [k EXCEPT !.d[l] = Low(v, Long), !.sr = SetLogic(@, v, Long)]
                     ELSE IF sw = 0 THEN k
                     ELSE [k EXCEPT !.d[l] = IF r.fits THEN r.value ELSE @, !.sr = r.sr]
             B == bytes(i, u)
             P0 == pre_effect(m, operand(i, u, "src"), B)
             s0 == read_operand(P0, operand(i, u, "src"), ea(m, i, u, "src"), B)
             d0 == read_operand(P0, operand(i, u, "dst"), ea(m, i, u, "dst"), B)
  <2>1. translate_inst(m, i, u) = LiftMulDiv(m, i, u)
    BY <1>0, TranslateIs
  <2>2. LiftMulDiv(m, i, u) = Statement(m, i, u, Body)
    BY <1>0 DEF LiftMulDiv
  <2>3. Body(P, s2, d0) = [P EXCEPT !.d[n] = Low(IF i.kind = "Mulu" THEN Low(s2, Word) * Low(P.d[n], Word)
            ELSE Signed(Low(s2, Word), Word) * Signed(P.d[n], Word), Long),
                 !.sr = SetLogic(@, IF i.kind = "Mulu" THEN Low(s2, Word) * Low(P.d[n], Word)
                     ELSE Signed(Low(s2, Word), Word) * Signed(P.d[n], Word), Long)]
    BY <1>0
  <2> HIDE DEF Body
  <2>4. Statement(m, i, u, Body) = post_effect(Body(P0, s0, d0), operand(i, u, "src"), B)
    BY <1>2, Ones, Zenon DEF Statement, InTurn
  <2>5. operand(i, u, "src") = S /\ ea(m, i, u, "src") = a
    BY <1>2
  <2>6. P0 = P /\ s0 = s2 /\ \A k : post_effect(k, S, B) = post_effect(k, S, size)
    <3>1. CASE B = size
      BY <2>5, <3>1
    <3>2. CASE IsRegister(S)
      <4>1. pre_effect(m, S, B) = m /\ pre_effect(m, S, size) = m
        BY <3>2, RegisterMoot
      <4>2. read_operand(m, S, a, B) = RegisterValue(m, S) /\ read_operand(m, S, a, size) = RegisterValue(m, S)
        BY <3>2, RegisterMoot
      <4>3. \A k : post_effect(k, S, B) = k /\ post_effect(k, S, size) = k
        BY <3>2, RegisterMoot
      <4> QED BY <2>5, <4>1, <4>2, <4>3
    <3> QED BY <1>2, <3>1, <3>2
  <2> HIDE DEF P0, s0, P, s2, d0, B
  <2> QED BY <2>1, <2>2, <2>3, <2>4, <2>5, <2>6
<1>6. p = try_decrement_address(m, i, "src") /\ P = pre_effect(m, S, size) /\ S = i["src"]
          /\ a = static_ea(S, m.pc)
      /\ s = OperandValue(p, S, size) /\ s2 = read_operand(P, S, a, size) /\ size = SourceSize(i)
             /\ T = i["dst"] /\ q = try_decrement_address(p, i, "dst") /\ d = OperandValue(q, T, Word)
      /\ next = IF Accessible(q, T, Word)
                   THEN Then(Write(q, i, "dst", Long, IF i.kind = "Mulu" THEN s * d
                       ELSE Signed(s, Word) * Signed(d, Word)),
                             SetLogic(q.sr, IF i.kind = "Mulu" THEN s * d
                                 ELSE Signed(s, Word) * Signed(d, Word), Long))
                   ELSE Fail(q)
  OBVIOUS
<1> HIDE DEF p, P, S, a, s, s2, size, next, T, n, q, d
<1>7. /\ Twin(D, p, P) /\ p.decremented = {"src"} /\ p.incremented = {} /\ p.pc = m.pc /\ P.pc = m.pc
      /\ p.sr = m.sr /\ P.sr = m.sr /\ m.sr \in StatusRegisters
      /\ Reads(s, s2, size) /\ Perform(m, i) = next /\ Ok(next)
  BY <1>2, <1>4, <1>6, ReadsFirst, SMTT(60)
<1>8. /\ Twin(D, q, P) /\ "dst" \in q.decremented /\ "src" \notin q.incremented /\ "dst" \notin q.incremented
      /\ q.pc = m.pc /\ q.sr = m.sr /\ Accessible(q, T, Word) /\ d = Low(P.d[n], Word)
             /\ P.d[n] \in Values(Long)
  <2>1. IsRegister(T) /\ RegisterValue(P, T) = P.d[n]
    BY <1>3 DEF IsRegister, RegisterValue
  <2>2. "dst" \notin p.decremented
    BY <1>7
  <2>3. /\ Twin(D, q, P) /\ q.decremented = p.decremented \cup {"dst"} /\ q.incremented = p.incremented
        /\ q.pc = p.pc /\ q.sr = p.sr /\ Accessible(q, T, Word) /\ OperandValue(q, T, Word) = Low(P.d[n], Word)
    BY <1>2, <1>3, <1>6, <1>7, <2>1, <2>2, RegisterNext
  <2>4. P.d[n] \in Values(Long)
    BY <1>3, <1>7, RegisterIn DEF Twin
  <2> QED BY <1>6, <1>7, <2>3, <2>4
<1> DEFINE r == IF i.kind = "Mulu" THEN s * d ELSE Signed(s, Word) * Signed(d, Word)
           sr == SetLogic(q.sr, r, Long)
           done == next
<1>9. next = Then(Write(q, i, "dst", Long, r), sr) /\ r \in Int
  <2>1. next = Then(Write(q, i, "dst", Long, r), sr)
    BY <1>6, <1>8
  <2>2. s \in Int /\ Signed(s, Word) \in Int
    BY <1>2, <1>0, <1>7, SignedIn DEF Reads, Sizes
  <2>3. d \in Int /\ Signed(d, Word) \in Int
    <3>1. d \in Int
      BY <1>8, ValuesWiden, LowInt DEF Sizes
    <3> QED BY <3>1, SignedIn DEF Sizes
  <2> QED BY <2>1, <2>2, <2>3
<1>12. Low(s2, Word) = s /\ Signed(s2, Word) = Signed(s, Word) /\ Signed(P.d[n], Word) = Signed(d, Word)
           /\ Low(P.d[n], Word) = d
  <2>1. Low(s2, Word) = s /\ s2 \in Int /\ s \in Int
    BY <1>0, <1>7 DEF Reads
  <2>2. P.d[n] \in Int /\ Low(P.d[n], Word) = d /\ d \in Int /\ Low(d, Word) = d
    BY <1>8, ValuesWiden, LowLow, LowInt DEF Sizes
  <2>3. Low(s, Word) = s
    BY <2>1, LowLow DEF Sizes
  <2>4. Signed(s2, Word) = Signed(s, Word)
    BY <2>1, <2>3, SameLow DEF Sizes
  <2>5. Signed(P.d[n], Word) = Signed(d, Word)
    BY <2>2, SameLow DEF Sizes
  <2> QED BY <2>1, <2>2, <2>4, <2>5
<1>13. Low(s2, Word) * Low(P.d[n], Word) = s * d
           /\ Signed(Low(s2, Word), Word) * Signed(P.d[n], Word) = Signed(s, Word) * Signed(d, Word)
  BY <1>12, Zenon
<1> DEFINE v2 == IF i.kind = "Mulu" THEN Low(s2, Word) * Low(P.d[n], Word)
               ELSE Signed(Low(s2, Word), Word) * Signed(P.d[n], Word)
<1>14. v2 = r
  BY <1>13
<1>15. translate_inst(m, i, u) = post_effect([P EXCEPT !.d[n] = Low(v2, Long),
           !.sr = SetLogic(@, v2, Long)], S, size)
  BY <1>5
<1>18. sr = SetLogic(q.sr, r, Long)
  OBVIOUS
<1> HIDE DEF r, v2, sr
<1>16. sr \in StatusRegisters
  <2>1. NewFlags(q.sr, sr)
    BY <1>7, <1>8, <1>9, <1>18, SetLogicIn DEF Sizes
  <2> QED BY <2>1 DEF NewFlags
<1> DEFINE z == [[P EXCEPT !.d[n] = Low(r, Long)] EXCEPT !.sr = sr]
           w == Write(q, i, "dst", Long, r)
<1>17. [P EXCEPT !.d[n] = Low(v2, Long), !.sr = SetLogic(@, v2, Long)] = z
  <2>1. SetLogic(P.sr, v2, Long) = sr
    BY <1>7, <1>8, <1>14, <1>18
  <2>2. [P EXCEPT !.d[n] = Low(v2, Long), !.sr = SetLogic(@, v2, Long)]
          = [[P EXCEPT !.d[n] = Low(v2, Long)] EXCEPT !.sr = SetLogic(P.sr, v2, Long)]
    BY <1>7 DEF Twin, Machines
  <2> QED BY <1>14, <2>1, <2>2
<1>19. w = [q EXCEPT !.d[n] = Low(r, Long)]
  <2>1. w = [q EXCEPT !.d[n] = Replaced(q.d[n], r, Long)]
    BY <1>3, <1>6, <1>8, DecrementedTwice DEF Write
  <2>2. Replaced(q.d[n], r, Long) = Low(r, Long)
    <3>1. q.d[n] \in Values(Long)
      BY <1>3, <1>8, RegisterIn DEF Twin
    <3> QED BY <1>9, <3>1, ReplacedLong
  <2> QED BY <2>1, <2>2
<1>10. done = [w EXCEPT !.sr = sr]
  BY <1>7, <1>9, ThenOk
<1>11. Twin(D, done, z) /\ done.incremented = q.incremented
  <2>1. Twin(D, w, [P EXCEPT !.d[n] = Low(r, Long)])
    BY <1>3, <1>8, <1>9, <1>19, LowLong, TwinSetD
  <2>2. Twin(D, done, z)
    BY <1>10, <1>16, <2>1, TwinSetSr
  <2>3. done.incremented = q.incremented
    BY <1>8, <1>10, <1>19 DEF Twin, Machines
  <2> QED BY <2>2, <2>3
<1> HIDE DEF z, done
<1>21. done = next
  BY DEF done
<1>20. Twin(D, Execute(m, i), post_effect(z, S, size))
  <2>1. Ready(D, m, i) /\ Ok(Execute(m, i)) /\ done = Perform(m, i)
    BY <1>7, <1>21
  <2>2. \A other \in Roles \cap DOMAIN i : other # "src"
            => i[other].kind # "AddressIncrement" \/ other \in done.incremented
    BY <1>3, <1>6 DEF Roles
  <2>3. "src" \in Roles \cap DOMAIN i /\ "src" \notin done.incremented
    BY <1>2, <1>8, <1>11
  <2> QED BY <1>2, <1>6, <1>11, <2>1, <2>2, <2>3, EndsStepping
<1> QED BY <1>15, <1>17, <1>20 DEF Agrees

(* DIVU and DIVS, of a divisor that is not 0.                              *)
LEMMA DivAgrees ==
    ASSUME EightBits, NEW D, NEW m, NEW i, Ready(D, m, i), i.kind \in {"Divu", "Divs"}, Ok(Execute(m, i)),
           NEW u, ~Deviates(m, i, u, Execute(m, i))
    PROVE  Agrees(D, m, i, u)
<1> DEFINE size == SourceSize(i)
           S == i["src"]
           p == try_decrement_address(m, i, "src")
           s == OperandValue(p, S, size)
           P == pre_effect(m, S, size)
           a == static_ea(S, m.pc)
           s2 == read_operand(P, S, a, size)
           T == i["dst"]
           n == T.index
           q == try_decrement_address(p, i, "dst")
           d == OperandValue(q, T, Long)
           next == IF Accessible(q, T, Long)
                   THEN IF s = 0
                   THEN Exception(q, DivisionByZeroVector,
                       LAMBDA e : [e EXCEPT !.sr.n = 0, !.sr.z = 0, !.sr.v = 0, !.sr.c = 0])
                   ELSE IF i.kind = "Divs" /\ Signed(s, Word) = -1 /\ d = Span(Long) \div 2
                   THEN [q EXCEPT !.status = "crash"]
                   ELSE IF Divide(i.kind, q.sr, s, d).fits
                   THEN Then(Write(q, i, "dst", Long, Divide(i.kind, q.sr, s, d).value),
                       Divide(i.kind, q.sr, s, d).sr)
                   ELSE [q EXCEPT !.sr = Divide(i.kind, q.sr, s, d).sr]
                   ELSE Fail(q)
<1>0. i.kind \in {"Divu", "Divs"} /\ size = Word
  BY SMT DEF SourceSize, AddressKinds
<1>1. i.kind \in SourceKinds /\ i.kind \in ToRegister /\ i.kind \notin AddressKinds
  BY <1>0, SMT DEF SourceKinds, AddressKinds, ToRegister
<1>2. /\ i.kind # "Movem" /\ i.kind \notin BitKinds \cup {"Abcd", "Sbcd"}
      /\ "src" \in DOMAIN i /\ "src" \in Roles /\ S \in Targets /\ S.kind # "ProgramCounterIndex"
      /\ size \in Sizes /\ (S.kind \in Stepped => S.size = size)
      /\ operand(i, u, "src") = S /\ (\A k : ea(k, i, u, "src") = static_ea(S, k.pc))
      /\ Effects(i.kind).pre = <<"src">> /\ Effects(i.kind).post = <<"src">>
      /\ (IsRegister(S) \/ bytes(i, u) = size)
  BY <1>1, AtSource
<1>3. /\ "dst" \in DOMAIN i /\ "dst" \in Roles /\ T \in Targets /\ n \in 0 .. 7 /\ T.kind = "DataRegister"
             /\ n = T.index
      /\ operand(i, u, "dst") = T
  <2>1. i.kind \in ToRegister /\ "dst" \in Roles
    BY <1>1 DEF Roles
  <2> QED BY <1>0, <1>1, <2>1, AtSource
<1>4. Perform(m, i) = IF Accessible(p, S, size) THEN next ELSE Fail(p)
  <2>1. Perform(m, i) = ExecDiv(m, i)
    BY <1>0, PerformIs
  <2> QED BY <1>0, <2>1, Zenon DEF ExecDiv, Read
<1>5. translate_inst(m, i, u) = post_effect((IF Low(s2, Word) = 0 THEN P
                 ELSE [P EXCEPT !.d[n] = IF Divide(i.kind, P.sr, Low(s2, Word), P.d[n]).fits
                     THEN Divide(i.kind, P.sr, Low(s2, Word), P.d[n]).value ELSE @,
                                !.sr = Divide(i.kind, P.sr, Low(s2, Word), P.d[n]).sr]), S, size)
  <2> DEFINE Body(k, sv, dv) ==
                 LET l == i.dst.index
                     sw == Low(sv, Word)
                     dw == k.d[l]
                     v == IF i.kind = "Mulu" THEN sw * Low(dw, Word) ELSE Signed(sw, Word) * Signed(dw, Word)
                     r == Divide(i.kind, k.sr, sw, dw)
                 IN  IF i.kind \in {"Mulu", "Muls"}
                     THEN [k EXCEPT !.d[l] = Low(v, Long), !.sr = SetLogic(@, v, Long)]
                     ELSE IF sw = 0 THEN k
                     ELSE [k EXCEPT !.d[l] = IF r.fits THEN r.value ELSE @, !.sr = r.sr]
             B == bytes(i, u)
             P0 == pre_effect(m, operand(i, u, "src"), B)
             s0 == read_operand(P0, operand(i, u, "src"), ea(m, i, u, "src"), B)
             d0 == read_operand(P0, operand(i, u, "dst"), ea(m, i, u, "dst"), B)
  <2>1. translate_inst(m, i, u) = LiftMulDiv(m, i, u)
    BY <1>0, TranslateIs
  <2>2. LiftMulDiv(m, i, u) = Statement(m, i, u, Body)
    BY <1>0 DEF LiftMulDiv
  <2>3. Body(P, s2, d0) = (IF Low(s2, Word) = 0 THEN P
                 ELSE [P EXCEPT !.d[n] = IF Divide(i.kind, P.sr, Low(s2, Word), P.d[n]).fits
                     THEN Divide(i.kind, P.sr, Low(s2, Word), P.d[n]).value ELSE @,
                                !.sr = Divide(i.kind, P.sr, Low(s2, Word), P.d[n]).sr])
    BY <1>0
  <2> HIDE DEF Body
  <2>4. Statement(m, i, u, Body) = post_effect(Body(P0, s0, d0), operand(i, u, "src"), B)
    BY <1>2, Ones, Zenon DEF Statement, InTurn
  <2>5. operand(i, u, "src") = S /\ ea(m, i, u, "src") = a
    BY <1>2
  <2>6. P0 = P /\ s0 = s2 /\ \A k : post_effect(k, S, B) = post_effect(k, S, size)
    <3>1. CASE B = size
      BY <2>5, <3>1
    <3>2. CASE IsRegister(S)
      <4>1. pre_effect(m, S, B) = m /\ pre_effect(m, S, size) = m
        BY <3>2, RegisterMoot
      <4>2. read_operand(m, S, a, B) = RegisterValue(m, S) /\ read_operand(m, S, a, size) = RegisterValue(m, S)
        BY <3>2, RegisterMoot
      <4>3. \A k : post_effect(k, S, B) = k /\ post_effect(k, S, size) = k
        BY <3>2, RegisterMoot
      <4> QED BY <2>5, <4>1, <4>2, <4>3
    <3> QED BY <1>2, <3>1, <3>2
  <2> HIDE DEF P0, s0, P, s2, d0, B
  <2> QED BY <2>1, <2>2, <2>3, <2>4, <2>5, <2>6
<1>6. p = try_decrement_address(m, i, "src") /\ P = pre_effect(m, S, size) /\ S = i["src"]
          /\ a = static_ea(S, m.pc)
      /\ s = OperandValue(p, S, size) /\ s2 = read_operand(P, S, a, size) /\ size = SourceSize(i)
             /\ T = i["dst"] /\ q = try_decrement_address(p, i, "dst") /\ d = OperandValue(q, T, Long)
      /\ next = IF Accessible(q, T, Long)
                   THEN IF s = 0
                   THEN Exception(q, DivisionByZeroVector,
                       LAMBDA e : [e EXCEPT !.sr.n = 0, !.sr.z = 0, !.sr.v = 0, !.sr.c = 0])
                   ELSE IF i.kind = "Divs" /\ Signed(s, Word) = -1 /\ d = Span(Long) \div 2
                   THEN [q EXCEPT !.status = "crash"]
                   ELSE IF Divide(i.kind, q.sr, s, d).fits
                   THEN Then(Write(q, i, "dst", Long, Divide(i.kind, q.sr, s, d).value),
                       Divide(i.kind, q.sr, s, d).sr)
                   ELSE [q EXCEPT !.sr = Divide(i.kind, q.sr, s, d).sr]
                   ELSE Fail(q)
  OBVIOUS
<1> HIDE DEF p, P, S, a, s, s2, size, next, T, n, q, d
<1>7. /\ Twin(D, p, P) /\ p.decremented = {"src"} /\ p.incremented = {} /\ p.pc = m.pc /\ P.pc = m.pc
      /\ p.sr = m.sr /\ P.sr = m.sr /\ m.sr \in StatusRegisters
      /\ Reads(s, s2, size) /\ Perform(m, i) = next /\ Ok(next)
  BY <1>2, <1>4, <1>6, ReadsFirst, SMTT(60)
<1>8. /\ Twin(D, q, P) /\ "dst" \in q.decremented /\ "src" \notin q.incremented /\ "dst" \notin q.incremented
      /\ q.pc = m.pc /\ q.sr = m.sr /\ Accessible(q, T, Long) /\ d = Low(P.d[n], Long)
             /\ P.d[n] \in Values(Long)
  <2>1. IsRegister(T) /\ RegisterValue(P, T) = P.d[n]
    BY <1>3 DEF IsRegister, RegisterValue
  <2>2. "dst" \notin p.decremented
    BY <1>7
  <2>3. /\ Twin(D, q, P) /\ q.decremented = p.decremented \cup {"dst"} /\ q.incremented = p.incremented
        /\ q.pc = p.pc /\ q.sr = p.sr /\ Accessible(q, T, Long) /\ OperandValue(q, T, Long) = Low(P.d[n], Long)
    BY <1>2, <1>3, <1>6, <1>7, <2>1, <2>2, RegisterNext, SMTT(60)
  <2>4. P.d[n] \in Values(Long)
    BY <1>3, <1>7, RegisterIn DEF Twin
  <2> QED BY <1>6, <1>7, <2>3, <2>4
<1> DEFINE r == Divide(i.kind, q.sr, s, d)
           value == IF r.fits THEN r.value ELSE P.d[n]
           sr == r.sr
           done == next
           w == [q EXCEPT !.d[n] = value]
           z == [[P EXCEPT !.d[n] = value] EXCEPT !.sr = sr]
<1>9. /\ s # 0 /\ s \in Values(Word) /\ d = P.d[n] /\ d \in Int /\ Low(s2, Word) = s /\ q.d[n] = P.d[n]
      /\ next = IF r.fits THEN Then(Write(q, i, "dst", Long, r.value), r.sr) ELSE [q EXCEPT !.sr = r.sr]
  <2>1. s # 0
    <3>1. ~Excepts(m, i)
      BY <1>0 DEF Deviates, Incomplete
    <3> QED BY <1>0, <1>6, <3>1 DEF Excepts
  <2>2. s \in Values(Word) /\ Low(s2, Word) = s
    <3>1. Low(s2, Word) = s /\ s2 \in Int
      BY <1>0, <1>7 DEF Reads
    <3> QED BY <3>1, LowIn DEF Sizes
  <2>3. d = P.d[n] /\ d \in Int
    BY <1>8, LowKeeps, ValuesWiden
  <2>4. ~Ok([q EXCEPT !.status = "crash"])
    BY <1>8 DEF Ok, Twin, Machines
  <2>5. q.d[n] = P.d[n]
    BY <1>8 DEF Twin, Same
  <2> QED BY <1>6, <1>7, <1>8, <2>1, <2>2, <2>3, <2>4, <2>5
<1>12. r.value \in Values(Long) /\ NewFlags(q.sr, r.sr)
  <2>1. NewFlags(q.sr, r.sr)
    BY <1>7, <1>8, <1>9, DivideIn
  <2>2. r.value \in Values(Long)
    <3> DEFINE ds == IF i.kind = "Divu" THEN s ELSE Signed(s, Word)
               dd == IF i.kind = "Divu" THEN d ELSE Signed(d, Long)
               quotient == Quotient(dd, ds)
               left == Remainder(dd, ds)
    <3>1. s \in Int /\ ds \in Int /\ dd \in Int /\ ds # 0
      BY <1>9, SignedIn, SignedZero, InValues DEF Sizes
    <3> HIDE DEF ds, dd
    <3>2. quotient \in Int /\ left \in Int
      BY <3>1, QuotientIn DEF Remainder
    <3>3. r.value = Low(left, Word) * Span(Word) + Low(quotient, Word)
      BY DEF Divide, ds, dd
    <3> HIDE DEF quotient, left, r
    <3>4. Low(left, Word) \in Values(Word) /\ Low(quotient, Word) \in Values(Word)
      BY <3>2, LowIn DEF Sizes
    <3> DEFINE h == Low(left, Word)
               l == Low(quotient, Word)
    <3>5. h \in Int /\ 0 <= h /\ h < 65536 /\ l \in Int /\ 0 <= l /\ l < 65536 /\ r.value = h * 65536 + l
      BY <3>3, <3>4, InValues, SpanValues
    <3> HIDE DEF h, l
    <3>6. r.value \in Int /\ 0 <= r.value /\ r.value < 4294967296
      BY <3>5, SMT
    <3> QED BY <3>6, InValues
  <2> QED BY <2>1, <2>2
<1>13. value \in Values(Long) /\ sr \in StatusRegisters
  BY <1>8, <1>12 DEF NewFlags
<1>14. Divide(i.kind, P.sr, Low(s2, Word), P.d[n]) = r
  BY <1>7, <1>8, <1>9, Zenon
<1>15. translate_inst(m, i, u) = post_effect([P EXCEPT !.d[n] = IF r.fits THEN r.value ELSE @, !.sr = r.sr],
           S, size)
  BY <1>5, <1>9, <1>14
<1>16. [P EXCEPT !.d[n] = IF r.fits THEN r.value ELSE @, !.sr = r.sr] = z
  BY <1>7 DEF Twin, Machines
<1>17. done = [w EXCEPT !.sr = sr]
  <2>1. CASE r.fits
    <3>1. done = Then(Write(q, i, "dst", Long, r.value), r.sr) /\ Ok(done)
      BY <1>7, <1>9, <2>1
    <3>2. done = [Write(q, i, "dst", Long, r.value) EXCEPT !.sr = sr]
      BY <3>1, ThenOk
    <3>3. Write(q, i, "dst", Long, r.value) = [q EXCEPT !.d[n] = Replaced(q.d[n], r.value, Long)]
      BY <1>3, <1>6, <1>8, DecrementedTwice DEF Write
    <3>4. Replaced(q.d[n], r.value, Long) = value
      <4>1. r.value \in Int
        BY <1>12, InValues
      <4> QED BY <1>8, <1>9, <1>12, <2>1, <4>1, ReplacedLong, LowKeeps
    <3> QED BY <3>2, <3>3, <3>4
  <2>2. CASE ~r.fits
    <3>1. done = [q EXCEPT !.sr = sr] /\ value = q.d[n]
      BY <1>9, <2>2
    <3>2. [q EXCEPT !.d[n] = q.d[n]] = q
      BY <1>3, <1>8 DEF Twin, Machines
    <3> QED BY <3>1, <3>2
  <2> QED BY <2>1, <2>2
<1>10. done = Perform(m, i)
  BY <1>7
<1> HIDE DEF r, value, sr, done
<1>11. Twin(D, done, z) /\ done.incremented = q.incremented
  <2>1. Twin(D, w, [P EXCEPT !.d[n] = value])
    BY <1>3, <1>8, <1>13, TwinSetD
  <2>2. Twin(D, done, z)
    BY <1>13, <1>17, <2>1, TwinSetSr
  <2>3. done.incremented = q.incremented
    BY <1>8, <1>17 DEF Twin, Machines
  <2> QED BY <2>2, <2>3
<1> HIDE DEF z
<1>20. Twin(D, Execute(m, i), post_effect(z, S, size))
  <2>1. Ready(D, m, i) /\ Ok(Execute(m, i)) /\ done = Perform(m, i)
    BY <1>7, <1>10
  <2>2. \A other \in Roles \cap DOMAIN i : other # "src"
            => i[other].kind # "AddressIncrement" \/ other \in done.incremented
    BY <1>3, <1>6 DEF Roles
  <2>3. "src" \in Roles \cap DOMAIN i /\ "src" \notin done.incremented
    BY <1>2, <1>8, <1>11
  <2> QED BY <1>2, <1>6, <1>11, <2>1, <2>2, <2>3, EndsStepping
<1> QED BY <1>15, <1>16, <1>20 DEF Agrees

(* The kinds that have no byte form.                                       *)
LEMMA WellSized ==
    ASSUME NEW i, AsDecoded(i), i.kind \in AddressKinds \cup {"Ext", "Movem", "Movea"}
    PROVE  i.size \in {Word, Long}
<1>1. i.kind \in UsesSize /\ SizesOf(i.kind) = {Word, Long}
  BY SMT DEF UsesSize, AddressKinds, SizesOf
<1> QED BY <1>1 DEF AsDecoded, Given, WellFormed

(* ADDA and SUBA.                                                          *)
LEMMA AddaAgrees ==
    ASSUME EightBits, NEW D, NEW m, NEW i, Ready(D, m, i), i.kind \in {"Adda", "Suba"}, Ok(Execute(m, i)),
           NEW u, ~Deviates(m, i, u, Execute(m, i))
    PROVE  Agrees(D, m, i, u)
<1> DEFINE size == SourceSize(i)
           S == i["src"]
           p == try_decrement_address(m, i, "src")
           s == OperandValue(p, S, size)
           P == pre_effect(m, S, size)
           a == static_ea(S, m.pc)
           s2 == read_operand(P, S, a, size)
           T == i["dst"]
           n == T.index
           q == try_decrement_address(p, i, "dst")
           d == OperandValue(q, T, Long)
           next == IF Accessible(q, T, Long)
                   THEN Write(q, i, "dst", Long,
                       do_binary_op(opcode_type(i.kind), IF i.size = Word THEN Signed(s, Word) ELSE s, d))
                   ELSE Fail(q)
<1>0. i.kind \in {"Adda", "Suba"} /\ size = i.size /\ i.kind \in AddressKinds /\ opcode_type(i.kind) # "Cmp"
  BY SMT DEF SourceSize, AddressKinds, opcode_type
<1>1. i.kind \in SourceKinds /\ i.kind \in ToRegister /\ i.kind \in AddressKinds
  BY <1>0, SMT DEF SourceKinds, AddressKinds, ToRegister
<1>2. /\ i.kind # "Movem" /\ i.kind \notin BitKinds \cup {"Abcd", "Sbcd"}
      /\ "src" \in DOMAIN i /\ "src" \in Roles /\ S \in Targets /\ S.kind # "ProgramCounterIndex"
      /\ size \in Sizes /\ (S.kind \in Stepped => S.size = size)
      /\ operand(i, u, "src") = S /\ (\A k : ea(k, i, u, "src") = static_ea(S, k.pc))
      /\ Effects(i.kind).pre = <<"src">> /\ Effects(i.kind).post = <<"src">>
      /\ (IsRegister(S) \/ bytes(i, u) = size)
  BY <1>1, AtSource
<1>3. /\ "dst" \in DOMAIN i /\ "dst" \in Roles /\ T \in Targets /\ n \in 0 .. 7
             /\ T.kind = "AddressRegister" /\ n = T.index
      /\ operand(i, u, "dst") = T
  <2>1. i.kind \in ToRegister /\ "dst" \in Roles
    BY <1>1 DEF Roles
  <2> QED BY <1>0, <1>1, <2>1, AtSource
<1>4. Perform(m, i) = IF Accessible(p, S, size) THEN next ELSE Fail(p)
  <2>1. Perform(m, i) = ExecAddress(m, i)
    BY <1>0, PerformIs
  <2> QED BY <1>0, <2>1, Zenon DEF ExecAddress, Read
<1>5. translate_inst(m, i, u) = post_effect(SetA(P, n,
          do_binary_op(opcode_type(i.kind), Low(IF i.size = Word THEN Signed(s2, Word) ELSE s2, Long),
              Low(a_reg(P, n), Long))), S, size)
  <2> DEFINE Body(k, sv, dv) ==
                 LET op == opcode_type(i.kind)
                     r == m68k_binary(op, k.sr, a_reg(k, i.dst.index), IF i.size = Word
                         THEN Signed(sv, Word) ELSE sv, Long)
                 IN  IF op = "Cmp" THEN [k EXCEPT !.sr = r.sr] ELSE SetA(k, i.dst.index, r.value)
             B == bytes(i, u)
             P0 == pre_effect(m, operand(i, u, "src"), B)
             s0 == read_operand(P0, operand(i, u, "src"), ea(m, i, u, "src"), B)
             d0 == read_operand(P0, operand(i, u, "dst"), ea(m, i, u, "dst"), B)
  <2>1. translate_inst(m, i, u) = LiftAddress(m, i, u)
    BY <1>0, TranslateIs
  <2>2. LiftAddress(m, i, u) = Statement(m, i, u, Body)
    BY <1>0 DEF LiftAddress
  <2>3. Body(P, s2, d0) = SetA(P, n,
            do_binary_op(opcode_type(i.kind), Low(IF i.size = Word THEN Signed(s2, Word) ELSE s2, Long),
                Low(a_reg(P, n), Long)))
    BY <1>0 DEF m68k_binary
  <2> HIDE DEF Body
  <2>4. Statement(m, i, u, Body) = post_effect(Body(P0, s0, d0), operand(i, u, "src"), B)
    BY <1>2, Ones, Zenon DEF Statement, InTurn
  <2>5. operand(i, u, "src") = S /\ ea(m, i, u, "src") = a
    BY <1>2
  <2>6. P0 = P /\ s0 = s2 /\ \A k : post_effect(k, S, B) = post_effect(k, S, size)
    <3>1. CASE B = size
      BY <2>5, <3>1
    <3>2. CASE IsRegister(S)
      <4>1. pre_effect(m, S, B) = m /\ pre_effect(m, S, size) = m
        BY <3>2, RegisterMoot
      <4>2. read_operand(m, S, a, B) = RegisterValue(m, S) /\ read_operand(m, S, a, size) = RegisterValue(m, S)
        BY <3>2, RegisterMoot
      <4>3. \A k : post_effect(k, S, B) = k /\ post_effect(k, S, size) = k
        BY <3>2, RegisterMoot
      <4> QED BY <2>5, <4>1, <4>2, <4>3
    <3> QED BY <1>2, <3>1, <3>2
  <2> HIDE DEF P0, s0, P, s2, d0, B
  <2> QED BY <2>1, <2>2, <2>3, <2>4, <2>5, <2>6
<1>6. p = try_decrement_address(m, i, "src") /\ P = pre_effect(m, S, size) /\ S = i["src"]
          /\ a = static_ea(S, m.pc)
      /\ s = OperandValue(p, S, size) /\ s2 = read_operand(P, S, a, size) /\ size = SourceSize(i)
             /\ T = i["dst"] /\ q = try_decrement_address(p, i, "dst") /\ d = OperandValue(q, T, Long)
      /\ next = IF Accessible(q, T, Long)
                   THEN Write(q, i, "dst", Long,
                       do_binary_op(opcode_type(i.kind), IF i.size = Word THEN Signed(s, Word) ELSE s, d))
                   ELSE Fail(q)
  OBVIOUS
<1> HIDE DEF p, P, S, a, s, s2, size, next, T, n, q, d
<1>7. /\ Twin(D, p, P) /\ p.decremented = {"src"} /\ p.incremented = {} /\ p.pc = m.pc /\ P.pc = m.pc
      /\ p.sr = m.sr /\ P.sr = m.sr /\ m.sr \in StatusRegisters
      /\ Reads(s, s2, size) /\ Perform(m, i) = next /\ Ok(next)
  BY <1>2, <1>4, <1>6, ReadsFirst, SMTT(60)
<1>8. /\ Twin(D, q, P) /\ "dst" \in q.decremented /\ "src" \notin q.incremented /\ "dst" \notin q.incremented
      /\ q.pc = m.pc /\ q.sr = m.sr /\ Accessible(q, T, Long) /\ d = Low(a_reg(P, n), Long)
             /\ a_reg(P, n) \in Values(Long)
  <2>1. IsRegister(T) /\ RegisterValue(P, T) = a_reg(P, n)
    BY <1>3 DEF IsRegister, RegisterValue
  <2>2. "dst" \notin p.decremented
    BY <1>7
  <2>3. /\ Twin(D, q, P) /\ q.decremented = p.decremented \cup {"dst"} /\ q.incremented = p.incremented
        /\ q.pc = p.pc /\ q.sr = p.sr /\ Accessible(q, T, Long)
               /\ OperandValue(q, T, Long) = Low(a_reg(P, n), Long)
    BY <1>2, <1>3, <1>6, <1>7, <2>1, <2>2, RegisterNext
  <2>4. a_reg(P, n) \in Values(Long)
    BY <1>3, <1>7, RegisterIn DEF Twin
  <2> QED BY <1>6, <1>7, <2>3, <2>4
<1> DEFINE v == IF i.size = Word THEN Signed(s, Word) ELSE s
           v2 == IF i.size = Word THEN Signed(s2, Word) ELSE s2
           op == opcode_type(i.kind)
           r == do_binary_op(op, v, d)
           r2 == do_binary_op(op, Low(v2, Long), Low(a_reg(P, n), Long))
           done == next
           z == SetA(P, n, r2)
<1>9. op \in {"Add", "Sub"} /\ op # "Cmp" /\ s \in Int /\ s2 \in Int
  BY <1>0, <1>7, SMT DEF opcode_type, Reads
<1>12. /\ v \in Int /\ v2 \in Int /\ Low(v2, Long) = Low(v, Long)
       /\ d = a_reg(P, n) /\ d \in Int /\ Low(a_reg(P, n), Long) = d
  <2>1. d = a_reg(P, n) /\ d \in Int
    BY <1>8, LowKeeps, ValuesWiden
  <2>2. i.size \in {Word, Long}
    BY <1>0, WellSized DEF Ready
  <2>3. Reads(s, s2, i.size) /\ v = (IF i.size = Word THEN Signed(s, Word) ELSE s)
            /\ v2 = (IF i.size = Word THEN Signed(s2, Word) ELSE s2)
    BY <1>0, <1>7
  <2> HIDE DEF v, v2
  <2>4. v \in Int /\ v2 \in Int /\ Low(v2, Long) = Low(v, Long)
    BY <2>2, <2>3, Extended
  <2> QED BY <1>8, <2>1, <2>4
<1>13. translate_inst(m, i, u) = post_effect(z, S, size)
  BY <1>5
<1>14. done = Perform(m, i)
  BY <1>7
<1>15. done = Write(q, i, "dst", Long, r) /\ z = SetA(P, n, r2)
  BY <1>6, <1>8
<1> HIDE DEF v, v2
<1>16. r \in Int /\ r2 \in Int /\ Low(r2, Long) = Low(r, Long)
  <2> DEFINE l == Low(v2, Long)
  <2>1. l \in Int /\ l = Low(v, Long) /\ Low(a_reg(P, n), Long) = d
    BY <1>12, LowInt DEF Sizes
  <2> HIDE DEF l
  <2>2. CASE op = "Add"
    <3>1. r = v + d /\ r2 = l + d
      BY <1>12, <2>1, <2>2, SumIs DEF l
    <3>3. l \in Int /\ v \in Int /\ d \in Int /\ l = Low(v, Long)
      BY <1>12, <2>1
    <3>4. Low(Low(v, Long) + d, Long) = Low(v + d, Long)
      BY <3>3, LowSum
    <3>2. Low(l + d, Long) = Low(v + d, Long) /\ l + d \in Int /\ v + d \in Int
      BY <3>3, <3>4
    <3> QED BY <3>1, <3>2, Zenon
  <2>3. CASE op = "Sub"
    <3>1. r = d - v /\ r2 = d - l
      BY <1>12, <2>1, <2>3, SumIs DEF l
    <3>3. l \in Int /\ v \in Int /\ d \in Int /\ l = Low(v, Long)
      BY <1>12, <2>1
    <3>4. Low(d - Low(v, Long), Long) = Low(d - v, Long)
      BY <3>3, LowDifference
    <3>2. Low(d - l, Long) = Low(d - v, Long) /\ d - l \in Int /\ d - v \in Int
      BY <3>3, <3>4
    <3> QED BY <3>1, <3>2, Zenon
  <2> QED BY <1>9, <2>2, <2>3
<1> HIDE DEF r, r2, z, op
<1>17. Twin(D, done, z) /\ done.incremented = q.incremented
  <2> DEFINE b == static_ea(T, m.pc)
  <2>1. T.kind \notin {"ProgramCounterIndex", "Immediate"} /\ b = static_ea(T, q.pc) /\ Ok(done) /\ OnBus(D)
            /\ Long \in Sizes
    <3>1. OnBus(D)
      BY Begins
    <3> QED BY <1>3, <1>7, <1>8, <3>1 DEF Sizes
  <2>2. write_operand(P, T, b, Long, r2) = z
    <3>1. write_operand(P, T, b, Long, r2) = SetA(P, n, Replaced(a_reg(P, n), r2, Long))
      BY <1>3 DEF write_operand
    <3>2. Replaced(a_reg(P, n), r2, Long) = Low(r2, Long)
      BY <1>8, <1>16, ReplacedLong
    <3> QED BY <1>15, <1>16, <3>1, <3>2, SetALow
  <2> HIDE DEF b, done
  <2>3. Twin(D, done, write_operand(P, T, b, Long, r2)) /\ done.incremented = q.incremented
    BY <1>3, <1>6, <1>8, <1>15, <1>16, <2>1, WriteTwin
  <2> QED BY <2>2, <2>3
<1> HIDE DEF done
<1>10. done = Perform(m, i)
  BY <1>14
<1>11. Twin(D, done, z) /\ done.incremented = q.incremented
  BY <1>17
<1>20. Twin(D, Execute(m, i), post_effect(z, S, size))
  <2>1. Ready(D, m, i) /\ Ok(Execute(m, i)) /\ done = Perform(m, i)
    BY <1>7, <1>10
  <2>2. \A other \in Roles \cap DOMAIN i : other # "src"
            => i[other].kind # "AddressIncrement" \/ other \in done.incremented
    BY <1>3, <1>6 DEF Roles
  <2>3. "src" \in Roles \cap DOMAIN i /\ "src" \notin done.incremented
    BY <1>2, <1>8, <1>11
  <2> QED BY <1>2, <1>6, <1>11, <2>1, <2>2, <2>3, EndsStepping
<1> QED BY <1>13, <1>20 DEF Agrees

(* What a kind is shown to do when it may leave other condition codes.     *)
Matches(D, m, i, u) ==
    IF FlagsDeviate(i) THEN Aside(D, Execute(m, i), translate_inst(m, i, u)) ELSE Agrees(D, m, i, u)

(* Outside a change of mode, writing the status register leaves the stack  *)
(* pointer.                                                                *)
LEMMA SetSrSame ==
    ASSUME EightBits, NEW D, NEW m \in Machines(D), NEW e \in StatusRegisters, e.s = m.sr.s
    PROVE  SetSr(m, e) = [m EXCEPT !.sr = e]
<1> DEFINE x == [m EXCEPT !.sr = e]
<1>1. x \in Machines(D) /\ x.sr.s = m.sr.s /\ x.usp = m.usp /\ x.ssp = m.ssp
  BY DEF Machines
<1>2. stack_ptr(m) = (IF m.sr.s = 1 THEN x.ssp ELSE x.usp) /\ Low(stack_ptr(m), Long) = stack_ptr(m)
  BY <1>1, StackPtrIn, LowKeeps DEF stack_ptr
<1>3. SetStackPtr(x, stack_ptr(m)) = IF m.sr.s = 1 THEN [x EXCEPT !.ssp = Low(stack_ptr(m), Long)]
          ELSE [x EXCEPT !.usp = Low(stack_ptr(m), Long)]
  BY <1>1, Zenon DEF SetStackPtr
<1>4. SetSr(m, e) = SetStackPtr(x, stack_ptr(m))
  BY DEF SetSr
<1> HIDE DEF x
<1>5. SetStackPtr(x, stack_ptr(m)) = x
  BY <1>1, <1>2, <1>3 DEF Machines
<1> QED BY <1>4, <1>5 DEF x

(* MOVE to CCR.                                                            *)
LEMMA MoveToCcrAgrees ==
    ASSUME EightBits, NEW D, NEW m, NEW i, Ready(D, m, i), i.kind = "MoveToCcr", Ok(Execute(m, i)),
           NEW u, ~Deviates(m, i, u, Execute(m, i))
    PROVE  Agrees(D, m, i, u)
<1> DEFINE size == SourceSize(i)
           S == i["src"]
           p == try_decrement_address(m, i, "src")
           s == OperandValue(p, S, size)
           P == pre_effect(m, S, size)
           a == static_ea(S, m.pc)
           s2 == read_operand(P, S, a, size)
           next == [p EXCEPT !.sr = WithCcr(@, s)]
<1>0. i.kind = "MoveToCcr" /\ size = Word
  BY SMT DEF SourceSize, AddressKinds
<1>1. i.kind \in SourceKinds /\ i.kind \notin ToRegister
  BY <1>0, SMT DEF SourceKinds, AddressKinds, ToRegister
<1>2. /\ i.kind # "Movem" /\ i.kind \notin BitKinds \cup {"Abcd", "Sbcd"}
      /\ "src" \in DOMAIN i /\ "src" \in Roles /\ S \in Targets /\ S.kind # "ProgramCounterIndex"
      /\ size \in Sizes /\ (S.kind \in Stepped => S.size = size)
      /\ operand(i, u, "src") = S /\ (\A k : ea(k, i, u, "src") = static_ea(S, k.pc))
      /\ Effects(i.kind).pre = <<"src">> /\ Effects(i.kind).post = <<"src">>
      /\ (IsRegister(S) \/ bytes(i, u) = size)
  BY <1>1, AtSource
<1>3. "dst" \notin DOMAIN i
  BY <1>0, <1>1, AtSource
<1>4. Perform(m, i) = IF Accessible(p, S, size) THEN next ELSE Fail(p)
  <2>1. Perform(m, i) = ExecMoveToCcr(m, i)
    BY <1>0, PerformIs
  <2> QED BY <1>0, <2>1, Zenon DEF ExecMoveToCcr, Read
<1>5. translate_inst(m, i, u) = post_effect([P EXCEPT !.sr = WithCcr(@, s2)], S, size)
  <2> DEFINE Body(k, sv, dv) ==
                 CASE i.kind = "MoveToCcr"   -> [k EXCEPT !.sr = WithCcr(@, sv)]
                   [] i.kind = "MoveToSr"    -> SetSr(k, FromSrWord(k.sr, Low(sv, Word)))
                   [] i.kind = "MoveFromSr"  -> wd(k, i, u, SrWord(k.sr))
                   [] i.kind = "MoveToUsp"   -> [k EXCEPT !.usp = sv]
                   [] i.kind = "MoveFromUsp" -> wd(k, i, u, k.usp)
             B == bytes(i, u)
             P0 == pre_effect(m, operand(i, u, "src"), B)
             s0 == read_operand(P0, operand(i, u, "src"), ea(m, i, u, "src"), B)
             d0 == read_operand(P0, operand(i, u, "dst"), ea(m, i, u, "dst"), B)
  <2>1. translate_inst(m, i, u) = LiftMoveStatus(m, i, u)
    BY <1>0, TranslateIs
  <2>2. LiftMoveStatus(m, i, u) = Statement(m, i, u, Body)
    BY <1>0 DEF LiftMoveStatus
  <2>3. Body(P, s2, d0) = [P EXCEPT !.sr = WithCcr(@, s2)]
    BY <1>0
  <2> HIDE DEF Body
  <2>4. Statement(m, i, u, Body) = post_effect(Body(P0, s0, d0), operand(i, u, "src"), B)
    BY <1>2, Ones, Zenon DEF Statement, InTurn
  <2>5. operand(i, u, "src") = S /\ ea(m, i, u, "src") = a
    BY <1>2
  <2>6. P0 = P /\ s0 = s2 /\ \A k : post_effect(k, S, B) = post_effect(k, S, size)
    <3>1. CASE B = size
      BY <2>5, <3>1
    <3>2. CASE IsRegister(S)
      <4>1. pre_effect(m, S, B) = m /\ pre_effect(m, S, size) = m
        BY <3>2, RegisterMoot
      <4>2. read_operand(m, S, a, B) = RegisterValue(m, S) /\ read_operand(m, S, a, size) = RegisterValue(m, S)
        BY <3>2, RegisterMoot
      <4>3. \A k : post_effect(k, S, B) = k /\ post_effect(k, S, size) = k
        BY <3>2, RegisterMoot
      <4> QED BY <2>5, <4>1, <4>2, <4>3
    <3> QED BY <1>2, <3>1, <3>2
  <2> HIDE DEF P0, s0, P, s2, d0, B
  <2> QED BY <2>1, <2>2, <2>3, <2>4, <2>5, <2>6
<1>6. p = try_decrement_address(m, i, "src") /\ P = pre_effect(m, S, size) /\ S = i["src"]
          /\ a = static_ea(S, m.pc)
      /\ s = OperandValue(p, S, size) /\ s2 = read_operand(P, S, a, size) /\ size = SourceSize(i) /\ next
             = [p EXCEPT !.sr = WithCcr(@, s)]
  OBVIOUS
<1> HIDE DEF p, P, S, a, s, s2, size, next
<1>7. /\ Twin(D, p, P) /\ p.decremented = {"src"} /\ p.incremented = {} /\ p.pc = m.pc /\ P.pc = m.pc
      /\ p.sr = m.sr /\ P.sr = m.sr /\ m.sr \in StatusRegisters
      /\ Reads(s, s2, size) /\ Perform(m, i) = next /\ Ok(next)
  BY <1>2, <1>4, <1>6, ReadsFirst, SMTT(60)
<1> DEFINE e == WithCcr(p.sr, s)
           done == next
           z == [P EXCEPT !.sr = e]
<1>9. s \in Int /\ s2 \in Int /\ Low(s2, Word) = s /\ NewFlags(p.sr, e)
  <2>1. s \in Int /\ s2 \in Int /\ Low(s2, Word) = s
    BY <1>0, <1>7 DEF Reads
  <2> QED BY <1>7, <2>1, WithCcrIn
<1>12. WithCcr(P.sr, s2) = e
  BY <1>7, <1>9, WithCcrLow
<1>13. translate_inst(m, i, u) = post_effect(z, S, size)
  BY <1>5, <1>12
<1>10. done = Perform(m, i)
  BY <1>7
<1>14. done = [p EXCEPT !.sr = e]
  BY <1>6
<1> HIDE DEF e, done
<1>11. Twin(D, done, z) /\ done.incremented = p.incremented
  <2>1. e \in StatusRegisters
    BY <1>9 DEF NewFlags
  <2>2. done.incremented = p.incremented
    BY <1>7, <1>14 DEF Twin, Machines
  <2> QED BY <1>7, <1>14, <2>1, <2>2, TwinSetSr
<1> HIDE DEF z
<1>20. Twin(D, Execute(m, i), post_effect(z, S, size))
  <2>1. Ready(D, m, i) /\ Ok(Execute(m, i)) /\ done = Perform(m, i)
    BY <1>7, <1>10
  <2>2. \A other \in Roles \cap DOMAIN i : other # "src"
            => i[other].kind # "AddressIncrement" \/ other \in done.incremented
    BY <1>3 DEF Roles
  <2>3. "src" \in Roles \cap DOMAIN i /\ "src" \notin done.incremented
    BY <1>2, <1>7, <1>11
  <2> QED BY <1>2, <1>6, <1>11, <2>1, <2>2, <2>3, EndsStepping
<1> QED BY <1>13, <1>20 DEF Agrees

(* MOVE to USP.                                                            *)
LEMMA MoveToUspAgrees ==
    ASSUME EightBits, NEW D, NEW m, NEW i, Ready(D, m, i), i.kind = "MoveToUsp", Ok(Execute(m, i)),
           NEW u, ~Deviates(m, i, u, Execute(m, i))
    PROVE  Agrees(D, m, i, u)
<1> DEFINE size == SourceSize(i)
           S == i["src"]
           p == try_decrement_address(m, i, "src")
           s == OperandValue(p, S, size)
           P == pre_effect(m, S, size)
           a == static_ea(S, m.pc)
           s2 == read_operand(P, S, a, size)
           next == [p EXCEPT !.usp = s]
<1>0. i.kind = "MoveToUsp" /\ size = Long
  BY SMT DEF SourceSize, AddressKinds
<1>1. i.kind \in SourceKinds /\ i.kind \notin ToRegister
  BY <1>0, SMT DEF SourceKinds, AddressKinds, ToRegister
<1>2. /\ i.kind # "Movem" /\ i.kind \notin BitKinds \cup {"Abcd", "Sbcd"}
      /\ "src" \in DOMAIN i /\ "src" \in Roles /\ S \in Targets /\ S.kind # "ProgramCounterIndex"
      /\ size \in Sizes /\ (S.kind \in Stepped => S.size = size)
      /\ operand(i, u, "src") = S /\ (\A k : ea(k, i, u, "src") = static_ea(S, k.pc))
      /\ Effects(i.kind).pre = <<"src">> /\ Effects(i.kind).post = <<"src">>
      /\ (IsRegister(S) \/ bytes(i, u) = size)
  BY <1>1, AtSource
<1>3. "dst" \notin DOMAIN i
  BY <1>0, <1>1, AtSource
<1>4. Perform(m, i) = IF Accessible(p, S, size) THEN next ELSE Fail(p)
  <2>1. Perform(m, i) = ExecUsp(m, i)
    BY <1>0, PerformIs
  <2> QED BY <1>0, <2>1, Zenon DEF ExecUsp, Read
<1>5. translate_inst(m, i, u) = post_effect([P EXCEPT !.usp = s2], S, size)
  <2> DEFINE Body(k, sv, dv) ==
                 CASE i.kind = "MoveToCcr"   -> [k EXCEPT !.sr = WithCcr(@, sv)]
                   [] i.kind = "MoveToSr"    -> SetSr(k, FromSrWord(k.sr, Low(sv, Word)))
                   [] i.kind = "MoveFromSr"  -> wd(k, i, u, SrWord(k.sr))
                   [] i.kind = "MoveToUsp"   -> [k EXCEPT !.usp = sv]
                   [] i.kind = "MoveFromUsp" -> wd(k, i, u, k.usp)
             B == bytes(i, u)
             P0 == pre_effect(m, operand(i, u, "src"), B)
             s0 == read_operand(P0, operand(i, u, "src"), ea(m, i, u, "src"), B)
             d0 == read_operand(P0, operand(i, u, "dst"), ea(m, i, u, "dst"), B)
  <2>1. translate_inst(m, i, u) = LiftMoveStatus(m, i, u)
    BY <1>0, TranslateIs
  <2>2. LiftMoveStatus(m, i, u) = Statement(m, i, u, Body)
    BY <1>0 DEF LiftMoveStatus
  <2>3. Body(P, s2, d0) = [P EXCEPT !.usp = s2]
    BY <1>0
  <2> HIDE DEF Body
  <2>4. Statement(m, i, u, Body) = post_effect(Body(P0, s0, d0), operand(i, u, "src"), B)
    BY <1>2, Ones, Zenon DEF Statement, InTurn
  <2>5. operand(i, u, "src") = S /\ ea(m, i, u, "src") = a
    BY <1>2
  <2>6. P0 = P /\ s0 = s2 /\ \A k : post_effect(k, S, B) = post_effect(k, S, size)
    <3>1. CASE B = size
      BY <2>5, <3>1
    <3>2. CASE IsRegister(S)
      <4>1. pre_effect(m, S, B) = m /\ pre_effect(m, S, size) = m
        BY <3>2, RegisterMoot
      <4>2. read_operand(m, S, a, B) = RegisterValue(m, S) /\ read_operand(m, S, a, size) = RegisterValue(m, S)
        BY <3>2, RegisterMoot
      <4>3. \A k : post_effect(k, S, B) = k /\ post_effect(k, S, size) = k
        BY <3>2, RegisterMoot
      <4> QED BY <2>5, <4>1, <4>2, <4>3
    <3> QED BY <1>2, <3>1, <3>2
  <2> HIDE DEF P0, s0, P, s2, d0, B
  <2> QED BY <2>1, <2>2, <2>3, <2>4, <2>5, <2>6
<1>6. p = try_decrement_address(m, i, "src") /\ P = pre_effect(m, S, size) /\ S = i["src"]
          /\ a = static_ea(S, m.pc)
      /\ s = OperandValue(p, S, size) /\ s2 = read_operand(P, S, a, size) /\ size = SourceSize(i) /\ next
             = [p EXCEPT !.usp = s]
  OBVIOUS
<1> HIDE DEF p, P, S, a, s, s2, size, next
<1>7. /\ Twin(D, p, P) /\ p.decremented = {"src"} /\ p.incremented = {} /\ p.pc = m.pc /\ P.pc = m.pc
      /\ p.sr = m.sr /\ P.sr = m.sr /\ m.sr \in StatusRegisters
      /\ Reads(s, s2, size) /\ Perform(m, i) = next /\ Ok(next)
  BY <1>2, <1>4, <1>6, ReadsFirst, SMTT(60)
<1> DEFINE done == next
           z == [P EXCEPT !.usp = s]
<1>9. s = s2 /\ s \in Values(Long)
  <2>1. Low(s2, Long) = s /\ s2 \in Values(Long)
    BY <1>0, <1>7 DEF Reads
  <2> QED BY <2>1, LowKeeps
<1>13. translate_inst(m, i, u) = post_effect(z, S, size)
  BY <1>5, <1>9
<1>10. done = Perform(m, i)
  BY <1>7
<1>14. done = [p EXCEPT !.usp = s]
  BY <1>6
<1> HIDE DEF done
<1>11. Twin(D, done, z) /\ done.incremented = p.incremented
  <2>1. done.incremented = p.incremented
    BY <1>7, <1>14 DEF Twin, Machines
  <2> QED BY <1>7, <1>9, <1>14, <2>1, TwinSetUsp
<1> HIDE DEF z
<1>20. Twin(D, Execute(m, i), post_effect(z, S, size))
  <2>1. Ready(D, m, i) /\ Ok(Execute(m, i)) /\ done = Perform(m, i)
    BY <1>7, <1>10
  <2>2. \A other \in Roles \cap DOMAIN i : other # "src"
            => i[other].kind # "AddressIncrement" \/ other \in done.incremented
    BY <1>3 DEF Roles
  <2>3. "src" \in Roles \cap DOMAIN i /\ "src" \notin done.incremented
    BY <1>2, <1>7, <1>11
  <2> QED BY <1>2, <1>6, <1>11, <2>1, <2>2, <2>3, EndsStepping
<1> QED BY <1>13, <1>20 DEF Agrees

(* MOVE to SR, where it stays in the mode.                                 *)
LEMMA MoveToSrAgrees ==
    ASSUME EightBits, NEW D, NEW m, NEW i, Ready(D, m, i), i.kind = "MoveToSr", Ok(Execute(m, i)),
           NEW u, ~Deviates(m, i, u, Execute(m, i))
    PROVE  Agrees(D, m, i, u)
<1> DEFINE size == SourceSize(i)
           S == i["src"]
           p == try_decrement_address(m, i, "src")
           s == OperandValue(p, S, size)
           P == pre_effect(m, S, size)
           a == static_ea(S, m.pc)
           s2 == read_operand(P, S, a, size)
           next == [try_increment_address(p, i, "src") EXCEPT !.sr = FromSrWord(@, s)]
<1>0. i.kind = "MoveToSr" /\ size = Word
  BY SMT DEF SourceSize, AddressKinds
<1>1. i.kind \in SourceKinds /\ i.kind \notin ToRegister
  BY <1>0, SMT DEF SourceKinds, AddressKinds, ToRegister
<1>2. /\ i.kind # "Movem" /\ i.kind \notin BitKinds \cup {"Abcd", "Sbcd"}
      /\ "src" \in DOMAIN i /\ "src" \in Roles /\ S \in Targets /\ S.kind # "ProgramCounterIndex"
      /\ size \in Sizes /\ (S.kind \in Stepped => S.size = size)
      /\ operand(i, u, "src") = S /\ (\A k : ea(k, i, u, "src") = static_ea(S, k.pc))
      /\ Effects(i.kind).pre = <<"src">> /\ Effects(i.kind).post = <<"src">>
      /\ (IsRegister(S) \/ bytes(i, u) = size)
  BY <1>1, AtSource
<1>3. "dst" \notin DOMAIN i
  BY <1>0, <1>1, AtSource
<1>4. Perform(m, i) = IF Accessible(p, S, size) THEN next ELSE Fail(p)
  <2>1. Perform(m, i) = ExecMoveToSr(m, i)
    BY <1>0, PerformIs
  <2> QED BY <1>0, <2>1, Zenon DEF ExecMoveToSr, Read
<1>5. translate_inst(m, i, u) = post_effect(SetSr(P, FromSrWord(P.sr, Low(s2, Word))), S, size)
  <2> DEFINE Body(k, sv, dv) ==
                 CASE i.kind = "MoveToCcr"   -> [k EXCEPT !.sr = WithCcr(@, sv)]
                   [] i.kind = "MoveToSr"    -> SetSr(k, FromSrWord(k.sr, Low(sv, Word)))
                   [] i.kind = "MoveFromSr"  -> wd(k, i, u, SrWord(k.sr))
                   [] i.kind = "MoveToUsp"   -> [k EXCEPT !.usp = sv]
                   [] i.kind = "MoveFromUsp" -> wd(k, i, u, k.usp)
             B == bytes(i, u)
             P0 == pre_effect(m, operand(i, u, "src"), B)
             s0 == read_operand(P0, operand(i, u, "src"), ea(m, i, u, "src"), B)
             d0 == read_operand(P0, operand(i, u, "dst"), ea(m, i, u, "dst"), B)
  <2>1. translate_inst(m, i, u) = LiftMoveStatus(m, i, u)
    BY <1>0, TranslateIs
  <2>2. LiftMoveStatus(m, i, u) = Statement(m, i, u, Body)
    BY <1>0 DEF LiftMoveStatus
  <2>3. Body(P, s2, d0) = SetSr(P, FromSrWord(P.sr, Low(s2, Word)))
    BY <1>0
  <2> HIDE DEF Body
  <2>4. Statement(m, i, u, Body) = post_effect(Body(P0, s0, d0), operand(i, u, "src"), B)
    BY <1>2, Ones, Zenon DEF Statement, InTurn
  <2>5. operand(i, u, "src") = S /\ ea(m, i, u, "src") = a
    BY <1>2
  <2>6. P0 = P /\ s0 = s2 /\ \A k : post_effect(k, S, B) = post_effect(k, S, size)
    <3>1. CASE B = size
      BY <2>5, <3>1
    <3>2. CASE IsRegister(S)
      <4>1. pre_effect(m, S, B) = m /\ pre_effect(m, S, size) = m
        BY <3>2, RegisterMoot
      <4>2. read_operand(m, S, a, B) = RegisterValue(m, S) /\ read_operand(m, S, a, size) = RegisterValue(m, S)
        BY <3>2, RegisterMoot
      <4>3. \A k : post_effect(k, S, B) = k /\ post_effect(k, S, size) = k
        BY <3>2, RegisterMoot
      <4> QED BY <2>5, <4>1, <4>2, <4>3
    <3> QED BY <1>2, <3>1, <3>2
  <2> HIDE DEF P0, s0, P, s2, d0, B
  <2> QED BY <2>1, <2>2, <2>3, <2>4, <2>5, <2>6
<1>6. p = try_decrement_address(m, i, "src") /\ P = pre_effect(m, S, size) /\ S = i["src"]
          /\ a = static_ea(S, m.pc)
      /\ s = OperandValue(p, S, size) /\ s2 = read_operand(P, S, a, size) /\ size = SourceSize(i) /\ next
             = [try_increment_address(p, i, "src") EXCEPT !.sr = FromSrWord(@, s)]
  OBVIOUS
<1> HIDE DEF p, P, S, a, s, s2, size, next
<1>7. /\ Twin(D, p, P) /\ p.decremented = {"src"} /\ p.incremented = {} /\ p.pc = m.pc /\ P.pc = m.pc
      /\ p.sr = m.sr /\ P.sr = m.sr /\ m.sr \in StatusRegisters
      /\ Reads(s, s2, size) /\ Perform(m, i) = next /\ Ok(next)
  BY <1>2, <1>4, <1>6, ReadsFirst, SMTT(60)
<1> DEFINE e == FromSrWord(p.sr, s)
           done == next
           q == try_increment_address(p, i, "src")
           Q == post_effect(P, S, size)
           z == [Q EXCEPT !.sr = e]
<1>9. s \in Int /\ s2 \in Int /\ Low(s2, Word) = s /\ e \in StatusRegisters
  <2>1. s \in Int /\ s2 \in Int /\ Low(s2, Word) = s
    BY <1>0, <1>7 DEF Reads
  <2> QED BY <1>7, <2>1, FromSrWordIn
<1>10. done = Perform(m, i) /\ Q = post_effect(P, S, size) /\ q = try_increment_address(p, i, "src")
  BY <1>7
<1>12. translate_inst(m, i, u) = post_effect(SetSr(P, e), S, size)
  BY <1>5, <1>7, <1>9
<1> HIDE DEF q
<1>13. Twin(D, q, Q) /\ q.incremented = {"src"} /\ q.sr = p.sr
  <2>1. "src" \notin p.incremented
    BY <1>7
  <2> QED BY <1>2, <1>6, <1>7, <1>10, <2>1, IncrementTwin
<1>14. done = [q EXCEPT !.sr = e]
  BY <1>6, <1>13 DEF q
<1> HIDE DEF e, done, Q
<1>15. Twin(D, done, z) /\ done.incremented = {"src"}
  <2>1. done.incremented = {"src"}
    BY <1>13, <1>14 DEF Twin, Machines
  <2> QED BY <1>9, <1>13, <1>14, <2>1, TwinSetSr
<1> HIDE DEF z
<1>16. Twin(D, Execute(m, i), z)
  <2>1. \A role \in Roles \cap DOMAIN i : i[role].kind # "AddressIncrement" \/ role \in done.incremented
    BY <1>3, <1>15 DEF Roles
  <2> QED BY <1>10, <1>15, <2>1, EndsStill
<1>17. e.s = P.sr.s
  <2>1. Execute(m, i).sr.s = m.sr.s
    BY DEF Deviates, Incomplete
  <2>2. Q \in Machines(D) /\ z.sr = e
    BY <1>13 DEF Twin, Machines, z
  <2>3. Execute(m, i).sr = e
    BY <1>16, <2>2 DEF Twin, Same
  <2> QED BY <1>7, <2>1, <2>3
<1>18. SetSr(P, e) = [P EXCEPT !.sr = e]
  BY <1>7, <1>9, <1>17, SetSrSame DEF Twin
<1>19. post_effect([P EXCEPT !.sr = e], S, size) = z
  BY <1>7, <1>9, <1>10, <1>17, PostCommutes DEF Twin, z
<1> QED BY <1>12, <1>16, <1>18, <1>19 DEF Agrees

(* CMPA: of a word, but for the condition codes.                           *)
LEMMA CmpaMatches ==
    ASSUME EightBits, NEW D, NEW m, NEW i, Ready(D, m, i), i.kind = "Cmpa", Ok(Execute(m, i)),
           NEW u, ~Deviates(m, i, u, Execute(m, i))
    PROVE  Matches(D, m, i, u)
<1> DEFINE size == SourceSize(i)
           S == i["src"]
           p == try_decrement_address(m, i, "src")
           s == OperandValue(p, S, size)
           P == pre_effect(m, S, size)
           a == static_ea(S, m.pc)
           s2 == read_operand(P, S, a, size)
           T == i["dst"]
           n == T.index
           q == try_decrement_address(p, i, "dst")
           d == OperandValue(q, T, Long)
           next == IF Accessible(q, T, Long)
                   THEN [q EXCEPT !.sr = [SetCompare(q.sr, IF i.size = Word THEN Signed(s, Word) ELSE s, d,
                                                     do_binary_op("Cmp", IF i.size = Word
                                                         THEN Signed(s, Word) ELSE s, d), Long, "Cmp") EXCEPT
                            !.c = Flag(do_binary_op("Cmp", IF i.size = Word THEN Signed(s, Word) ELSE s,
                                d) \div Span(Long)
                                       # (IF i.size = Word THEN Signed(s, Word) ELSE s) \div Span(Long))]]
                   ELSE Fail(q)
<1>0. i.kind = "Cmpa" /\ size = i.size /\ i.kind \in AddressKinds /\ opcode_type(i.kind) = "Cmp"
  BY SMT DEF SourceSize, AddressKinds, opcode_type
<1>1. i.kind \in SourceKinds /\ i.kind \in ToRegister /\ i.kind \in AddressKinds
  BY <1>0, SMT DEF SourceKinds, AddressKinds, ToRegister
<1>2. /\ i.kind # "Movem" /\ i.kind \notin BitKinds \cup {"Abcd", "Sbcd"}
      /\ "src" \in DOMAIN i /\ "src" \in Roles /\ S \in Targets /\ S.kind # "ProgramCounterIndex"
      /\ size \in Sizes /\ (S.kind \in Stepped => S.size = size)
      /\ operand(i, u, "src") = S /\ (\A k : ea(k, i, u, "src") = static_ea(S, k.pc))
      /\ Effects(i.kind).pre = <<"src">> /\ Effects(i.kind).post = <<"src">>
      /\ (IsRegister(S) \/ bytes(i, u) = size)
  BY <1>1, AtSource
<1>3. /\ "dst" \in DOMAIN i /\ "dst" \in Roles /\ T \in Targets /\ n \in 0 .. 7
             /\ T.kind = "AddressRegister" /\ n = T.index
      /\ operand(i, u, "dst") = T
  <2>1. i.kind \in ToRegister /\ "dst" \in Roles
    BY <1>1 DEF Roles
  <2> QED BY <1>0, <1>1, <2>1, AtSource
<1>4. Perform(m, i) = IF Accessible(p, S, size) THEN next ELSE Fail(p)
  <2>1. Perform(m, i) = ExecAddress(m, i)
    BY <1>0, PerformIs
  <2> QED BY <1>0, <2>1, Zenon DEF ExecAddress, Read
<1>5. translate_inst(m, i, u) = post_effect([P EXCEPT !.sr = m68k_binary("Cmp", P.sr, a_reg(P, n),
          IF i.size = Word THEN Signed(s2, Word) ELSE s2, Long).sr], S, size)
  <2> DEFINE Body(k, sv, dv) ==
                 LET op == opcode_type(i.kind)
                     r == m68k_binary(op, k.sr, a_reg(k, i.dst.index), IF i.size = Word
                         THEN Signed(sv, Word) ELSE sv, Long)
                 IN  IF op = "Cmp" THEN [k EXCEPT !.sr = r.sr] ELSE SetA(k, i.dst.index, r.value)
             B == bytes(i, u)
             P0 == pre_effect(m, operand(i, u, "src"), B)
             s0 == read_operand(P0, operand(i, u, "src"), ea(m, i, u, "src"), B)
             d0 == read_operand(P0, operand(i, u, "dst"), ea(m, i, u, "dst"), B)
  <2>1. translate_inst(m, i, u) = LiftAddress(m, i, u)
    BY <1>0, TranslateIs
  <2>2. LiftAddress(m, i, u) = Statement(m, i, u, Body)
    BY <1>0 DEF LiftAddress
  <2>3. Body(P, s2, d0) = [P EXCEPT !.sr = m68k_binary("Cmp", P.sr, a_reg(P, n), IF i.size = Word
            THEN Signed(s2, Word) ELSE s2, Long).sr]
    BY <1>0
  <2> HIDE DEF Body
  <2>4. Statement(m, i, u, Body) = post_effect(Body(P0, s0, d0), operand(i, u, "src"), B)
    BY <1>2, Ones, Zenon DEF Statement, InTurn
  <2>5. operand(i, u, "src") = S /\ ea(m, i, u, "src") = a
    BY <1>2
  <2>6. P0 = P /\ s0 = s2 /\ \A k : post_effect(k, S, B) = post_effect(k, S, size)
    <3>1. CASE B = size
      BY <2>5, <3>1
    <3>2. CASE IsRegister(S)
      <4>1. pre_effect(m, S, B) = m /\ pre_effect(m, S, size) = m
        BY <3>2, RegisterMoot
      <4>2. read_operand(m, S, a, B) = RegisterValue(m, S) /\ read_operand(m, S, a, size) = RegisterValue(m, S)
        BY <3>2, RegisterMoot
      <4>3. \A k : post_effect(k, S, B) = k /\ post_effect(k, S, size) = k
        BY <3>2, RegisterMoot
      <4> QED BY <2>5, <4>1, <4>2, <4>3
    <3> QED BY <1>2, <3>1, <3>2
  <2> HIDE DEF P0, s0, P, s2, d0, B
  <2> QED BY <2>1, <2>2, <2>3, <2>4, <2>5, <2>6
<1>6. p = try_decrement_address(m, i, "src") /\ P = pre_effect(m, S, size) /\ S = i["src"]
          /\ a = static_ea(S, m.pc)
      /\ s = OperandValue(p, S, size) /\ s2 = read_operand(P, S, a, size) /\ size = SourceSize(i)
             /\ T = i["dst"] /\ q = try_decrement_address(p, i, "dst") /\ d = OperandValue(q, T, Long)
      /\ next = IF Accessible(q, T, Long)
                   THEN [q EXCEPT !.sr = [SetCompare(q.sr, IF i.size = Word THEN Signed(s, Word) ELSE s, d,
                                                     do_binary_op("Cmp", IF i.size = Word
                                                         THEN Signed(s, Word) ELSE s, d), Long, "Cmp") EXCEPT
                            !.c = Flag(do_binary_op("Cmp", IF i.size = Word THEN Signed(s, Word) ELSE s,
                                d) \div Span(Long)
                                       # (IF i.size = Word THEN Signed(s, Word) ELSE s) \div Span(Long))]]
                   ELSE Fail(q)
  OBVIOUS
<1> HIDE DEF p, P, S, a, s, s2, size, next, T, n, q, d
<1>7. /\ Twin(D, p, P) /\ p.decremented = {"src"} /\ p.incremented = {} /\ p.pc = m.pc /\ P.pc = m.pc
      /\ p.sr = m.sr /\ P.sr = m.sr /\ m.sr \in StatusRegisters
      /\ Reads(s, s2, size) /\ Perform(m, i) = next /\ Ok(next)
  BY <1>2, <1>4, <1>6, ReadsFirst, SMTT(60)
<1>8. /\ Twin(D, q, P) /\ "dst" \in q.decremented /\ "src" \notin q.incremented /\ "dst" \notin q.incremented
      /\ q.pc = m.pc /\ q.sr = m.sr /\ Accessible(q, T, Long) /\ d = Low(a_reg(P, n), Long)
             /\ a_reg(P, n) \in Values(Long)
  <2>1. IsRegister(T) /\ RegisterValue(P, T) = a_reg(P, n)
    BY <1>3 DEF IsRegister, RegisterValue
  <2>2. "dst" \notin p.decremented
    BY <1>7
  <2>3. /\ Twin(D, q, P) /\ q.decremented = p.decremented \cup {"dst"} /\ q.incremented = p.incremented
        /\ q.pc = p.pc /\ q.sr = p.sr /\ Accessible(q, T, Long)
               /\ OperandValue(q, T, Long) = Low(a_reg(P, n), Long)
    BY <1>2, <1>3, <1>6, <1>7, <2>1, <2>2, RegisterNext
  <2>4. a_reg(P, n) \in Values(Long)
    BY <1>3, <1>7, RegisterIn DEF Twin
  <2> QED BY <1>6, <1>7, <2>3, <2>4
<1> DEFINE v == IF i.size = Word THEN Signed(s, Word) ELSE s
           v2 == IF i.size = Word THEN Signed(s2, Word) ELSE s2
           r == d - v
           e == [SetCompare(q.sr, v, d, r, Long,
               "Cmp") EXCEPT !.c = Flag(r \div Span(Long) # v \div Span(Long))]
           f == m68k_binary("Cmp", P.sr, a_reg(P, n), v2, Long).sr
           done == next
           y == [P EXCEPT !.sr = f]
           z == [P EXCEPT !.sr = e]
<1>9. s \in Int /\ s2 \in Int
  BY <1>7 DEF Reads
<1>12. /\ v \in Int /\ v2 \in Int /\ Low(v2, Long) = Low(v, Long)
       /\ d = a_reg(P, n) /\ d \in Int /\ Low(a_reg(P, n), Long) = d /\ i.size \in {Word, Long}
  <2>1. d = a_reg(P, n) /\ d \in Int
    BY <1>8, LowKeeps, ValuesWiden
  <2>2. i.size \in {Word, Long}
    BY <1>0, WellSized DEF Ready
  <2>3. Reads(s, s2, i.size) /\ v = (IF i.size = Word THEN Signed(s, Word) ELSE s)
            /\ v2 = (IF i.size = Word THEN Signed(s2, Word) ELSE s2)
    BY <1>0, <1>7
  <2> HIDE DEF v, v2
  <2>4. v \in Int /\ v2 \in Int /\ Low(v2, Long) = Low(v, Long)
    BY <2>2, <2>3, Extended
  <2> QED BY <1>8, <2>1, <2>2, <2>4
<1>13. translate_inst(m, i, u) = post_effect(y, S, size)
  BY <1>5
<1>14. i.size = Long => v = s /\ s \in Values(Long)
  BY <1>0, <1>7 DEF Reads, Word, Long
<1>10. done = Perform(m, i)
  BY <1>7
<1>15. done = [q EXCEPT !.sr = e]
  <2>1. next = [q EXCEPT !.sr = [SetCompare(q.sr, v, d, do_binary_op("Cmp", v, d), Long, "Cmp") EXCEPT
                      !.c = Flag(do_binary_op("Cmp", v, d) \div Span(Long) # v \div Span(Long))]]
    BY <1>6, <1>8
  <2>2. do_binary_op("Cmp", v, d) = r
    BY SumIs
  <2> HIDE DEF r, v, next
  <2> QED BY <2>1, <2>2
<1> HIDE DEF v, v2
<1>16. e \in StatusRegisters /\ e.s = P.sr.s
  <2> DEFINE b == SetCompare(q.sr, v, d, r, Long, "Cmp")
             c == Flag(r \div Span(Long) # v \div Span(Long))
  <2>1. r \in Int
    BY <1>12
  <2> HIDE DEF r
  <2>2. NewFlags(q.sr, b)
    BY <1>7, <1>8, <1>12, <2>1, SetCompareIn DEF Sizes
  <2>3. c \in Bit
    BY FlagIn
  <2> HIDE DEF b, c
  <2>4. [b EXCEPT !.c = c] \in StatusRegisters /\ [b EXCEPT !.c = c].s = b.s
    BY <2>2, <2>3 DEF NewFlags, StatusRegisters
  <2> QED BY <1>7, <1>8, <2>2, <2>4 DEF NewFlags, b, c
<1> DEFINE g == Low(v2, Long)
<1>17. g \in Int /\ g = Low(v, Long) /\ f = SetBinary(P.sr, g, d, d - g, Long, "Cmp")
  <2>1. g \in Int /\ g = Low(v, Long)
    BY <1>12, LowInt DEF Sizes
  <2>2. f = SetBinary(P.sr, g, d, do_binary_op("Cmp", g, d), Long, "Cmp")
    BY <1>12, Zenon DEF m68k_binary
  <2> HIDE DEF f, g
  <2> QED BY <2>1, <2>2, SumIs
<1> HIDE DEF f, g
<1>18. f \in StatusRegisters /\ f.s = P.sr.s
  <2> DEFINE h == d - g
  <2>1. h \in Int
    BY <1>12, <1>17
  <2> HIDE DEF h
  <2>2. NewFlags(P.sr, SetBinary(P.sr, g, d, h, Long, "Cmp"))
    BY <1>7, <1>12, <1>17, <2>1, SetBinaryIn DEF Sizes
  <2> QED BY <1>17, <2>2 DEF NewFlags, h
<1>19. i.size = Long => e = f
  <2>1. SUFFICES ASSUME i.size = Long PROVE e = f
    OBVIOUS
  <2>2. v = s /\ g = s /\ d \in Values(Long) /\ s \in Values(Long)
    <3>1. g = s
      BY <1>14, <1>17, <2>1, LowKeeps
    <3> QED BY <1>8, <1>12, <1>14, <2>1, <3>1
  <2>3. f = SetCompare(P.sr, s, d, d - s, Long, "Cmp")
    BY <1>17, <2>2, SMT DEF SetBinary
  <2>4. Flag((d - s) \div Span(Long) # s \div Span(Long)) = is_carry(d - s, Long)
    BY <2>2, CompareCarry
  <2> DEFINE b == SetCompare(q.sr, s, d, d - s, Long, "Cmp")
             c == is_carry(d - s, Long)
  <2>5. e = [b EXCEPT !.c = c]
    BY <2>2, <2>4
  <2>6. b.c = c /\ b = [b EXCEPT !.c = b.c]
    <3>1. d - s \in Int /\ s \in Int
      BY <1>9, <1>12
    <3>2. NewFlags(q.sr, b)
      BY <1>7, <1>8, <1>12, <3>1, SetCompareIn DEF Sizes
    <3>3. b.c = c
      BY <1>7, <1>8 DEF SetCompare, StatusRegisters
    <3> HIDE DEF b
    <3> QED BY <3>2, <3>3 DEF NewFlags, StatusRegisters
  <2>7. b = f
    BY <1>7, <1>8, <2>3
  <2> HIDE DEF b, c
  <2> QED BY <2>5, <2>6, <2>7
<1> HIDE DEF e, done, r
<1>21. Twin(D, done, z)
  BY <1>8, <1>15, <1>16, TwinSetSr
<1>11. Twin(D, done, z) /\ done.incremented = q.incremented
  <2>1. done.incremented = q.incremented
    BY <1>8, <1>15 DEF Twin, Machines
  <2> QED BY <1>21, <2>1
<1>22. z = [y EXCEPT !.sr = e] /\ y \in Machines(D) /\ y.sr = f
  BY <1>7, <1>18 DEF Twin, Machines
<1> HIDE DEF z, y
<1>20. Twin(D, Execute(m, i), post_effect(z, S, size))
  <2>1. Ready(D, m, i) /\ Ok(Execute(m, i)) /\ done = Perform(m, i)
    BY <1>7, <1>10
  <2>2. \A other \in Roles \cap DOMAIN i : other # "src"
            => i[other].kind # "AddressIncrement" \/ other \in done.incremented
    BY <1>3, <1>6 DEF Roles
  <2>3. "src" \in Roles \cap DOMAIN i /\ "src" \notin done.incremented
    BY <1>2, <1>8, <1>11
  <2> QED BY <1>2, <1>6, <1>11, <2>1, <2>2, <2>3, EndsStepping
<1>23. CASE i.size = Long
  <2>1. y = z
    BY <1>19, <1>23 DEF y, z
  <2>2. ~FlagsDeviate(i)
    BY <1>0, <1>23 DEF FlagsDeviate, Word, Long
  <2> QED BY <1>13, <1>20, <2>1, <2>2 DEF Agrees, Matches
<1>24. CASE i.size = Word
  <2>1. FlagsDeviate(i)
    BY <1>0, <1>24 DEF FlagsDeviate
  <2>2. e.s = y.sr.s
    BY <1>16, <1>18, <1>22
  <2>3. Aside(D, Execute(m, i), post_effect(y, S, size))
    BY <1>16, <1>20, <1>22, <2>2, AsideEnds
  <2> QED BY <1>13, <2>1, <2>3 DEF Matches
<1> QED BY <1>12, <1>23, <1>24

(* CHK of a register within the bound, but for the condition codes.        *)
LEMMA ChkMatches ==
    ASSUME EightBits, NEW D, NEW m, NEW i, Ready(D, m, i), i.kind = "Chk", Ok(Execute(m, i)),
           NEW u, ~Deviates(m, i, u, Execute(m, i))
    PROVE  Matches(D, m, i, u)
<1> DEFINE size == SourceSize(i)
           S == i["src"]
           p == try_decrement_address(m, i, "src")
           s == OperandValue(p, S, size)
           P == pre_effect(m, S, size)
           a == static_ea(S, m.pc)
           s2 == read_operand(P, S, a, size)
           T == i["dst"]
           n == T.index
           q == try_decrement_address(p, i, "dst")
           d == OperandValue(q, T, Word)
           next == IF Accessible(q, T, Word)
                   THEN IF Signed(d, Word) < 0 \/ Signed(d, Word) > Signed(s, Word)
                        THEN Exception(q, ChkVector,
                            LAMBDA k : [[k EXCEPT !.sr.n = Flag(Signed(d, Word) < 0)] EXCEPT !.sr.z = 0,
                                !.sr.v = 0, !.sr.c = 0])
                        ELSE [q EXCEPT !.sr.z = 0, !.sr.v = 0, !.sr.c = 0]
                   ELSE Fail(q)
<1>0. i.kind = "Chk" /\ size = Word
  BY SMT DEF SourceSize, AddressKinds
<1>1. i.kind \in SourceKinds /\ i.kind \in ToRegister /\ i.kind \notin AddressKinds
  BY <1>0, SMT DEF SourceKinds, AddressKinds, ToRegister
<1>2. /\ i.kind # "Movem" /\ i.kind \notin BitKinds \cup {"Abcd", "Sbcd"}
      /\ "src" \in DOMAIN i /\ "src" \in Roles /\ S \in Targets /\ S.kind # "ProgramCounterIndex"
      /\ size \in Sizes /\ (S.kind \in Stepped => S.size = size)
      /\ operand(i, u, "src") = S /\ (\A k : ea(k, i, u, "src") = static_ea(S, k.pc))
      /\ Effects(i.kind).pre = <<"src">> /\ Effects(i.kind).post = <<"src">>
      /\ (IsRegister(S) \/ bytes(i, u) = size)
  BY <1>1, AtSource
<1>3. /\ "dst" \in DOMAIN i /\ "dst" \in Roles /\ T \in Targets /\ n \in 0 .. 7 /\ T.kind = "DataRegister"
             /\ n = T.index
      /\ operand(i, u, "dst") = T
  <2>1. i.kind \in ToRegister /\ "dst" \in Roles
    BY <1>1 DEF Roles
  <2> QED BY <1>0, <1>1, <2>1, AtSource
<1>4. Perform(m, i) = IF Accessible(p, S, size) THEN next ELSE Fail(p)
  <2>1. Perform(m, i) = ExecChk(m, i)
    BY <1>0, PerformIs
  <2> QED BY <1>0, <2>1, Zenon DEF ExecChk, Read
<1>5. translate_inst(m, i, u) = post_effect((IF Signed(P.d[n], Word) < 0 \/ Signed(P.d[n],
          Word) > Signed(s2, Word)
                 THEN recomp_trap([P EXCEPT !.sr.n = Flag(Signed(P.d[n], Word) < 0)], ChkVector)
                 ELSE [P EXCEPT !.sr.n = Flag(Signed(P.d[n], Word) < 0)]), S, size)
  <2> DEFINE Body(k, sv, dv) ==
                 LET v == Signed(k.d[i.dst.index], Word)
                     b == [k EXCEPT !.sr.n = Flag(v < 0)]
                 IN  IF v < 0 \/ v > Signed(sv, Word) THEN recomp_trap(b, ChkVector) ELSE b
             B == bytes(i, u)
             P0 == pre_effect(m, operand(i, u, "src"), B)
             s0 == read_operand(P0, operand(i, u, "src"), ea(m, i, u, "src"), B)
             d0 == read_operand(P0, operand(i, u, "dst"), ea(m, i, u, "dst"), B)
  <2>1. translate_inst(m, i, u) = LiftChk(m, i, u)
    BY <1>0, TranslateIs
  <2>2. LiftChk(m, i, u) = Statement(m, i, u, Body)
    BY <1>0 DEF LiftChk
  <2>3. Body(P, s2, d0) = (IF Signed(P.d[n], Word) < 0 \/ Signed(P.d[n], Word) > Signed(s2, Word)
                 THEN recomp_trap([P EXCEPT !.sr.n = Flag(Signed(P.d[n], Word) < 0)], ChkVector)
                 ELSE [P EXCEPT !.sr.n = Flag(Signed(P.d[n], Word) < 0)])
    BY <1>0
  <2> HIDE DEF Body
  <2>4. Statement(m, i, u, Body) = post_effect(Body(P0, s0, d0), operand(i, u, "src"), B)
    BY <1>2, Ones, Zenon DEF Statement, InTurn
  <2>5. operand(i, u, "src") = S /\ ea(m, i, u, "src") = a
    BY <1>2
  <2>6. P0 = P /\ s0 = s2 /\ \A k : post_effect(k, S, B) = post_effect(k, S, size)
    <3>1. CASE B = size
      BY <2>5, <3>1
    <3>2. CASE IsRegister(S)
      <4>1. pre_effect(m, S, B) = m /\ pre_effect(m, S, size) = m
        BY <3>2, RegisterMoot
      <4>2. read_operand(m, S, a, B) = RegisterValue(m, S) /\ read_operand(m, S, a, size) = RegisterValue(m, S)
        BY <3>2, RegisterMoot
      <4>3. \A k : post_effect(k, S, B) = k /\ post_effect(k, S, size) = k
        BY <3>2, RegisterMoot
      <4> QED BY <2>5, <4>1, <4>2, <4>3
    <3> QED BY <1>2, <3>1, <3>2
  <2> HIDE DEF P0, s0, P, s2, d0, B
  <2> QED BY <2>1, <2>2, <2>3, <2>4, <2>5, <2>6
<1>6. p = try_decrement_address(m, i, "src") /\ P = pre_effect(m, S, size) /\ S = i["src"]
          /\ a = static_ea(S, m.pc)
      /\ s = OperandValue(p, S, size) /\ s2 = read_operand(P, S, a, size) /\ size = SourceSize(i)
             /\ T = i["dst"] /\ q = try_decrement_address(p, i, "dst") /\ d = OperandValue(q, T, Word)
      /\ next = IF Accessible(q, T, Word)
                   THEN IF Signed(d, Word) < 0 \/ Signed(d, Word) > Signed(s, Word)
                        THEN Exception(q, ChkVector,
                            LAMBDA k : [[k EXCEPT !.sr.n = Flag(Signed(d, Word) < 0)] EXCEPT !.sr.z = 0,
                                !.sr.v = 0, !.sr.c = 0])
                        ELSE [q EXCEPT !.sr.z = 0, !.sr.v = 0, !.sr.c = 0]
                   ELSE Fail(q)
  OBVIOUS
<1> HIDE DEF p, P, S, a, s, s2, size, next, T, n, q, d
<1>7. /\ Twin(D, p, P) /\ p.decremented = {"src"} /\ p.incremented = {} /\ p.pc = m.pc /\ P.pc = m.pc
      /\ p.sr = m.sr /\ P.sr = m.sr /\ m.sr \in StatusRegisters
      /\ Reads(s, s2, size) /\ Perform(m, i) = next /\ Ok(next)
  BY <1>2, <1>4, <1>6, ReadsFirst, SMTT(60)
<1>8. /\ Twin(D, q, P) /\ "dst" \in q.decremented /\ "src" \notin q.incremented /\ "dst" \notin q.incremented
      /\ q.pc = m.pc /\ q.sr = m.sr /\ Accessible(q, T, Word) /\ d = Low(P.d[n], Word)
             /\ P.d[n] \in Values(Long)
  <2>1. IsRegister(T) /\ RegisterValue(P, T) = P.d[n]
    BY <1>3 DEF IsRegister, RegisterValue
  <2>2. "dst" \notin p.decremented
    BY <1>7
  <2>3. /\ Twin(D, q, P) /\ q.decremented = p.decremented \cup {"dst"} /\ q.incremented = p.incremented
        /\ q.pc = p.pc /\ q.sr = p.sr /\ Accessible(q, T, Word) /\ OperandValue(q, T, Word) = Low(P.d[n], Word)
    BY <1>2, <1>3, <1>6, <1>7, <2>1, <2>2, RegisterNext
  <2>4. P.d[n] \in Values(Long)
    BY <1>3, <1>7, RegisterIn DEF Twin
  <2> QED BY <1>6, <1>7, <2>3, <2>4
<1> DEFINE e == [q.sr EXCEPT !.z = 0, !.v = 0, !.c = 0]
           f == [P.sr EXCEPT !.n = 0]
           done == next
           y == [P EXCEPT !.sr = f]
           z == [P EXCEPT !.sr = e]
<1>9. Signed(d, Word) = Signed(P.d[n], Word) /\ Signed(s2, Word) = Signed(s, Word)
          /\ Signed(d, Word) \in Int /\ Signed(s, Word) \in Int
  <2>1. P.d[n] \in Int /\ Low(P.d[n], Word) = d /\ d \in Int /\ Low(d, Word) = d
    BY <1>8, ValuesWiden, LowLow, LowInt DEF Sizes
  <2>2. Signed(d, Word) = Signed(P.d[n], Word)
    BY <2>1, SameLow DEF Sizes
  <2>3. Signed(s2, Word) = Signed(s, Word) /\ s \in Int
    BY <1>0, <1>2, <1>7, ReadsSame DEF Reads
  <2>4. Signed(d, Word) \in Int /\ Signed(s, Word) \in Int
    BY <2>1, <2>3, SignedIn DEF Sizes
  <2> QED BY <2>2, <2>3, <2>4
<1>12. ~(Signed(d, Word) < 0) /\ ~(Signed(d, Word) > Signed(s, Word))
  <2>1. ~Excepts(m, i)
    BY <1>0 DEF Deviates, Incomplete
  <2>2. P.d[n] = m.d[n]
    <3>1. pre_effect(m, S, size).d = m.d
      <4>1. m \in Machines(D) /\ Twin(D, m, m) /\ m.decremented = {}
        BY Begins
      <4>2. p.d = m.d
        BY <1>2, <1>6, <4>1, DecrementTwin
      <4> QED BY <1>6, <1>7, <4>2 DEF Twin, Same
    <3> QED BY <1>6, <3>1
  <2>3. ~(Signed(m.d[n], Word) < 0 \/ Signed(m.d[n], Word) > Signed(s, Word))
    BY <1>0, <1>3, <1>6, <2>1 DEF Excepts
  <2> QED BY <1>9, <2>2, <2>3
<1>10. done = Perform(m, i)
  BY <1>7
<1>13. done = [q EXCEPT !.sr.z = 0, !.sr.v = 0, !.sr.c = 0]
  BY <1>6, <1>8, <1>12
<1>14. done = [q EXCEPT !.sr = e]
  BY <1>8, <1>13 DEF Twin, Machines
<1>15. translate_inst(m, i, u) = post_effect([P EXCEPT !.sr.n = Flag(Signed(P.d[n], Word) < 0)], S, size)
  BY <1>5, <1>9, <1>12
<1>16. [P EXCEPT !.sr.n = Flag(Signed(P.d[n], Word) < 0)] = y
  <2>1. Flag(Signed(P.d[n], Word) < 0) = 0
    BY <1>9, <1>12 DEF Flag
  <2> QED BY <2>1, <1>7 DEF Twin, Machines
<1>17. e \in StatusRegisters /\ f \in StatusRegisters /\ e.s = P.sr.s /\ f.s = P.sr.s
  <2> DEFINE g == m.sr
  <2>1. g \in StatusRegisters /\ q.sr = g /\ P.sr = g
    BY <1>7, <1>8
  <2>2. e = [g EXCEPT !.z = 0, !.v = 0, !.c = 0] /\ f = [g EXCEPT !.n = 0]
    BY <2>1
  <2> HIDE DEF g, e, f
  <2>3. 0 \in Bit
    BY DEF Bit
  <2>4. e \in StatusRegisters /\ e.s = g.s
    BY <2>1, <2>2, <2>3 DEF StatusRegisters
  <2>5. f \in StatusRegisters /\ f.s = g.s
    BY <2>1, <2>2, <2>3 DEF StatusRegisters
  <2> QED BY <2>1, <2>4, <2>5
<1> HIDE DEF e, f, done
<1>18. Twin(D, done, z) /\ done.incremented = q.incremented
  <2>1. done.incremented = q.incremented
    BY <1>8, <1>14 DEF Twin, Machines
  <2> QED BY <1>8, <1>14, <1>17, <2>1, TwinSetSr
<1>11. Twin(D, done, z) /\ done.incremented = q.incremented
  BY <1>18
<1>22. z = [y EXCEPT !.sr = e] /\ y \in Machines(D) /\ y.sr = f
  BY <1>7, <1>17 DEF Twin, Machines
<1> HIDE DEF z, y
<1>20. Twin(D, Execute(m, i), post_effect(z, S, size))
  <2>1. Ready(D, m, i) /\ Ok(Execute(m, i)) /\ done = Perform(m, i)
    BY <1>7, <1>10
  <2>2. \A other \in Roles \cap DOMAIN i : other # "src"
            => i[other].kind # "AddressIncrement" \/ other \in done.incremented
    BY <1>3, <1>6 DEF Roles
  <2>3. "src" \in Roles \cap DOMAIN i /\ "src" \notin done.incremented
    BY <1>2, <1>8, <1>11
  <2> QED BY <1>2, <1>6, <1>11, <2>1, <2>2, <2>3, EndsStepping
<1>23. FlagsDeviate(i)
  BY <1>0 DEF FlagsDeviate
<1>24. e.s = y.sr.s
  BY <1>17, <1>22
<1>25. Aside(D, Execute(m, i), post_effect(y, S, size))
  BY <1>17, <1>20, <1>22, <1>24, AsideEnds
<1> QED BY <1>15, <1>16, <1>23, <1>25 DEF Matches

-----------------------------------------------------------------------------
(***************************************************************************)
(* Immediates to the status register, and data registers.                  *)
(***************************************************************************)

(* ANDI, ORI and EORI to CCR.                                              *)
LEMMA ToCcrAgrees ==
    ASSUME EightBits, NEW D, NEW m, NEW i, Ready(D, m, i), i.kind \in ToCcrKinds, Ok(Execute(m, i)),
           NEW u, ~Deviates(m, i, u, Execute(m, i))
    PROVE  Agrees(D, m, i, u)
<1> DEFINE S == i["src"]
           p == try_decrement_address(m, i, "src")
           s == OperandValue(p, S, Byte)
           P == pre_effect(m, S, Byte)
           a == static_ea(S, m.pc)
           s2 == read_operand(P, S, a, Byte)
           op == opcode_type(i.kind)
           next == [p EXCEPT !.sr = WithCcr(@, do_binary_op(op, Ccr(@), s))]
           e == WithCcr(p.sr, do_binary_op(op, Ccr(p.sr), s))
           z == [P EXCEPT !.sr = e]
<1>1. /\ i.kind \notin {"Movem", "Move", "Movea", "Lea", "Pea", "Jmp", "Jsr", "Btst"}
             /\ i.kind \notin Shifts /\ i.kind \notin SizedKinds
      /\ i.kind \in UsesSrc /\ i.kind \notin UsesDst /\ i.kind \in Immediates /\ op \in Operations
             /\ i.kind \in ToCcrKinds \cup ToSrKinds
      /\ (i.kind \in ToCcrKinds <=> TRUE)
  BY SMT DEF Shifts, SizedKinds, UsesSrc, UsesDst, UsesBoth, Immediates, ToCcrKinds, ToSrKinds, BinaryKinds,
         AddressKinds, ExtendKinds,
     BitKinds, QuickKinds, UnaryKinds, opcode_type, Operations
<1>2. AsDecoded(i) /\ WellFormed(i)
  BY Begins DEF Ready
<1>3. /\ "src" \in DOMAIN i /\ S \in Targets /\ "src" \in Roles /\ "dst" \notin DOMAIN i /\ S.kind = "Immediate"
      /\ "src" \in Roles \cap DOMAIN i
  BY <1>1, <1>2, Operands DEF Roles, AsDecoded, Given
<1>4. operand(i, u, "src") = S /\ ea(m, i, u, "src") = a
  <2>1. "src" \in Roles \cap DOMAIN i /\ i.kind \notin {"Move", "Movea"}
    BY <1>1, <1>3
  <2> HIDE DEF p, P, s, s2, next, e, z, op
  <2> QED BY <2>1, EaIs
<1>5. bytes(i, u) = Byte /\ Byte \in Sizes
  <2>1. ~SizeUnset(i, u)
    BY OperandsAre DEF Ready
  <2> QED BY <1>1, <2>1, SMT DEF SizeUnset, bytes, Sizes, ToCcrKinds, ToSrKinds
<1>6. Perform(m, i) = IF Accessible(p, S, Byte) THEN next ELSE Fail(p)
  <2>1. Perform(m, i) = ExecToCcr(m, i)
    BY PerformIs
  <2> QED BY <2>1, Zenon DEF ExecToCcr, Read
<1>7. P = m /\ S.kind \notin Stepped
  BY <1>3, EffectNone DEF Stepped
<1>8. translate_inst(m, i, u) = [m EXCEPT !.sr = WithCcr(@, do_binary_op(op, Ccr(@), Low(s2, Byte)))]
  <2>1. translate_inst(m, i, u) = LiftToStatus(m, i, u)
    BY <1>1, TranslateIs
  <2>2. read_operand(m, S, ea(m, i, u, "src"), bytes(i, u)) = s2
    BY <1>4, <1>5, <1>7
  <2> HIDE DEF s2
  <2> QED BY <1>1, <2>1, <2>2 DEF LiftToStatus
<1>9. p = try_decrement_address(m, i, "src") /\ P = pre_effect(m, S, Byte) /\ S = i["src"]
          /\ a = static_ea(S, m.pc)
      /\ s = OperandValue(p, S, Byte) /\ s2 = read_operand(P, S, a, Byte) /\ next = [p EXCEPT !.sr = e]
  OBVIOUS
<1> HIDE DEF p, P, S, a, s, s2, next
<1>10. /\ Twin(D, p, P) /\ p.sr = m.sr /\ P.sr = m.sr /\ m.sr \in StatusRegisters
       /\ Reads(s, s2, Byte) /\ Perform(m, i) = next
  <2>1. S.kind # "ProgramCounterIndex" /\ i.kind # "Movem" /\ (S.kind \in Stepped => S.size = Byte)
    BY <1>1, <1>3, <1>7
  <2> QED BY <1>3, <1>5, <1>6, <1>9, <2>1, ReadsFirst, SMTT(60)
<1>11. e \in StatusRegisters /\ Low(s2, Byte) = s
  <2>1. s \in Int /\ Low(s2, Byte) = s
    BY <1>10 DEF Reads
  <2>2. Ccr(p.sr) \in Int
    BY <1>10, CcrIn, SrWordIn
  <2>3. do_binary_op(op, Ccr(p.sr), s) \in Int
    BY <1>1, <2>1, <2>2, BinaryOpIn
  <2> HIDE DEF op
  <2> QED BY <1>10, <2>1, <2>3, WithCcrIn, FromSrWordIn DEF NewFlags
<1>12. translate_inst(m, i, u) = z
  BY <1>7, <1>8, <1>10, <1>11
<1> DEFINE done == next
<1>13. done = Perform(m, i) /\ done = [p EXCEPT !.sr = e]
  BY <1>9, <1>10
<1> HIDE DEF e, done
<1>14. Twin(D, done, z)
  BY <1>10, <1>11, <1>13, TwinSetSr
<1>15. \A role \in Roles \cap DOMAIN i : i[role].kind # "AddressIncrement" \/ role \in done.incremented
  BY <1>3, <1>9 DEF Roles
<1> HIDE DEF z
<1>16. Twin(D, Execute(m, i), z)
  BY <1>13, <1>14, <1>15, EndsStill
<1> QED BY <1>12, <1>16 DEF Agrees

(* ANDI, ORI and EORI to SR, where they stay in the mode.                  *)
LEMMA ToSrAgrees ==
    ASSUME EightBits, NEW D, NEW m, NEW i, Ready(D, m, i), i.kind \in ToSrKinds, Ok(Execute(m, i)),
           NEW u, ~Deviates(m, i, u, Execute(m, i))
    PROVE  Agrees(D, m, i, u)
<1> DEFINE S == i["src"]
           p == try_decrement_address(m, i, "src")
           s == OperandValue(p, S, Word)
           P == pre_effect(m, S, Word)
           a == static_ea(S, m.pc)
           s2 == read_operand(P, S, a, Word)
           op == opcode_type(i.kind)
           next == [p EXCEPT !.sr = FromSrWord(@, do_binary_op(op, SrWord(@), s))]
           e == FromSrWord(p.sr, do_binary_op(op, SrWord(p.sr), s))
           z == [P EXCEPT !.sr = e]
<1>1. /\ i.kind \notin {"Movem", "Move", "Movea", "Lea", "Pea", "Jmp", "Jsr", "Btst"}
             /\ i.kind \notin Shifts /\ i.kind \notin SizedKinds
      /\ i.kind \in UsesSrc /\ i.kind \notin UsesDst /\ i.kind \in Immediates /\ op \in Operations
             /\ i.kind \in ToCcrKinds \cup ToSrKinds
      /\ (i.kind \in ToCcrKinds <=> FALSE)
  BY SMT DEF Shifts, SizedKinds, UsesSrc, UsesDst, UsesBoth, Immediates, ToCcrKinds, ToSrKinds, BinaryKinds,
         AddressKinds, ExtendKinds,
     BitKinds, QuickKinds, UnaryKinds, opcode_type, Operations
<1>2. AsDecoded(i) /\ WellFormed(i)
  BY Begins DEF Ready
<1>3. /\ "src" \in DOMAIN i /\ S \in Targets /\ "src" \in Roles /\ "dst" \notin DOMAIN i /\ S.kind = "Immediate"
      /\ "src" \in Roles \cap DOMAIN i
  BY <1>1, <1>2, Operands DEF Roles, AsDecoded, Given
<1>4. operand(i, u, "src") = S /\ ea(m, i, u, "src") = a
  <2>1. "src" \in Roles \cap DOMAIN i /\ i.kind \notin {"Move", "Movea"}
    BY <1>1, <1>3
  <2> HIDE DEF p, P, s, s2, next, e, z, op
  <2> QED BY <2>1, EaIs
<1>5. bytes(i, u) = Word /\ Word \in Sizes
  <2>1. ~SizeUnset(i, u)
    BY OperandsAre DEF Ready
  <2> QED BY <1>1, <2>1, SMT DEF SizeUnset, bytes, Sizes, ToCcrKinds, ToSrKinds
<1>6. Perform(m, i) = IF Accessible(p, S, Word) THEN next ELSE Fail(p)
  <2>1. Perform(m, i) = ExecToSr(m, i)
    BY PerformIs
  <2> QED BY <2>1, Zenon DEF ExecToSr, Read
<1>7. P = m /\ S.kind \notin Stepped
  BY <1>3, EffectNone DEF Stepped
<1>8. translate_inst(m, i, u) = SetSr(m, FromSrWord(m.sr, do_binary_op(op, SrWord(m.sr), Low(s2, Word))))
  <2>1. translate_inst(m, i, u) = LiftToStatus(m, i, u)
    BY <1>1, TranslateIs
  <2>2. read_operand(m, S, ea(m, i, u, "src"), bytes(i, u)) = s2
    BY <1>4, <1>5, <1>7
  <2> HIDE DEF s2
  <2> QED BY <1>1, <2>1, <2>2 DEF LiftToStatus
<1>9. p = try_decrement_address(m, i, "src") /\ P = pre_effect(m, S, Word) /\ S = i["src"]
          /\ a = static_ea(S, m.pc)
      /\ s = OperandValue(p, S, Word) /\ s2 = read_operand(P, S, a, Word) /\ next = [p EXCEPT !.sr = e]
  OBVIOUS
<1> HIDE DEF p, P, S, a, s, s2, next
<1>10. /\ Twin(D, p, P) /\ p.sr = m.sr /\ P.sr = m.sr /\ m.sr \in StatusRegisters
       /\ Reads(s, s2, Word) /\ Perform(m, i) = next
  <2>1. S.kind # "ProgramCounterIndex" /\ i.kind # "Movem" /\ (S.kind \in Stepped => S.size = Word)
    BY <1>1, <1>3, <1>7
  <2> QED BY <1>3, <1>5, <1>6, <1>9, <2>1, ReadsFirst, SMTT(60)
<1>11. e \in StatusRegisters /\ Low(s2, Word) = s
  <2>1. s \in Int /\ Low(s2, Word) = s
    BY <1>10 DEF Reads
  <2>2. SrWord(p.sr) \in Int
    BY <1>10, CcrIn, SrWordIn
  <2>3. do_binary_op(op, SrWord(p.sr), s) \in Int
    BY <1>1, <2>1, <2>2, BinaryOpIn
  <2> HIDE DEF op
  <2> QED BY <1>10, <2>1, <2>3, WithCcrIn, FromSrWordIn DEF NewFlags
<1>12. translate_inst(m, i, u) = SetSr(m, e)
  BY <1>7, <1>8, <1>10, <1>11
<1> DEFINE done == next
<1>13. done = Perform(m, i) /\ done = [p EXCEPT !.sr = e]
  BY <1>9, <1>10
<1> HIDE DEF e, done
<1>14. Twin(D, done, z)
  BY <1>10, <1>11, <1>13, TwinSetSr
<1>15. \A role \in Roles \cap DOMAIN i : i[role].kind # "AddressIncrement" \/ role \in done.incremented
  BY <1>3, <1>9 DEF Roles
<1> HIDE DEF z
<1>16. Twin(D, Execute(m, i), z)
  BY <1>13, <1>14, <1>15, EndsStill
<1>17. e.s = m.sr.s
  <2>1. Execute(m, i).sr.s = m.sr.s
    BY DEF Deviates, Incomplete
  <2>2. z.sr = e
    BY <1>10 DEF Twin, Machines, z
  <2>3. Execute(m, i).sr = e
    BY <1>16, <2>2 DEF Twin, Same
  <2> QED BY <2>1, <2>3
<1>18. SetSr(m, e) = z
  <2>1. m \in Machines(D)
    BY Begins
  <2>2. SetSr(m, e) = [m EXCEPT !.sr = e]
    BY <1>11, <1>17, <2>1, SetSrSame
  <2> QED BY <1>7, <2>2 DEF z
<1> QED BY <1>12, <1>16, <1>18 DEF Agrees

(* An instruction that ends by setting a data register and the condition   *)
(* codes.                                                                  *)
LEMMA PlainData ==
    ASSUME EightBits, NEW D, NEW m, NEW i, Ready(D, m, i), i.kind \in {"Moveq", "Swap", "Ext"},
               Ok(Execute(m, i)),
           NEW size \in Sizes, NEW v \in Int, NEW sr \in StatusRegisters, NEW x, Twin(D, x, m),
                   x.incremented = {},
           Perform(m, i) = Then(Write(x, i, "dst", size, v), sr), NEW t, t = i["dst"], NEW n, n = t.index
    PROVE  /\ n \in 0 .. 7 /\ m.d[n] \in Values(Long)
           /\ Twin(D, Execute(m, i), [[m EXCEPT !.d[n] = Replaced(m.d[n], v, size)] EXCEPT !.sr = sr])
<1> DEFINE w == Write(x, i, "dst", size, v)
           r == Replaced(m.d[n], v, size)
           done == Perform(m, i)
<1>1. AsDecoded(i) /\ WellFormed(i)
  BY Begins DEF Ready
<1>2. /\ i.kind \in UsesDst /\ i.kind # "Movem" /\ i.kind \notin Shifts /\ i.kind \notin UsesSrc
  BY SMT DEF UsesDst, Shifts, UsesSrc, UsesBoth, BinaryKinds, AddressKinds, ExtendKinds, BitKinds,
         ToCcrKinds, ToSrKinds
<1>3. t \in Targets /\ "src" \notin DOMAIN i /\ t.kind = "DataRegister" /\ "dst" \in Roles
  BY <1>1, <1>2, Operands DEF AsDecoded, Given, Roles
<1>4. w = Write(x, i, "dst", size, v)
  OBVIOUS
<1>5. Ok(done)
  BY Completes, Zenon
<1>6. done = [w EXCEPT !.sr = sr]
  BY <1>5, ThenOk
<1>0. done = Perform(m, i)
  OBVIOUS
<1> HIDE DEF w, done
<1>7. /\ Twin(D, w, [m EXCEPT !.d[n] = r]) /\ w.incremented = {} /\ n \in 0 .. 7 /\ m.d[n] \in Values(Long)
  <2>1. n = t.index /\ r = Replaced(m.d[n], v, size)
    OBVIOUS
  <2> HIDE DEF r
  <2>2. DataSet(D, w, x, m, "dst", n, Replaced(m.d[n], v, size))
    BY <1>2, <1>3, <1>4, SetsData, Zenon
  <2> QED BY <2>1, <2>2 DEF DataSet
<1> HIDE DEF r
<1>8. Twin(D, done, [[m EXCEPT !.d[n] = r] EXCEPT !.sr = sr])
  BY <1>6, <1>7, TwinSetSr
<1>9. \A role \in Roles \cap DOMAIN i : i[role].kind # "AddressIncrement" \/ role \in done.incremented
  BY <1>3 DEF Roles
<1>10. Twin(D, Execute(m, i), [[m EXCEPT !.d[n] = r] EXCEPT !.sr = sr])
  BY <1>0, <1>8, <1>9, EndsStill
<1> QED BY <1>7, <1>10 DEF r

(* MOVEQ.                                                                  *)
LEMMA MoveqAgrees ==
    ASSUME EightBits, NEW D, NEW m, NEW i, Ready(D, m, i), i.kind = "Moveq", Ok(Execute(m, i)), NEW u
    PROVE  Agrees(D, m, i, u)
<1> DEFINE v == Signed(i.data, Byte)
           n == i["dst"].index
           sr == SetLogic(m.sr, v, Long)
<1>1. AsDecoded(i) /\ m \in Machines(D) /\ Twin(D, m, m) /\ m.incremented = {} /\ WellFormed(i)
  BY Begins DEF Ready
<1>2. i.kind \in UsesData
  BY DEF UsesData
<1>3. i.data \in Int
  BY <1>1, <1>2, DataIn
<1>4. v \in Int /\ Long \in Sizes
  BY <1>3, SignedIn DEF Sizes
<1>5. Perform(m, i) = Then(Write(m, i, "dst", Long, v), sr)
  BY PerformIs DEF ExecMoveq
<1>6. translate_inst(m, i, u) = [m EXCEPT !.d[n] = Low(v, Long), !.sr = SetLogic(@, Low(v, Long), Long)]
  BY TranslateIs, ZenonT(40) DEF LiftMoveq, SetLong, m68k_flags_move
<1> HIDE DEF v
<1>7. sr \in StatusRegisters /\ SetLogic(m.sr, Low(v, Long), Long) = sr
  <2>1. m.sr \in StatusRegisters
    BY <1>1 DEF Machines
  <2>2. NewFlags(m.sr, sr)
    BY <1>4, <2>1, SetLogicIn
  <2>3. Low(v, Long) \in Int /\ Low(Low(v, Long), Long) = Low(v, Long)
    BY <1>4, LowLow, LowInt
  <2> QED BY <1>4, <2>2, <2>3, SameLow DEF NewFlags
<1>8. [m EXCEPT !.d[n] = Low(v, Long), !.sr = SetLogic(@, Low(v, Long), Long)]
          = [[m EXCEPT !.d[n] = Low(v, Long)] EXCEPT !.sr = SetLogic(m.sr, Low(v, Long), Long)]
  BY <1>1 DEF Machines
<1> DEFINE t == i["dst"]
<1>9. t = i["dst"] /\ n = t.index
  BY DEF n
<1> HIDE DEF sr, n, t
<1>10. /\ m.d[n] \in Values(Long)
       /\ Twin(D, Execute(m, i), [[m EXCEPT !.d[n] = Replaced(m.d[n], v, Long)] EXCEPT !.sr = sr])
  BY <1>1, <1>4, <1>5, <1>7, <1>9, PlainData
<1>11. Replaced(m.d[n], v, Long) = Low(v, Long)
  BY <1>4, <1>10, ReplacedLong
<1> QED BY <1>6, <1>7, <1>8, <1>10, <1>11 DEF Agrees

(* The register of SWAP and EXT is read first.                             *)
LEMMA DataFirst ==
    ASSUME EightBits, NEW D, NEW m, NEW i, Ready(D, m, i), i.kind \in {"Swap", "Ext"}, Ok(Execute(m, i)),
           NEW size \in Sizes, NEW p, p = try_decrement_address(m, i, "dst"), NEW t, t = i["dst"], NEW n,
                   n = t.index
    PROVE  /\ Twin(D, p, m) /\ p.incremented = {} /\ p.sr = m.sr /\ m.sr \in StatusRegisters
                  /\ Accessible(p, t, size)
           /\ OperandValue(p, t, size) = Low(m.d[n], size) /\ m.d[n] \in Values(Long) /\ AsDecoded(i)
<1>1. AsDecoded(i) /\ m \in Machines(D) /\ Twin(D, m, m) /\ m.incremented = {} /\ m.decremented = {}
          /\ WellFormed(i)
  BY Begins DEF Ready
<1>2. /\ i.kind \in UsesDst /\ i.kind # "Movem"
  BY SMT DEF UsesDst
<1>3. t \in Targets /\ t.kind = "DataRegister" /\ "dst" \in Roles /\ IsRegister(t)
          /\ RegisterValue(m, t) = m.d[n]
  BY <1>1, <1>2, Operands DEF AsDecoded, Given, Roles, IsRegister, RegisterValue
<1>4. /\ Twin(D, p, m) /\ p.incremented = m.incremented /\ p.sr = m.sr /\ Accessible(p, t, size)
      /\ OperandValue(p, t, size) = Low(m.d[n], size)
  <2>1. "dst" \notin m.decremented
    BY <1>1
  <2> QED BY <1>1, <1>2, <1>3, <2>1, RegisterNext
<1>5. n \in 0 .. 7
  BY <1>3, TargetIn
<1> QED BY <1>1, <1>4, <1>5, RegisterIn DEF Machines

(* SWAP.                                                                   *)
LEMMA SwapAgrees ==
    ASSUME EightBits, NEW D, NEW m, NEW i, Ready(D, m, i), i.kind = "Swap", Ok(Execute(m, i)), NEW u
    PROVE  Agrees(D, m, i, u)
<1> DEFINE t == i["dst"]
           n == t.index
           p == try_decrement_address(m, i, "dst")
           d == OperandValue(p, t, Long)
           v == (d % Span(Word)) * Span(Word) + (d \div Span(Word))
           v2 == m.d[n] \div Span(Word) + (m.d[n] % Span(Word)) * Span(Word)
           sr == SetLogic(p.sr, v, Long)
<1>1. /\ Twin(D, p, m) /\ p.incremented = {} /\ p.sr = m.sr /\ m.sr \in StatusRegisters
             /\ Accessible(p, t, Long)
      /\ d = Low(m.d[n], Long) /\ m.d[n] \in Values(Long) /\ Long \in Sizes /\ m \in Machines(D)
  <2>1. Long \in Sizes
    BY DEF Sizes
  <2>2. m \in Machines(D)
    BY DEF Ready
  <2> QED BY <2>1, <2>2, DataFirst
<1>2. Perform(m, i) = IF Accessible(p, t, Long) THEN Then(Write(p, i, "dst", Long, v), sr) ELSE Fail(p)
  <2>1. Perform(m, i) = ExecSwap(m, i)
    BY PerformIs
  <2> QED BY <2>1, Zenon DEF ExecSwap, Read
<1>3. translate_inst(m, i, u) = [m EXCEPT !.d[n] = v2, !.sr = SetLogic(@, v2, Long)]
  BY TranslateIs, ZenonT(40) DEF LiftSwap, SetLong, m68k_flags_move
<1>4. d = m.d[n]
  BY <1>1, LowKeeps
<1>5. v = v2 /\ v \in Values(Long) /\ v \in Int
  <2> DEFINE k == m.d[n]
  <2>1. k \in Int /\ 0 <= k /\ k < 4294967296 /\ d = k
    BY <1>1, <1>4, InValues
  <2> HIDE DEF k, d
  <2>2. (k % 65536) * 65536 + (k \div 65536) = k \div 65536 + (k % 65536) * 65536
    BY <2>1, SMT
  <2>3. (k % 65536) * 65536 + (k \div 65536) \in Int /\ 0 <= (k % 65536) * 65536 + (k \div 65536)
        /\ (k % 65536) * 65536 + (k \div 65536) < 4294967296
    BY <2>1, SMT
  <2>4. v = (k % 65536) * 65536 + (k \div 65536) /\ v2 = k \div 65536 + (k % 65536) * 65536
    BY <2>1, SpanValues DEF k
  <2> HIDE DEF v, v2
  <2> QED BY <2>2, <2>3, <2>4, InValues
<1>6. v = v2 /\ t = i["dst"] /\ n = t.index /\ sr = SetLogic(p.sr, v, Long)
  BY <1>5
<1> HIDE DEF v, v2, p, t, n, sr
<1>7. sr \in StatusRegisters
  BY <1>1, <1>5, <1>6, SetLogicIn DEF NewFlags
<1>8. Twin(D, Execute(m, i), [[m EXCEPT !.d[n] = Replaced(m.d[n], v, Long)] EXCEPT !.sr = sr])
  <2>1. Perform(m, i) = Then(Write(p, i, "dst", Long, v), sr)
    BY <1>1, <1>2
  <2> QED BY <1>1, <1>5, <1>6, <1>7, <2>1, PlainData
<1>9. Replaced(m.d[n], v, Long) = v
  BY <1>1, <1>5, ReplacedLong, LowKeeps
<1>10. [m EXCEPT !.d[n] = v2, !.sr = SetLogic(@, v2, Long)] = [[m EXCEPT !.d[n] = v] EXCEPT !.sr = sr]
  BY <1>1, <1>6 DEF Machines
<1> QED BY <1>3, <1>8, <1>9, <1>10 DEF Agrees

(* EXT.                                                                    *)
LEMMA ExtAgrees ==
    ASSUME EightBits, NEW D, NEW m, NEW i, Ready(D, m, i), i.kind = "Ext", Ok(Execute(m, i)), NEW u
    PROVE  Agrees(D, m, i, u)
<1> DEFINE t == i["dst"]
           n == t.index
           size == i.size
           p == try_decrement_address(m, i, "dst")
           d == OperandValue(p, t, size)
           v == Signed(d, size \div 2)
           v2 == Signed(m.d[n], size \div 2)
           sr == SetLogic(p.sr, v, size)
<1>0. size \in {Word, Long} /\ size \in Sizes
  BY WellSized DEF Ready, Sizes
<1>1. /\ Twin(D, p, m) /\ p.incremented = {} /\ p.sr = m.sr /\ m.sr \in StatusRegisters
             /\ Accessible(p, t, size)
      /\ d = Low(m.d[n], size) /\ m.d[n] \in Values(Long) /\ m \in Machines(D)
  <2>1. m \in Machines(D)
    BY DEF Ready
  <2> QED BY <1>0, <2>1, DataFirst
<1>2. Perform(m, i) = IF Accessible(p, t, size) THEN Then(Write(p, i, "dst", size, v), sr) ELSE Fail(p)
  <2>1. Perform(m, i) = ExecExt(m, i)
    BY PerformIs
  <2> QED BY <2>1, Zenon DEF ExecExt, Read
<1>3. translate_inst(m, i, u) = [m EXCEPT !.d[n] = Replaced(@, v2, size), !.sr = SetLogic(@, v2, size)]
  <2>1. translate_inst(m, i, u) = LiftExt(m, i)
    BY TranslateIs
  <2> QED BY <2>1, Zenon DEF LiftExt, m68k_flags_move
<1>5. v = v2 /\ v \in Int
  <2>1. m.d[n] \in Int
    BY <1>1, ValuesWiden
  <2> QED BY <1>0, <1>1, <2>1, LowHalf
<1>6. v = v2 /\ t = i["dst"] /\ n = t.index /\ sr = SetLogic(p.sr, v, size)
  BY <1>5
<1> HIDE DEF v, v2, p, t, n, sr, size
<1>7. sr \in StatusRegisters
  BY <1>0, <1>1, <1>5, <1>6, SetLogicIn DEF NewFlags
<1>8. Twin(D, Execute(m, i), [[m EXCEPT !.d[n] = Replaced(m.d[n], v, size)] EXCEPT !.sr = sr])
  <2>1. Perform(m, i) = Then(Write(p, i, "dst", size, v), sr)
    BY <1>1, <1>2
  <2> QED BY <1>0, <1>1, <1>5, <1>6, <1>7, <2>1, PlainData
<1>10. [m EXCEPT !.d[n] = Replaced(@, v2, size), !.sr = SetLogic(@, v2, size)]
           = [[m EXCEPT !.d[n] = Replaced(m.d[n], v, size)] EXCEPT !.sr = sr]
  BY <1>1, <1>6 DEF Machines
<1> QED BY <1>3, <1>8, <1>10 DEF Agrees

(* NOP and RESET do nothing.                                               *)
LEMMA IdleAgrees ==
    ASSUME EightBits, NEW D, NEW m, NEW i, Ready(D, m, i), i.kind \in {"Nop", "Reset"}, Ok(Execute(m, i)), NEW u
    PROVE  Agrees(D, m, i, u)
<1>1. Twin(D, m, m) /\ WellFormed(i)
  BY Begins
<1>2. "src" \notin DOMAIN i /\ "dst" \notin DOMAIN i
  <2>1. i.kind \notin UsesSrc \cup UsesDst \cup {"Movem"} \cup Shifts
    BY SMT DEF UsesDst, Shifts, UsesSrc, UsesBoth, BinaryKinds, AddressKinds, ExtendKinds, BitKinds,
           ToCcrKinds, ToSrKinds,
       QuickKinds, UnaryKinds
  <2> QED BY <1>1, <2>1, Operands
<1>3. Perform(m, i) = m /\ translate_inst(m, i, u) = m
  BY PerformIs, TranslateIs
<1>4. \A role \in Roles \cap DOMAIN i : i[role].kind # "AddressIncrement" \/ role \in m.incremented
  BY <1>2 DEF Roles
<1>5. Twin(D, Execute(m, i), m)
  BY <1>1, <1>3, <1>4, EndsStill
<1> QED BY <1>3, <1>5 DEF Agrees

-----------------------------------------------------------------------------
(***************************************************************************)
(* Control, and what goes through the stack.                               *)
(***************************************************************************)

(* A jump that the interpreter completes goes to the label.                *)
LEMMA SetPcOk ==
    ASSUME EightBits, NEW D, NEW x, NEW y, Twin(D, x, y), NEW addr \in Int, NEW target, target = addr,
               NEW r, r = SetPc(x, addr), Ok(r)
    PROVE  /\ Twin(D, r, goto(y, target))
           /\ r.incremented = x.incremented /\ r.pc = Low(addr, Long)
<1> DEFINE p == [x EXCEPT !.pc = Low(addr, Long)]
<1>1. Low(addr, Long) \in Values(Long)
  BY LowLong
<1>2. Twin(D, p, goto(y, target))
  BY <1>1, TwinSetPc DEF goto
<1>3. r = IF p.pc % 2 = 1 THEN Fail(p) ELSE p
  BY DEF SetPc
<1>4. p.incremented = x.incremented /\ p.pc = Low(addr, Long)
  BY DEF Twin, Machines
<1> HIDE DEF p
<1>5. ~Ok(Fail(p))
  BY <1>2, FailIsNotOk DEF Twin
<1> QED BY <1>2, <1>3, <1>4, <1>5

(* The label of a branch is where displace_pc leads.                       *)
LEMMA BranchIs ==
    ASSUME EightBits, NEW D, NEW m \in Machines(D), NEW i, WellFormed(i), i.kind \in {"Bcc", "Bsr"}
    PROVE  /\ branch_target(m, i) \in Int
           /\ \A x : x.pc = m.pc => displace_pc(x, i, TRUE) = SetPc(x, branch_target(m, i))
<1>1. i.kind \in UsesData /\ i.kind \in UsesSize
  BY SMT DEF UsesData, UsesSize
<1>2. i.data \in Int /\ i.size \in Sizes
  BY <1>1, DataIn, SizeIn
<1>3. Signed(i.data, i.size) \in Int
  BY <1>2, SignedIn
<1>4. m.pc \in Int
  BY ValuesWiden DEF Machines
<1> DEFINE offset == Signed(i.data, i.size)
<1>5. branch_target(m, i) = m.pc - (IF i.size = Byte THEN 0 ELSE 2) + offset
  BY DEF branch_target
<1>6. ASSUME NEW x, x.pc = m.pc
      PROVE  displace_pc(x, i, TRUE) = SetPc(x, branch_target(m, i))
  <2>1. displace_pc(x, i, TRUE) = SetPc(x, m.pc + offset - IF i.size # Byte /\ (offset < 0 \/ TRUE) THEN 2
            ELSE 0)
    BY <1>6, Zenon DEF displace_pc
  <2> HIDE DEF offset
  <2>2. m.pc + offset - (IF i.size # Byte /\ (offset < 0 \/ TRUE) THEN 2 ELSE 0) = m.pc - (IF i.size = Byte
            THEN 0 ELSE 2) + offset
    BY <1>3, <1>4 DEF offset
  <2> QED BY <1>5, <2>1, <2>2
<1>7. branch_target(m, i) \in Int
  BY <1>3, <1>4, <1>5
<1>8. \A x : x.pc = m.pc => displace_pc(x, i, TRUE) = SetPc(x, branch_target(m, i))
  BY <1>6
<1> QED BY <1>7, <1>8

(* Bcc and BRA.                                                            *)
LEMMA BccAgrees ==
    ASSUME EightBits, NEW D, NEW m, NEW i, Ready(D, m, i), i.kind = "Bcc", Ok(Execute(m, i)), NEW u
    PROVE  Agrees(D, m, i, u)
<1>1. m \in Machines(D) /\ Twin(D, m, m) /\ m.incremented = {} /\ WellFormed(i)
  BY Begins DEF Ready
<1>2. i.cond \in Conditions /\ m.sr \in StatusRegisters
  BY <1>1 DEF WellFormed, Machines
<1>3. cond_expr(m.sr, i.cond) <=> calculate_condition(m.sr, i.cond)
  BY <1>2, ConditionSame
<1>4. \A role \in Roles \cap DOMAIN i : FALSE
  BY <1>1, NoOperands
<1>5. Perform(m, i) = IF calculate_condition(m.sr, i.cond) THEN SetPc(m, branch_target(m, i)) ELSE m
  <2>1. Perform(m, i) = ExecBcc(m, i)
    BY PerformIs
  <2>2. displace_pc(m, i, TRUE) = SetPc(m, branch_target(m, i))
    BY <1>1, BranchIs
  <2> QED BY <2>1, <2>2 DEF ExecBcc
<1>6. translate_inst(m, i, u) = IF cond_expr(m.sr, i.cond) THEN goto(m, branch_target(m, i)) ELSE m
  BY TranslateIs DEF LiftBcc
<1>7. Twin(D, Perform(m, i), translate_inst(m, i, u))
  <2>1. CASE calculate_condition(m.sr, i.cond)
    <3>1. Perform(m, i) = SetPc(m, branch_target(m, i))
              /\ translate_inst(m, i, u) = goto(m, branch_target(m, i))
      BY <1>3, <1>5, <1>6, <2>1
    <3>2. Ok(SetPc(m, branch_target(m, i)))
      BY <3>1, Completes
    <3>3. branch_target(m, i) \in Int
      BY <1>1, BranchIs
    <3> QED BY <1>1, <3>1, <3>2, <3>3, SetPcOk
  <2>2. CASE ~calculate_condition(m.sr, i.cond)
    BY <1>1, <1>3, <1>5, <1>6, <2>2
  <2> QED BY <2>1, <2>2
<1> QED BY <1>4, <1>7, EndsStill DEF Agrees

(* Both sides push, whether or not there is memory for it.                 *)
LEMMA TwinPush ==
    ASSUME EightBits, NEW D, NEW x, NEW y, Twin(D, x, y), NEW size \in Sizes, NEW v \in Int, NEW w \in Int,
           Low(v, size) = Low(w, size), NEW p, p = SetStackPtr(y, stack_ptr(y) - size),
           NEW z, z = recomp_mem_write(p, stack_ptr(p), size, w), NEW r, r = push_stack(x, size, v)
    PROVE  /\ Twin(D, r, z) /\ r.incremented = x.incremented /\ r.pc = x.pc /\ r.sr = x.sr
           /\ z.pc = y.pc /\ z.sr = y.sr
<1> DEFINE sp == Low(stack_ptr(x) - size, Long)
           q == SetStackPtr(x, sp)
<1>1. stack_ptr(x) \in Int /\ size \in Int /\ stack_ptr(y) = stack_ptr(x)
  <2>1. stack_ptr(x) \in Values(Long)
    BY StackPtrIn DEF Twin
  <2> QED BY <2>1, ValuesWiden, TwinRegisters DEF Sizes, Byte, Word, Long
<1>2. stack_ptr(x) - size \in Int
  BY <1>1
<1>3. sp \in Values(Long) /\ sp \in Int
  BY <1>2, LowInt DEF Sizes
<1>4. p = SetStackPtr(y, sp)
  <2>1. Low(sp, Long) = sp
    BY <1>3, LowKeeps
  <2> HIDE DEF sp
  <2>2. Low(stack_ptr(y) - size, Long) = Low(sp, Long)
    BY <1>1, <2>1 DEF sp
  <2> QED BY <2>2 DEF SetStackPtr
<1>5. r = IF Mapped(q, sp, size) THEN Put(q, sp, size, v) ELSE q
  BY Zenon DEF push_stack
<1> HIDE DEF sp
<1>6. Twin(D, q, p)
  BY <1>3, <1>4, TwinStackPtr
<1>7. /\ q.incremented = x.incremented /\ q.pc = x.pc /\ q.sr = x.sr /\ p.pc = y.pc /\ p.sr = y.sr
      /\ stack_ptr(p) = sp
  <2>1. stack_ptr(p) = Low(sp, Long)
    BY <1>3, <1>4, SetStackPtrIn DEF Twin
  <2>2. x \in Machines(D) /\ y \in Machines(D)
    BY DEF Twin
  <2>3. \A f \in DOMAIN x \ {"usp", "ssp"} : q[f] = x[f]
    BY <1>3, <2>2, SetStackPtrIn
  <2>4. \A f \in DOMAIN y \ {"usp", "ssp"} : p[f] = y[f]
    BY <1>3, <1>4, <2>2, SetStackPtrIn
  <2>5. {"incremented", "pc", "sr"} \subseteq DOMAIN x \ {"usp", "ssp"}
            /\ {"pc", "sr"} \subseteq DOMAIN y \ {"usp", "ssp"}
    BY <2>2 DEF Machines
  <2> QED BY <1>3, <2>1, <2>3, <2>4, <2>5, LowKeeps
<1> HIDE DEF q
<1>8. z = IF Mapped(p, sp, size) THEN Put(p, sp, size, w) ELSE p
  BY <1>7 DEF recomp_mem_write
<1>9. Mapped(p, sp, size) <=> Mapped(q, sp, size)
  BY <1>6, TwinAddress
<1>10. CASE Mapped(q, sp, size)
  <2>1. Put(p, sp, size, w) = Put(p, sp, size, v)
    BY <1>3, PutLow
  <2>2. r = Put(q, sp, size, v) /\ z = Put(p, sp, size, v)
    BY <1>5, <1>8, <1>9, <1>10, <2>1
  <2>3. Twin(D, r, z)
    BY <1>3, <1>6, <1>10, <2>2, TwinPut
  <2>4. r.incremented = q.incremented /\ r.pc = q.pc /\ r.sr = q.sr /\ z.pc = p.pc /\ z.sr = p.sr
    BY <1>6, <2>2 DEF Put, Twin, Machines
  <2> QED BY <1>7, <2>3, <2>4
<1>11. CASE ~Mapped(q, sp, size)
  BY <1>5, <1>6, <1>7, <1>8, <1>9, <1>11
<1> QED BY <1>10, <1>11

(* The same of a long.                                                     *)
LEMMA Push32 ==
    ASSUME EightBits, NEW D, NEW x, NEW y, Twin(D, x, y), NEW v \in Int, NEW w \in Int,
               Low(v, Long) = Low(w, Long),
           NEW r, r = push_stack(x, Long, v), NEW z, z = recomp_push32(y, w)
    PROVE  /\ Twin(D, r, z) /\ r.incremented = x.incremented /\ r.pc = x.pc /\ r.sr = x.sr
           /\ z.pc = y.pc /\ z.sr = y.sr
<1> DEFINE p == SetStackPtr(y, stack_ptr(y) - Long)
<1>1. z = recomp_mem_write(p, stack_ptr(p), Long, w) /\ p = SetStackPtr(y, stack_ptr(y) - Long)
          /\ Long \in Sizes
  BY DEF recomp_push32, Sizes
<1> HIDE DEF p
<1> QED BY <1>1, TwinPush

(* BSR.                                                                    *)
LEMMA BsrAgrees ==
    ASSUME EightBits, NEW D, NEW m, NEW i, Ready(D, m, i), i.kind = "Bsr", Ok(Execute(m, i)), NEW u
    PROVE  Agrees(D, m, i, u)
<1> DEFINE p == push_stack(m, Long, m.pc)
           q == recomp_push32(m, m.pc)
<1>1. m \in Machines(D) /\ Twin(D, m, m) /\ m.incremented = {} /\ WellFormed(i)
  BY Begins DEF Ready
<1>2. m.pc \in Int
  BY <1>1, ValuesWiden DEF Machines
<1>3. Twin(D, p, q) /\ p.incremented = {} /\ p.pc = m.pc
  BY <1>1, <1>2, Push32
<1>4. Perform(m, i) = displace_pc(p, i, TRUE)
  BY PerformIs DEF ExecBsr
<1>5. translate_inst(m, i, u) = goto(q, branch_target(m, i))
  BY TranslateIs DEF LiftBsr
<1> HIDE DEF p, q
<1>6. Perform(m, i) = SetPc(p, branch_target(m, i)) /\ branch_target(m, i) \in Int
  BY <1>1, <1>3, <1>4, BranchIs
<1>7. Ok(Perform(m, i))
  BY Completes
<1>8. Twin(D, Perform(m, i), goto(q, branch_target(m, i)))
  BY <1>3, <1>6, <1>7, SetPcOk
<1>9. \A role \in Roles \cap DOMAIN i : FALSE
  BY <1>1, NoOperands
<1> QED BY <1>5, <1>8, <1>9, EndsStill DEF Agrees

(* TRAP and TRAPV.                                                         *)
LEMMA TrapAgrees ==
    ASSUME EightBits, NEW D, NEW m, NEW i, Ready(D, m, i), i.kind \in {"Trap", "Trapv"}, Ok(Execute(m, i)),
               NEW u
    PROVE  Agrees(D, m, i, u)
<1>1. AsDecoded(i) /\ m \in Machines(D) /\ Twin(D, m, m) /\ m.incremented = {} /\ WellFormed(i)
  BY Begins DEF Ready
<1>2. \A role \in Roles \cap DOMAIN i : FALSE
  BY <1>1, NoOperands
<1>3. Perform(m, i) = IF i.kind = "Trapv" /\ m.sr.v = 0 THEN m ELSE Exception(m, i.data, LAMBDA e : e)
  BY PerformIs DEF ExecTrap
<1>4. translate_inst(m, i, u) = IF i.kind = "Trap" THEN recomp_trap(m, 32 + (i.data % 16))
                                ELSE IF m.sr.v = 1 THEN recomp_trap(m, 7) ELSE m
  BY TranslateIs DEF LiftTrap
<1>5. \A vector : recomp_trap(m, vector) = Exception(m, vector, LAMBDA e : e)
  BY DEF recomp_trap
<1>6. Perform(m, i) = translate_inst(m, i, u)
  <2>1. m.sr.v \in {0, 1}
    BY <1>1 DEF Machines, StatusRegisters, Bit
  <2>2. CASE i.kind = "Trap"
    <3>1. i.data \in 32 .. 47
      BY <1>1, <2>2 DEF AsDecoded, Given
    <3>2. 32 + (i.data % 16) = i.data
      BY <3>1
    <3>3. Perform(m, i) = Exception(m, i.data, LAMBDA e : e)
      BY <1>3, <2>2
    <3>4. translate_inst(m, i, u) = recomp_trap(m, i.data)
      BY <1>4, <2>2, <3>2
    <3> QED BY <1>5, <3>3, <3>4
  <2>3. CASE i.kind = "Trapv"
    <3>1. i.data = 7
      BY <1>1, <2>3 DEF AsDecoded, Given
    <3>2. CASE m.sr.v = 0
      BY <1>3, <1>4, <2>3, <3>2
    <3>3. CASE m.sr.v = 1
      <4>1. Perform(m, i) = Exception(m, i.data, LAMBDA e : e)
        BY <1>3, <2>3, <3>3
      <4>2. translate_inst(m, i, u) = recomp_trap(m, i.data)
        BY <1>4, <2>3, <3>1, <3>3
      <4> QED BY <1>5, <4>1, <4>2
    <3> QED BY <2>1, <3>2, <3>3
  <2> QED BY <2>2, <2>3
<1>7. Perform(m, i) \in Machines(D)
  BY Completes
<1> QED BY <1>2, <1>6, <1>7, TwinSelf, EndsStill DEF Agrees

(* The bus has less than a long.                                           *)
LEMMA BusLow == ASSUME EightBits, NEW v \in Int PROVE Bus(v) = Bus(Low(v, Long))
<1>1. 2 ^ (3 * BYTE) = 16777216
  BY BusIs
<1>2. v % 16777216 = (v % 4294967296) % 16777216
  BY SMT
<1> QED BY <1>1, <1>2, SpanValues DEF Bus, Low

(* The expression of LEA, PEA, JMP and JSR is the effective address, where *)
(* that is on the bus.                                                     *)
LEMMA ExprIs ==
    ASSUME EightBits, NEW D, NEW x \in Machines(D), NEW t \in Targets, HasFixedAddress(t), t.kind # "Immediate",
           NEW sea, sea = static_ea(t, x.pc), NEW at, at = effective_address(x, t), at = Bus(at)
    PROVE  ea_expr(x, t, sea) = at
<1>1. t.kind \in {"Address", "AddressDisplacement", "AddressIndex", "ProgramCounterIndex"} \cup Static
  BY DEF Targets, HasFixedAddress, IsMemory, IsRegister, Stepped, Relative, Static
<1>2. x.pc \in Int
  BY ValuesWiden DEF Machines
<1>3. CASE t.kind = "Address"
  <2>1. t.index \in 0 .. 7
    BY <1>3 DEF Targets, Stepped, Relative
  <2>2. a_reg(x, t.index) \in Values(Long)
    BY <2>1, RegisterIn
  <2>3. at = Low(a_reg(x, t.index), Long) /\ ea_expr(x, t, sea) = a_reg(x, t.index)
    BY <1>3 DEF effective_address, ea_expr, Static
  <2> QED BY <2>2, <2>3, LowKeeps
<1>4. CASE t.kind \in Static
  <2>1. ea_expr(x, t, sea) = sea
    BY <1>4 DEF ea_expr, Static
  <2> QED BY <1>4, <2>1, StaticIs
<1>5. CASE t.kind = "ProgramCounterIndex"
  <2> DEFINE v == indexed_address(x, t, x.pc - 2)
  <2>1. v \in Int
    BY <1>2, <1>5, IndexIn
  <2>2. at = Low(v, Long) /\ ea_expr(x, t, sea) = Bus(v)
    BY <1>5 DEF effective_address, ea_expr, Static
  <2> HIDE DEF v
  <2> QED BY <2>1, <2>2, BusLow
<1>6. CASE t.kind \in {"AddressDisplacement", "AddressIndex"}
  BY <1>6 DEF ea_expr, Static
<1> QED BY <1>1, <1>3, <1>4, <1>5, <1>6

(* The operand of LEA and PEA.                                             *)
LEMMA AtFixed ==
    ASSUME EightBits, NEW D, NEW m, NEW i, Ready(D, m, i), i.kind \in {"Lea", "Pea"}, NEW u, NEW r,
               ~Deviates(m, i, u, r),
           NEW t, t = i["src"]
    PROVE  /\ t \in Targets /\ HasFixedAddress(t) /\ m \in Machines(D) /\ Twin(D, m, m) /\ m.incremented = {}
           /\ effective_address(m, t) \in Int /\ ea_expr(m, t, ea(m, i, u, "src")) = effective_address(m, t)
           /\ WellFormed(i) /\ "src" \in DOMAIN i
<1>1. AsDecoded(i) /\ m \in Machines(D) /\ Twin(D, m, m) /\ m.incremented = {} /\ WellFormed(i)
  BY Begins DEF Ready
<1>2. i.kind \in UsesSrc /\ i.kind \notin {"Movem"} \cup Shifts /\ i.kind \notin {"Move", "Movea"}
  BY SMT DEF UsesSrc, UsesBoth, Shifts
<1>3. "src" \in DOMAIN i /\ t \in Targets /\ "src" \in Roles \cap DOMAIN i
  BY <1>1, <1>2, Operands DEF Roles
<1>4. HasFixedAddress(t) /\ t.kind # "Immediate"
  <2>1. HasFixedAddress(t)
    BY <1>1, <1>3 DEF WellFormed, OperandsFit
  <2>2. ~Illegal(i)
    BY Zenon DEF Deviates
  <2>3. t.kind # "Immediate"
    BY <1>3, <2>2 DEF Illegal, Is
  <2> QED BY <2>1, <2>3
<1>5. effective_address(m, t) = Bus(effective_address(m, t))
  BY DEF Deviates, OffTheBus
<1>6. ea(m, i, u, "src") = static_ea(t, m.pc)
  BY <1>2, <1>3, EaIs, ZenonT(40)
<1>7. ea_expr(m, t, ea(m, i, u, "src")) = effective_address(m, t)
  BY <1>1, <1>3, <1>4, <1>5, <1>6, ExprIs
<1>8. effective_address(m, t) \in Int
  BY <1>1, <1>3, <1>4, AddressIn, ValuesWiden DEF HasFixedAddress
<1> QED BY <1>1, <1>3, <1>4, <1>7, <1>8

(* LEA of an address on the bus.                                           *)
LEMMA LeaAgrees ==
    ASSUME EightBits, NEW D, NEW m, NEW i, Ready(D, m, i), i.kind = "Lea", Ok(Execute(m, i)), NEW u,
           ~Deviates(m, i, u, Execute(m, i))
    PROVE  Agrees(D, m, i, u)
<1> DEFINE t == i["src"]
           at == effective_address(m, t)
           n == i["dst"].index
<1>1. /\ t \in Targets /\ HasFixedAddress(t) /\ m \in Machines(D) /\ Twin(D, m, m) /\ m.incremented = {}
      /\ at \in Int /\ ea_expr(m, t, ea(m, i, u, "src")) = at /\ WellFormed(i)
  BY AtFixed
<1>2. i.kind \in UsesDst /\ i.kind # "Movem"
  BY SMT DEF UsesDst, UsesBoth
<1>3. "dst" \in DOMAIN i /\ i["dst"] \in Targets /\ "dst" \in Roles /\ i["dst"].kind = "AddressRegister"
  BY <1>1, <1>2, Operands DEF Roles, Ready, AsDecoded, Given
<1>4. Perform(m, i) = Write(m, i, "dst", Long, at)
  BY PerformIs DEF ExecLea
<1>5. translate_inst(m, i, u) = SetA(m, n, at)
  BY <1>1, TranslateIs DEF LiftLea
<1>6. t.kind # "AddressIncrement"
  BY <1>1 DEF HasFixedAddress, Stepped
<1> HIDE DEF at
<1> DEFINE w == Perform(m, i)
<1>7. Placed(D, w, m, SetA(m, n, at), "dst")
  BY <1>1, <1>3, <1>4, SetsAddress
<1>8. Twin(D, w, SetA(m, n, at))
  BY <1>7 DEF Placed
<1>9. \A role \in Roles \cap DOMAIN i : i[role].kind # "AddressIncrement"
  BY <1>3, <1>6 DEF Roles
<1>10. Twin(D, Execute(m, i), SetA(m, n, at))
  BY <1>8, <1>9, EndsStill
<1> QED BY <1>5, <1>10 DEF Agrees

(* PEA of an address on the bus.                                           *)
LEMMA PeaAgrees ==
    ASSUME EightBits, NEW D, NEW m, NEW i, Ready(D, m, i), i.kind = "Pea", Ok(Execute(m, i)), NEW u,
           ~Deviates(m, i, u, Execute(m, i))
    PROVE  Agrees(D, m, i, u)
<1> DEFINE t == i["src"]
           at == effective_address(m, t)
<1>1. /\ t \in Targets /\ HasFixedAddress(t) /\ m \in Machines(D) /\ Twin(D, m, m) /\ m.incremented = {}
      /\ at \in Int /\ ea_expr(m, t, ea(m, i, u, "src")) = at /\ WellFormed(i)
  BY AtFixed
<1>2. i.kind \notin UsesDst /\ i.kind # "Movem"
  BY SMT DEF UsesDst, UsesBoth, BinaryKinds, AddressKinds, ExtendKinds, BitKinds, QuickKinds, UnaryKinds, Shifts
<1>3. "dst" \notin DOMAIN i
  BY <1>1, <1>2, Operands
<1>4. Perform(m, i) = push_stack(m, Long, at)
  BY PerformIs DEF ExecPea
<1>5. translate_inst(m, i, u) = recomp_push32(m, at)
  BY <1>1, TranslateIs DEF LiftPea
<1>6. t.kind # "AddressIncrement"
  BY <1>1 DEF HasFixedAddress, Stepped
<1> HIDE DEF at
<1>7. Twin(D, Perform(m, i), recomp_push32(m, at))
  BY <1>1, <1>4, Push32
<1>9. \A role \in Roles \cap DOMAIN i : i[role].kind # "AddressIncrement"
  BY <1>3, <1>6 DEF Roles
<1> QED BY <1>5, <1>7, <1>9, EndsStill DEF Agrees

(* A push moves no address that is not relative to the stack pointer.      *)
LEMMA PushedBeside ==
    ASSUME EightBits, NEW D, NEW m \in Machines(D), NEW v \in Int, NEW p, p = recomp_push32(m, v),
               NEW t \in Targets, ~Uses(t, 7)
    PROVE  /\ p \in Machines(D) /\ p.pc = m.pc
                  /\ (HasFixedAddress(t) => effective_address(p, t) = effective_address(m, t))
<1> DEFINE q == SetStackPtr(m, stack_ptr(m) - Long)
<1>1. p \in Machines(D) /\ p.pc = m.pc
  <2> DEFINE r == push_stack(m, Long, v)
  <2>1. r = push_stack(m, Long, v) /\ Twin(D, m, m)
    BY TwinSelf
  <2> HIDE DEF r
  <2> QED BY <2>1, Push32 DEF Twin
<1>2. p = IF Mapped(q, stack_ptr(q), Long) THEN Put(q, stack_ptr(q), Long, v) ELSE q
  BY DEF recomp_push32, recomp_mem_write
<1>3. q.a = m.a /\ q.d = m.d
  BY DEF SetStackPtr, Machines
<1> HIDE DEF q
<1>4. p.a = m.a /\ p.d = m.d
  <2>1. CASE Mapped(q, stack_ptr(q), Long)
    <3>1. p.a = q.a /\ p.d = q.d
      BY <1>2, <2>1 DEF Put
    <3> QED BY <1>3, <3>1
  <2> QED BY <1>2, <1>3, <2>1
<1>5. \A n \in 0 .. 6 : a_reg(p, n) = a_reg(m, n)
  BY <1>4 DEF a_reg
<1>6. ASSUME HasFixedAddress(t)
      PROVE  effective_address(p, t) = effective_address(m, t)
  <2>1. t.kind \in {"Address", "AddressDisplacement", "AddressIndex"} => t.index \in 0 .. 6
    <3>1. t.kind \in {"Address", "AddressDisplacement", "AddressIndex"} => t.index \in 0 .. 7
              /\ "index" \in DOMAIN t
      BY DEF Targets, Stepped, Relative
    <3> QED BY <3>1 DEF Uses, On
  <2>2. t.kind \in {"AddressIndex", "ProgramCounterIndex"}
            => \A base : indexed_address(p, t, base) = indexed_address(m, t, base)
    <3>1. SUFFICES ASSUME t.kind \in {"AddressIndex", "ProgramCounterIndex"}, NEW base
                   PROVE  indexed_address(p, t, base) = indexed_address(m, t, base)
      OBVIOUS
    <3>2. "xreg" \in DOMAIN t /\ t.xreg \in [kind : {"DataRegister", "AddressRegister"}, index : 0 .. 7]
      BY <3>1 DEF Targets, Stepped, Relative
    <3>3. t.xreg # AddrReg(7)
      BY <3>2 DEF Uses
    <3>4. t.xreg.kind = "AddressRegister" => t.xreg.index \in 0 .. 6
      <4>1. t.xreg = [kind |-> t.xreg.kind, index |-> t.xreg.index]
        BY <3>2
      <4> QED BY <3>2, <3>3, <4>1 DEF AddrReg
    <3> QED BY <1>4, <1>5, <3>4 DEF indexed_address
  <2>3. t.kind \in {"Address", "AddressDisplacement", "AddressIndex", "ProgramCounterIndex",
            "Immediate"} \cup Static
    BY <1>6 DEF Targets, HasFixedAddress, IsMemory, IsRegister, Stepped, Relative, Static
  <2>4. CASE t.kind = "AddressIndex"
    BY <1>5, <2>1, <2>2, <2>4 DEF effective_address
  <2>5. CASE t.kind = "ProgramCounterIndex"
    BY <1>1, <2>2, <2>5 DEF effective_address
  <2>6. CASE t.kind \in {"Address", "AddressDisplacement"}
    BY <1>5, <2>1, <2>6 DEF effective_address
  <2>7. CASE t.kind \in Static \cup {"Immediate"}
    BY <1>1, <2>7 DEF effective_address, Static
  <2> QED BY <2>3, <2>4, <2>5, <2>6, <2>7
<1> QED BY <1>1, <1>6

(* JMP and JSR to an address on the bus.                                   *)
LEMMA JumpAgrees ==
    ASSUME EightBits, NEW D, NEW m, NEW i, Ready(D, m, i), i.kind \in {"Jmp", "Jsr"}, Ok(Execute(m, i)), NEW u,
           ~Deviates(m, i, u, Execute(m, i))
    PROVE  Agrees(D, m, i, u)
<1> DEFINE t == i["dst"]
           at == effective_address(m, t)
           x == IF i.kind = "Jsr" THEN push_stack(m, Long, m.pc) ELSE m
           y == IF i.kind = "Jsr" THEN recomp_push32(m, m.pc) ELSE m
           sea == static_ea(t, m.pc)
           expr == ea_expr(y, t, sea)
           done == Perform(m, i)
<1>1. AsDecoded(i) /\ m \in Machines(D) /\ Twin(D, m, m) /\ m.incremented = {} /\ WellFormed(i)
  BY Begins DEF Ready
<1>2. i.kind \in UsesDst /\ i.kind # "Movem" /\ i.kind \notin UsesSrc \cup {"Movem"} \cup Shifts
          /\ i.kind # "Btst"
  BY SMT DEF UsesDst, UsesSrc, UsesBoth, BinaryKinds, AddressKinds, ExtendKinds, BitKinds, QuickKinds,
         UnaryKinds, Shifts,
     ToCcrKinds, ToSrKinds
<1>3. "dst" \in Roles \cap DOMAIN i /\ t \in Targets /\ "src" \notin DOMAIN i
  BY <1>1, <1>2, Operands DEF Roles
<1>4. HasFixedAddress(t) /\ t.kind # "Immediate"
  <2>1. HasFixedAddress(t)
    BY <1>1, <1>2, <1>3 DEF WellFormed, OperandsFit
  <2>2. t.kind # "Immediate"
    BY <1>1, <1>2, <1>3, OperandsAre DEF Roles
  <2> QED BY <2>1, <2>2
<1>5. m.pc \in Int /\ at \in Int /\ at \in Values(Long)
  <2>1. m.pc \in Values(Long)
    BY <1>1 DEF Machines
  <2>2. at \in Values(Long)
    BY <1>1, <1>3, <1>4, AddressIn DEF HasFixedAddress
  <2> QED BY <2>1, <2>2, ValuesWiden
<1>6. Twin(D, x, y) /\ x.incremented = {} /\ y.pc = m.pc
  BY <1>1, <1>5, Push32
<1>7. done = SetPc(x, at)
  BY PerformIs DEF ExecJump
<1>8. translate_inst(m, i, u) = goto(y, IF sea # 0 THEN sea ELSE IF i.kind = "Jmp" THEN Bus(expr) ELSE expr)
  <2>1. ea(m, i, u, "dst") = sea
    BY <1>3, EaIs
  <2> QED BY <2>1, TranslateIs DEF LiftJump
<1>9. Ok(done)
  BY Completes
<1>10. effective_address(y, t) = at
  <2>1. i.kind = "Jsr" => ~Uses(t, 7)
    BY DEF Deviates, Incomplete
  <2> QED BY <1>1, <1>3, <1>4, <1>5, <2>1, PushedBeside
<1>12. t.kind # "AddressIncrement" /\ \A role \in Roles \cap DOMAIN i : i[role].kind # "AddressIncrement"
  BY <1>3, <1>4 DEF HasFixedAddress, Stepped, Roles
<1>11. done = Perform(m, i) /\ sea = static_ea(t, m.pc) /\ expr = ea_expr(y, t, sea)
  OBVIOUS
<1> HIDE DEF x, y, at, done, sea, expr
<1>13. done.pc = at /\ done.incremented = {} /\ Twin(D, done, goto(y, at))
  BY <1>5, <1>6, <1>7, <1>9, SetPcOk, LowKeeps
<1>14. at = Bus(at)
  <2>1. Twin(D, Execute(m, i), goto(y, at))
    BY <1>11, <1>12, <1>13, EndsStill
  <2>2. Execute(m, i).pc = done.pc
    BY <1>13, <2>1 DEF Twin, Same
  <2>3. Execute(m, i).pc = Bus(Execute(m, i).pc)
    BY DEF Deviates, OffTheBus
  <2> QED BY <1>13, <2>2, <2>3
<1>15. expr = at
  <2>1. y \in Machines(D) /\ sea = static_ea(t, y.pc)
    BY <1>6, <1>11 DEF Twin
  <2>2. at = effective_address(y, t)
    BY <1>10
  <2> QED BY <1>3, <1>4, <1>11, <1>14, <2>1, <2>2, ExprIs
<1>16. sea # 0 => sea = at
  <2>1. t.kind \in Static => sea = at
    BY <1>1, <1>3, <1>11, StaticIs DEF at
  <2>2. t.kind \notin Static => sea = 0
    BY <1>11 DEF static_ea, Static
  <2> QED BY <2>1, <2>2
<1>17. translate_inst(m, i, u) = goto(y, at)
  BY <1>8, <1>14, <1>15, <1>16
<1> QED BY <1>11, <1>12, <1>13, <1>17, EndsStill DEF Agrees

-----------------------------------------------------------------------------
(***************************************************************************)
(* Exchange.                                                               *)
(***************************************************************************)

(* EXG.                                                                    *)
LEMMA ExgAgrees ==
    ASSUME EightBits, NEW D, NEW m, NEW i, Ready(D, m, i), i.kind = "Exg", Ok(Execute(m, i)), NEW u
    PROVE  Agrees(D, m, i, u)
<1> DEFINE a == i["src"]
           b == i["dst"]
           p == try_decrement_address(m, i, "src")
           q == try_decrement_address(p, i, "dst")
           s == OperandValue(p, a, Long)
           d == OperandValue(q, b, Long)
           w1 == Write(q, i, "dst", Long, s)
           w2 == Write(w1, i, "src", Long, d)
<1>1. m \in Machines(D) /\ Twin(D, m, m) /\ m.incremented = {} /\ m.decremented = {} /\ WellFormed(i)
  BY Begins DEF Ready
<1>2. i.kind \in UsesSrc /\ i.kind \in UsesDst /\ i.kind \notin {"Movem"} \cup Shifts
  BY SMT DEF UsesSrc, UsesDst, UsesBoth, Shifts
<1>3. /\ a \in Targets /\ b \in Targets /\ IsRegister(a) /\ IsRegister(b)
      /\ "src" \in Roles /\ "dst" \in Roles
  BY <1>1, <1>2, Operands DEF Roles, WellFormed, OperandsFit
<1>4. Perform(m, i) = IF Accessible(p, a, Long) THEN (IF Accessible(q, b, Long) THEN w2 ELSE Fail(q))
          ELSE Fail(p)
  BY PerformIs, Zenon DEF ExecExg, Read
<1>5. translate_inst(m, i, u) = SetR(SetR(m, a, RegisterValue(m, b)), b, RegisterValue(m, a))
  <2>1. translate_inst(m, i, u) = LiftExg(m, i)
    BY TranslateIs
  <2>2. \A t : IsRegister(t) => read_operand(m, t, 0, Long) = RegisterValue(m, t)
    BY RegisterMoot
  <2>3. read_operand(m, a, 0, Long) = RegisterValue(m, a) /\ read_operand(m, b, 0, Long) = RegisterValue(m, b)
    BY <1>3, <2>2
  <2>4. translate_inst(m, i, u) = SetR(SetR(m, a, read_operand(m, b, 0, Long)), b, read_operand(m, a, 0, Long))
    BY <2>1, Zenon DEF LiftExg, SetR, SetD
  <2> QED BY <2>3, <2>4
<1>6. /\ Twin(D, p, m) /\ p.decremented = {"src"} /\ p.incremented = {} /\ Accessible(p, a, Long)
      /\ s = Low(RegisterValue(m, a), Long)
  <2>1. /\ Twin(D, p, m) /\ p.decremented = m.decremented \cup {"src"} /\ p.incremented = m.incremented
        /\ \A size : Accessible(p, a, size) /\ OperandValue(p, a, size) = Low(RegisterValue(m, a), size)
    <3>1. "src" \notin m.decremented
      BY <1>1
    <3> QED BY <1>1, <1>2, <1>3, <3>1, RegisterNext
  <2> QED BY <1>1, <2>1
<1>7. p = try_decrement_address(m, i, "src") /\ q = try_decrement_address(p, i, "dst")
  OBVIOUS
<1> HIDE DEF p
<1>8. /\ Twin(D, q, m) /\ q.incremented = {} /\ Accessible(q, b, Long) /\ d = Low(RegisterValue(m, b), Long)
  <2>1. /\ Twin(D, q, m) /\ q.decremented = p.decremented \cup {"dst"} /\ q.incremented = p.incremented
        /\ \A size : Accessible(q, b, size) /\ OperandValue(q, b, size) = Low(RegisterValue(m, b), size)
    <3>1. "dst" \notin p.decremented
      BY <1>6
    <3> QED BY <1>2, <1>3, <1>6, <1>7, <3>1, RegisterNext
  <2> QED BY <1>6, <2>1
<1>9. RegisterValue(m, a) \in Values(Long) /\ RegisterValue(m, b) \in Values(Long)
  <2>1. a.index \in 0 .. 7 /\ b.index \in 0 .. 7
    BY <1>3, TargetIn
  <2> QED BY <1>1, <2>1, RegisterIn DEF RegisterValue
<1> HIDE DEF q, s, d
<1>10. s = RegisterValue(m, a) /\ d = RegisterValue(m, b)
  BY <1>6, <1>8, <1>9, LowKeeps
<1>11. Perform(m, i) = w2
  BY <1>4, <1>6, <1>8
<1>12. Placed(D, w1, q, SetR(m, b, s), "dst")
  BY <1>2, <1>3, <1>8, <1>9, <1>10, SetsRegister
<1>13. w2 = Write(w1, i, "src", Long, d) /\ Twin(D, w1, SetR(m, b, s))
  BY <1>12 DEF Placed
<1> HIDE DEF w1, w2
<1>14. Placed(D, w2, w1, SetR(SetR(m, b, s), a, d), "src")
  BY <1>2, <1>3, <1>9, <1>10, <1>13, SetsRegister
<1>15. SetR(SetR(m, a, d), b, s) = SetR(SetR(m, b, s), a, d)
  BY <1>1, <1>3, <1>10, Exchanges
<1>16. Twin(D, w2, translate_inst(m, i, u))
  BY <1>5, <1>10, <1>14, <1>15 DEF Placed
<1>17. \A role \in Roles \cap DOMAIN i : i[role].kind # "AddressIncrement"
  BY <1>3 DEF Roles, IsRegister
<1> QED BY <1>11, <1>16, <1>17, EndsStill DEF Agrees

-----------------------------------------------------------------------------
(***************************************************************************)
(* Loops, frames and returns.                                              *)
(***************************************************************************)

(* The label of DBcc is where the interpreter's two corrections of the     *)
(* program counter lead.                                                   *)
LEMMA DisplaceIs ==
    ASSUME EightBits, NEW D, NEW m \in Machines(D), NEW i, WellFormed(i), i.kind = "Dbcc",
               NEW w \in Machines(D), w.pc = m.pc,
           NEW back, back = IF Signed(i.data, Word) >= 0 THEN 2 ELSE 0
    PROVE  /\ branch_target(m, i) \in Int
           /\ displace_pc([w EXCEPT !.pc = @ - back], i, FALSE) = SetPc(w, branch_target(m, i))
<1> DEFINE offset == Signed(i.data, Word)
           x == [w EXCEPT !.pc = @ - back]
<1>1. i.kind \in UsesData /\ i.kind \in UsesSize
  BY SMT DEF UsesData, UsesSize
<1>2. i.data \in Int /\ i.size = Word /\ Word \in Sizes /\ Word # Byte
  BY <1>1, DataIn DEF WellFormed, SizesOf, Sizes, Byte, Word, Long, AddressKinds
<1>3. offset \in Int
  BY <1>2, SignedIn
<1>4. m.pc \in Int
  BY ValuesWiden DEF Machines
<1>5. branch_target(m, i) = m.pc - 2 + offset
  BY <1>2 DEF branch_target
<1>6. displace_pc(x, i, FALSE) = SetPc(x, x.pc + offset - IF offset < 0 THEN 2 ELSE 0)
  <2>1. displace_pc(x, i, FALSE) = SetPc(x, x.pc + Signed(i.data, i.size)
            - IF i.size # Byte /\ (Signed(i.data, i.size) < 0 \/ FALSE) THEN 2 ELSE 0)
    BY Zenon DEF displace_pc
  <2> QED BY <1>2, <2>1
<1>7. x.pc = m.pc - back
  BY DEF Machines
<1>8. SetPc(x, branch_target(m, i)) = SetPc(w, branch_target(m, i))
  BY SetPcTwice
<1>9. back = IF offset >= 0 THEN 2 ELSE 0
  OBVIOUS
<1> HIDE DEF offset, x
<1>10. x.pc + offset - (IF offset < 0 THEN 2 ELSE 0) = m.pc - 2 + offset
  <2>1. CASE offset >= 0
    <3>1. ~(offset < 0) /\ back = 2
      BY <1>3, <1>9, <2>1
    <3> QED BY <1>3, <1>4, <1>7, <3>1
  <2>2. CASE offset < 0
    <3>1. back = 0
      BY <1>3, <1>9, <2>2
    <3> QED BY <1>3, <1>4, <1>7, <2>2, <3>1
  <2> QED BY <1>3, <2>1, <2>2
<1>11. displace_pc(x, i, FALSE) = SetPc(x, branch_target(m, i))
  BY <1>5, <1>6, <1>10
<1>12. branch_target(m, i) \in Int
  BY <1>3, <1>4, <1>5
<1> QED BY <1>8, <1>11, <1>12 DEF x

(* DBcc, for every condition but True.                                     *)
LEMMA DbccAgrees ==
    ASSUME EightBits, NEW D, NEW m, NEW i, Ready(D, m, i), i.kind = "Dbcc", Ok(Execute(m, i)), NEW u,
           ~Deviates(m, i, u, Execute(m, i))
    PROVE  Agrees(D, m, i, u)
<1> DEFINE t == i["dst"]
           n == t.index
           p == try_decrement_address(m, i, "dst")
           d == OperandValue(p, t, Word)
           w == Write(p, i, "dst", Word, d - 1)
           back == IF Signed(i.data, Word) >= 0 THEN 2 ELSE 0
           jumped == displace_pc([w EXCEPT !.pc = @ - back], i, FALSE)
           count == Low(m.d[n] - 1, Word)
           q == [m EXCEPT !.d[n] = Replaced(m.d[n], count, Word)]
<1>1. m \in Machines(D) /\ Twin(D, m, m) /\ m.incremented = {} /\ m.decremented = {} /\ WellFormed(i)
  BY Begins DEF Ready
<1>2. i.kind \in UsesDst /\ i.kind \notin UsesSrc \cup {"Movem"} \cup Shifts
  BY SMT DEF UsesSrc, UsesDst, UsesBoth, BinaryKinds, AddressKinds, ExtendKinds, BitKinds, Shifts,
         ToCcrKinds, ToSrKinds
<1>3. /\ t \in Targets /\ t.kind = "DataRegister" /\ "dst" \in Roles /\ "src" \notin DOMAIN i /\ IsRegister(t)
      /\ RegisterValue(m, t) = m.d[n] /\ i.kind # "Movem" /\ n \in 0 .. 7
  <2>1. t \in Targets /\ t.kind = "DataRegister" /\ "src" \notin DOMAIN i /\ i.kind # "Movem"
    BY <1>1, <1>2, Operands DEF WellFormed, OperandsFit
  <2> QED BY <2>1, TargetIn DEF Roles, IsRegister, RegisterValue
<1>4. i.cond \in Conditions /\ m.sr \in StatusRegisters /\ i.cond # "True" /\ Word \in Sizes
  BY <1>1 DEF WellFormed, Machines, Deviates, Incomplete, Sizes
<1>5. cond_expr(m.sr, i.cond) <=> calculate_condition(m.sr, i.cond)
  BY <1>4, ConditionSame
<1>6. Perform(m, i) = IF calculate_condition(m.sr, i.cond) THEN m
                      ELSE IF Accessible(p, t, Word)
                      THEN (IF ~Ok(w) \/ Signed(d - 1, Word) = -1 THEN w ELSE jumped)
                      ELSE Fail(p)
  <2>1. Perform(m, i) = ExecDbcc(m, i)
    BY PerformIs
  <2> QED BY <2>1, Zenon DEF ExecDbcc, Read
<1>7. translate_inst(m, i, u) = IF i.cond # "True" /\ cond_expr(m.sr, i.cond) THEN m
                                ELSE IF Signed(count, Word) # -1 THEN goto(q, branch_target(m, i)) ELSE q
  <2>1. translate_inst(m, i, u) = LiftDbcc(m, i)
    BY TranslateIs
  <2> QED BY <2>1, Zenon DEF LiftDbcc
<1>8. /\ Twin(D, p, m) /\ p.incremented = {} /\ Accessible(p, t, Word) /\ d = Low(m.d[n], Word)
  <2>1. /\ Twin(D, p, m) /\ p.decremented = m.decremented \cup {"dst"} /\ p.incremented = m.incremented
        /\ \A size : Accessible(p, t, size) /\ OperandValue(p, t, size) = Low(RegisterValue(m, t), size)
    <3>1. "dst" \notin m.decremented
      BY <1>1
    <3> QED BY <1>1, <1>3, <3>1, RegisterNext
  <2> QED BY <1>1, <1>3, <2>1
<1>9. m.d[n] \in Int
  BY <1>1, <1>3, RegisterIn, ValuesWiden
<1>10. n = t.index /\ back = IF Signed(i.data, Word) >= 0 THEN 2 ELSE 0
  OBVIOUS
<1>11. w = Write(p, i, "dst", Word, d - 1) /\ jumped = displace_pc([w EXCEPT !.pc = @ - back], i, FALSE)
  OBVIOUS
<1> HIDE DEF n, p, d, back, w, jumped
<1>12. Low(d - 1, Word) = Low(count, Word) /\ d - 1 \in Int /\ count \in Int
  BY <1>8, <1>9, CountDown
<1>13. count = Low(m.d[n] - 1, Word) /\ q = [m EXCEPT !.d[n] = Replaced(m.d[n], count, Word)]
  OBVIOUS
<1> HIDE DEF count, q
<1>14. DataSet(D, w, p, m, "dst", n, Replaced(m.d[n], d - 1, Word))
  BY <1>3, <1>4, <1>8, <1>10, <1>11, <1>12, SetsData
<1>15. Replaced(m.d[n], d - 1, Word) = Replaced(m.d[n], count, Word)
  BY <1>12, LowReplaced
<1>16. Twin(D, w, q) /\ w.pc = m.pc
  <2>1. p.pc = m.pc
    BY <1>8 DEF Twin, Same
  <2> QED BY <1>13, <1>14, <1>15, <2>1 DEF DataSet
<1>17. Signed(d - 1, Word) = Signed(count, Word)
  BY <1>4, <1>12, SameLow
<1>18. jumped = SetPc(w, branch_target(m, i)) /\ branch_target(m, i) \in Int
  BY <1>1, <1>10, <1>11, <1>16, DisplaceIs, ZenonT(40) DEF Twin
<1>19. Ok(Perform(m, i))
  BY Completes
<1>20. Twin(D, Perform(m, i), translate_inst(m, i, u))
  <2>1. CASE calculate_condition(m.sr, i.cond)
    BY <1>1, <1>4, <1>5, <1>6, <1>7, <2>1
  <2>2. CASE ~calculate_condition(m.sr, i.cond) /\ (~Ok(w) \/ Signed(d - 1, Word) = -1)
    <3>1. Perform(m, i) = w
      BY <1>6, <1>8, <2>2
    <3>2. Signed(count, Word) = -1
      BY <1>17, <1>19, <2>2, <3>1
    <3>3. translate_inst(m, i, u) = q
      BY <1>5, <1>7, <2>2, <3>2
    <3> QED BY <1>16, <3>1, <3>3
  <2>3. CASE ~calculate_condition(m.sr, i.cond) /\ Ok(w) /\ Signed(d - 1, Word) # -1
    <3>1. Perform(m, i) = SetPc(w, branch_target(m, i))
      BY <1>6, <1>8, <1>18, <2>3
    <3>2. translate_inst(m, i, u) = goto(q, branch_target(m, i))
      BY <1>5, <1>7, <1>17, <2>3
    <3> QED BY <1>16, <1>18, <1>19, <3>1, <3>2, SetPcOk
  <2> QED BY <2>1, <2>2, <2>3
<1>21. \A role \in Roles \cap DOMAIN i : i[role].kind # "AddressIncrement"
  BY <1>3 DEF Roles
<1> QED BY <1>20, <1>21, EndsStill DEF Agrees

(* The register of LINK and UNLK.                                          *)
LEMMA AtFrame ==
    ASSUME EightBits, NEW D, NEW m, NEW i, Ready(D, m, i), i.kind \in {"Link", "Unlink"},
           NEW t, t = i["dst"], NEW p, p = try_decrement_address(m, i, "dst"), NEW n, n = t.index
    PROVE  /\ m \in Machines(D) /\ WellFormed(i) /\ t \in Targets /\ t.kind = "AddressRegister"
                  /\ n \in 0 .. 7 /\ IsRegister(t)
           /\ "dst" \in Roles /\ "src" \notin DOMAIN i /\ i.kind # "Movem"
           /\ Twin(D, p, m) /\ p.incremented = {} /\ Accessible(p, t, Long)
                  /\ OperandValue(p, t, Long) = a_reg(m, n)
           /\ a_reg(m, n) \in Values(Long) /\ a_reg(m, n) \in Int /\ p.pc = m.pc
           /\ \A role \in Roles \cap DOMAIN i : i[role].kind # "AddressIncrement"
<1>1. m \in Machines(D) /\ Twin(D, m, m) /\ m.incremented = {} /\ m.decremented = {} /\ WellFormed(i)
  BY Begins DEF Ready
<1>2. i.kind \in UsesDst /\ i.kind \notin UsesSrc \cup {"Movem"} \cup Shifts
  BY SMT DEF UsesSrc, UsesDst, UsesBoth, BinaryKinds, AddressKinds, ExtendKinds, BitKinds, Shifts,
         ToCcrKinds, ToSrKinds
<1>3. t \in Targets /\ t.kind = "AddressRegister" /\ "src" \notin DOMAIN i /\ i.kind # "Movem"
  BY <1>1, <1>2, Operands DEF WellFormed, OperandsFit
<1>4. n \in 0 .. 7 /\ IsRegister(t) /\ "dst" \in Roles /\ RegisterValue(m, t) = a_reg(m, n)
  BY <1>3, TargetIn DEF Roles, IsRegister, RegisterValue
<1>5. /\ Twin(D, p, m) /\ p.incremented = m.incremented /\ Accessible(p, t, Long)
             /\ OperandValue(p, t, Long) = Low(a_reg(m, n), Long)
      /\ p.pc = m.pc
  <2>1. "dst" \notin m.decremented
    BY <1>1
  <2> QED BY <1>1, <1>3, <1>4, <2>1, RegisterNext
<1>6. a_reg(m, n) \in Values(Long) /\ a_reg(m, n) \in Int
  BY <1>1, <1>4, RegisterIn, ValuesWiden
<1>7. \A role \in Roles \cap DOMAIN i : i[role].kind # "AddressIncrement"
  BY <1>3 DEF Roles
<1> QED BY <1>1, <1>3, <1>4, <1>5, <1>6, <1>7, LowKeeps

(* LINK of a register other than A7, with the displacement that the lifter *)
(* takes.                                                                  *)
LEMMA LinkAgrees ==
    ASSUME EightBits, NEW D, NEW m, NEW i, Ready(D, m, i), i.kind = "Link", Ok(Execute(m, i)), NEW u,
           ~Deviates(m, i, u, Execute(m, i))
    PROVE  Agrees(D, m, i, u)
<1> DEFINE t == i["dst"]
           n == t.index
           p == try_decrement_address(m, i, "dst")
           d == OperandValue(p, t, Long)
           e == Signed(i.data, Word)
           x1 == push_stack(p, Long, IF n = 7 THEN d - 4 ELSE d)
           y1 == recomp_push32(m, a_reg(m, n))
           x2 == Write(x1, i, "dst", Long, stack_ptr(x1))
           y2 == SetA(y1, n, stack_ptr(y1))
           x3 == SetStackPtr(x2, stack_ptr(x2) + e)
           y3 == SetStackPtr(y2, stack_ptr(y2) + e)
<1>1. /\ m \in Machines(D) /\ WellFormed(i) /\ t \in Targets /\ t.kind = "AddressRegister" /\ n \in 0 .. 7
      /\ "dst" \in Roles /\ i.kind # "Movem"
      /\ Twin(D, p, m) /\ p.incremented = {} /\ Accessible(p, t, Long) /\ d = a_reg(m, n)
      /\ a_reg(m, n) \in Int
      /\ \A role \in Roles \cap DOMAIN i : i[role].kind # "AddressIncrement"
  BY AtFrame
<1>2. n # 7 /\ u.target.word = i.data
  BY DEF Deviates, Incomplete
<1>3. e \in Int
  <2>1. i.kind \in UsesData
    BY DEF UsesData
  <2>2. i.data \in Int /\ Word \in Sizes
    BY <1>1, <2>1, DataIn DEF Sizes
  <2> QED BY <2>2, SignedIn
<1>4. Perform(m, i) = IF Accessible(p, t, Long) THEN x3 ELSE Fail(p)
  <2>1. Perform(m, i) = ExecLink(m, i)
    BY PerformIs
  <2> QED BY <2>1, Zenon DEF ExecLink, Read
<1>5. translate_inst(m, i, u) = y3
  <2>1. translate_inst(m, i, u) = LiftLink(m, i, u)
    BY TranslateIs
  <2>2. LiftLink(m, i, u) = SetStackPtr(y2, stack_ptr(y2) + Signed(u.target.word, Word))
    BY Zenon DEF LiftLink
  <2> QED BY <1>2, <2>1, <2>2
<1>6. x1 = push_stack(p, Long, a_reg(m, n)) /\ n = t.index
  BY <1>1, <1>2
<1>7. x2 = Write(x1, i, "dst", Long, stack_ptr(x1)) /\ y1 = recomp_push32(m, a_reg(m, n))
  OBVIOUS
<1> HIDE DEF n, p, x1, y1, x2, e, d
<1>8. Twin(D, x1, y1) /\ x1.incremented = {}
  BY <1>1, <1>6, <1>7, Push32
<1>9. stack_ptr(x1) \in Int /\ stack_ptr(y1) = stack_ptr(x1)
  BY <1>8, StackPtrIn, ValuesWiden, TwinRegisters DEF Twin
<1>10. Placed(D, x2, x1, SetA(y1, n, stack_ptr(x1)), "dst")
  BY <1>1, <1>6, <1>7, <1>8, <1>9, SetsAddress
<1>11. Twin(D, x2, y2) /\ x2.incremented = {}
  BY <1>8, <1>9, <1>10 DEF Placed
<1> HIDE DEF y2
<1>12. stack_ptr(x2) \in Int /\ stack_ptr(y2) = stack_ptr(x2)
  BY <1>11, StackPtrIn, ValuesWiden, TwinRegisters DEF Twin
<1>13. Twin(D, x3, y3)
  <2>1. stack_ptr(x2) + e \in Int
    BY <1>3, <1>12
  <2> QED BY <1>11, <1>12, <2>1, TwinStackPtr
<1>14. Twin(D, Perform(m, i), translate_inst(m, i, u))
  BY <1>1, <1>4, <1>5, <1>13
<1> QED BY <1>1, <1>14, EndsStill DEF Agrees

(* Both sides pop, from mapped memory.                                     *)
LEMMA TwinPop ==
    ASSUME EightBits, NEW D, NEW x, NEW y, Twin(D, x, y), CanPop(x, Long), NEW r, r = recomp_pop32(y)
    PROVE  /\ Twin(D, DropStack(x, Long), r.machine) /\ r.value = Popped(x, Long)
                  /\ Popped(x, Long) \in Values(Long)
           /\ DropStack(x, Long).incremented = x.incremented /\ DropStack(x, Long).sr = x.sr
<1> DEFINE sp == stack_ptr(x)
<1>1. sp \in Int /\ stack_ptr(y) = sp /\ Long \in Sizes /\ sp + Long \in Int /\ x \in Machines(D)
  <2>1. sp \in Int /\ stack_ptr(y) = sp /\ x \in Machines(D)
    BY StackPtrIn, ValuesWiden, TwinRegisters DEF Twin
  <2> QED BY <2>1 DEF Sizes, Long
<1>2. Mapped(x, sp, Long) /\ Mapped(y, sp, Long) /\ Fetch(y, sp, Long) = Fetch(x, sp, Long)
  BY TwinAddress DEF CanPop
<1>3. r.value = Fetch(x, sp, Long) /\ r.machine = SetStackPtr(y, sp + Long)
  BY <1>1, <1>2 DEF recomp_pop32, recomp_mem_read
<1>4. Popped(x, Long) = Fetch(x, sp, Long) /\ DropStack(x, Long) = SetStackPtr(x, sp + Long)
  BY DEF Popped, DropStack
<1>5. Fetch(x, sp, Long) \in Values(Long)
  BY <1>1, <1>2, MappedFetch
<1>6. Twin(D, SetStackPtr(x, sp + Long), SetStackPtr(y, sp + Long))
  BY <1>1, TwinStackPtr
<1>7. SetStackPtr(x, sp + Long).incremented = x.incremented /\ SetStackPtr(x, sp + Long).sr = x.sr
  BY <1>1 DEF SetStackPtr, Machines
<1> QED BY <1>3, <1>4, <1>5, <1>6, <1>7

(* UNLK, of A7 too.                                                        *)
LEMMA UnlinkAgrees ==
    ASSUME EightBits, NEW D, NEW m, NEW i, Ready(D, m, i), i.kind = "Unlink", Ok(Execute(m, i)), NEW u
    PROVE  Agrees(D, m, i, u)
<1> DEFINE t == i["dst"]
           n == t.index
           p == try_decrement_address(m, i, "dst")
           d == OperandValue(p, t, Long)
           x1 == SetStackPtr(p, d)
           y1 == SetStackPtr(m, a_reg(m, n))
           r == recomp_pop32(y1)
           x2 == DropStack(x1, Long)
           v == Popped(x1, Long)
           x3 == Write(x2, i, "dst", Long, v)
<1>1. /\ m \in Machines(D) /\ WellFormed(i) /\ t \in Targets /\ t.kind = "AddressRegister" /\ n \in 0 .. 7
      /\ "dst" \in Roles /\ i.kind # "Movem"
      /\ Twin(D, p, m) /\ p.incremented = {} /\ Accessible(p, t, Long) /\ d = a_reg(m, n)
      /\ a_reg(m, n) \in Int
      /\ \A role \in Roles \cap DOMAIN i : i[role].kind # "AddressIncrement"
  BY AtFrame
<1>2. Perform(m, i) = IF Accessible(p, t, Long) THEN (IF CanPop(x1, Long) THEN x3 ELSE Fail(x1)) ELSE Fail(p)
  <2>1. Perform(m, i) = ExecUnlink(m, i)
    BY PerformIs
  <2> QED BY <2>1, Zenon DEF ExecUnlink, Read
<1>3. translate_inst(m, i, u) = SetA(r.machine, n, r.value)
  <2>1. translate_inst(m, i, u) = LiftUnlink(m, i)
    BY TranslateIs
  <2> QED BY <2>1, Zenon DEF LiftUnlink
<1>4. n = t.index /\ Twin(D, x1, y1)
  BY <1>1, TwinStackPtr
<1>5. Ok(Perform(m, i))
  BY Completes
<1>6. r = recomp_pop32(y1) /\ x3 = Write(x2, i, "dst", Long, v) /\ x2 = DropStack(x1, Long)
          /\ v = Popped(x1, Long)
  OBVIOUS
<1> HIDE DEF p, d, x1, y1, r, x2, v, x3, n
<1>7. ~Ok(Fail(x1))
  BY <1>4, FailIsNotOk DEF Twin
<1>8. CanPop(x1, Long) /\ Perform(m, i) = x3
  BY <1>1, <1>2, <1>5, <1>7
<1>9. Twin(D, x2, r.machine) /\ r.value = v /\ v \in Values(Long)
  BY <1>4, <1>6, <1>8, TwinPop
<1>10. v \in Int
  BY <1>9, ValuesWiden
<1>11. Placed(D, x3, x2, SetA(r.machine, n, v), "dst")
  BY <1>1, <1>4, <1>6, <1>9, <1>10, SetsAddress
<1>12. Twin(D, Perform(m, i), translate_inst(m, i, u))
  BY <1>3, <1>8, <1>9, <1>11 DEF Placed
<1> QED BY <1>1, <1>12, EndsStill DEF Agrees

(* Agreement but for the place of control.                                 *)
Returns(D, m, i, u) == Twin(D, Execute(m, i), [translate_inst(m, i, u) EXCEPT !.pc = Execute(m, i).pc])

(* A return ends with its jump.                                            *)
LEMMA ReturnEnds ==
    ASSUME EightBits, NEW D, NEW m, NEW i, Ready(D, m, i), i.kind \in {"Rts", "Rtr"}, Ok(Execute(m, i)), NEW u,
           NEW x, NEW y, Twin(D, x, y), NEW v \in Values(Long), Perform(m, i) = SetPc([x EXCEPT !.pc = v], v),
           translate_inst(m, i, u) = y
    PROVE  Returns(D, m, i, u)
<1>1. v \in Int /\ Low(v, Long) = v
  BY LowKeeps, ValuesWiden
<1>2. Perform(m, i) = SetPc(x, v) /\ Ok(Perform(m, i))
  BY SetPcTwice, Completes DEF Twin
<1>3. Twin(D, Perform(m, i), goto(y, v))
  BY <1>1, <1>2, SetPcOk
<1>4. \A role \in Roles \cap DOMAIN i : FALSE
  BY Begins, NoOperands
<1>5. Twin(D, Execute(m, i), goto(y, v))
  BY <1>3, <1>4, EndsStill
<1>6. goto(y, v) = [y EXCEPT !.pc = v]
  BY <1>1 DEF goto
<1>7. Execute(m, i).pc = v
  <2>1. [y EXCEPT !.pc = v].pc = v
    BY DEF Twin, Machines
  <2> QED BY <1>5, <1>6, <2>1 DEF Twin, Same
<1> QED BY <1>5, <1>6, <1>7 DEF Returns

(* RTS, but for where it leads.                                            *)
LEMMA RtsAgrees ==
    ASSUME EightBits, NEW D, NEW m, NEW i, Ready(D, m, i), i.kind = "Rts", Ok(Execute(m, i)), NEW u,
           ~Deviates(m, i, u, Execute(m, i))
    PROVE  Returns(D, m, i, u)
<1> DEFINE r == recomp_pop32(m)
           x == DropStack(m, Long)
           v == Popped(m, Long)
<1>1. m \in Machines(D) /\ Twin(D, m, m)
  BY Begins DEF Ready
<1>2. CanPop(m, Long)
  <2>1. ~NoReturnAddress(m, i)
    BY DEF Deviates, Incomplete
  <2> QED BY <2>1 DEF NoReturnAddress, CanPop
<1>3. Perform(m, i) = SetPc([x EXCEPT !.pc = v], v)
  <2>1. Perform(m, i) = ExecReturn(m, i)
    BY PerformIs
  <2>2. ExecReturn(m, i) = SetPc([x EXCEPT !.pc = v], [x EXCEPT !.pc = v].pc)
    BY <1>2 DEF ExecReturn
  <2>3. x \in Machines(D)
    BY <1>1, <1>2, TwinPop DEF Twin
  <2>4. [x EXCEPT !.pc = v].pc = v
    BY <2>3 DEF Machines
  <2> QED BY <2>1, <2>2, <2>4
<1>4. translate_inst(m, i, u) = r.machine
  <2>1. translate_inst(m, i, u) = LiftReturn(m, i)
    BY TranslateIs
  <2>2. LiftReturn(m, i) = r.machine
    BY DEF LiftReturn
  <2> QED BY <2>1, <2>2
<1>5. Twin(D, x, r.machine) /\ v \in Values(Long)
  BY <1>1, <1>2, TwinPop
<1> HIDE DEF r, x, v
<1> QED BY <1>3, <1>4, <1>5, ReturnEnds

(* RTR, but for where it leads.                                            *)
LEMMA RtrAgrees ==
    ASSUME EightBits, NEW D, NEW m, NEW i, Ready(D, m, i), i.kind = "Rtr", Ok(Execute(m, i)), NEW u,
           ~Deviates(m, i, u, Execute(m, i))
    PROVE  Returns(D, m, i, u)
<1> DEFINE sp == stack_ptr(m)
           word == Popped(m, Word)
           p == DropStack(m, Word)
           q == DropStack(p, Long)
           v == Popped(p, Long)
           e == WithCcr(m.sr, word)
           r == recomp_pop32(p)
           p2 == [p EXCEPT !.sr = e]
           y == recomp_pop32(p2).machine
<1>1. m \in Machines(D) /\ Twin(D, m, m) /\ DOMAIN m.mem = D /\ OnBus(D)
  BY Begins DEF Ready
<1>2. Mapped(m, sp, 6)
  BY DEF Deviates, Incomplete, NoReturnAddress, Word, Long
<1>3. sp \in Values(Long) /\ sp \in Int
  BY <1>1, StackPtrIn, ValuesWiden
<1>4. CanPop(m, Word) /\ word \in Int /\ recomp_mem_read(m, sp, Word) = word
  <2>1. sp .. sp + 2 - 1 \subseteq sp .. sp + 6 - 1
    BY <1>3
  <2>2. Mapped(m, sp, Word)
    BY <1>2, <2>1 DEF Mapped, Word
  <2>3. Word \in Sizes
    BY DEF Sizes
  <2> QED BY <1>1, <1>3, <2>2, <2>3, MappedFetch DEF CanPop, Popped, recomp_mem_read
<1>5. p \in Machines(D) /\ stack_ptr(p) = sp + 2 /\ p.sr = m.sr /\ p.mem = m.mem
  <2>1. 0 <= sp + 2 /\ sp + 2 < 4294967296 /\ sp + 2 \in Int
    <3>1. sp + 5 \in sp .. sp + 6 - 1
      BY <1>3
    <3>2. sp + 5 \in 0 .. 2 ^ (3 * BYTE) - 1
      BY <1>1, <1>2, <3>1 DEF Mapped, OnBus
    <3>3. sp + 5 < 16777216
      BY <1>3, <3>2, BusIs, SMT
    <3>4. 0 <= sp
      BY <1>3, InValues
    <3> QED BY <1>3, <3>3, <3>4, SMT
  <2>2. sp + 2 \in Values(Long)
    BY <2>1, InValues
  <2>3. Low(sp + 2, Long) = sp + 2
    BY <2>2, LowKeeps
  <2>4. p = SetStackPtr(m, sp + 2)
    BY DEF DropStack, Word
  <2>5. /\ p \in Machines(D) /\ stack_ptr(p) = sp + 2 /\ \A f \in DOMAIN m \ {"usp", "ssp"} : p[f] = m[f]
    BY <1>1, <2>1, <2>3, <2>4, SetStackPtrIn
  <2>6. {"sr", "mem"} \subseteq DOMAIN m \ {"usp", "ssp"}
    BY <1>1 DEF Machines
  <2> QED BY <2>5, <2>6
<1>6. CanPop(p, Long)
  <2>1. (sp + 2) .. (sp + 2) + 4 - 1 \subseteq sp .. sp + 6 - 1
    BY <1>3
  <2> QED BY <1>2, <1>5, <2>1 DEF CanPop, Mapped, Long
<1>7. e \in StatusRegisters /\ e.s = m.sr.s
  <2>1. m.sr \in StatusRegisters
    BY <1>1 DEF Machines
  <2> QED BY <1>4, <2>1, WithCcrIn DEF NewFlags
<1>8. Perform(m, i) = SetPc([[q EXCEPT !.pc = v] EXCEPT !.sr = WithCcr([q EXCEPT !.pc = v].sr, word)],
          [q EXCEPT !.pc = v].pc)
  <2>1. Perform(m, i) = ExecReturn(m, i)
    BY PerformIs
  <2>2. ExecReturn(m, i) = SetPc([[q EXCEPT !.pc = v] EXCEPT !.sr = WithCcr(@, word)], [q EXCEPT !.pc = v].pc)
    BY <1>4, <1>6 DEF ExecReturn
  <2>3. [[q EXCEPT !.pc = v] EXCEPT !.sr = WithCcr(@, word)]
            = [[q EXCEPT !.pc = v] EXCEPT !.sr = WithCcr([q EXCEPT !.pc = v].sr, word)]
    OBVIOUS
  <2> QED BY <2>1, <2>2, <2>3
<1>9. translate_inst(m, i, u) = recomp_pop32([p EXCEPT !.sr = WithCcr(p.sr,
          recomp_mem_read(m, sp, Word))]).machine
  <2>1. translate_inst(m, i, u) = LiftReturn(m, i)
    BY TranslateIs
  <2>2. LiftReturn(m, i) = recomp_pop32([p EXCEPT !.sr = WithCcr(@, recomp_mem_read(m, sp, Word))]).machine
    BY DEF LiftReturn, DropStack
  <2>3. [p EXCEPT !.sr = WithCcr(@, recomp_mem_read(m, sp, Word))]
            = [p EXCEPT !.sr = WithCcr(p.sr, recomp_mem_read(m, sp, Word))]
    OBVIOUS
  <2> QED BY <2>1, <2>2, <2>3
<1>10. translate_inst(m, i, u) = y
  BY <1>4, <1>5, <1>9
<1>11. r = recomp_pop32(p) /\ q = DropStack(p, Long) /\ v = Popped(p, Long) /\ e = WithCcr(m.sr, word)
  OBVIOUS
<1>12. y = SetStackPtr(p2, stack_ptr(p2) + Long) /\ r.machine = SetStackPtr(p, stack_ptr(p) + Long)
  BY DEF recomp_pop32
<1>13. p2 = [p EXCEPT !.sr = e]
  OBVIOUS
<1> HIDE DEF word, p, q, v, e, r, p2, y, sp
<1>14. Twin(D, q, r.machine) /\ v \in Values(Long) /\ q.sr = m.sr
  <2>1. Twin(D, p, p)
    BY <1>5, TwinSelf
  <2> QED BY <1>5, <1>6, <1>11, <2>1, TwinPop
<1>15. y = [r.machine EXCEPT !.sr = e]
  <2>1. /\ stack_ptr(p2) = stack_ptr(p) /\ \A w : SetStackPtr(p2, w) = [SetStackPtr(p, w) EXCEPT !.sr = e]
    BY <1>5, <1>7, <1>13, FlagsApart
  <2> QED BY <1>12, <2>1
<1> DEFINE x == [q EXCEPT !.sr = e]
<1>16. Twin(D, x, y)
  BY <1>7, <1>14, <1>15, TwinSetSr
<1>17. [q EXCEPT !.pc = v].sr = q.sr /\ [q EXCEPT !.pc = v].pc = v
  BY <1>14 DEF Twin, Machines
<1>18. Perform(m, i) = SetPc([[q EXCEPT !.pc = v] EXCEPT !.sr = e], v)
  BY <1>8, <1>11, <1>14, <1>17
<1>19. [[q EXCEPT !.pc = v] EXCEPT !.sr = e] = [x EXCEPT !.pc = v]
  BY <1>14, SetsBoth DEF Twin
<1> HIDE DEF x
<1> QED BY <1>10, <1>14, <1>16, <1>18, <1>19, ReturnEnds

-----------------------------------------------------------------------------
(***************************************************************************)
(* Moves.                                                                  *)
(***************************************************************************)

(* The program counter and the effects are set in either order.            *)
LEMMA StepsPcApart ==
    ASSUME NEW D, NEW z \in Machines(D), NEW pc \in Values(Long), NEW f, f = [z EXCEPT !.pc = pc], NEW t,
               NEW size
    PROVE  /\ pre_effect(f, t, size) = [pre_effect(z, t, size) EXCEPT !.pc = pc]
           /\ post_effect(f, t, size) = [post_effect(z, t, size) EXCEPT !.pc = pc]
<1>1. /\ \A n : a_reg(f, n) = a_reg(z, n)
      /\ \A n, v : SetA(f, n, v) = [SetA(z, n, v) EXCEPT !.pc = pc]
  BY PcApart
<1> QED BY <1>1 DEF pre_effect, post_effect

(* But for an index on it, no operand is read from where the program       *)
(* counter is.                                                             *)
LEMMA PcMoot ==
    ASSUME NEW D, NEW z \in Machines(D), NEW pc \in Values(Long), NEW f, f = [z EXCEPT !.pc = pc],
               NEW t \in Targets,
           t.kind # "ProgramCounterIndex", NEW sea, NEW size
    PROVE  read_operand(f, t, sea, size) = read_operand(z, t, sea, size)
<1>1. f.mem = z.mem /\ f.d = z.d /\ \A n : a_reg(f, n) = a_reg(z, n)
  BY PcApart
<1>2. \A addr : recomp_mem_read(f, addr, size) = recomp_mem_read(z, addr, size)
  BY <1>1 DEF recomp_mem_read, Mapped, Fetch
<1>3. t.kind \in {"DataRegister", "AddressRegister", "Immediate"}
          => read_operand(f, t, sea, size) = read_operand(z, t, sea, size)
  BY <1>1, <1>2 DEF read_operand
<1>4. t.kind \notin {"DataRegister", "AddressRegister", "Immediate"}
          => operand_address(f, t, sea) = operand_address(z, t, sea)
  <2>1. t.kind \in {"DataRegister", "AddressRegister", "Immediate", "Address", "AddressDisplacement",
            "AddressIndex"} \cup Static \cup Stepped
    BY DEF Targets, Relative, Static, Stepped
  <2>2. CASE t.kind \in Static
    BY <2>2 DEF operand_address
  <2>3. CASE t.kind \in {"Address", "AddressDisplacement"} \cup Stepped
    <3>1. effective_address(f, t) = effective_address(z, t)
      BY <1>1, <2>3 DEF effective_address, Stepped
    <3> QED BY <2>3, <3>1 DEF operand_address, Static, Stepped
  <2>4. CASE t.kind = "AddressIndex"
    <3>1. indexed_address(f, t, a_reg(f, t.index)) = indexed_address(z, t, a_reg(z, t.index))
      BY <1>1 DEF indexed_address
    <3>2. effective_address(f, t) = effective_address(z, t)
      BY <2>4, <3>1 DEF effective_address
    <3> QED BY <2>4, <3>2 DEF operand_address, Static
  <2> QED BY <2>1, <2>2, <2>3, <2>4
<1>5. t.kind \notin {"DataRegister", "AddressRegister", "Immediate"}
          => read_operand(f, t, sea, size) = read_operand(z, t, sea, size)
  BY <1>2, <1>4 DEF read_operand
<1> QED BY <1>3, <1>5

(* An effect leaves the program counter and the status register.           *)
LEMMA EffectKeeps ==
    ASSUME EightBits, NEW D, NEW z \in Machines(D), NEW t \in Targets, NEW size, t.kind \in Stepped
               => t.size = size
    PROVE  /\ pre_effect(z, t, size) \in Machines(D) /\ pre_effect(z, t, size).pc = z.pc
                  /\ pre_effect(z, t, size).sr = z.sr
           /\ post_effect(z, t, size) \in Machines(D) /\ post_effect(z, t, size).pc = z.pc
                  /\ post_effect(z, t, size).sr = z.sr
<1>1. t.kind \in Stepped => Adjustment(t, size) \in Int /\ t.index \in 0 .. 7
  BY TargetIn, Adjusts
<1>2. \A n \in 0 .. 7, v \in Int : SetA(z, n, v) \in Machines(D) /\ SetA(z, n, v).pc = z.pc
          /\ SetA(z, n, v).sr = z.sr
  <2>1. SUFFICES ASSUME NEW n \in 0 .. 7, NEW v \in Int
                 PROVE  SetA(z, n, v) \in Machines(D) /\ SetA(z, n, v).pc = z.pc /\ SetA(z, n, v).sr = z.sr
    OBVIOUS
  <2>2. Twin(D, SetA(z, n, v), SetA(z, n, v))
    BY TwinSelf, TwinSetA
  <2> QED BY <2>2, SetAKeeps DEF Twin
<1>3. \A n \in 0 .. 7 : a_reg(z, n) \in Int
  BY RegisterIn, ValuesWiden
<1>4. CASE t.kind \in Stepped
  <2>1. a_reg(z, t.index) + Adjustment(t, size) \in Int /\ a_reg(z, t.index) - Adjustment(t, size) \in Int
    BY <1>1, <1>3, <1>4
  <2> DEFINE up == a_reg(z, t.index) + Adjustment(t, size)
             down == a_reg(z, t.index) - Adjustment(t, size)
  <2>2. /\ pre_effect(z, t, size) = z \/ pre_effect(z, t, size) = SetA(z, t.index, down)
        /\ post_effect(z, t, size) = z \/ post_effect(z, t, size) = SetA(z, t.index, up)
    BY DEF pre_effect, post_effect
  <2> HIDE DEF up, down
  <2>3. up \in Int /\ down \in Int
    BY <2>1 DEF up, down
  <2> QED BY <1>1, <1>2, <1>4, <2>2, <2>3
<1>5. CASE t.kind \notin Stepped
  BY <1>5, EffectNone DEF Stepped
<1> QED BY <1>4, <1>5

(* The operands of MOVE and MOVEA, and the effects around them.            *)
LEMMA MoveIs ==
    ASSUME NEW i, AsDecoded(i), i.kind \in {"Move", "Movea"}, NEW u, NEW m, NEW r, ~Deviates(m, i, u, r),
           NEW a, a = i["src"], NEW b, b = i["dst"], NEW size, size = i.size
    PROVE  /\ a \in Targets /\ b \in Targets /\ "src" \in DOMAIN i /\ "dst" \in DOMAIN i /\ "src" \in Roles
                  /\ "dst" \in Roles
           /\ a.kind # "ProgramCounterIndex" /\ b.kind \notin {"ProgramCounterIndex", "Immediate"} \cup Stepped
           /\ size \in Sizes /\ (a.kind \in Stepped => a.size = size) /\ bytes(i, u) = size
           /\ (a.kind = "AddressIncrement" => ~Uses(b, a.index))
           /\ operand(i, u, "src") = a /\ operand(i, u, "dst") = b
           /\ ea(m, i, u, "src") = static_ea(a, i.data) /\ (\A x : ea(x, i, u, "dst") = static_ea(b, x.pc))
           /\ Effects(i.kind).pre = <<"src">> /\ Effects(i.kind).post = <<"src">>
           /\ (i.kind = "Movea" => b.kind = "AddressRegister" /\ size \in {Word, Long})
<1>1. WellFormed(i)
  BY DEF AsDecoded, Given
<1>2. /\ i.kind \in UsesSrc /\ i.kind \in UsesDst /\ i.kind \notin {"Movem"} \cup Shifts
             /\ i.kind \in UsesSize /\ i.kind \in SizedKinds
      /\ i.kind \notin BitKinds \cup {"Abcd", "Sbcd"} /\ i.kind # "Btst"
  BY SMT DEF UsesSrc, UsesDst, UsesBoth, Shifts, UsesSize, SizedKinds, BitKinds
<1>3. a \in Targets /\ b \in Targets /\ "src" \in DOMAIN i /\ "dst" \in DOMAIN i /\ "src" \in Roles
          /\ "dst" \in Roles
  BY <1>1, <1>2, Operands DEF Roles
<1>4. size \in Sizes
  BY <1>1, <1>2, SizeIn
<1>5. TransferSize(i) = i.size
  BY SMT DEF TransferSize, BitKinds, ToCcrKinds
<1>6. /\ a.kind # "ProgramCounterIndex" /\ b.kind \notin {"ProgramCounterIndex", "Immediate"}
      /\ (a.kind \in Stepped => a.size = size) /\ ~Entangled(i) /\ ~Unstepped(i, "dst")
  BY <1>2, <1>3, <1>5, OperandsAre
<1>7. i.kind = "Movea" => b.kind = "AddressRegister" /\ size \in {Word, Long}
  BY WellSized DEF AsDecoded, Given, AddressKinds
<1>8. b.kind \notin Stepped
  BY <1>3, <1>6, <1>7, UnsteppedIs DEF Stepped
<1>9. a.kind = "AddressIncrement" => ~Uses(b, a.index)
  BY <1>3, <1>6 DEF Entangled, Is
<1>10. operand(i, u, "src") = a /\ operand(i, u, "dst") = b
  BY <1>3 DEF operand
<1>11. ea(m, i, u, "src") = static_ea(a, i.data) /\ (\A x : ea(x, i, u, "dst") = static_ea(b, x.pc))
  BY <1>10 DEF ea
<1>12. Effects(i.kind).pre = <<"src">> /\ Effects(i.kind).post = <<"src">>
  BY EffectsAre
<1>13. bytes(i, u) = size
  BY <1>2 DEF bytes
<1> QED BY <1>3, <1>4, <1>6, <1>7, <1>8, <1>9, <1>10, <1>11, <1>12, <1>13

(* The first access of an operand, as one fact.                            *)
LEMMA DecrementPlaced ==
    ASSUME EightBits, NEW D, NEW x, NEW y, Twin(D, x, y), NEW i, NEW role \in Roles, NEW t \in Targets,
               t = i[role],
           i.kind # "Movem", NEW size, t.kind \in Stepped => t.size = size, role \notin x.decremented,
           NEW p, p = try_decrement_address(x, i, role)
    PROVE  Placed(D, p, x, pre_effect(y, t, size), role)
BY DecrementTwin DEF Placed

(* What MoveReads finds: the interpreter at q, the emitted code at Q.      *)
MoveRead(D, m, i, u, y, a, size, p, s, q, next, P, Q, w) ==
    /\ P \in Machines(D) /\ P.sr = m.sr /\ P.pc = m.pc /\ m.sr \in StatusRegisters
    /\ Twin(D, q, Q) /\ q.incremented = {"src"} /\ q.decremented = {"src"} /\ q.pc = m.pc /\ q.sr = m.sr
    /\ Q.pc = m.pc /\ Q.sr = m.sr /\ Q \in Machines(D)
    /\ Reads(s, w, size) /\ Perform(m, i) = next

(* MOVE and MOVEA step past their source before they access the            *)
(* destination, the emitted code after: up to there both have read the     *)
(* same.                                                                   *)
LEMMA MoveReads ==
    ASSUME EightBits, NEW D, NEW m, NEW i, Ready(D, m, i), Ok(Execute(m, i)), i.kind \in {"Move", "Movea"},
           NEW u, ~Deviates(m, i, u, Execute(m, i)),
           NEW a, a = i["src"], NEW size, size = i.size, NEW y, y = [m EXCEPT !.pc = i.data],
           NEW p, p = try_decrement_address(y, i, "src"), NEW s, s = OperandValue(p, a, size),
           NEW q, q = [try_increment_address(p, i, "src") EXCEPT !.pc = m.pc],
           NEW next, Perform(m, i) = IF Accessible(p, a, size) THEN next ELSE Fail(p),
           NEW P, P = pre_effect(m, a, size), NEW Q, Q = post_effect(P, a, size),
           NEW w, w = read_operand(P, a, static_ea(a, i.data), size)
    PROVE  MoveRead(D, m, i, u, y, a, size, p, s, q, next, P, Q, w)
<1>1. AsDecoded(i) /\ m \in Machines(D) /\ m.incremented = {} /\ m.decremented = {} /\ WellFormed(i) /\ OnBus(D)
  BY Begins DEF Ready
<1>2. /\ a \in Targets /\ "src" \in DOMAIN i /\ "src" \in Roles /\ a.kind # "ProgramCounterIndex"
      /\ size \in Sizes /\ (a.kind \in Stepped => a.size = size)
  BY <1>1, MoveIs
<1>3. i.kind \in UsesData
  BY DEF UsesData
<1>4. i.data \in Values(Long)
  BY <1>1, <1>3, DataIn
<1>5. /\ y \in Machines(D) /\ y.incremented = {} /\ y.decremented = {} /\ y.pc = i.data /\ y.sr = m.sr
      /\ m.sr \in StatusRegisters /\ m.pc \in Values(Long)
  BY <1>1, <1>4 DEF Machines
<1> DEFINE Y == pre_effect(y, a, size)
<1>6. /\ Twin(D, p, Y) /\ p.decremented = {"src"} /\ p.incremented = {} /\ p.pc = i.data /\ p.sr = m.sr
  <2>1. i.kind # "Movem" /\ "src" \notin y.decremented /\ Twin(D, y, y) /\ Y = pre_effect(y, a, size)
    BY <1>5, TwinSelf
  <2> HIDE DEF Y
  <2>2. Placed(D, p, y, pre_effect(y, a, size), "src")
    BY <1>2, <2>1, DecrementPlaced
  <2> QED BY <1>5, <2>1, <2>2 DEF Placed
<1>7. Y = [P EXCEPT !.pc = i.data] /\ P \in Machines(D) /\ P.sr = m.sr /\ P.pc = m.pc
  BY <1>1, <1>2, <1>4, StepsPcApart, EffectKeeps
<1> HIDE DEF Y
<1>8. Perform(m, i) = next /\ Accessible(p, a, size)
  <2>1. Ok(Perform(m, i))
    BY Completes
  <2>2. ~Ok(Fail(p))
    BY <1>6, FailIsNotOk DEF Twin
  <2> QED BY <2>1, <2>2
<1>9. Reads(s, w, size)
  <2> DEFINE v == read_operand(Y, a, static_ea(a, i.data), size)
             sea == static_ea(a, i.data)
  <2>1. v = read_operand(Y, a, sea, size) /\ sea = static_ea(a, p.pc) /\ sea = static_ea(a, i.data)
    BY <1>6
  <2>2. w = v
    BY <1>2, <1>4, <1>7, PcMoot
  <2> HIDE DEF v, sea
  <2>3. Reads(s, v, size)
    BY <1>1, <1>2, <1>6, <1>8, <2>1, ReadTwin
  <2> QED BY <2>2, <2>3
<1> DEFINE p2 == try_increment_address(p, i, "src")
           Y2 == post_effect(Y, a, size)
<1>10. /\ Twin(D, p2, Y2) /\ p2.incremented = {"src"} /\ p2.decremented = {"src"} /\ p2.sr = m.sr
  <2>1. i.kind # "Movem" /\ "src" \notin p.incremented /\ p2 = try_increment_address(p, i, "src")
            /\ Y2 = post_effect(Y, a, size)
    BY <1>6
  <2> HIDE DEF p2, Y2
  <2>2. /\ Twin(D, p2, post_effect(Y, a, size)) /\ p2.incremented = p.incremented \cup {"src"}
               /\ p2.decremented = p.decremented
        /\ p2.sr = p.sr
    BY <1>2, <1>6, <2>1, IncrementTwin
  <2> QED BY <1>6, <2>1, <2>2
<1>11. Y2 = [Q EXCEPT !.pc = i.data] /\ Q \in Machines(D) /\ Q.pc = m.pc /\ Q.sr = m.sr
  BY <1>2, <1>4, <1>7, StepsPcApart, EffectKeeps
<1>12. q = [p2 EXCEPT !.pc = m.pc]
  OBVIOUS
<1> HIDE DEF p2, Y2
<1>13. [Y2 EXCEPT !.pc = m.pc] = Q
  <2>1. [[Q EXCEPT !.pc = i.data] EXCEPT !.pc = Q.pc] = Q
    BY <1>11, PcBack
  <2> QED BY <1>11, <2>1
<1>14. Twin(D, q, Q)
  BY <1>5, <1>10, <1>12, <1>13, TwinSetPc
<1>15. q.incremented = {"src"} /\ q.decremented = {"src"} /\ q.pc = m.pc /\ q.sr = m.sr
  BY <1>10, <1>12 DEF Twin, Machines
<1> QED BY <1>5, <1>7, <1>8, <1>9, <1>11, <1>14, <1>15 DEF MoveRead

(* An address does not depend on a register it does not use.               *)
LEMMA StepsBeside ==
    ASSUME EightBits, NEW D, NEW y \in Machines(D), NEW n \in 0 .. 7, NEW v \in Int, NEW f, f = SetA(y, n, v),
           NEW t \in Targets, ~Uses(t, n), ~IsRegister(t),
                   t.kind \notin {"ProgramCounterIndex", "Immediate"}, NEW sea
    PROVE  operand_address(f, t, sea) = operand_address(y, t, sea)
<1>1. AddressSet(D, f, y, n, v)
  BY SetAIn
<1>2. f.d = y.d /\ \A j \in 0 .. 7 : j # n => a_reg(f, j) = a_reg(y, j)
  BY <1>1, SetAKeeps DEF AddressSet
<1>3. t.kind \in {"Address", "AddressDisplacement", "AddressIndex"} \cup Static \cup Stepped
  BY DEF Targets, Relative, Static, Stepped, IsRegister
<1>4. CASE t.kind \in Static
  BY <1>4 DEF operand_address
<1>5. ASSUME t.kind \notin Static
      PROVE  a_reg(f, t.index) = a_reg(y, t.index)
  <2>1. t.index \in 0 .. 7 /\ "index" \in DOMAIN t /\ t.kind # "DataRegister"
    BY <1>3, <1>5 DEF Targets, Relative, Static, Stepped
  <2>2. t.index # n
    BY <2>1 DEF Uses, On
  <2> QED BY <1>2, <2>1, <2>2
<1>6. CASE t.kind \in {"Address", "AddressDisplacement"} \cup Stepped
  <2>1. effective_address(f, t) = effective_address(y, t)
    BY <1>5, <1>6 DEF effective_address, Stepped, Static
  <2> QED BY <1>6, <2>1 DEF operand_address, Static, Stepped
<1>7. CASE t.kind = "AddressIndex"
  <2>1. "xreg" \in DOMAIN t /\ t.xreg \in [kind : {"DataRegister", "AddressRegister"}, index : 0 .. 7]
    BY <1>7 DEF Targets, Stepped, Relative
  <2>2. t.xreg # AddrReg(n)
    BY <2>1 DEF Uses
  <2>3. t.xreg.kind = "AddressRegister" => t.xreg.index \in 0 .. 7 /\ t.xreg.index # n
    <3>1. t.xreg = [kind |-> t.xreg.kind, index |-> t.xreg.index]
      BY <2>1
    <3> QED BY <2>1, <2>2, <3>1 DEF AddrReg
  <2>4. a_reg(f, t.index) = a_reg(y, t.index)
    BY <1>5, <1>7 DEF Static
  <2>5. indexed_address(f, t, a_reg(f, t.index)) = indexed_address(y, t, a_reg(y, t.index))
    BY <1>2, <2>3, <2>4 DEF indexed_address
  <2>6. effective_address(f, t) = effective_address(y, t)
    BY <1>7, <2>5 DEF effective_address
  <2> QED BY <1>7, <2>6 DEF operand_address, Static
<1> QED BY <1>3, <1>4, <1>6, <1>7

(* A write and a step are done in either order.                            *)
LEMMA PutBeside ==
    ASSUME NEW D, NEW y \in Machines(D), NEW n, NEW k, NEW addr, NEW size, NEW v
    PROVE  recomp_mem_write(SetA(y, n, k), addr, size, v) = SetA(recomp_mem_write(y, addr, size, v), n, k)
<1>1. SetA(y, n, k).mem = y.mem
  BY SetAKeeps
<1>2. Mapped(SetA(y, n, k), addr, size) <=> Mapped(y, addr, size)
  BY <1>1 DEF Mapped
<1>3. \A z : \A x : Put(z, addr, size, v) = [z EXCEPT !.mem = Put(z, addr, size, v).mem]
  BY DEF Put
<1> DEFINE bytes2 == [b \in DOMAIN y.mem |-> IF b \in addr .. addr + size - 1
                          THEN (v \div 2 ^ (BYTE * (addr + size - 1 - b))) % Span(Byte) ELSE y.mem[b]]
<1>4. Put(y, addr, size, v) = [y EXCEPT !.mem = bytes2]
  BY DEF Put
<1>5. Put(SetA(y, n, k), addr, size, v) = [SetA(y, n, k) EXCEPT !.mem = bytes2]
  BY <1>1 DEF Put
<1> HIDE DEF bytes2
<1>6. SetA([y EXCEPT !.mem = bytes2], n, k) = [SetA(y, n, k) EXCEPT !.mem = bytes2]
  <2>1. CASE n < 7
    BY <2>1 DEF SetA, Machines
  <2>2. CASE ~(n < 7)
    BY <2>2 DEF SetA, SetStackPtr, Machines
  <2> QED BY <2>1, <2>2
<1> QED BY <1>2, <1>4, <1>5, <1>6 DEF recomp_mem_write

(* A write leaves the address registers its operand does not use.          *)
LEMMA WriteKeepsAddress ==
    ASSUME EightBits, NEW D, NEW y \in Machines(D), NEW n \in 0 .. 7, NEW t \in Targets, ~Uses(t, n),
               NEW sea, NEW size, NEW v,
           NEW z, z = write_operand(y, t, sea, size, v), t.kind # "AddressRegister"
    PROVE  a_reg(z, n) = a_reg(y, n)
<1>1. CASE t.kind = "DataRegister"
  <2>1. z = [y EXCEPT !.d[t.index] = Replaced(y.d[t.index], v, size)]
    BY <1>1 DEF write_operand
  <2>2. z.a = y.a /\ z.sr = y.sr /\ z.usp = y.usp /\ z.ssp = y.ssp
    BY <2>1 DEF Machines
  <2> QED BY <2>2 DEF a_reg, stack_ptr
<1>2. CASE t.kind = "Immediate"
  BY <1>2 DEF write_operand
<1>3. CASE t.kind \notin {"DataRegister", "Immediate"}
  <2>1. z = recomp_mem_write(y, operand_address(y, t, sea), size, v)
    BY <1>3 DEF write_operand
  <2>2. z.a = y.a /\ z.sr = y.sr /\ z.usp = y.usp /\ z.ssp = y.ssp
    BY <2>1 DEF Machines, recomp_mem_write, Put
  <2> QED BY <2>2 DEF a_reg, stack_ptr
<1> QED BY <1>1, <1>2, <1>3

(* A write and the step of a register that its operand does not use are    *)
(* done in either order.                                                   *)
LEMMA StepAside ==
    ASSUME EightBits, NEW D, NEW y \in Machines(D), NEW n \in 0 .. 7, NEW k \in Int, NEW t \in Targets,
               ~Uses(t, n),
           t.kind \notin {"ProgramCounterIndex", "Immediate"}, NEW sea, NEW size \in Sizes, NEW v \in Int,
           NEW z, z = write_operand(y, t, sea, size, v), NEW f, f = SetA(y, n, a_reg(y, n) + k)
    PROVE  write_operand(f, t, sea, size, v) = SetA(z, n, a_reg(z, n) + k)
<1> DEFINE c == a_reg(y, n) + k
<1>1. c \in Int /\ f = SetA(y, n, c)
  BY RegisterIn, ValuesWiden
<1>2. f.d = y.d /\ f \in Machines(D) /\ \A j \in 0 .. 7 : j # n => a_reg(f, j) = a_reg(y, j)
  <2>1. c = a_reg(y, n) + k
    OBVIOUS
  <2> HIDE DEF c
  <2>2. AddressSet(D, f, y, n, c)
    BY <1>1, SetAIn
  <2> QED BY <1>1, <2>2, SetAKeeps DEF AddressSet
<1>3. CASE t.kind = "DataRegister"
  <2> DEFINE j == t.index
             r == Replaced(y.d[j], v, size)
  <2>1. z = SetD(y, j, r)
    BY <1>3 DEF write_operand, SetD
  <2>2. write_operand(f, t, sea, size, v) = SetD(f, j, r)
    BY <1>2, <1>3 DEF write_operand, SetD
  <2>3. a_reg(z, n) = a_reg(y, n)
    BY <1>3, WriteKeepsAddress
  <2> HIDE DEF j, r
  <2>4. SetA(SetD(y, j, r), n, c) = SetD(SetA(y, n, c), j, r)
    BY ClassesApart
  <2> QED BY <1>1, <2>1, <2>2, <2>3, <2>4
<1>4. CASE t.kind = "AddressRegister"
  <2> DEFINE j == t.index
             r == Replaced(a_reg(y, j), v, size)
  <2>1. j \in 0 .. 7 /\ j # n
    <3>1. t.index \in 0 .. 7 /\ "index" \in DOMAIN t
      BY <1>4 DEF Targets, Stepped, Relative
    <3> QED BY <1>4, <3>1 DEF Uses, On
  <2>2. z = SetA(y, j, r)
    BY <1>4 DEF write_operand
  <2>3. write_operand(f, t, sea, size, v) = SetA(f, j, r)
    BY <1>2, <1>4, <2>1 DEF write_operand
  <2>4. r \in Int
    BY <2>1, RegisterIn, ReplacedIn, ValuesWiden
  <2>5. a_reg(z, n) = a_reg(y, n)
    <3> HIDE DEF r, j
    <3>1. AddressSet(D, z, y, j, r)
      BY <2>1, <2>2, <2>4, SetAIn
    <3> QED BY <2>1, <3>1 DEF AddressSet
  <2> HIDE DEF j, r
  <2>6. SetA(SetA(y, j, r), n, c) = SetA(SetA(y, n, c), j, r)
    <3> HIDE DEF c
    <3> QED BY <2>1, AddressesApart
  <2> QED BY <1>1, <2>2, <2>3, <2>5, <2>6
<1>5. CASE ~IsRegister(t)
  <2> DEFINE addr == operand_address(y, t, sea)
  <2>1. operand_address(f, t, sea) = addr
    <3> HIDE DEF c
    <3> QED BY <1>1, <1>5, StepsBeside
  <2>2. z = recomp_mem_write(y, addr, size, v)
    BY <1>5 DEF write_operand, IsRegister
  <2>3. write_operand(f, t, sea, size, v) = recomp_mem_write(f, addr, size, v)
    BY <1>5, <2>1 DEF write_operand, IsRegister
  <2>4. a_reg(z, n) = a_reg(y, n)
    BY <1>5, WriteKeepsAddress DEF IsRegister
  <2> HIDE DEF addr
  <2>5. recomp_mem_write(SetA(y, n, c), addr, size, v) = SetA(recomp_mem_write(y, addr, size, v), n, c)
    BY PutBeside
  <2> QED BY <1>1, <2>2, <2>3, <2>4, <2>5
<1> QED BY <1>3, <1>4, <1>5 DEF IsRegister

(* The same of the effect after a statement.                               *)
LEMMA PostAside ==
    ASSUME EightBits, NEW D, NEW y \in Machines(D), NEW s \in Targets, NEW size \in Sizes,
               s.kind \in Stepped => s.size = size,
           NEW t \in Targets, s.kind = "AddressIncrement" => ~Uses(t, s.index),
           t.kind \notin {"ProgramCounterIndex", "Immediate"}, NEW sea, NEW v \in Int,
           NEW z, z = write_operand(y, t, sea, size, v)
    PROVE  write_operand(post_effect(y, s, size), t, sea, size, v) = post_effect(z, s, size)
<1>1. CASE s.kind = "AddressIncrement"
  <2>1. s.index \in 0 .. 7 /\ Adjustment(s, size) \in Int
    BY <1>1, TargetIn, Adjusts DEF Stepped
  <2> DEFINE n == s.index
             k == Adjustment(s, size)
             f == SetA(y, n, a_reg(y, n) + k)
  <2>2. post_effect(y, s, size) = f /\ post_effect(z, s, size) = SetA(z, n, a_reg(z, n) + k)
    BY <1>1 DEF post_effect
  <2>3. ~Uses(t, n)
    BY <1>1
  <2>4. f = SetA(y, n, a_reg(y, n) + k) /\ n \in 0 .. 7 /\ k \in Int
    BY <2>1
  <2> HIDE DEF n, k, f
  <2>5. write_operand(f, t, sea, size, v) = SetA(z, n, a_reg(z, n) + k)
    BY <2>3, <2>4, StepAside
  <2> QED BY <2>2, <2>5
<1>2. CASE s.kind # "AddressIncrement"
  BY <1>2, EffectNone
<1> QED BY <1>1, <1>2

(* The emitted code's write leaves a machine.                              *)
LEMMA WriteIn ==
    ASSUME EightBits, NEW D, NEW y \in Machines(D), NEW t \in Targets, t.kind # "ProgramCounterIndex", NEW sea,
           sea = static_ea(t, y.pc), NEW size \in Sizes, NEW v \in Int, NEW z,
               z = write_operand(y, t, sea, size, v)
    PROVE  z \in Machines(D) /\ z.sr = y.sr /\ z.pc = y.pc
<1>1. IsRegister(t) => t.index \in 0 .. 7 /\ y.d[t.index] \in Values(Long) /\ a_reg(y, t.index) \in Values(Long)
  BY TargetIn, RegisterIn
<1>2. CASE t.kind = "DataRegister"
  <2> DEFINE r == Replaced(y.d[t.index], v, size)
  <2>1. z = [y EXCEPT !.d[t.index] = r]
    BY <1>2 DEF write_operand
  <2>2. r \in Values(Long)
    BY <1>1, <1>2, ReplacedIn DEF IsRegister
  <2> HIDE DEF r
  <2> QED BY <2>1, <2>2 DEF Machines
<1>3. CASE t.kind = "AddressRegister"
  <2> DEFINE r == Replaced(a_reg(y, t.index), v, size)
             n == t.index
  <2>1. z = SetA(y, n, r)
    BY <1>3 DEF write_operand
  <2>2. r \in Int /\ n \in 0 .. 7
    BY <1>1, <1>3, ReplacedIn, ValuesWiden DEF IsRegister
  <2> HIDE DEF r, n
  <2>3. Twin(D, SetA(y, n, r), SetA(y, n, r))
    BY <2>2, TwinSelf, TwinSetA
  <2> QED BY <2>1, <2>3, SetAKeeps DEF Twin
<1>4. CASE t.kind = "Immediate"
  BY <1>4 DEF write_operand
<1>5. CASE ~IsRegister(t) /\ t.kind # "Immediate"
  <2> DEFINE addr == operand_address(y, t, sea)
  <2>1. z = recomp_mem_write(y, addr, size, v)
    BY <1>5 DEF write_operand, IsRegister
  <2>2. effective_address(y, t) \in Int
    BY <1>5, AddressIn, ValuesWiden DEF IsMemory
  <2>3. addr \in Int
    <3>1. CASE t.kind \in Static
      <4>1. sea = effective_address(y, t)
        BY <3>1, StaticIs
      <4> QED BY <2>2, <3>1, <4>1 DEF operand_address
    <3>2. CASE t.kind \notin Static
      <4>1. addr = Bus(effective_address(y, t))
        BY <3>2 DEF operand_address
      <4> QED BY <2>2, <4>1, BusIs
    <3> QED BY <3>1, <3>2
  <2> HIDE DEF addr
  <2>4. CASE Mapped(y, addr, size)
    <3>1. z = Put(y, addr, size, v)
      BY <2>1, <2>4 DEF recomp_mem_write
    <3>2. Pushed(D, Put(y, addr, size, v), y)
      BY <2>3, <2>4, PutIn
    <3>3. z.sr = y.sr /\ z.pc = y.pc
      BY <3>1 DEF Put, Machines
    <3> QED BY <3>1, <3>2, <3>3 DEF Pushed
  <2>5. CASE ~Mapped(y, addr, size)
    BY <2>1, <2>5 DEF recomp_mem_write
  <2> QED BY <2>4, <2>5
<1> QED BY <1>2, <1>3, <1>4, <1>5 DEF IsRegister

(* MOVE: the destination does not use the register that the source steps.  *)
LEMMA MoveAgrees ==
    ASSUME EightBits, NEW D, NEW m, NEW i, Ready(D, m, i), i.kind = "Move", Ok(Execute(m, i)),
           NEW u, ~Deviates(m, i, u, Execute(m, i))
    PROVE  Agrees(D, m, i, u)
<1> DEFINE size == i.size
           a == i["src"]
           t == i["dst"]
           y == [m EXCEPT !.pc = i.data]
           p == try_decrement_address(y, i, "src")
           s == OperandValue(p, a, size)
           q == [try_increment_address(p, i, "src") EXCEPT !.pc = m.pc]
           next == Then(Write(q, i, "dst", size, s), SetLogic(q.sr, s, size))
           P == pre_effect(m, a, size)
           Q == post_effect(P, a, size)
           b == static_ea(t, m.pc)
           w == read_operand(P, a, static_ea(a, i.data), size)
           x == try_decrement_address(q, i, "dst")
           e == SetLogic(m.sr, s, size)
           z == write_operand(Q, t, b, size, w)
           z0 == write_operand(P, t, b, size, w)
<1>0. i.kind = "Move" /\ i.kind \in {"Move", "Movea"} /\ i.kind # "Movem" /\ AsDecoded(i)
      /\ i.kind \notin BitKinds \cup {"Abcd", "Sbcd"}
  BY SMT DEF BitKinds, Ready
<1>1. /\ a \in Targets /\ t \in Targets /\ "src" \in DOMAIN i /\ "dst" \in DOMAIN i /\ "src" \in Roles
             /\ "dst" \in Roles
      /\ a.kind # "ProgramCounterIndex" /\ t.kind \notin {"ProgramCounterIndex", "Immediate"} \cup Stepped
      /\ size \in Sizes /\ (a.kind \in Stepped => a.size = size) /\ bytes(i, u) = size
      /\ (a.kind = "AddressIncrement" => ~Uses(t, a.index))
      /\ operand(i, u, "src") = a /\ operand(i, u, "dst") = t
      /\ ea(m, i, u, "src") = static_ea(a, i.data) /\ (\A g : ea(g, i, u, "dst") = static_ea(t, g.pc))
      /\ Effects(i.kind).pre = <<"src">> /\ Effects(i.kind).post = <<"src">>
  BY <1>0, MoveIs
<1>2. Perform(m, i) = IF Accessible(p, a, size) THEN next ELSE Fail(p)
  <2>1. Perform(m, i) = ExecMove(m, i)
    BY <1>0, PerformIs
  <2> QED BY <2>1, Zenon DEF ExecMove, ReadAtSource, Read
<1>3. translate_inst(m, i, u) = post_effect(StoreResult(P, i, u,
          [value |-> w, sr |-> SetLogic(P.sr, w, size)]), a, size)
  <2> DEFINE Body(k, sv, dv) == IF i.kind = "Movea"
                 THEN SetA(k, i.dst.index, IF i.size = Word THEN Signed(sv, Word) ELSE sv)
                                ELSE StoreResult(k, i, u,
                                    [value |-> sv, sr |-> m68k_flags_move(k.sr, sv, i.size)])
             B == bytes(i, u)
             P0 == pre_effect(m, operand(i, u, "src"), B)
             s0 == read_operand(P0, operand(i, u, "src"), ea(m, i, u, "src"), B)
             d0 == read_operand(P0, operand(i, u, "dst"), ea(m, i, u, "dst"), B)
  <2>1. translate_inst(m, i, u) = LiftMove(m, i, u)
    BY <1>0, TranslateIs
  <2>2. LiftMove(m, i, u) = Statement(m, i, u, Body)
    BY DEF LiftMove
  <2>3. Body(P, w, d0) = StoreResult(P, i, u, [value |-> w, sr |-> SetLogic(P.sr, w, size)])
    BY <1>0 DEF m68k_flags_move
  <2> HIDE DEF Body
  <2>4. Statement(m, i, u, Body) = post_effect(Body(P0, s0, d0), operand(i, u, "src"), B)
    BY <1>0, <1>1, Ones, Zenon DEF Statement, InTurn
  <2>5. P0 = P /\ s0 = w /\ B = size /\ operand(i, u, "src") = a
    BY <1>1
  <2> QED BY <2>1, <2>2, <2>3, <2>4, <2>5
<1>4. p = try_decrement_address(y, i, "src") /\ P = pre_effect(m, a, size) /\ a = i["src"]
          /\ b = static_ea(t, m.pc) /\ t = i["dst"]
      /\ s = OperandValue(p, a, size) /\ w = read_operand(P, a, static_ea(a, i.data), size) /\ size = i.size
      /\ y = [m EXCEPT !.pc = i.data] /\ q = [try_increment_address(p, i, "src") EXCEPT !.pc = m.pc]
      /\ Q = post_effect(P, a, size) /\ x = try_decrement_address(q, i, "dst") /\ e = SetLogic(m.sr, s, size)
      /\ next = Then(Write(q, i, "dst", size, s), SetLogic(q.sr, s, size))
      /\ z = write_operand(Q, t, b, size, w) /\ z0 = write_operand(P, t, b, size, w)
  OBVIOUS
<1> HIDE DEF y, p, P, a, t, b, s, w, q, Q, x, e, next, z, z0, size
<1>5. /\ P \in Machines(D) /\ P.sr = m.sr /\ P.pc = m.pc /\ m.sr \in StatusRegisters
      /\ Twin(D, q, Q) /\ q.incremented = {"src"} /\ q.decremented = {"src"} /\ q.pc = m.pc /\ q.sr = m.sr
      /\ Q.pc = m.pc /\ Q.sr = m.sr /\ Q \in Machines(D)
      /\ Reads(s, w, size) /\ Perform(m, i) = next
  <2>1. /\ a = i["src"] /\ size = i.size /\ y = [m EXCEPT !.pc = i.data]
               /\ p = try_decrement_address(y, i, "src")
        /\ s = OperandValue(p, a, size) /\ q = [try_increment_address(p, i, "src") EXCEPT !.pc = m.pc]
        /\ P = pre_effect(m, a, size) /\ Q = post_effect(P, a, size)
               /\ w = read_operand(P, a, static_ea(a, i.data), size)
    BY <1>4
  <2>2. i.kind \in {"Move", "Movea"}
    BY <1>0
  <2>3. MoveRead(D, m, i, u, y, a, size, p, s, q, next, P, Q, w)
    BY <1>2, <2>1, <2>2, MoveReads
  <2> QED BY <2>3, Zenon DEF MoveRead
<1>6. s \in Int /\ w \in Int /\ Low(s, size) = Low(w, size) /\ e \in StatusRegisters /\ e.s = m.sr.s
  <2>1. s \in Int /\ w \in Int /\ Low(w, size) = s /\ Low(s, size) = s
    BY <1>5, LowLow, <1>1 DEF Reads
  <2>2. NewFlags(m.sr, e)
    BY <1>1, <1>4, <1>5, <2>1, SetLogicIn
  <2> QED BY <2>1, <2>2 DEF NewFlags
<1>7. SetLogic(P.sr, w, size) = e /\ SetLogic(q.sr, s, size) = e
  BY <1>1, <1>4, <1>5, ReadsSame
<1>8. StoreResult(P, i, u, [value |-> w, sr |-> SetLogic(P.sr, w, size)]) = [z0 EXCEPT !.sr = e]
  <2>1. ea(P, i, u, "dst") = b
    BY <1>1, <1>4, <1>5
  <2>2. StoreResult(P, i, u, [value |-> w, sr |-> e]) = [z0 EXCEPT !.sr = e]
    BY <1>1, <1>4, <2>1, Zenon DEF StoreResult, wd
  <2> QED BY <1>7, <2>2
<1>9. post_effect([z0 EXCEPT !.sr = e], a, size) = [z EXCEPT !.sr = e]
  <2>1. z0 \in Machines(D) /\ z0.sr = m.sr
    BY <1>1, <1>4, <1>5, <1>6, WriteIn
  <2>2. post_effect([z0 EXCEPT !.sr = e], a, size) = [post_effect(z0, a, size) EXCEPT !.sr = e]
    BY <1>6, <2>1, PostCommutes
  <2>3. write_operand(post_effect(P, a, size), t, b, size, w) = post_effect(z0, a, size)
    BY <1>1, <1>4, <1>5, <1>6, PostAside
  <2> QED BY <1>4, <2>2, <2>3
<1>10. Twin(D, x, Q) /\ x.incremented = {"src"} /\ "dst" \in x.decremented /\ x.pc = m.pc
  <2>1. "dst" \notin q.decremented
    BY <1>5
  <2>2. t.kind \in Stepped => t.size = size
    BY <1>1
  <2>3. Placed(D, x, q, pre_effect(Q, t, size), "dst")
    BY <1>0, <1>1, <1>4, <1>5, <2>1, <2>2, DecrementPlaced
  <2>4. pre_effect(Q, t, size) = Q
    BY <1>1, EffectNone DEF Stepped
  <2> QED BY <1>5, <2>3, <2>4 DEF Placed
<1>11. Perform(m, i) = Then(Write(x, i, "dst", size, s), e)
  <2>1. Write(q, i, "dst", size, s) = Write(x, i, "dst", size, s)
    BY <1>4, <1>5, <1>10, WriteAfter DEF Twin
  <2> QED BY <1>4, <1>5, <1>7, <2>1
<1>12. Twin(D, Execute(m, i), post_effect([z EXCEPT !.sr = e], t, size))
  <2> DEFINE z1 == [z EXCEPT !.sr = e]
  <2>1. "dst" \notin x.incremented
            /\ ("src" \in DOMAIN i => i["src"].kind # "AddressIncrement" \/ "src" \in x.incremented)
    BY <1>10
  <2>2. z1 = [write_operand(Q, t, b, size, w) EXCEPT !.sr = e]
            /\ t.kind \notin {"ProgramCounterIndex", "Immediate"}
        /\ (t.kind \in Stepped => t.size = size)
    BY <1>1, <1>4
  <2> HIDE DEF z1
  <2>3. Twin(D, Execute(m, i), post_effect(z1, t, size))
    BY <1>0, <1>1, <1>4, <1>6, <1>10, <1>11, <2>1, <2>2, StoresLast
  <2> QED BY <2>3 DEF z1
<1>13. post_effect([z EXCEPT !.sr = e], t, size) = [z EXCEPT !.sr = e]
  BY <1>1, EffectNone DEF Stepped
<1> QED BY <1>3, <1>8, <1>9, <1>12, <1>13 DEF Agrees

(* A long written to an address register is what MOVEA sets.               *)
LEMMA SetIsWrite ==
    ASSUME EightBits, NEW D, NEW y \in Machines(D), NEW t \in Targets, t.kind = "AddressRegister",
               NEW v \in Int, NEW sea
    PROVE  write_operand(y, t, sea, Long, v) = SetA(y, t.index, v)
<1>1. t.index \in 0 .. 7
  BY TargetIn DEF IsRegister
<1>2. write_operand(y, t, sea, Long, v) = SetA(y, t.index, Replaced(a_reg(y, t.index), v, Long))
  BY DEF write_operand
<1>3. Replaced(a_reg(y, t.index), v, Long) = Low(v, Long)
  BY <1>1, RegisterIn, ReplacedLong
<1> QED BY <1>2, <1>3, SetALow

(* The register that MOVEA sets and the one that its source steps are set  *)
(* in either order.                                                        *)
LEMMA PostBeside ==
    ASSUME EightBits, NEW D, NEW y \in Machines(D), NEW s \in Targets, NEW size, s.kind \in Stepped
               => s.size = size,
           NEW t \in Targets, s.kind = "AddressIncrement" => ~Uses(t, s.index), t.kind = "AddressRegister",
           NEW n, n = t.index, NEW v \in Int, NEW z, z = SetA(y, n, v)
    PROVE  post_effect(z, s, size) = SetA(post_effect(y, s, size), n, v)
<1>1. CASE s.kind = "AddressIncrement"
  <2>1. s.index \in 0 .. 7 /\ Adjustment(s, size) \in Int
    BY <1>1, TargetIn, Adjusts DEF Stepped
  <2> DEFINE j == s.index
             k == Adjustment(s, size)
             f == SetA(y, j, a_reg(y, j) + k)
  <2>2. post_effect(y, s, size) = f /\ post_effect(z, s, size) = SetA(z, j, a_reg(z, j) + k)
    BY <1>1 DEF post_effect
  <2>3. ~Uses(t, j)
    BY <1>1
  <2>4. f = SetA(y, j, a_reg(y, j) + k) /\ j \in 0 .. 7 /\ k \in Int
    BY <2>1
  <2>5. f \in Machines(D)
    <3>1. a_reg(y, j) + k \in Int
      BY <2>4, RegisterIn, ValuesWiden
    <3> DEFINE c == a_reg(y, j) + k
    <3> HIDE DEF c, j
    <3>2. Twin(D, SetA(y, j, c), SetA(y, j, c))
      BY <2>4, <3>1, TwinSelf, TwinSetA DEF c
    <3> QED BY <2>4, <3>2 DEF Twin, c
  <2> HIDE DEF j, k, f
  <2>6. write_operand(y, t, 0, Long, v) = z /\ write_operand(f, t, 0, Long, v) = SetA(f, n, v)
    BY <2>5, SetIsWrite
  <2>7. write_operand(f, t, 0, Long, v) = SetA(z, j, a_reg(z, j) + k)
    <3>1. t.kind \notin {"ProgramCounterIndex", "Immediate"} /\ Long \in Sizes
              /\ z = write_operand(y, t, 0, Long, v)
      BY <2>6 DEF Sizes
    <3> QED BY <2>3, <2>4, <3>1, StepAside
  <2> QED BY <2>2, <2>6, <2>7
<1>2. CASE s.kind # "AddressIncrement"
  BY <1>2, EffectNone
<1> QED BY <1>1, <1>2

(* MOVEA: the source does not step the destination.                        *)
LEMMA MoveaAgrees ==
    ASSUME EightBits, NEW D, NEW m, NEW i, Ready(D, m, i), i.kind = "Movea", Ok(Execute(m, i)),
           NEW u, ~Deviates(m, i, u, Execute(m, i))
    PROVE  Agrees(D, m, i, u)
<1> DEFINE size == i.size
           a == i["src"]
           t == i["dst"]
           n == t.index
           y == [m EXCEPT !.pc = i.data]
           p == try_decrement_address(y, i, "src")
           s == OperandValue(p, a, size)
           q == [try_increment_address(p, i, "src") EXCEPT !.pc = m.pc]
           v == IF size = Word THEN Signed(s, Word) ELSE s
           next == Write(q, i, "dst", Long, v)
           P == pre_effect(m, a, size)
           Q == post_effect(P, a, size)
           w == read_operand(P, a, static_ea(a, i.data), size)
           k == IF size = Word THEN Signed(w, Word) ELSE w
           z == SetA(P, n, k)
<1>0. i.kind = "Movea" /\ i.kind \in {"Move", "Movea"} /\ i.kind # "Movem" /\ AsDecoded(i)
      /\ i.kind \notin BitKinds \cup {"Abcd", "Sbcd"}
  BY SMT DEF BitKinds, Ready
<1>1. /\ a \in Targets /\ t \in Targets /\ "src" \in DOMAIN i /\ "dst" \in DOMAIN i /\ "src" \in Roles
             /\ "dst" \in Roles
      /\ size \in {Word, Long} /\ (a.kind \in Stepped => a.size = size) /\ bytes(i, u) = size
      /\ (a.kind = "AddressIncrement" => ~Uses(t, a.index)) /\ t.kind = "AddressRegister"
      /\ operand(i, u, "src") = a /\ operand(i, u, "dst") = t
      /\ ea(m, i, u, "src") = static_ea(a, i.data)
      /\ Effects(i.kind).pre = <<"src">> /\ Effects(i.kind).post = <<"src">>
  BY <1>0, MoveIs
<1>2. Perform(m, i) = IF Accessible(p, a, size) THEN next ELSE Fail(p)
  <2>1. Perform(m, i) = ExecMovea(m, i)
    BY <1>0, PerformIs
  <2> QED BY <2>1, Zenon DEF ExecMovea, ReadAtSource, Read
<1>3. translate_inst(m, i, u) = post_effect(z, a, size)
  <2> DEFINE Body(g, sv, dv) == IF i.kind = "Movea"
                 THEN SetA(g, i.dst.index, IF i.size = Word THEN Signed(sv, Word) ELSE sv)
                                ELSE StoreResult(g, i, u,
                                    [value |-> sv, sr |-> m68k_flags_move(g.sr, sv, i.size)])
             B == bytes(i, u)
             P0 == pre_effect(m, operand(i, u, "src"), B)
             s0 == read_operand(P0, operand(i, u, "src"), ea(m, i, u, "src"), B)
             d0 == read_operand(P0, operand(i, u, "dst"), ea(m, i, u, "dst"), B)
  <2>1. translate_inst(m, i, u) = LiftMove(m, i, u)
    BY <1>0, TranslateIs
  <2>2. LiftMove(m, i, u) = Statement(m, i, u, Body)
    BY DEF LiftMove
  <2>3. Body(P, w, d0) = z
    BY <1>0
  <2> HIDE DEF Body
  <2>4. Statement(m, i, u, Body) = post_effect(Body(P0, s0, d0), operand(i, u, "src"), B)
    BY <1>0, <1>1, Ones, Zenon DEF Statement, InTurn
  <2>5. P0 = P /\ s0 = w /\ B = size /\ operand(i, u, "src") = a
    BY <1>1
  <2> QED BY <2>1, <2>2, <2>3, <2>4, <2>5
<1>4. /\ a = i["src"] /\ size = i.size /\ y = [m EXCEPT !.pc = i.data] /\ p = try_decrement_address(y, i, "src")
      /\ s = OperandValue(p, a, size) /\ q = [try_increment_address(p, i, "src") EXCEPT !.pc = m.pc]
      /\ P = pre_effect(m, a, size) /\ Q = post_effect(P, a, size)
             /\ w = read_operand(P, a, static_ea(a, i.data), size)
  OBVIOUS
<1>5. /\ t = i["dst"] /\ n = t.index /\ next = Write(q, i, "dst", Long, v) /\ z = SetA(P, n, k)
  OBVIOUS
<1>6. v = (IF size = Word THEN Signed(s, Word) ELSE s) /\ k = (IF size = Word THEN Signed(w, Word) ELSE w)
  OBVIOUS
<1> HIDE DEF y, p, P, a, t, n, s, w, q, Q, next, z, v, k, size
<1>7. MoveRead(D, m, i, u, y, a, size, p, s, q, next, P, Q, w)
  <2>1. i.kind \in {"Move", "Movea"}
    BY <1>0
  <2> QED BY <1>2, <1>4, <2>1, MoveReads
<1>8. P \in Machines(D) /\ Twin(D, q, Q) /\ q.incremented = {"src"} /\ Reads(s, w, size) /\ Perform(m, i) = next
  BY <1>7, Zenon DEF MoveRead
<1>9. v \in Int /\ k \in Int /\ Low(v, Long) = Low(k, Long)
  BY <1>1, <1>6, <1>8, Extended
<1>10. Placed(D, next, q, SetA(Q, n, k), "dst")
  BY <1>1, <1>5, <1>8, <1>9, SetsAddress
<1>11. post_effect(z, a, size) = SetA(Q, n, k)
  BY <1>1, <1>4, <1>5, <1>8, <1>9, PostBeside
<1>12. Twin(D, Execute(m, i), SetA(Q, n, k))
  <2> DEFINE done == Perform(m, i)
             f == SetA(Q, n, k)
  <2>1. done = Perform(m, i) /\ Twin(D, done, f) /\ done.incremented = {"src"}
    BY <1>8, <1>10 DEF Placed
  <2>2. \A role \in Roles \cap DOMAIN i : i[role].kind # "AddressIncrement" \/ role \in done.incremented
    BY <1>1, <1>5, <2>1 DEF Roles
  <2> HIDE DEF done, f
  <2>3. Twin(D, Execute(m, i), f)
    BY <2>1, <2>2, EndsStill
  <2> QED BY <2>3 DEF f
<1> QED BY <1>3, <1>11, <1>12 DEF Agrees

-----------------------------------------------------------------------------
(***************************************************************************)
(* Two operands in memory.                                                 *)
(***************************************************************************)

(* What BothReads finds: the interpreter at p and then at q, the emitted   *)
(* code at P and then at Q.                                                *)
BothRead(D, m, i, S, T, first, second, B, p, q, s, d, next, P, Q, s2, d2) ==
    /\ Twin(D, p, P) /\ Twin(D, q, Q) /\ q.decremented = {"src", "dst"} /\ q.incremented = {}
    /\ q.pc = m.pc /\ q.sr = m.sr /\ Q.pc = m.pc /\ Q.sr = m.sr /\ P.pc = m.pc /\ P.sr = m.sr
           /\ m.sr \in StatusRegisters
    /\ Reads(s, s2, first) /\ Reads(d, d2, second) /\ (~IsRegister(T) => d2 = d) /\ Accessible(q, T, second)
    /\ Perform(m, i) = next /\ Ok(next) /\ next \in Machines(D)

(* An instruction that reads the source and then the destination: both     *)
(* sides read the same, in memory that the steps have left alone.          *)
LEMMA BothReads ==
    ASSUME EightBits, NEW D, NEW m, NEW i, Ready(D, m, i), Ok(Execute(m, i)), i.kind # "Movem",
               Roles \subseteq DOMAIN i,
           NEW S \in Targets, S = i["src"], S.kind # "ProgramCounterIndex",
           NEW T \in Targets, T = i["dst"], T.kind # "ProgramCounterIndex",
           NEW first \in Sizes, NEW second \in Sizes, NEW B, S.kind \in Stepped => S.size = B,
                   T.kind \in Stepped => T.size = B,
           NEW p, p = try_decrement_address(m, i, "src"), NEW q, q = try_decrement_address(p, i, "dst"),
           NEW s, s = OperandValue(p, S, first), NEW d, d = OperandValue(q, T, second), NEW next,
           Perform(m, i) = IF Accessible(p, S, first) THEN IF Accessible(q, T, second) THEN next
               ELSE Fail(q) ELSE Fail(p),
           NEW P, P = pre_effect(m, S, B), NEW Q, Q = pre_effect(P, T, B),
           NEW s2, s2 = read_operand(P, S, static_ea(S, m.pc), first), NEW d2,
                   d2 = read_operand(Q, T, static_ea(T, m.pc), second)
    PROVE  BothRead(D, m, i, S, T, first, second, B, p, q, s, d, next, P, Q, s2, d2)
<1>1. /\ m \in Machines(D) /\ m.decremented = {} /\ m.incremented = {} /\ WellFormed(i) /\ OnBus(D)
             /\ Twin(D, m, m)
  BY Begins
<1>2. "src" \in Roles /\ "dst" \in Roles
  BY DEF Roles
<1>3. Placed(D, p, m, P, "src")
  <2>1. "src" \notin m.decremented
    BY <1>1
  <2> QED BY <1>1, <1>2, <2>1, DecrementPlaced
<1>4. Placed(D, q, p, Q, "dst")
  <2>1. "dst" \notin p.decremented /\ Twin(D, p, P)
    BY <1>1, <1>3 DEF Placed
  <2> QED BY <1>2, <2>1, DecrementPlaced
<1>5. /\ Twin(D, p, P) /\ p.pc = m.pc /\ p.sr = m.sr /\ m.sr \in StatusRegisters
      /\ Twin(D, q, Q) /\ q.decremented = {"src", "dst"} /\ q.incremented = {} /\ q.pc = m.pc /\ q.sr = m.sr
  <2>1. m.sr \in StatusRegisters
    BY <1>1 DEF Machines
  <2> QED BY <1>1, <1>3, <1>4, <2>1 DEF Placed
<1>6. Q.pc = m.pc /\ Q.sr = m.sr /\ P.pc = m.pc /\ P.sr = m.sr
  BY <1>5 DEF Twin, Same
<1> DEFINE done == Perform(m, i)
<1>7. Ok(done) /\ done \in Machines(D)
  BY Completes
<1>8. Accessible(p, S, first) /\ Accessible(q, T, second) /\ done = next
  <2>1. ~Ok(Fail(p)) /\ ~Ok(Fail(q))
    BY <1>5, FailIsNotOk DEF Twin
  <2> QED BY <1>7, <2>1
<1>9. Reads(s, s2, first)
  <2> DEFINE a == static_ea(S, m.pc)
  <2>1. a = static_ea(S, p.pc) /\ s2 = read_operand(P, S, a, first)
    BY <1>5
  <2> HIDE DEF a
  <2> QED BY <1>1, <1>5, <1>8, <2>1, ReadTwin
<1>10. Reads(d, d2, second) /\ (~IsRegister(T) => d2 = d)
  <2> DEFINE b == static_ea(T, m.pc)
  <2>1. b = static_ea(T, q.pc) /\ d2 = read_operand(Q, T, b, second)
    BY <1>5
  <2> HIDE DEF b
  <2> QED BY <1>1, <1>5, <1>8, <2>1, ReadTwin
<1> QED BY <1>5, <1>6, <1>7, <1>8, <1>9, <1>10 DEF BothRead

(* Two predecremented operands on different registers are stepped in       *)
(* either order.                                                           *)
LEMMA OperandsApart ==
    ASSUME EightBits, NEW D, NEW m \in Machines(D), NEW S \in Targets, NEW T \in Targets, NEW B,
           S.kind = T.kind, S.kind \in {"DataRegister", "AddressDecrement"}, S.kind \in Stepped => S.size = B,
           T.kind \in Stepped => T.size = B, S.kind = "AddressDecrement" => S.index # T.index,
           NEW P, P = pre_effect(m, S, B), NEW Q, Q = pre_effect(P, T, B), NEW sea, NEW size
    PROVE  pre_effect(pre_effect(m, T, B), S, B) = Q
               /\ read_operand(Q, S, sea, size) = read_operand(P, S, sea, size)
<1>1. CASE S.kind = "DataRegister"
  <2>1. \A g : pre_effect(g, S, B) = g /\ pre_effect(g, T, B) = g
    BY <1>1 DEF pre_effect
  <2> QED BY <2>1, Zenon
<1>2. CASE S.kind = "AddressDecrement"
  <2> DEFINE j == S.index
             k == T.index
             v == a_reg(m, j) - Adjustment(S, B)
             w == a_reg(m, k) - Adjustment(T, B)
  <2>1. j \in 0 .. 7 /\ k \in 0 .. 7 /\ j # k /\ Adjustment(S, B) \in Int /\ Adjustment(T, B) \in Int
    BY <1>2, TargetIn, Adjusts DEF Stepped
  <2>2. v \in Int /\ w \in Int
    BY <2>1, RegisterIn, ValuesWiden
  <2>3. P = SetA(m, j, v) /\ pre_effect(m, T, B) = SetA(m, k, w)
    BY <1>2 DEF pre_effect
  <2>4. a_reg(P, k) = a_reg(m, k) /\ a_reg(SetA(m, k, w), j) = a_reg(m, j) /\ P \in Machines(D)
    <3> HIDE DEF v, w, j, k
    <3>1. AddressSet(D, SetA(m, j, v), m, j, v) /\ AddressSet(D, SetA(m, k, w), m, k, w)
      BY <2>1, <2>2, SetAIn
    <3> QED BY <2>1, <2>3, <3>1 DEF AddressSet
  <2>5. Q = SetA(P, k, w) /\ pre_effect(SetA(m, k, w), S, B) = SetA(SetA(m, k, w), j, v)
    BY <1>2, <2>4 DEF pre_effect
  <2>6. ~Uses(S, k) /\ ~IsRegister(S) /\ S.kind \notin {"ProgramCounterIndex", "Immediate"}
    BY <1>2, <2>1 DEF Uses, On, IsRegister, Targets, Stepped, Relative
  <2> HIDE DEF v, w, j, k
  <2>7. SetA(SetA(m, k, w), j, v) = SetA(SetA(m, j, v), k, w)
    BY <2>1, AddressesApart
  <2>8. operand_address(Q, S, sea) = operand_address(P, S, sea)
    BY <2>1, <2>2, <2>4, <2>5, <2>6, StepsBeside
  <2>9. Q.mem = P.mem
    BY <2>4, <2>5, SetAKeeps
  <2>10. read_operand(Q, S, sea, size) = read_operand(P, S, sea, size)
    <3> DEFINE addr == operand_address(P, S, sea)
    <3>1. read_operand(Q, S, sea, size) = recomp_mem_read(Q, addr, size)
              /\ read_operand(P, S, sea, size) = recomp_mem_read(P, addr, size)
      BY <2>6, <2>8 DEF read_operand, IsRegister
    <3> HIDE DEF addr
    <3> QED BY <2>9, <3>1 DEF recomp_mem_read, Mapped, Fetch
  <2> QED BY <2>3, <2>5, <2>7, <2>10
<1> QED BY <1>1, <1>2

(* ADDX and SUBX, which the emitted code steps the other way round.        *)
LEMMA ExtendAgrees ==
    ASSUME EightBits, NEW D, NEW m, NEW i, Ready(D, m, i), i.kind \in ExtendKinds, Ok(Execute(m, i)),
           NEW u, ~Deviates(m, i, u, Execute(m, i))
    PROVE  Agrees(D, m, i, u)
<1> DEFINE size == i.size
           op == opcode_type(i.kind)
           S == i["src"]
           T == i["dst"]
           p == try_decrement_address(m, i, "src")
           q == try_decrement_address(p, i, "dst")
           s == OperandValue(p, S, size)
           d == OperandValue(q, T, size)
           v == do_binary_op(op, s + q.sr.x, d)
           sr == StickyZero(q.sr, SetArithmetic(q.sr, s, d, v, size, op))
           next == Then(Write(q, i, "dst", size, v), sr)
           P == pre_effect(m, S, size)
           Q == pre_effect(P, T, size)
           a == static_ea(S, m.pc)
           b == static_ea(T, m.pc)
           s2 == read_operand(P, S, a, size)
           d2 == read_operand(Q, T, b, size)
           z == [write_operand(Q, T, b, size, v) EXCEPT !.sr = sr]
<1>0. /\ i.kind \in ExtendKinds /\ i.kind \in UsesBoth /\ i.kind \in UsesSize /\ i.kind \in SizedKinds
             /\ op \in Operations
      /\ i.kind \notin BitKinds \cup {"Abcd", "Sbcd"} /\ i.kind \notin {"Movem"} \cup Shifts /\ i.kind # "Btst"
      /\ i.kind \notin {"Lea", "Pea", "Jmp", "Jsr", "Movem"} /\ i.kind \notin {"Move", "Movea"}
  BY SMT DEF ExtendKinds, UsesBoth, UsesSize, SizedKinds, opcode_type, Operations, BitKinds, Shifts
<1>1. m \in Machines(D) /\ WellFormed(i) /\ AsDecoded(i)
  BY Begins DEF Ready
<1>2. /\ "src" \in DOMAIN i /\ "dst" \in DOMAIN i /\ "src" \in Roles /\ "dst" \in Roles
             /\ Roles \subseteq DOMAIN i /\ size \in Sizes
  BY <1>0, <1>1, Operands, SizeIn DEF UsesSrc, UsesDst, Roles
<1>3. TransferSize(i) = size /\ bytes(i, u) = size
  BY <1>0, SMT DEF TransferSize, ExtendKinds, bytes, BitKinds, ToCcrKinds
<1>4. /\ S \in Targets /\ T \in Targets /\ S.kind # "ProgramCounterIndex"
             /\ T.kind \notin {"ProgramCounterIndex", "Immediate"}
      /\ (S.kind \in Stepped => S.size = size) /\ (T.kind \in Stepped => T.size = size) /\ ~Entangled(i)
  BY <1>0, <1>1, <1>2, <1>3, OperandsAre
<1>5. /\ S.kind = T.kind /\ S.kind \in {"DataRegister", "AddressDecrement"}
      /\ (S.kind = "AddressDecrement" => S.index # T.index) /\ T.kind # "AddressIncrement"
  <2>1. S.kind = T.kind /\ S.kind \in {"DataRegister", "AddressDecrement"}
    BY <1>0, <1>1 DEF AsDecoded, Given
  <2> QED BY <1>0, <1>2, <1>4, <2>1 DEF Entangled, Is
<1>6. Perform(m, i) = IF Accessible(p, S, size) THEN IF Accessible(q, T, size) THEN next ELSE Fail(q)
          ELSE Fail(p)
  <2>1. Perform(m, i) = ExecExtend(m, i)
    BY <1>0, PerformIs
  <2> QED BY <2>1, Zenon DEF ExecExtend, Read
<1>7. pre_effect(pre_effect(m, T, size), S, size) = Q /\ read_operand(Q, S, a, size) = s2
  <2> HIDE DEF S, T, size, a
  <2> QED BY <1>1, <1>4, <1>5, OperandsApart
<1>8. translate_inst(m, i, u) = post_effect(StoreResult(Q, i, u, m68k_extend(op, Q.sr, d2, s2, size)), T, size)
  <2> DEFINE Body(k, sv, dv) == StoreResult(k, i, u,
                 m68k_extend(opcode_type(i.kind), k.sr, dv, sv, bytes(i, u)))
             B == bytes(i, u)
             Q0 == pre_effect(pre_effect(m, operand(i, u, "dst"), B), operand(i, u, "src"), B)
             s0 == read_operand(Q0, operand(i, u, "src"), ea(m, i, u, "src"), B)
             d0 == read_operand(Q0, operand(i, u, "dst"), ea(m, i, u, "dst"), B)
  <2>1. translate_inst(m, i, u) = LiftExtend(m, i, u)
    BY <1>0, TranslateIs
  <2>2. LiftExtend(m, i, u) = Statement(m, i, u, Body)
    BY DEF LiftExtend
  <2>3. Body(Q, s2, d2) = StoreResult(Q, i, u, m68k_extend(op, Q.sr, d2, s2, size))
    BY <1>3
  <2> HIDE DEF Body
  <2>4. Effects(i.kind).pre = <<"dst", "src">> /\ Effects(i.kind).post = <<"dst">>
    BY <1>0, EffectsAre
  <2>5. Statement(m, i, u, Body) = post_effect(Body(Q0, s0, d0), operand(i, u, "dst"), B)
    BY <1>0, <2>4, Ones, Zenon DEF Statement, InTurn
  <2>6. operand(i, u, "src") = S /\ operand(i, u, "dst") = T /\ ea(m, i, u, "src") = a /\ ea(m, i, u, "dst") = b
    BY <1>0, <1>2, EaIs
  <2>7. Q0 = Q /\ s0 = s2 /\ d0 = d2 /\ B = size
    BY <1>3, <1>7, <2>6
  <2> QED BY <2>1, <2>2, <2>3, <2>5, <2>6, <2>7
<1>9. /\ p = try_decrement_address(m, i, "src") /\ q = try_decrement_address(p, i, "dst")
      /\ s = OperandValue(p, S, size) /\ d = OperandValue(q, T, size)
      /\ P = pre_effect(m, S, size) /\ Q = pre_effect(P, T, size) /\ S = i["src"] /\ T = i["dst"]
      /\ s2 = read_operand(P, S, static_ea(S, m.pc), size) /\ d2 = read_operand(Q, T, static_ea(T, m.pc), size)
  OBVIOUS
<1>10. next = Then(Write(q, i, "dst", size, v), sr) /\ b = static_ea(T, m.pc) /\ z
           = [write_operand(Q, T, b, size, v) EXCEPT !.sr = sr]
  OBVIOUS
<1> HIDE DEF p, q, s, d, P, Q, S, T, s2, d2, a, b, size, op, next, z
<1>11. BothRead(D, m, i, S, T, size, size, size, p, q, s, d, next, P, Q, s2, d2)
  <2>1. i.kind # "Movem"
    BY <1>0
  <2> QED BY <1>2, <1>4, <1>6, <1>9, <2>1, BothReads
<1>12. /\ Twin(D, q, Q) /\ q.decremented = {"src", "dst"} /\ q.incremented = {}
       /\ q.pc = m.pc /\ q.sr = m.sr /\ Q.pc = m.pc /\ Q.sr = m.sr /\ m.sr \in StatusRegisters
       /\ Reads(s, s2, size) /\ Reads(d, d2, size) /\ Perform(m, i) = next
  BY <1>11, Zenon DEF BothRead
<1>13. m68k_extend(op, Q.sr, d2, s2, size) = [value |-> v, sr |-> sr]
  BY <1>12, Zenon DEF m68k_extend, Reads
<1>14. v \in Int /\ sr \in StatusRegisters
  <2>1. s + q.sr.x \in Int /\ s \in Int /\ d \in Int
    BY <1>12, TwinStatus DEF Reads
  <2>2. v \in Int
    BY <1>0, <2>1, BinaryOpIn
  <2> HIDE DEF v
  <2> DEFINE e == SetArithmetic(q.sr, s, d, v, size, op)
  <2>3. NewFlags(q.sr, e)
    BY <1>2, <1>12, <2>1, <2>2, SetArithmeticIn
  <2> HIDE DEF e
  <2>4. NewFlags(q.sr, sr)
    BY <1>12, <2>3, StickyZeroIn DEF e
  <2> QED BY <2>2, <2>4 DEF NewFlags
<1> HIDE DEF v, sr
<1>15. StoreResult(Q, i, u, [value |-> v, sr |-> sr]) = z
  <2>1. ea(Q, i, u, "dst") = b /\ operand(i, u, "dst") = T
    BY <1>0, <1>2, <1>9, <1>10, <1>12, EaIs
  <2> QED BY <1>3, <1>10, <2>1, Zenon DEF StoreResult, wd
<1>16. Twin(D, Execute(m, i), post_effect(z, T, size))
  <2>1. "dst" \in q.decremented /\ "dst" \notin q.incremented /\ q.pc = m.pc
        /\ ("src" \in DOMAIN i => i["src"].kind # "AddressIncrement" \/ "src" \in q.incremented)
    BY <1>5, <1>9, <1>12
  <2>2. Perform(m, i) = Then(Write(q, i, "dst", size, v), sr) /\ i.kind # "Movem"
    BY <1>0, <1>10, <1>12
  <2> QED BY <1>2, <1>4, <1>9, <1>10, <1>12, <1>14, <2>1, <2>2, StoresLast
<1> QED BY <1>8, <1>13, <1>15, <1>16 DEF Agrees

(* ABCD.                                                                   *)
LEMMA AbcdAgrees ==
    ASSUME EightBits, NEW D, NEW m, NEW i, Ready(D, m, i), i.kind = "Abcd", Ok(Execute(m, i)),
           NEW u, ~Deviates(m, i, u, Execute(m, i))
    PROVE  Agrees(D, m, i, u)
<1> DEFINE size == Byte
           S == i["src"]
           T == i["dst"]
           p == try_decrement_address(m, i, "src")
           q == try_decrement_address(p, i, "dst")
           s == OperandValue(p, S, size)
           d == OperandValue(q, T, size)
           r == Abcd(q.sr, s, d)
           next == Then(Write(q, i, "dst", size, r.value), r.sr)
           P == pre_effect(m, S, size)
           Q == pre_effect(P, T, size)
           a == static_ea(S, m.pc)
           b == static_ea(T, m.pc)
           s2 == read_operand(P, S, a, size)
           d2 == read_operand(Q, T, b, size)
           v == r.value
           sr == r.sr
           z == [write_operand(Q, T, b, size, v) EXCEPT !.sr = sr]
<1>0. /\ i.kind = "Abcd" /\ i.kind \in UsesBoth /\ i.kind \notin SizedKinds
      /\ i.kind \in BitKinds \cup {"Abcd", "Sbcd"} /\ i.kind \notin {"Movem"} \cup Shifts /\ i.kind # "Btst"
      /\ i.kind \notin {"Lea", "Pea", "Jmp", "Jsr", "Movem"} /\ i.kind \notin {"Move", "Movea"}
  BY SMT DEF UsesBoth, SizedKinds, BitKinds, Shifts, BinaryKinds, AddressKinds, QuickKinds, ExtendKinds,
         UnaryKinds
<1>1. m \in Machines(D) /\ WellFormed(i) /\ AsDecoded(i)
  BY Begins DEF Ready
<1>2. /\ "src" \in DOMAIN i /\ "dst" \in DOMAIN i /\ "src" \in Roles /\ "dst" \in Roles
             /\ Roles \subseteq DOMAIN i /\ size \in Sizes
  BY <1>0, <1>1, Operands DEF UsesSrc, UsesDst, Roles, Sizes
<1>3. TransferSize(i) = size /\ bytes(i, u) = size
  <2>1. ~SizeUnset(i, u)
    BY <1>0, <1>1, OperandsAre
  <2>2. u.size = Byte
    BY <1>0, <2>1, SMT DEF SizeUnset, ToCcrKinds, ToSrKinds
  <2> QED BY <1>0, <2>2, SMT DEF TransferSize, bytes
<1>4. /\ S \in Targets /\ T \in Targets /\ S.kind # "ProgramCounterIndex"
             /\ T.kind \notin {"ProgramCounterIndex", "Immediate"}
      /\ (S.kind \in Stepped => S.size = size) /\ (T.kind \in Stepped => T.size = size)
  BY <1>0, <1>1, <1>2, <1>3, OperandsAre
<1>5. S.kind # "AddressIncrement" /\ T.kind # "AddressIncrement"
  BY <1>0, <1>1 DEF AsDecoded, Given
<1>6. Perform(m, i) = IF Accessible(p, S, size) THEN IF Accessible(q, T, size) THEN next ELSE Fail(q)
          ELSE Fail(p)
  <2>1. Perform(m, i) = ExecAbcd(m, i)
    BY <1>0, PerformIs
  <2> QED BY <1>0, <2>1, Zenon DEF ExecAbcd, Read
<1>8. translate_inst(m, i, u) = post_effect(post_effect(StoreResult(Q, i, u,
          Abcd(Q.sr, Low(s2, Byte), Low(d2, Byte))), T, size), S, size)
  <2> DEFINE Body(k, src, dst) ==
                 LET sv == Low(src, Byte)
                     dv == Low(dst, Byte)
                     rv == Sbcd(k.sr, 0, dv)
                 IN  StoreResult(k, i, u,
                         CASE i.kind = "Abcd" -> Abcd(k.sr, sv, dv)
                           [] i.kind = "Sbcd" -> Sbcd(k.sr, dv, sv)
                           [] i.kind = "Nbcd" ->
                                [rv EXCEPT !.sr.v = Flag(msb(-dv - k.sr.x, Byte) = 0
                                    /\ msb(rv.value, Byte) = 1)])
             B == bytes(i, u)
             P0 == pre_effect(m, operand(i, u, "src"), B)
             Q0 == pre_effect(P0, operand(i, u, "dst"), B)
             s0 == read_operand(P0, operand(i, u, "src"), ea(m, i, u, "src"), B)
             d0 == read_operand(Q0, operand(i, u, "dst"), ea(m, i, u, "dst"), B)
  <2>1. translate_inst(m, i, u) = LiftDecimal(m, i, u)
    BY <1>0, TranslateIs
  <2>2. LiftDecimal(m, i, u) = Statement(m, i, u, Body)
    BY DEF LiftDecimal
  <2>3. Body(Q, s2, d2) = StoreResult(Q, i, u, Abcd(Q.sr, Low(s2, Byte), Low(d2, Byte)))
    BY <1>0
  <2> HIDE DEF Body
  <2>4. Effects(i.kind).pre = <<"src", "dst">> /\ Effects(i.kind).post = <<"dst", "src">>
    BY <1>0, EffectsAre
  <2>5. Statement(m, i, u, Body) = post_effect(post_effect(Body(Q0, s0, d0), operand(i, u, "dst"), B),
            operand(i, u, "src"), B)
    BY <1>0, <2>4, Ones, Zenon DEF Statement, InTurn
  <2>6. operand(i, u, "src") = S /\ operand(i, u, "dst") = T /\ ea(m, i, u, "src") = a /\ ea(m, i, u, "dst") = b
    BY <1>0, <1>2, EaIs
  <2>7. P0 = P /\ Q0 = Q /\ s0 = s2 /\ d0 = d2 /\ B = size
    BY <1>3, <2>6
  <2> QED BY <2>1, <2>2, <2>3, <2>5, <2>6, <2>7
<1>9. /\ p = try_decrement_address(m, i, "src") /\ q = try_decrement_address(p, i, "dst")
      /\ s = OperandValue(p, S, size) /\ d = OperandValue(q, T, size)
      /\ P = pre_effect(m, S, size) /\ Q = pre_effect(P, T, size) /\ S = i["src"] /\ T = i["dst"]
      /\ s2 = read_operand(P, S, static_ea(S, m.pc), size) /\ d2 = read_operand(Q, T, static_ea(T, m.pc), size)
  OBVIOUS
<1>10. /\ next = Then(Write(q, i, "dst", size, v), sr) /\ b = static_ea(T, m.pc) /\ v = r.value /\ sr = r.sr
       /\ z = [write_operand(Q, T, b, size, v) EXCEPT !.sr = sr] /\ size = Byte /\ r = Abcd(q.sr, s, d)
  OBVIOUS
<1> HIDE DEF p, q, s, d, P, Q, S, T, s2, d2, a, b, size, next, z, v, sr, r
<1>11. BothRead(D, m, i, S, T, size, size, size, p, q, s, d, next, P, Q, s2, d2)
  <2>1. i.kind # "Movem"
    BY <1>0
  <2> QED BY <1>2, <1>4, <1>6, <1>9, <2>1, BothReads
<1>12. /\ Twin(D, q, Q) /\ q.decremented = {"src", "dst"} /\ q.incremented = {}
       /\ q.pc = m.pc /\ q.sr = m.sr /\ Q.pc = m.pc /\ Q.sr = m.sr /\ m.sr \in StatusRegisters
       /\ Reads(s, s2, size) /\ Reads(d, d2, size) /\ Perform(m, i) = next
  BY <1>11, Zenon DEF BothRead
<1>13. Abcd(Q.sr, Low(s2, Byte), Low(d2, Byte)) = r
  <2>1. Low(s2, Byte) = s /\ Low(d2, Byte) = d
    BY <1>10, <1>12 DEF Reads
  <2> QED BY <1>10, <1>12, <2>1
<1>14. v \in Int /\ sr \in StatusRegisters
  <2>1. s \in Int /\ d \in Int /\ q.sr \in StatusRegisters
    BY <1>12 DEF Reads
  <2>2. v \in Int /\ NewFlags(q.sr, sr)
    BY <1>10, <2>1, AbcdIn
  <2> QED BY <2>2 DEF NewFlags
<1>15. StoreResult(Q, i, u, r) = z
  <2>1. ea(Q, i, u, "dst") = b /\ operand(i, u, "dst") = T
    BY <1>0, <1>2, <1>9, <1>10, <1>12, EaIs
  <2> QED BY <1>3, <1>10, <2>1, Zenon DEF StoreResult, wd
<1>16. Twin(D, Execute(m, i), post_effect(z, T, size))
  <2>1. "dst" \in q.decremented /\ "dst" \notin q.incremented /\ q.pc = m.pc
        /\ ("src" \in DOMAIN i => i["src"].kind # "AddressIncrement" \/ "src" \in q.incremented)
    BY <1>5, <1>9, <1>12
  <2>2. Perform(m, i) = Then(Write(q, i, "dst", size, v), sr) /\ i.kind # "Movem"
    BY <1>0, <1>10, <1>12
  <2> QED BY <1>2, <1>4, <1>9, <1>10, <1>12, <1>14, <2>1, <2>2, StoresLast, SMTT(60)
<1>17. post_effect(post_effect(z, T, size), S, size) = post_effect(z, T, size)
  BY <1>5, EffectNone
<1> QED BY <1>8, <1>13, <1>15, <1>16, <1>17 DEF Agrees

(* SBCD.                                                                   *)
LEMMA SbcdAgrees ==
    ASSUME EightBits, NEW D, NEW m, NEW i, Ready(D, m, i), i.kind = "Sbcd", Ok(Execute(m, i)),
           NEW u, ~Deviates(m, i, u, Execute(m, i))
    PROVE  Agrees(D, m, i, u)
<1> DEFINE size == Byte
           S == i["src"]
           T == i["dst"]
           p == try_decrement_address(m, i, "src")
           q == try_decrement_address(p, i, "dst")
           s == OperandValue(p, S, size)
           d == OperandValue(q, T, size)
           r == Sbcd(q.sr, d, s)
           next == Then(Write(q, i, "dst", size, r.value), r.sr)
           P == pre_effect(m, S, size)
           Q == pre_effect(P, T, size)
           a == static_ea(S, m.pc)
           b == static_ea(T, m.pc)
           s2 == read_operand(P, S, a, size)
           d2 == read_operand(Q, T, b, size)
           v == r.value
           sr == r.sr
           z == [write_operand(Q, T, b, size, v) EXCEPT !.sr = sr]
<1>0. /\ i.kind = "Sbcd" /\ i.kind \in UsesBoth /\ i.kind \notin SizedKinds
      /\ i.kind \in BitKinds \cup {"Abcd", "Sbcd"} /\ i.kind \notin {"Movem"} \cup Shifts /\ i.kind # "Btst"
      /\ i.kind \notin {"Lea", "Pea", "Jmp", "Jsr", "Movem"} /\ i.kind \notin {"Move", "Movea"}
  BY SMT DEF UsesBoth, SizedKinds, BitKinds, Shifts, BinaryKinds, AddressKinds, QuickKinds, ExtendKinds,
         UnaryKinds
<1>1. m \in Machines(D) /\ WellFormed(i) /\ AsDecoded(i)
  BY Begins DEF Ready
<1>2. /\ "src" \in DOMAIN i /\ "dst" \in DOMAIN i /\ "src" \in Roles /\ "dst" \in Roles
             /\ Roles \subseteq DOMAIN i /\ size \in Sizes
  BY <1>0, <1>1, Operands DEF UsesSrc, UsesDst, Roles, Sizes
<1>3. TransferSize(i) = size /\ bytes(i, u) = size
  <2>1. ~SizeUnset(i, u)
    BY <1>0, <1>1, OperandsAre
  <2>2. u.size = Byte
    BY <1>0, <2>1, SMT DEF SizeUnset, ToCcrKinds, ToSrKinds
  <2> QED BY <1>0, <2>2, SMT DEF TransferSize, bytes
<1>4. /\ S \in Targets /\ T \in Targets /\ S.kind # "ProgramCounterIndex"
             /\ T.kind \notin {"ProgramCounterIndex", "Immediate"}
      /\ (S.kind \in Stepped => S.size = size) /\ (T.kind \in Stepped => T.size = size)
  BY <1>0, <1>1, <1>2, <1>3, OperandsAre
<1>5. S.kind # "AddressIncrement" /\ T.kind # "AddressIncrement"
  BY <1>0, <1>1 DEF AsDecoded, Given
<1>6. Perform(m, i) = IF Accessible(p, S, size) THEN IF Accessible(q, T, size) THEN next ELSE Fail(q)
          ELSE Fail(p)
  <2>1. Perform(m, i) = ExecSbcd(m, i)
    BY <1>0, PerformIs
  <2> QED BY <1>0, <2>1, Zenon DEF ExecSbcd, Read
<1>8. translate_inst(m, i, u) = post_effect(post_effect(StoreResult(Q, i, u,
          Sbcd(Q.sr, Low(d2, Byte), Low(s2, Byte))), T, size), S, size)
  <2> DEFINE Body(k, src, dst) ==
                 LET sv == Low(src, Byte)
                     dv == Low(dst, Byte)
                     rv == Sbcd(k.sr, 0, dv)
                 IN  StoreResult(k, i, u,
                         CASE i.kind = "Abcd" -> Abcd(k.sr, sv, dv)
                           [] i.kind = "Sbcd" -> Sbcd(k.sr, dv, sv)
                           [] i.kind = "Nbcd" ->
                                [rv EXCEPT !.sr.v = Flag(msb(-dv - k.sr.x, Byte) = 0
                                    /\ msb(rv.value, Byte) = 1)])
             B == bytes(i, u)
             P0 == pre_effect(m, operand(i, u, "src"), B)
             Q0 == pre_effect(P0, operand(i, u, "dst"), B)
             s0 == read_operand(P0, operand(i, u, "src"), ea(m, i, u, "src"), B)
             d0 == read_operand(Q0, operand(i, u, "dst"), ea(m, i, u, "dst"), B)
  <2>1. translate_inst(m, i, u) = LiftDecimal(m, i, u)
    BY <1>0, TranslateIs
  <2>2. LiftDecimal(m, i, u) = Statement(m, i, u, Body)
    BY DEF LiftDecimal
  <2>3. Body(Q, s2, d2) = StoreResult(Q, i, u, Sbcd(Q.sr, Low(d2, Byte), Low(s2, Byte)))
    BY <1>0
  <2> HIDE DEF Body
  <2>4. Effects(i.kind).pre = <<"src", "dst">> /\ Effects(i.kind).post = <<"dst", "src">>
    BY <1>0, EffectsAre
  <2>5. Statement(m, i, u, Body) = post_effect(post_effect(Body(Q0, s0, d0), operand(i, u, "dst"), B),
            operand(i, u, "src"), B)
    BY <1>0, <2>4, Ones, Zenon DEF Statement, InTurn
  <2>6. operand(i, u, "src") = S /\ operand(i, u, "dst") = T /\ ea(m, i, u, "src") = a /\ ea(m, i, u, "dst") = b
    BY <1>0, <1>2, EaIs, ZenonT(40)
  <2>7. P0 = P /\ Q0 = Q /\ s0 = s2 /\ d0 = d2 /\ B = size
    BY <1>3, <2>6
  <2> QED BY <2>1, <2>2, <2>3, <2>5, <2>6, <2>7
<1>9. /\ p = try_decrement_address(m, i, "src") /\ q = try_decrement_address(p, i, "dst")
      /\ s = OperandValue(p, S, size) /\ d = OperandValue(q, T, size)
      /\ P = pre_effect(m, S, size) /\ Q = pre_effect(P, T, size) /\ S = i["src"] /\ T = i["dst"]
      /\ s2 = read_operand(P, S, static_ea(S, m.pc), size) /\ d2 = read_operand(Q, T, static_ea(T, m.pc), size)
  OBVIOUS
<1>10. /\ next = Then(Write(q, i, "dst", size, v), sr) /\ b = static_ea(T, m.pc) /\ v = r.value /\ sr = r.sr
       /\ z = [write_operand(Q, T, b, size, v) EXCEPT !.sr = sr] /\ size = Byte /\ r = Sbcd(q.sr, d, s)
  OBVIOUS
<1> HIDE DEF p, q, s, d, P, Q, S, T, s2, d2, a, b, size, next, z, v, sr, r
<1>11. BothRead(D, m, i, S, T, size, size, size, p, q, s, d, next, P, Q, s2, d2)
  <2>1. i.kind # "Movem"
    BY <1>0
  <2> QED BY <1>2, <1>4, <1>6, <1>9, <2>1, BothReads
<1>12. /\ Twin(D, q, Q) /\ q.decremented = {"src", "dst"} /\ q.incremented = {}
       /\ q.pc = m.pc /\ q.sr = m.sr /\ Q.pc = m.pc /\ Q.sr = m.sr /\ m.sr \in StatusRegisters
       /\ Reads(s, s2, size) /\ Reads(d, d2, size) /\ Perform(m, i) = next
  BY <1>11, Zenon DEF BothRead
<1>13. Sbcd(Q.sr, Low(d2, Byte), Low(s2, Byte)) = r
  <2>1. Low(s2, Byte) = s /\ Low(d2, Byte) = d
    BY <1>10, <1>12 DEF Reads
  <2> QED BY <1>10, <1>12, <2>1
<1>14. v \in Int /\ sr \in StatusRegisters
  <2>1. s \in Int /\ d \in Int /\ q.sr \in StatusRegisters
    BY <1>12 DEF Reads
  <2>2. v \in Int /\ NewFlags(q.sr, sr)
    BY <1>10, <2>1, SbcdIn
  <2> QED BY <2>2 DEF NewFlags
<1>15. StoreResult(Q, i, u, r) = z
  <2>1. ea(Q, i, u, "dst") = b /\ operand(i, u, "dst") = T
    BY <1>0, <1>2, <1>9, <1>10, <1>12, EaIs
  <2> QED BY <1>3, <1>10, <2>1, Zenon DEF StoreResult, wd
<1>16. Twin(D, Execute(m, i), post_effect(z, T, size))
  <2>1. "dst" \in q.decremented /\ "dst" \notin q.incremented /\ q.pc = m.pc
        /\ ("src" \in DOMAIN i => i["src"].kind # "AddressIncrement" \/ "src" \in q.incremented)
    BY <1>5, <1>9, <1>12
  <2>2. Perform(m, i) = Then(Write(q, i, "dst", size, v), sr) /\ i.kind # "Movem"
    BY <1>0, <1>10, <1>12
  <2> QED BY <1>2, <1>4, <1>9, <1>10, <1>12, <1>14, <2>1, <2>2, StoresLast, SMTT(60)
<1>17. post_effect(post_effect(z, T, size), S, size) = post_effect(z, T, size)
  BY <1>5, EffectNone
<1> QED BY <1>8, <1>13, <1>15, <1>16, <1>17 DEF Agrees

(* NBCD, not of (An)+, but for the condition codes.                        *)
LEMMA NbcdMatches ==
    ASSUME EightBits, NEW D, NEW m, NEW i, Ready(D, m, i), i.kind = "Nbcd", Ok(Execute(m, i)),
           NEW u, ~Deviates(m, i, u, Execute(m, i))
    PROVE  Matches(D, m, i, u)
<1> DEFINE size == Byte
           T == i["dst"]
           p == try_decrement_address(m, i, "dst")
           d == OperandValue(p, T, size)
           r == Sbcd(p.sr, 0, d)
           v == r.value
           e == r.sr
           next == Then(Write(p, i, "dst", size, v), e)
           P == pre_effect(m, T, size)
           b == static_ea(T, m.pc)
           d2 == read_operand(P, T, b, size)
           f == [e EXCEPT !.v = Flag(msb(-d - P.sr.x, Byte) = 0 /\ msb(v, Byte) = 1)]
           W == write_operand(P, T, b, size, v)
           z == [W EXCEPT !.sr = e]
           y == [W EXCEPT !.sr = f]
<1>0. /\ i.kind = "Nbcd" /\ i.kind \in UsesDst /\ i.kind \notin UsesSrc /\ i.kind \in SizedKinds
      /\ i.kind \notin BitKinds \cup {"Abcd", "Sbcd"} /\ i.kind \notin {"Movem"} \cup Shifts /\ i.kind # "Btst"
      /\ i.kind \notin {"Lea", "Pea", "Jmp", "Jsr", "Movem"} /\ i.kind \notin {"Move", "Movea"}
  BY SMT DEF UsesDst, UsesSrc, UsesBoth, SizedKinds, BitKinds, Shifts, BinaryKinds, AddressKinds,
         ExtendKinds, ToCcrKinds, ToSrKinds
<1>1. m \in Machines(D) /\ WellFormed(i) /\ AsDecoded(i)
  BY Begins DEF Ready
<1>2. /\ "dst" \in DOMAIN i /\ "dst" \in Roles /\ "src" \notin DOMAIN i /\ size \in Sizes
  BY <1>0, <1>1, Operands DEF Roles, Sizes
<1>3. TransferSize(i) = size /\ bytes(i, u) = size
  <2>1. i.size = TransferSize(i)
    BY <1>0, <1>1 DEF AsDecoded, Given
  <2>2. TransferSize(i) = Byte
    BY <1>0, SMT DEF TransferSize
  <2> QED BY <1>0, <2>1, <2>2 DEF bytes
<1>4. /\ T \in Targets /\ T.kind \notin {"ProgramCounterIndex", "Immediate"}
             /\ (T.kind \in Stepped => T.size = size)
  BY <1>0, <1>1, <1>2, <1>3, OperandsAre
<1>5. T.kind # "AddressIncrement"
  BY <1>0, <1>2 DEF Deviates, Incomplete, Is
<1>6. Perform(m, i) = IF Accessible(p, T, size) THEN next ELSE Fail(p)
  <2>1. Perform(m, i) = ExecSbcd(m, i)
    BY <1>0, PerformIs
  <2> QED BY <1>0, <2>1, Zenon DEF ExecSbcd, Read
<1> DEFINE r2 == Sbcd(P.sr, 0, Low(d2, Byte))
           g == [r2 EXCEPT !.sr.v = Flag(msb(-Low(d2, Byte) - P.sr.x, Byte) = 0 /\ msb(r2.value, Byte) = 1)]
<1>8. translate_inst(m, i, u) = post_effect(post_effect(StoreResult(P, i, u, g), T, size), T, size)
  <2> DEFINE Body(k, src, dst) ==
                 LET sv == Low(src, Byte)
                     dv == Low(dst, Byte)
                     rv == Sbcd(k.sr, 0, dv)
                 IN  StoreResult(k, i, u,
                         CASE i.kind = "Abcd" -> Abcd(k.sr, sv, dv)
                           [] i.kind = "Sbcd" -> Sbcd(k.sr, dv, sv)
                           [] i.kind = "Nbcd" ->
                                [rv EXCEPT !.sr.v = Flag(msb(-dv - k.sr.x, Byte) = 0
                                    /\ msb(rv.value, Byte) = 1)])
             B == bytes(i, u)
             P0 == pre_effect(m, operand(i, u, "dst"), B)
             s0 == read_operand(P0, operand(i, u, "src"), ea(m, i, u, "src"), B)
             d0 == read_operand(P0, operand(i, u, "dst"), ea(m, i, u, "dst"), B)
  <2>1. translate_inst(m, i, u) = LiftDecimal(m, i, u)
    BY <1>0, TranslateIs
  <2>2. LiftDecimal(m, i, u) = Statement(m, i, u, Body)
    BY DEF LiftDecimal
  <2>3. Body(P, s0, d2) = StoreResult(P, i, u, g)
    BY <1>0
  <2> HIDE DEF Body
  <2>4. Effects(i.kind).pre = <<"dst">> /\ Effects(i.kind).post = <<"dst", "dst">>
    BY <1>0, EffectsAre
  <2>5. Statement(m, i, u, Body) = post_effect(post_effect(Body(P0, s0, d0), operand(i, u, "dst"), B),
            operand(i, u, "dst"), B)
    BY <1>0, <2>4, Ones, Zenon DEF Statement, InTurn
  <2>6. operand(i, u, "dst") = T /\ ea(m, i, u, "dst") = b
    BY <1>0, <1>2, EaIs
  <2>7. P0 = P /\ d0 = d2 /\ B = size
    BY <1>3, <2>6
  <2> QED BY <2>1, <2>2, <2>3, <2>5, <2>6, <2>7
<1>9. /\ p = try_decrement_address(m, i, "dst") /\ P = pre_effect(m, T, size) /\ T = i["dst"]
             /\ b = static_ea(T, m.pc)
      /\ d = OperandValue(p, T, size) /\ d2 = read_operand(P, T, b, size)
  OBVIOUS
<1>10. /\ next = Then(Write(p, i, "dst", size, v), e) /\ r = Sbcd(p.sr, 0, d) /\ v = r.value /\ e = r.sr
              /\ size = Byte
       /\ W = write_operand(P, T, b, size, v) /\ z = [W EXCEPT !.sr = e] /\ y = [W EXCEPT !.sr = f]
              /\ r2 = Sbcd(P.sr, 0, Low(d2, Byte))
       /\ g = [r2 EXCEPT !.sr.v = Flag(msb(-Low(d2, Byte) - P.sr.x, Byte) = 0 /\ msb(r2.value, Byte) = 1)]
       /\ f = [e EXCEPT !.v = Flag(msb(-d - P.sr.x, Byte) = 0 /\ msb(v, Byte) = 1)]
  OBVIOUS
<1> HIDE DEF p, P, T, b, d, d2, next, z, y, W, v, e, f, g, r, r2, size
<1>11. /\ Twin(D, p, P) /\ p.decremented = {"dst"} /\ p.incremented = {} /\ p.pc = m.pc /\ P.pc = m.pc
       /\ p.sr = m.sr /\ P.sr = m.sr /\ m.sr \in StatusRegisters
       /\ Reads(d, d2, size) /\ Perform(m, i) = next
  <2>1. i.kind # "Movem" /\ "dst" \in Roles \cap DOMAIN i /\ T.kind # "ProgramCounterIndex"
    BY <1>0, <1>2, <1>4
  <2> QED BY <1>2, <1>4, <1>6, <1>9, <2>1, ReadsFirst, SMTT(30)
<1>12. v \in Int /\ e \in StatusRegisters /\ e.s = m.sr.s
  <2>1. 0 \in Int /\ d \in Int /\ p.sr \in StatusRegisters
    BY <1>11 DEF Reads
  <2>2. v \in Int /\ NewFlags(p.sr, e)
    BY <1>10, <2>1, SbcdIn
  <2> QED BY <1>11, <2>2 DEF NewFlags
<1>13. f \in StatusRegisters /\ f.s = m.sr.s
  <2> DEFINE c == Flag(msb(-d - P.sr.x, Byte) = 0 /\ msb(v, Byte) = 1)
  <2>1. c \in Bit /\ f = [e EXCEPT !.v = c]
    BY <1>10, FlagIn
  <2> HIDE DEF c
  <2> QED BY <1>12, <2>1 DEF StatusRegisters
<1>14. g.value = v /\ g.sr = f
  <2>1. r2 = r /\ Low(d2, Byte) = d
    BY <1>10, <1>11 DEF Reads
  <2>2. r \in [value : {r.value}, sr : {r.sr}]
    BY <1>10 DEF Sbcd
  <2> DEFINE c == Flag(msb(-d - P.sr.x, Byte) = 0 /\ msb(v, Byte) = 1)
  <2>3. g = [r EXCEPT !.sr.v = c] /\ f = [e EXCEPT !.v = c]
    BY <1>10, <2>1
  <2> HIDE DEF c
  <2> QED BY <1>10, <2>2, <2>3
<1>15. StoreResult(P, i, u, g) = y
  <2>1. ea(P, i, u, "dst") = b /\ operand(i, u, "dst") = T
    BY <1>0, <1>2, <1>9, <1>11, EaIs
  <2> QED BY <1>3, <1>10, <1>14, <2>1, Zenon DEF StoreResult, wd
<1>16. Twin(D, Execute(m, i), post_effect(z, T, size))
  <2>1. "dst" \in p.decremented /\ "dst" \notin p.incremented /\ p.pc = m.pc
        /\ ("src" \in DOMAIN i => i["src"].kind # "AddressIncrement" \/ "src" \in p.incremented)
    BY <1>2, <1>11
  <2>2. Perform(m, i) = Then(Write(p, i, "dst", size, v), e) /\ i.kind # "Movem" /\ z
            = [write_operand(P, T, b, size, v) EXCEPT !.sr = e]
    BY <1>0, <1>10, <1>11
  <2> QED BY <1>2, <1>4, <1>9, <1>11, <1>12, <2>1, <2>2, StoresLast
<1>17. post_effect(z, T, size) = z /\ post_effect(post_effect(y, T, size), T, size) = y
  BY <1>5, EffectNone
<1>18. z = [y EXCEPT !.sr = e]
  <2>1. W \in Machines(D)
    BY <1>2, <1>4, <1>9, <1>10, <1>11, <1>12, WriteIn DEF Twin
  <2>2. [[W EXCEPT !.sr = f] EXCEPT !.sr = e] = [W EXCEPT !.sr = e]
    BY <2>1, TwiceSet
  <2> QED BY <1>10, <2>2
<1>19. Aside(D, Execute(m, i), translate_inst(m, i, u))
  <2>1. translate_inst(m, i, u) = y
    BY <1>8, <1>15, <1>17
  <2> QED BY <1>12, <1>16, <1>17, <1>18, <2>1 DEF Aside
<1>20. FlagsDeviate(i)
  BY <1>0 DEF FlagsDeviate
<1> QED BY <1>19, <1>20 DEF Matches

-----------------------------------------------------------------------------
(***************************************************************************)
(* Bits.                                                                   *)
(***************************************************************************)

(* An operand written back leaves the machine what it was.                 *)
LEMMA WriteRead ==
    ASSUME EightBits, NEW D, OnBus(D), NEW x, NEW y, Twin(D, x, y), NEW t \in Targets,
           t.kind \notin {"ProgramCounterIndex", "Immediate"}, ~IsRegister(t), Accessible(x, t, Byte),
           NEW sea, sea = static_ea(t, x.pc), NEW v, v = OperandValue(x, t, Byte)
    PROVE  write_operand(y, t, sea, Byte, v) = y
<1> DEFINE addr == effective_address(x, t)
<1>1. Mapped(x, addr, Byte) /\ v = Fetch(x, addr, Byte) /\ Byte \in Sizes
  BY DEF Accessible, OperandValue, Sizes, Byte
<1>2. Mapped(y, addr, Byte) /\ v = Fetch(y, addr, Byte)
  BY <1>1, TwinAddress
<1>3. operand_address(y, t, sea) = addr
  BY <1>1, OperandAddress
<1>4. addr \in Int
  <2>1. IsMemory(t) /\ x \in Machines(D)
    BY DEF Twin, IsMemory, IsRegister
  <2>2. effective_address(x, t) \in Values(Long)
    BY <2>1, AddressIn
  <2> QED BY <1>1, <2>2, InValues DEF Sizes
<1>5. write_operand(y, t, sea, Byte, v) = recomp_mem_write(y, addr, Byte, v)
  BY <1>3, Zenon DEF write_operand, IsRegister
<1>6. recomp_mem_write(y, addr, Byte, v) = Put(y, addr, Byte, v)
  BY <1>2 DEF recomp_mem_write
<1>7. y \in Machines(D)
  BY DEF Twin
<1> HIDE DEF addr
<1> QED BY <1>2, <1>4, <1>5, <1>6, <1>7, PutFetched

(* The operands of the bit instructions, and the effects around them.      *)
LEMMA AtBit ==
    ASSUME EightBits, NEW D, NEW m, NEW i, Ready(D, m, i), i.kind \in BitKinds, NEW u, NEW r,
               ~Deviates(m, i, u, r),
           NEW S, S = i["src"], NEW T, T = i["dst"], NEW second, second = IF T.kind = "DataRegister"
                   THEN Long ELSE Byte
    PROVE  /\ "src" \in DOMAIN i /\ "dst" \in DOMAIN i /\ "src" \in Roles /\ "dst" \in Roles
                  /\ Roles \subseteq DOMAIN i
           /\ S \in Targets /\ T \in Targets /\ S.kind \in {"DataRegister", "Immediate"}
           /\ T.kind \notin {"ProgramCounterIndex", "AddressRegister"}
                  /\ (i.kind # "Btst" => T.kind # "Immediate")
           /\ (T.kind \in Stepped => T.size = Byte) /\ Byte \in Sizes /\ second \in Sizes /\ bytes(i, u) = Byte
           /\ operand(i, u, "src") = S /\ operand(i, u, "dst") = T
           /\ (\A x : ea(x, i, u, "src") = static_ea(S, x.pc))
                  /\ (\A x : ea(x, i, u, "dst") = static_ea(T, x.pc))
           /\ Effects(i.kind).pre = <<"src", "dst">> /\ Effects(i.kind).post = <<"dst", "src">>
           /\ i.kind # "Movem"
<1>0. /\ i.kind \in UsesBoth /\ i.kind \in SizedKinds /\ i.kind \notin {"Movem"} \cup Shifts
      /\ i.kind \in UsesSrc /\ i.kind \in UsesDst
      /\ i.kind \notin {"Lea", "Pea", "Jmp", "Jsr", "Movem"} /\ i.kind \notin {"Move", "Movea"}
             /\ i.kind # "Movem"
  BY SMT DEF UsesBoth, UsesSrc, UsesDst, SizedKinds, BitKinds, Shifts, BinaryKinds, AddressKinds,
         QuickKinds, ExtendKinds, UnaryKinds
<1>1. m \in Machines(D) /\ WellFormed(i) /\ AsDecoded(i)
  BY Begins DEF Ready
<1>2. /\ "src" \in DOMAIN i /\ "dst" \in DOMAIN i /\ "src" \in Roles /\ "dst" \in Roles
             /\ Roles \subseteq DOMAIN i
      /\ Byte \in Sizes /\ Long \in Sizes /\ second \in Sizes
  BY <1>0, <1>1, Operands DEF Roles, Sizes
<1>3. TransferSize(i) = Byte
  BY <1>0, Zenon DEF TransferSize, BitKinds
<1>4. i.size = TransferSize(i) /\ S.kind \in {"DataRegister", "Immediate"} /\ T.kind # "AddressRegister"
  <2>1. i.size = TransferSize(i) /\ S.kind \in {"DataRegister", "Immediate"}
    BY <1>1 DEF AsDecoded, Given
  <2>2. ~Illegal(i)
    BY Zenon DEF Deviates
  <2>3. T.kind # "AddressRegister"
    BY <1>2, <2>2 DEF Illegal, Is
  <2> QED BY <2>1, <2>3
<1>5. S \in Targets /\ T \in Targets /\ T.kind # "ProgramCounterIndex"
          /\ (i.kind # "Btst" => T.kind # "Immediate")
      /\ (T.kind \in Stepped => T.size = TransferSize(i))
  BY <1>0, <1>1, <1>2, OperandsAre
<1>6. bytes(i, u) = Byte
  BY <1>0, <1>3, <1>4, Zenon DEF bytes
<1>7. operand(i, u, "src") = S /\ operand(i, u, "dst") = T
          /\ (\A x : ea(x, i, u, "src") = static_ea(S, x.pc))
                 /\ (\A x : ea(x, i, u, "dst") = static_ea(T, x.pc))
  BY <1>0, <1>2, EaIs
<1>8. Effects(i.kind).pre = <<"src", "dst">> /\ Effects(i.kind).post = <<"dst", "src">>
  BY EffectsAre
<1> QED BY <1>0, <1>2, <1>3, <1>4, <1>5, <1>6, <1>7, <1>8

(* BTST, BCHG, BCLR and BSET; the interpreter writes back what BTST tests, *)
(* the emitted code does not.                                              *)
LEMMA BitAgrees ==
    ASSUME EightBits, NEW D, NEW m, NEW i, Ready(D, m, i), i.kind \in BitKinds, Ok(Execute(m, i)),
           NEW u, ~Deviates(m, i, u, Execute(m, i))
    PROVE  Agrees(D, m, i, u)
<1> DEFINE S == i["src"]
           T == i["dst"]
           B == Byte
           second == IF T.kind = "DataRegister" THEN Long ELSE Byte
           p == try_decrement_address(m, i, "src")
           q == try_decrement_address(p, i, "dst")
           s == OperandValue(p, S, B)
           d == OperandValue(q, T, second)
           bit == {s % bit_count(second)}
           made == Made(i.kind, BitsOf(d), bit)
           new == IF i.kind = "Btst" THEN d ELSE made
           sr == [q.sr EXCEPT !.z = Flag(bit \cap BitsOf(d) = {})]
           x == [q EXCEPT !.sr = sr]
           next == IF new = d THEN x ELSE Write(x, i, "dst", second, new)
           P == pre_effect(m, S, B)
           Q == pre_effect(P, T, B)
           a == static_ea(S, m.pc)
           b == static_ea(T, m.pc)
           s2 == read_operand(P, S, a, B)
           d2 == read_operand(Q, T, b, second)
           y == [Q EXCEPT !.sr = sr]
           body == IF i.kind = "Btst" THEN y
                   ELSE IF T.kind = "DataRegister" THEN [y EXCEPT !.d[T.index] = Low(made, Long)]
                   ELSE wd(y, i, u, made)
<1>1. m \in Machines(D) /\ OnBus(D)
  BY Begins
<1>2. /\ "src" \in DOMAIN i /\ "dst" \in DOMAIN i /\ "src" \in Roles /\ "dst" \in Roles
             /\ Roles \subseteq DOMAIN i
      /\ S \in Targets /\ T \in Targets /\ S.kind \in {"DataRegister", "Immediate"}
      /\ T.kind \notin {"ProgramCounterIndex", "AddressRegister"} /\ (i.kind # "Btst" => T.kind # "Immediate")
      /\ (T.kind \in Stepped => T.size = Byte) /\ Byte \in Sizes /\ second \in Sizes /\ bytes(i, u) = Byte
      /\ operand(i, u, "src") = S /\ operand(i, u, "dst") = T
      /\ (\A k : ea(k, i, u, "src") = static_ea(S, k.pc)) /\ (\A k : ea(k, i, u, "dst") = static_ea(T, k.pc))
      /\ Effects(i.kind).pre = <<"src", "dst">> /\ Effects(i.kind).post = <<"dst", "src">>
      /\ i.kind # "Movem"
  BY AtBit
<1>6. Perform(m, i) = IF Accessible(p, S, B) THEN IF Accessible(q, T, second) THEN next ELSE Fail(q)
          ELSE Fail(p)
  <2>1. Perform(m, i) = ExecBit(m, i)
    BY PerformIs
  <2> QED BY <2>1, Zenon DEF ExecBit, Read, Made
<1>7. /\ (S.kind \in Stepped => S.size = B) /\ S.kind # "ProgramCounterIndex"
             /\ S.kind \notin {"AddressDecrement", "AddressIncrement"}
  BY <1>2 DEF Stepped
<1>9. /\ p = try_decrement_address(m, i, "src") /\ q = try_decrement_address(p, i, "dst")
      /\ s = OperandValue(p, S, B) /\ d = OperandValue(q, T, second)
      /\ P = pre_effect(m, S, B) /\ Q = pre_effect(P, T, B) /\ S = i["src"] /\ T = i["dst"]
      /\ s2 = read_operand(P, S, static_ea(S, m.pc), B) /\ d2 = read_operand(Q, T, static_ea(T, m.pc), second)
  OBVIOUS
<1>10. /\ a = static_ea(S, m.pc) /\ b = static_ea(T, m.pc) /\ B = Byte
       /\ (T.kind = "DataRegister" => second = Long) /\ (T.kind # "DataRegister" => second = Byte)
  OBVIOUS
<1>11. BothRead(D, m, i, S, T, B, second, B, p, q, s, d, next, P, Q, s2, d2)
  <2> HIDE DEF p, q, s, d, P, Q, S, T, s2, d2, second, next
  <2> QED BY <1>2, <1>6, <1>7, <1>9, BothReads
<1>12. /\ Twin(D, q, Q) /\ q.decremented = {"src", "dst"} /\ q.incremented = {}
       /\ q.pc = m.pc /\ q.sr = m.sr /\ Q.pc = m.pc /\ Q.sr = m.sr /\ m.sr \in StatusRegisters
       /\ Reads(s, s2, B) /\ Reads(d, d2, second) /\ (~IsRegister(T) => d2 = d) /\ Accessible(q, T, second)
       /\ Perform(m, i) = next
  <2> HIDE DEF p, q, s, d, P, Q, S, T, s2, d2, second, next
  <2> QED BY <1>11, Zenon DEF BothRead
<1>13. d2 = d /\ Low(s2, Byte) = s /\ s \in Int /\ d \in Int
  <2> HIDE DEF p, q, s, d, P, Q, S, T, s2, d2, second, next
  <2>1. s \in Int /\ d \in Int /\ Low(s2, Byte) = s /\ d2 \in Values(Long) /\ Low(d2, second) = d
    BY <1>10, <1>12 DEF Reads
  <2>2. CASE T.kind = "DataRegister"
    <3>1. second = Long /\ Long \in Sizes
      BY <1>10, <2>2 DEF Sizes
    <3> QED BY <2>1, <3>1, LowSame
  <2>3. CASE T.kind # "DataRegister"
    BY <1>2, <1>12, <2>1, <2>3 DEF IsRegister
  <2> QED BY <2>1, <2>2, <2>3
<1>14. translate_inst(m, i, u) = post_effect(post_effect(body, T, B), S, B)
  <2> DEFINE Body(k, sv, dv) ==
                 LET inRegister == i.dst.kind = "DataRegister"
                     bitv == {Low(sv, Byte) % bit_count(IF inRegister THEN Long ELSE Byte)}
                     is   == BitsOf(dv)
                     newv == FromBits(CASE i.kind = "Bchg" -> SymDiff(is, bitv)
                                        [] i.kind = "Bclr" -> is \ bitv
                                        [] i.kind = "Bset" -> is \cup bitv)
                     seen == [k EXCEPT !.sr.z = Flag(bitv \cap is = {})]
                 IN  IF i.kind = "Btst" THEN seen
                     ELSE IF inRegister THEN [seen EXCEPT !.d[i.dst.index] = Low(newv, Long)]
                     ELSE wd(seen, i, u, newv)
             B0 == bytes(i, u)
             P0 == pre_effect(m, operand(i, u, "src"), B0)
             Q0 == pre_effect(P0, operand(i, u, "dst"), B0)
             s0 == read_operand(P0, operand(i, u, "src"), ea(m, i, u, "src"), B0)
             d0 == read_operand(Q0, operand(i, u, "dst"), ea(m, i, u, "dst"), B0)
  <2>1. translate_inst(m, i, u) = LiftBit(m, i, u)
    BY TranslateIs
  <2>2. LiftBit(m, i, u) = Statement(m, i, u, Body)
    BY DEF LiftBit
  <2>3. Body(Q, s2, d2) = body
    <3>1. Q.sr = q.sr
      BY <1>12
    <3> DEFINE bit2 == {Low(s2, Byte) % bit_count(second)}
               made2 == Made(i.kind, BitsOf(d2), bit2)
               y2 == [Q EXCEPT !.sr.z = Flag(bit2 \cap BitsOf(d2) = {})]
    <3>2. Body(Q, s2, d2) = IF i.kind = "Btst" THEN y2
                   ELSE IF T.kind = "DataRegister" THEN [y2 EXCEPT !.d[T.index] = Low(made2, Long)]
                   ELSE wd(y2, i, u, made2)
      <4> HIDE DEF P, Q, s2, d2, q, p, s, d, a, b
      <4> QED BY Zenon DEF Made
    <3>3. bit2 = bit
      BY <1>13
    <3>4. made2 = made
      BY <1>13, <3>3
    <3>5. y2 = y
      <4>1. y2 = [Q EXCEPT !.sr = [Q.sr EXCEPT !.z = Flag(bit2 \cap BitsOf(d2) = {})]]
        <5> HIDE DEF P, Q, s2, d2, q, p, s, d, a, b, bit2
        <5> QED OBVIOUS
      <4> QED BY <1>13, <3>1, <3>3, <4>1
    <3> HIDE DEF y2, made2, y, made, T
    <3> QED BY <3>2, <3>4, <3>5
  <2> HIDE DEF Body
  <2>5. Statement(m, i, u, Body) = post_effect(post_effect(Body(Q0, s0, d0), operand(i, u, "dst"), B0),
            operand(i, u, "src"), B0)
    BY <1>2, Ones, Zenon DEF Statement, InTurn
  <2>6. operand(i, u, "src") = S /\ operand(i, u, "dst") = T /\ ea(m, i, u, "src") = a /\ ea(m, i, u, "dst") = b
    BY <1>2
  <2>7. P0 = P /\ Q0 = Q /\ s0 = s2 /\ B0 = B
    BY <1>2, <2>6
  <2>8. d0 = d2
    <3>1. CASE T.kind = "DataRegister"
      BY <2>6, <2>7, <3>1, SizeMoot
    <3>2. CASE T.kind # "DataRegister"
      BY <2>6, <2>7, <3>2
    <3> QED BY <3>1, <3>2
  <2> HIDE DEF P0, Q0, s0, d0, B0, P, Q, s2, d2, body, S, T
  <2>9. B0 = bytes(i, u)
    BY DEF B0
  <2> QED BY <2>1, <2>2, <2>3, <2>5, <2>6, <2>7, <2>8
<1>15. /\ next = (IF new = d THEN x ELSE Write(x, i, "dst", second, new)) /\ x = [q EXCEPT !.sr = sr] /\ y
              = [Q EXCEPT !.sr = sr]
       /\ new = (IF i.kind = "Btst" THEN d ELSE made)
       /\ body = IF i.kind = "Btst" THEN y
                   ELSE IF T.kind = "DataRegister" THEN [y EXCEPT !.d[T.index] = Low(made, Long)]
                   ELSE wd(y, i, u, made)
  OBVIOUS
<1>16. sr \in StatusRegisters
  <2>1. Flag(bit \cap BitsOf(d) = {}) \in Bit
    BY FlagIn
  <2> HIDE DEF bit, d, q
  <2>2. q.sr \in StatusRegisters
    BY <1>12
  <2> QED BY <2>1, <2>2 DEF StatusRegisters
<1>17. i.kind # "Btst" => made \in Int
  <2>1. bit = {s % bit_count(second)}
    OBVIOUS
  <2> HIDE DEF bit, d, s, second
  <2> QED BY <1>2, <1>13, <2>1, MadeIn
<1>24. sr = [q.sr EXCEPT !.z = Flag(bit \cap BitsOf(d) = {})]
  OBVIOUS
<1> HIDE DEF p, q, s, d, P, Q, S, T, s2, d2, a, b, second, next, y, x, sr, new, made, body, bit
<1>18. /\ Twin(D, x, y) /\ x.decremented = q.decremented /\ x.incremented = q.incremented /\ x.pc = m.pc
              /\ y.pc = m.pc
       /\ y \in Machines(D) /\ x \in Machines(D) /\ y.d = Q.d /\ Q \in Machines(D)
  <2>1. Twin(D, x, y)
    BY <1>12, <1>15, <1>16, TwinSetSr
  <2>2. q \in Machines(D) /\ Q \in Machines(D)
    BY <1>12 DEF Twin
  <2>3. x.decremented = q.decremented /\ x.incremented = q.incremented /\ x.pc = q.pc /\ y.pc = Q.pc
            /\ y.d = Q.d
    BY <1>15, <2>2 DEF Machines
  <2> QED BY <1>12, <2>1, <2>2, <2>3 DEF Twin
<1>19. T.kind = "DataRegister" => T.index \in 0 .. 7 /\ d = y.d[T.index] /\ y.d[T.index] \in Values(Long)
  <2> SUFFICES ASSUME T.kind = "DataRegister" PROVE T.index \in 0 .. 7 /\ d = y.d[T.index]
                          /\ y.d[T.index] \in Values(Long)
    OBVIOUS
  <2>1. d2 = Q.d[T.index]
    BY <1>9, Zenon DEF read_operand
  <2>2. T.index \in 0 .. 7
    BY <1>2, TargetIn DEF IsRegister
  <2>3. y.d \in [0 .. 7 -> Values(Long)]
    BY <1>18 DEF Machines
  <2> QED BY <1>13, <1>18, <2>1, <2>2, <2>3
<1>20. post_effect(post_effect(body, T, B), S, B) = post_effect(body, T, B)
  BY <1>7, EffectNone
<1>21. Accessible(x, T, second) /\ d = OperandValue(x, T, second)
  <2>1. q \in Machines(D) /\ x = [q EXCEPT !.sr = sr] /\ sr.s = q.sr.s
    <3>1. q.sr \in StatusRegisters /\ q \in Machines(D)
      BY <1>12 DEF Twin
    <3> QED BY <1>15, <3>1, <1>24 DEF StatusRegisters
  <2>2. /\ effective_address(x, T) = effective_address(q, T) /\ a_reg(x, T.index) = a_reg(q, T.index)
    BY <1>16, <2>1, AddressApart, FlagsApart
  <2>3. x.d = q.d /\ x.mem = q.mem
    BY <2>1 DEF Machines
  <2>4. Accessible(x, T, second)
    BY <1>12, <2>2, <2>3 DEF Accessible, Mapped
  <2>5. RegisterValue(x, T) = RegisterValue(q, T)
    BY <2>2, <2>3 DEF RegisterValue
  <2>6. \A addr : Fetch(x, addr, second) = Fetch(q, addr, second)
    BY <2>3, Zenon DEF Fetch
  <2> QED BY <1>9, <2>2, <2>4, <2>5, <2>6 DEF OperandValue
<1>22. CASE new = d
  <2>1. body = y
    <3>1. CASE i.kind = "Btst"
      BY <1>15, <3>1
    <3>2. CASE i.kind # "Btst" /\ T.kind = "DataRegister"
      <4>1. Low(d, Long) = d
        BY <1>19, <3>2, LowSame DEF Sizes
      <4>2. body = [y EXCEPT !.d[T.index] = d]
        BY <1>15, <1>22, <3>2, <4>1
      <4>3. [y EXCEPT !.d[T.index] = y.d[T.index]] = y
        BY <1>18, <1>19, <3>2 DEF Machines
      <4> QED BY <1>19, <3>2, <4>2, <4>3
    <3>3. CASE i.kind # "Btst" /\ T.kind # "DataRegister"
      <4>1. second = Byte /\ ~IsRegister(T) /\ T.kind \notin {"ProgramCounterIndex", "Immediate"}
                /\ b = static_ea(T, x.pc)
        BY <1>2, <1>10, <1>18, <3>3 DEF IsRegister
      <4>2. write_operand(y, T, b, Byte, d) = y
        BY <1>1, <1>2, <1>18, <1>21, <4>1, WriteRead
      <4>3. wd(y, i, u, d) = write_operand(y, T, b, Byte, d)
        BY <1>2, <1>9, <1>10, <1>18, Zenon DEF wd
      <4>4. body = wd(y, i, u, d)
        BY <1>15, <1>22, <3>3
      <4> QED BY <4>2, <4>3, <4>4
    <3> QED BY <3>1, <3>2, <3>3
  <2>2. Perform(m, i) = x
    BY <1>12, <1>15, <1>22
  <2>3. "dst" \in Roles \cap DOMAIN i /\ "dst" \notin x.incremented
        /\ (\A other \in Roles \cap DOMAIN i : other # "dst"
               => i[other].kind # "AddressIncrement" \/ other \in x.incremented)
    BY <1>2, <1>7, <1>9, <1>12, <1>18 DEF Roles
  <2>4. Twin(D, Execute(m, i), post_effect(y, T, B))
    BY <1>2, <1>9, <1>10, <1>18, <2>2, <2>3, EndsStepping
  <2> QED BY <1>14, <1>20, <2>1, <2>4 DEF Agrees
<1>23. CASE new # d
  <2>1. i.kind # "Btst" /\ new = made /\ made \in Int
    BY <1>15, <1>17, <1>23
  <2> DEFINE z == write_operand(y, T, b, second, made)
  <2>2. body = z
    <3>1. CASE T.kind = "DataRegister"
      <4>1. z = [y EXCEPT !.d[T.index] = Replaced(@, made, Long)]
        BY <1>10, <3>1, Zenon DEF write_operand
      <4>2. Replaced(y.d[T.index], made, Long) = Low(made, Long)
        BY <1>19, <2>1, <3>1, ReplacedLong
      <4>3. body = [y EXCEPT !.d[T.index] = Low(made, Long)]
        BY <1>15, <2>1, <3>1
      <4> QED BY <4>1, <4>2, <4>3
    <3>2. CASE T.kind # "DataRegister"
      <4>1. wd(y, i, u, made) = z
        BY <1>2, <1>9, <1>10, <1>18, <3>2, Zenon DEF wd
      <4> QED BY <1>15, <2>1, <3>2, <4>1
    <3> QED BY <3>1, <3>2
  <2>3. z = write_operand(y, T, b, second, made)
    OBVIOUS
  <2> HIDE DEF z
  <2>4. Perform(m, i) = Write(x, i, "dst", second, made)
    BY <1>12, <1>15, <1>23, <2>1
  <2>5. "dst" \in x.decremented /\ "dst" \notin x.incremented
        /\ ("src" \in DOMAIN i => i["src"].kind # "AddressIncrement" \/ "src" \in x.incremented)
    BY <1>7, <1>9, <1>12, <1>18
  <2>6. T.kind \notin {"ProgramCounterIndex", "Immediate"} /\ (T.kind \in Stepped => T.size = second)
    BY <1>2, <1>10, <2>1 DEF Stepped
  <2>7. Twin(D, Execute(m, i), post_effect(z, T, second))
    BY <1>2, <1>9, <1>10, <1>18, <2>1, <2>3, <2>4, <2>5, <2>6, WritesLast
  <2>8. post_effect(z, T, second) = post_effect(z, T, B)
    <3>1. CASE T.kind = "DataRegister"
      BY <3>1, EffectNone
    <3>2. CASE T.kind # "DataRegister"
      BY <1>10, <3>2
    <3> QED BY <3>1, <3>2
  <2> QED BY <1>14, <1>20, <2>2, <2>7, <2>8 DEF Agrees
<1> QED BY <1>22, <1>23

-----------------------------------------------------------------------------
(***************************************************************************)
(* MOVEM.                                                                  *)
(***************************************************************************)

(* The machines that the emitted MOVEM goes through, and what there is to  *)
(* know of them.                                                           *)
Written(f, p, addr, size, list, w) ==
    f = [b \in 0 .. 16 |-> IF b = 0 THEN p
            ELSE IF b - 1 \in list
                 THEN recomp_mem_write(f[b - 1], addr + size * Rank(b - 1, list), size, w[b - 1])
                 ELSE f[b - 1]]
WrittenSteps(f, p, addr, size, list, w) ==
    /\ f[0] = p
    /\ \A b \in 1 .. 16 :
          f[b] = IF b - 1 \in list
                 THEN recomp_mem_write(f[b - 1], addr + size * Rank(b - 1, list), size, w[b - 1])
                 ELSE f[b - 1]

(* The emitted writes of MOVEM exist.                                      *)
LEMMA WrittenExist ==
    ASSUME EightBits, NEW D, NEW p \in Machines(D), NEW addr \in Int, NEW size \in Sizes, NEW list,
               list \subseteq 0 .. 15,
           NEW w, \A b \in list : w[b] \in Int
    PROVE  \E f : Written(f, p, addr, size, list, w)
<1> DEFINE S == Machines(D)
           Next16(b, x) == IF b - 1 \in list
                           THEN recomp_mem_write(x, addr + size * Rank(b - 1, list), size, w[b - 1])
                           ELSE x
           G == [z \in (1 .. 16) \X S |-> Next16(z[1], z[2])]
<1>1. ASSUME NEW b \in 1 .. 16, NEW x \in S PROVE Next16(b, x) \in S
  <2>1. CASE b - 1 \notin list
    BY <2>1
  <2>2. CASE b - 1 \in list
    <3> DEFINE at == addr + size * Rank(b - 1, list)
               v == w[b - 1]
               r == Put(x, at, size, v)
    <3>1. Rank(b - 1, list) \in Nat
      BY RankNext
    <3>2. size \in Int
      BY DEF Sizes, Byte, Word, Long
    <3>3. at \in Int /\ v \in Int
      BY <2>2, <3>1, <3>2
    <3>4. r = Put(x, at, size, v)
      OBVIOUS
    <3>5. Next16(b, x) = recomp_mem_write(x, at, size, v)
      BY <2>2
    <3> HIDE DEF at, v, r, Next16
    <3>6. CASE Mapped(x, at, size)
      <4>1. r \in Machines(D)
        BY <3>3, <3>4, <3>6, PutIn DEF Pushed
      <4> QED BY <3>4, <3>5, <3>6, <4>1 DEF recomp_mem_write
    <3>7. CASE ~Mapped(x, at, size)
      BY <3>5, <3>7 DEF recomp_mem_write
    <3> QED BY <3>6, <3>7
  <2> QED BY <2>1, <2>2
<1> HIDE DEF Next16
<1>2. Steps(G, 16, S)
  <2>1. ASSUME NEW z \in (1 .. 16) \X S PROVE Next16(z[1], z[2]) \in S
    <3>1. z[1] \in 1 .. 16 /\ z[2] \in S
      OBVIOUS
    <3> HIDE DEF S
    <3> QED BY <1>1, <3>1
  <2> HIDE DEF S
  <2> QED BY <2>1 DEF Steps
<1>3. p \in S
  OBVIOUS
<1> HIDE DEF S
<1>4. ASSUME NEW b \in 1 .. 16, NEW x \in S PROVE G[<<b, x>>] = Next16(b, x)
  <2>1. <<b, x>> \in (1 .. 16) \X S
    OBVIOUS
  <2> QED BY <2>1
<1> HIDE DEF G
<1>5. PICK g \in [0 .. 16 -> S] : g[0] = p /\ \A b \in 1 .. 16 : g[b] = G[<<b, g[b - 1]>>]
  <2>1. \E g : Recurs(g, p, G, 16, S)
    BY <1>2, <1>3, Recursion
  <2> QED BY <2>1 DEF Recurs
<1>6. ASSUME NEW b \in 1 .. 16 PROVE g[b] = Next16(b, g[b - 1])
  <2>1. g[b - 1] \in S
    OBVIOUS
  <2> QED BY <1>4, <1>5, <2>1
<1>7. Written(g, p, addr, size, list, w)
  <2>1. ASSUME NEW b \in 0 .. 16
        PROVE g[b] = IF b = 0 THEN p ELSE Next16(b, g[b - 1])
    BY <1>5, <1>6
  <2>2. g = [b \in 0 .. 16 |-> g[b]]
    OBVIOUS
  <2>3. g = [b \in 0 .. 16 |-> IF b = 0 THEN p ELSE Next16(b, g[b - 1])]
    BY <2>1, <2>2
  <2> QED BY <2>3, Zenon DEF Written, Next16
<1> QED BY <1>7

(* There is one for each bit of the list.                                  *)
LEMMA WrittenAre ==
    ASSUME NEW p, NEW addr, NEW size, NEW list, NEW w, NEW f, Written(f, p, addr, size, list, w)
    PROVE  WrittenSteps(f, p, addr, size, list, w)
<1> DEFINE Next16(b, x) == IF b - 1 \in list
                           THEN recomp_mem_write(x, addr + size * Rank(b - 1, list), size, w[b - 1])
                           ELSE x
<1> HIDE DEF Next16
<1>1. f = [b \in 0 .. 16 |-> IF b = 0 THEN p ELSE Next16(b, f[b - 1])]
  BY Zenon DEF Written, Next16
<1>2. f[0] = p
  <2>1. 0 \in 0 .. 16
    OBVIOUS
  <2> QED BY <1>1, <2>1
<1>3. ASSUME NEW b \in 1 .. 16 PROVE f[b] = Next16(b, f[b - 1])
  <2>1. b \in 0 .. 16 /\ b # 0
    OBVIOUS
  <2> QED BY <1>1, <2>1
<1> QED BY <1>2, <1>3, Zenon DEF WrittenSteps, Next16

(* The k-th write of the interpreter is the write of the register of rank  *)
(* k: both leave the same memory.                                          *)
LEMMA StoresInTurn ==
    ASSUME EightBits, NEW D, NEW p, NEW y, Twin(D, p, y), NEW addr \in Int, NEW size \in {Word, Long},
           NEW list, list \subseteq 0 .. 15, NEW n, n = Cardinality(list), Mapped(p, addr, size * n),
           NEW v, \A k \in 1 .. n : v[k] \in Int, NEW w, \A b \in list : w[b] = v[Rank(b, list) + 1],
           NEW f, PutsSteps(f, p, addr, size, v, n), NEW h, WrittenSteps(h, y, addr, size, list, w)
    PROVE  Twin(D, f[n], h[16]) /\ f[n].incremented = p.incremented
<1> DEFINE Good(b) == Twin(D, f[Rank(b, list)], h[b]) /\ f[Rank(b, list)].incremented = p.incremented
           good == [b \in 0 .. 16 |-> IF Good(b) THEN 1 ELSE 0]
<1>0. size \in Sizes /\ n \in Nat
  BY Registers16 DEF Sizes
<1>1. Rank(0, list) = 0 /\ Rank(16, list) = n
  BY RankEnds
<1>2. Good(0)
  BY <1>1 DEF PutsSteps, WrittenSteps
<1>3. ASSUME NEW b \in 1 .. 16, Good(b - 1) PROVE Good(b)
  <2>1. CASE b - 1 \notin list
    <3>1. Rank(b, list) = Rank(b - 1, list) /\ h[b] = h[b - 1]
      BY <2>1, RankNext DEF WrittenSteps
    <3> QED BY <1>3, <3>1
  <2>2. CASE b - 1 \in list
    <3> DEFINE k == Rank(b - 1, list)
               at == addr + size * k
               z == v[k + 1]
               x == f[k]
               g == h[b - 1]
    <3>1. k \in 0 .. n - 1 /\ Rank(b, list) = k + 1
      BY <2>2, RankBelow, RankNext
    <3>2. k + 1 \in 1 .. n /\ (k + 1) - 1 = k
      BY <1>0, <3>1
    <3>3. f[k + 1] = Put(x, at, size, z)
      BY <3>2 DEF PutsSteps
    <3>4. h[b] = recomp_mem_write(g, at, size, z)
      BY <2>2 DEF WrittenSteps
    <3>5. Twin(D, x, g) /\ x.incremented = p.incremented
      BY <1>3
    <3>6. z \in Int
      BY <3>2
    <3> HIDE DEF z, g, x, Good
    <3>7. DOMAIN x.mem = DOMAIN p.mem /\ x \in Machines(D)
      BY <3>5 DEF Twin, Machines
    <3>8. at \in Int /\ Mapped(x, at, size)
      <4> HIDE DEF k
      <4> QED BY <1>0, <3>1, <3>7, PieceMapped
    <3>9. Twin(D, Put(x, at, size, z), Put(g, at, size, z)) /\ Mapped(g, at, size)
      <4> HIDE DEF at
      <4> QED BY <1>0, <3>5, <3>6, <3>8, TwinPut
    <3>10. h[b] = Put(g, at, size, z)
      BY <3>4, <3>9 DEF recomp_mem_write
    <3>11. Put(x, at, size, z).incremented = x.incremented
      <4> DEFINE r == Put(x, at, size, z)
      <4>1. r = Put(x, at, size, z)
        OBVIOUS
      <4> HIDE DEF at, r
      <4>2. Pushed(D, r, x)
        BY <1>0, <3>6, <3>7, <3>8, <4>1, PutIn
      <4> QED BY <4>1, <4>2 DEF Pushed
    <3> HIDE DEF k, at
    <3> QED BY <3>1, <3>3, <3>5, <3>9, <3>10, <3>11 DEF Good
  <2> QED BY <2>1, <2>2
<1> HIDE DEF Good
<1>4. good[0] \in {1}
  <2>1. 0 \in 0 .. 16
    OBVIOUS
  <2> QED BY <1>2, <2>1
<1>5. ASSUME NEW b \in 1 .. 16, good[b - 1] \in {1} PROVE good[b] \in {1}
  <2>1. b - 1 \in 0 .. 16 /\ b \in 0 .. 16
    OBVIOUS
  <2>2. Good(b - 1)
    BY <1>5, <2>1
  <2>3. Good(b)
    BY <1>3, <2>2
  <2> QED BY <2>1, <2>3
<1>6. (\A b \in 1 .. 16 : good[b - 1] \in {1} => good[b] \in {1}) /\ 16 \in Nat
  BY <1>5
<1> HIDE DEF good
<1>7. \A b \in 0 .. 16 : good[b] \in {1}
  BY <1>4, <1>6, Stays
<1>8. Good(16)
  <2>1. 16 \in 0 .. 16
    OBVIOUS
  <2>2. good[16] = 1
    BY <1>7, <2>1
  <2> QED BY <2>1, <2>2 DEF good
<1> QED BY <1>1, <1>8 DEF Good

(* The operand of MOVEM, and its list.                                     *)
LEMMA MovemAt ==
    ASSUME EightBits, NEW D, NEW m, NEW i, Ready(D, m, i), i.kind = "Movem", NEW u, NEW r, ~Deviates(m, i, u, r)
    PROVE  /\ i.list \subseteq 0 .. 15 /\ i.size \in {Word, Long} /\ i.size \in Sizes /\ i.size \in Nat
                  /\ i.list # {}
           /\ RegisterCount(i) = Cardinality(i.list) /\ RegisterCount(i) \in Nat \ {0}
           /\ "src" \in DOMAIN i => /\ "dst" \notin DOMAIN i /\ i["src"] \in Targets /\ IsMemory(i["src"])
                                    /\ i["src"].kind \notin {"AddressDecrement", "Immediate"}
                                    /\ (i["src"].kind \in Stepped => i["src"].size = i.size)
                                    /\ operand(i, u, "src") = i["src"]
                                           /\ ea(m, i, u, "src") = static_ea(i["src"], m.pc)
           /\ "src" \notin DOMAIN i =>
                  /\ "dst" \in DOMAIN i /\ i["dst"] \in Targets /\ IsMemory(i["dst"])
                  /\ i["dst"].kind \notin {"AddressIncrement", "Immediate"}
                  /\ (i["dst"].kind \in Stepped => i["dst"].size = i.size)
                  /\ operand(i, u, "dst") = i["dst"] /\ \A x : ea(x, i, u, "dst") = static_ea(i["dst"], x.pc)
                  /\ i["dst"].kind = "AddressDecrement" =>
                         Cardinality(i.list) = 1 /\ 7 - i["dst"].index \notin i.list
<1>1. m \in Machines(D) /\ WellFormed(i) /\ AsDecoded(i)
  BY Begins DEF Ready
<1>2. /\ i.list \subseteq 0 .. 15 /\ i.size \in {Word, Long} /\ i.size \in Sizes /\ RegisterCount(i) \in Nat
      /\ "src" \in DOMAIN i => /\ "dst" \notin DOMAIN i /\ i["src"] \in Targets
                               /\ IsMemory(i["src"]) /\ i["src"].kind # "AddressDecrement"
      /\ "src" \notin DOMAIN i => /\ "dst" \in DOMAIN i /\ i["dst"] \in Targets
                                  /\ IsMemory(i["dst"]) /\ i["dst"].kind # "AddressIncrement"
  BY <1>1, MovemIs
<1>3. ~Incomplete(m, i, u, r)
  BY Zenon DEF Deviates
<1>4. i.list # {} /\ ~(Is(i, "dst", {"AddressDecrement"})
          /\ (Cardinality(i.list) > 1 \/ 7 - i.dst.index \in i.list))
  BY <1>3, Zenon DEF Incomplete
<1>5. RegisterCount(i) = Cardinality(i.list) /\ RegisterCount(i) # 0
  <2>1. IsFiniteSet(i.list)
    BY <1>2, Registers16
  <2> QED BY <1>4, <2>1, FS_EmptySet DEF RegisterCount
<1>6. TransferSize(i) = i.size
  BY Zenon DEF TransferSize, BitKinds, ToCcrKinds
<1>7. \A role \in Roles \cap DOMAIN i : i[role].kind \in Stepped => i[role].size = i.size
  BY <1>1, <1>6 DEF AsDecoded, Given
<1>8. "src" \in DOMAIN i => i["src"].kind # "Immediate"
  <2>1. ~Illegal(i)
    BY Zenon DEF Deviates
  <2> QED BY <2>1, <1>2 DEF Illegal, Is
<1>9. "dst" \in DOMAIN i => i["dst"].kind # "Immediate"
  <2>1. ~Illegal(i)
    BY Zenon DEF Deviates
  <2> QED BY <2>1, <1>2 DEF Illegal, Is
<1>10. "src" \in DOMAIN i => operand(i, u, "src") = i["src"] /\ ea(m, i, u, "src") = static_ea(i["src"], m.pc)
  <2> SUFFICES ASSUME "src" \in DOMAIN i PROVE operand(i, u, "src") = i["src"]
                          /\ ea(m, i, u, "src") = static_ea(i["src"], m.pc)
    OBVIOUS
  <2>1. "src" \in Roles \cap DOMAIN i /\ i.kind \notin {"Move", "Movea"}
    BY DEF Roles
  <2> QED BY <2>1, EaIs
<1>11. "dst" \in DOMAIN i => operand(i, u, "dst") = i["dst"]
           /\ \A x : ea(x, i, u, "dst") = static_ea(i["dst"], x.pc)
  <2> SUFFICES ASSUME "dst" \in DOMAIN i
               PROVE operand(i, u, "dst") = i["dst"] /\ \A x : ea(x, i, u, "dst") = static_ea(i["dst"], x.pc)
    OBVIOUS
  <2>1. "dst" \in Roles \cap DOMAIN i /\ "dst" # "src"
    BY DEF Roles
  <2> QED BY <2>1, EaIs
<1>12. "dst" \in DOMAIN i /\ i["dst"].kind = "AddressDecrement" =>
           Cardinality(i.list) = 1 /\ 7 - i["dst"].index \notin i.list
  <2>1. Cardinality(i.list) \in Nat /\ Cardinality(i.list) # 0
    BY <1>2, <1>5
  <2> QED BY <1>4, <2>1 DEF Is
<1>13. i.size \in Nat
  BY <1>2 DEF Word, Long
<1> QED BY <1>2, <1>4, <1>5, <1>7, <1>8, <1>9, <1>10, <1>11, <1>12, <1>13 DEF Roles

(* All the registers of a MOVEM that is completed are on the bus.          *)
LEMMA MovemOnBus ==
    ASSUME EightBits, NEW D, OnBus(D), NEW x \in Machines(D), NEW addr \in Int, NEW size \in {Word, Long},
           NEW n \in Nat \ {0}, Mapped(x, addr, size * n)
    PROVE  Bus(addr) = addr
<1>1. Mapped(x, addr + size * 0, size) /\ addr + size * 0 = addr
  <2>1. 0 \in 0 .. n - 1 /\ n \in Nat
    OBVIOUS
  <2>2. addr + size * 0 \in Int /\ Mapped(x, addr + size * 0, size)
    BY <2>1, PieceMapped
  <2>3. addr + size * 0 = addr
    BY DEF Word, Long
  <2> QED BY <2>2, <2>3
<1>2. size \in Sizes
  BY DEF Sizes
<1> QED BY <1>1, <1>2, MappedOnBus

(* The step of MOVEM is a number of registers.                             *)
LEMMA MovemSteps ==
    ASSUME NEW t, NEW size \in {Word, Long}, t.size = size, NEW n \in Nat \ {0}
    PROVE  StepBytes(t, n) = size * n /\ size * n \in Nat
<1>1. size * n \in Nat /\ size * n >= 2
  <2>1. CASE size = Word
    BY <2>1 DEF Word
  <2>2. CASE size = Long
    BY <2>2 DEF Long
  <2> QED BY <2>1, <2>2
<1> DEFINE k == size * n
<1>2. Max({k, 2}) = k
  <2>0. k \in Nat /\ k >= 2
    BY <1>1
  <2> HIDE DEF k
  <2>1. \E x \in {k, 2} : \A y \in {k, 2} : x >= y
    BY <2>0
  <2>2. Max({k, 2}) \in {k, 2} /\ \A y \in {k, 2} : Max({k, 2}) >= y
    BY <2>1 DEF Max
  <2> QED BY <2>0, <2>2
<1> QED BY <1>1, <1>2 DEF StepBytes

(* Where both sides begin to store.                                        *)
MovemStart(D, m, p, P, T) ==
    /\ Twin(D, p, P) /\ p.incremented = {} /\ P.d = m.d /\ P.pc = m.pc
    /\ \A k \in 0 .. 7 : T.kind # "AddressDecrement" \/ k # T.index => a_reg(P, k) = a_reg(m, k)

(* Both sides begin to store at the same address.                          *)
LEMMA MovemStarts ==
    ASSUME EightBits, NEW D, NEW m, NEW i, Ready(D, m, i), i.kind = "Movem", NEW u, NEW r,
               ~Deviates(m, i, u, r),
           "src" \notin DOMAIN i, NEW T, T = i["dst"], NEW n, n = RegisterCount(i),
           NEW p, p = try_decrement_address(m, i, "dst"),
           NEW P, P = IF T.kind = "AddressDecrement" THEN SetA(m, T.index, a_reg(m, T.index) - i.size * n)
                   ELSE m
    PROVE  MovemStart(D, m, p, P, T)
<1>1. m \in Machines(D) /\ m.decremented = {} /\ m.incremented = {}
  BY Begins
<1>2. /\ i.size \in {Word, Long} /\ n \in Nat \ {0} /\ T \in Targets
      /\ (T.kind \in Stepped => T.size = i.size) /\ "dst" \in DOMAIN i
  BY MovemAt
<1>3. DecrementCount(i, "dst") = n
  BY DEF DecrementCount
<1>4. P \in Machines(D) /\ P.incremented = {} /\ P.d = m.d /\ P.pc = m.pc
      /\ \A k \in 0 .. 7 : T.kind # "AddressDecrement" \/ k # T.index => a_reg(P, k) = a_reg(m, k)
  <2>1. CASE T.kind = "AddressDecrement"
    <3> DEFINE v == a_reg(m, T.index) - i.size * n
    <3>1. T.index \in 0 .. 7 /\ T.kind \in Stepped
      BY <1>2, <2>1, TargetIn DEF Stepped
    <3>2. a_reg(m, T.index) \in Int
      BY <1>1, <3>1, RegisterIn, ValuesWiden
    <3>3. i.size * n \in Nat
      BY <1>2, <3>1, MovemSteps
    <3>4. v \in Int
      BY <3>2, <3>3
    <3>5. P = SetA(m, T.index, v)
      BY <2>1
    <3> HIDE DEF v
    <3>6. AddressSet(D, P, m, T.index, v)
      BY <1>1, <3>1, <3>4, <3>5, SetAIn
    <3> QED BY <1>1, <3>5, <3>6, SetAKeeps DEF AddressSet, OnlyAddresses
  <2>2. CASE T.kind # "AddressDecrement"
    BY <1>1, <2>2
  <2> QED BY <2>1, <2>2
<1>5. p = [P EXCEPT !.decremented = {} \cup {"dst"}]
  <2>0. "dst" \notin m.decremented
    BY <1>1
  <2>1. CASE T.kind = "AddressDecrement"
    <3>1. StepBytes(T, n) = i.size * n
      BY <1>2, <2>1, MovemSteps DEF Stepped
    <3>2. p = [SetA(m, T.index, a_reg(m, T.index) - i.size * n) EXCEPT !.decremented = @ \cup {"dst"}]
      BY <1>3, <2>0, <2>1, <3>1 DEF try_decrement_address
    <3>3. P.decremented = m.decremented
      <4>1. P = SetA(m, T.index, a_reg(m, T.index) - i.size * n)
        BY <2>1
      <4> QED BY <1>1, <4>1, SetAKeeps
    <3> QED BY <1>1, <2>1, <3>2, <3>3
  <2>2. CASE T.kind # "AddressDecrement"
    BY <1>1, <2>0, <2>2 DEF try_decrement_address
  <2> QED BY <2>1, <2>2
<1>6. Twin(D, P, P)
  BY <1>4, TwinSelf
<1>7. Twin(D, p, P)
  <2> DEFINE marks == {} \cup {"dst"}
  <2>1. marks \in SUBSET Roles
    BY DEF Roles
  <2>2. p = [P EXCEPT !.decremented = marks]
    BY <1>5
  <2> HIDE DEF marks
  <2> QED BY <1>6, <2>1, <2>2, TwinMarks
<1>8. p.incremented = P.incremented
  BY <1>4, <1>5 DEF Machines
<1> QED BY <1>4, <1>7, <1>8 DEF MovemStart

(* The address of a MOVEM is the same on both sides.                       *)
LEMMA MovemAddress ==
    ASSUME EightBits, NEW D, NEW m, NEW i, Ready(D, m, i), i.kind = "Movem", NEW u, NEW r,
               ~Deviates(m, i, u, r),
           NEW role \in Roles \cap DOMAIN i, NEW t, t = i[role], NEW x, NEW y, Twin(D, x, y),
           NEW addr, addr = effective_address(x, t), Mapped(x, addr, i.size * RegisterCount(i)),
           NEW sea, sea = static_ea(t, x.pc)
    PROVE  /\ addr \in Int
           /\ (IF t.kind \in Stepped THEN a_reg(y, t.index) ELSE ea_expr(y, t, sea)) = addr
<1>1. OnBus(D) /\ x \in Machines(D) /\ y \in Machines(D)
  BY Begins DEF Twin
<1>2. /\ t \in Targets /\ IsMemory(t) /\ t.kind # "Immediate"
      /\ i.size \in {Word, Long} /\ RegisterCount(i) \in Nat \ {0}
  BY MovemAt DEF Roles
<1>3. addr \in Int
  BY <1>1, <1>2, AddressIn, ValuesWiden
<1>4. Bus(addr) = addr
  BY <1>1, <1>2, <1>3, MovemOnBus
<1>5. CASE t.kind \in Stepped
  <2>1. t.index \in 0 .. 7
    BY <1>2, <1>5, TargetIn
  <2>2. a_reg(y, t.index) = a_reg(x, t.index)
    BY TwinRegisters
  <2>3. addr = Low(a_reg(x, t.index), Long)
    BY <1>5 DEF effective_address, Stepped
  <2>4. a_reg(x, t.index) \in Values(Long)
    BY <1>1, <2>1, RegisterIn
  <2> QED BY <1>3, <1>5, <2>2, <2>3, <2>4, LowKeeps
<1>6. CASE t.kind \notin Stepped
  <2>1. HasFixedAddress(t)
    BY <1>2, <1>6 DEF HasFixedAddress
  <2>2. addr = effective_address(y, t) /\ y.pc = x.pc
    BY TwinAddress, TwinRegisters
  <2>3. ea_expr(y, t, sea) = addr
    BY <1>1, <1>2, <1>4, <2>1, <2>2, ExprIs
  <2> QED BY <1>3, <1>6, <2>3
<1> QED BY <1>5, <1>6

(* MOVEM to memory, with a predecrement only of one register.              *)
LEMMA MovemStoreAgrees ==
    ASSUME EightBits, NEW D, NEW m, NEW i, Ready(D, m, i), i.kind = "Movem", "src" \notin DOMAIN i,
               Ok(Execute(m, i)),
           NEW u, ~Deviates(m, i, u, Execute(m, i))
    PROVE  Agrees(D, m, i, u)
<1> DEFINE T == i["dst"]
           predec == T.kind = "AddressDecrement"
           back == {15 - c : c \in i.list}
           list == IF predec THEN back ELSE i.list
           n == RegisterCount(i)
           size == i.size
           p == try_decrement_address(m, i, "dst")
           addr == effective_address(p, T)
           value(k) == get_reg(m, CHOOSE q \in list : Rank(q, list) = k - 1)
           Defines(f) == f = [k \in 0 .. n |-> IF k = 0 THEN p
               ELSE Put(f[k - 1], addr + size * (k - 1), size, value(k))]
           U == CHOOSE f : Defines(f)
           v == [k \in 1 .. n |-> value(k)]
           P == IF predec THEN SetA(m, T.index, a_reg(m, T.index) - size * n) ELSE m
           at == IF predec THEN a_reg(P, T.index) ELSE ea_expr(P, T, ea(P, i, u, "dst"))
           reg(b) == IF predec THEN 15 - b ELSE b
           Emits(f) == f = [b \in 0 .. 16 |-> IF b = 0 THEN P
                               ELSE IF b - 1 \in i.list
                                    THEN recomp_mem_write(f[b - 1], at + size * Rank(b - 1, i.list), size,
                                                          get_reg(P, reg(b - 1)))
                                    ELSE f[b - 1]]
           H == CHOOSE f : Emits(f)
           w == [b \in 0 .. 15 |-> get_reg(P, reg(b))]
<1>1. m \in Machines(D) /\ WellFormed(i)
  BY Begins
<1>2. /\ i.list \subseteq 0 .. 15 /\ size \in {Word, Long} /\ size \in Sizes /\ size \in Nat
      /\ n = Cardinality(i.list) /\ n \in Nat \ {0} /\ n \in Nat
      /\ "dst" \in DOMAIN i /\ "dst" \in Roles /\ T \in Targets /\ T.kind # "AddressIncrement"
      /\ (\A x : ea(x, i, u, "dst") = static_ea(T, x.pc))
      /\ (predec => Cardinality(i.list) = 1 /\ 7 - T.index \notin i.list)
  BY MovemAt DEF Roles
<1>3. Perform(m, i) = IF Mapped(p, addr, size * n) THEN U[n] ELSE Fail(p)
  <2>1. Perform(m, i) = ExecMovem(m, i)
    BY PerformIs
  <2>2. ExecMovem(m, i) = MovemStore(m, i)
    BY DEF ExecMovem
  <2>3. MovemStore(m, i) = IF Mapped(p, addr, size * n) THEN U[n] ELSE Fail(p)
    BY Zenon DEF MovemStore
  <2> QED BY <2>1, <2>2, <2>3
<1>4. translate_inst(m, i, u) = H[16]
  <2>1. translate_inst(m, i, u) = LiftMovem(m, i, u)
    BY TranslateIs
  <2>2. LiftMovem(m, i, u) = LiftMovemStore(m, i, u)
    BY DEF LiftMovem
  <2>3. LiftMovemStore(m, i, u) = H[16]
    BY Zenon DEF LiftMovemStore
  <2> QED BY <2>1, <2>2, <2>3
<1>5. /\ p = try_decrement_address(m, i, "dst") /\ addr = effective_address(p, T) /\ T = i["dst"]
             /\ n = RegisterCount(i)
      /\ P = (IF T.kind = "AddressDecrement" THEN SetA(m, T.index, a_reg(m, T.index) - i.size * n) ELSE m)
      /\ at = (IF predec THEN a_reg(P, T.index) ELSE ea_expr(P, T, ea(P, i, u, "dst")))
      /\ size = i.size /\ (predec <=> T.kind = "AddressDecrement")
      /\ list = IF predec THEN back ELSE i.list
  OBVIOUS
<1>6. back = {15 - c : c \in i.list}
  OBVIOUS
<1> HIDE DEF p, addr, T, n, P, at, size, predec, list, back, U, H, value
<1>7. MovemStart(D, m, p, P, T)
  BY <1>5, MovemStarts
<1>8. /\ Twin(D, p, P) /\ p.incremented = {} /\ P.d = m.d /\ P.pc = m.pc /\ p \in Machines(D)
             /\ P \in Machines(D)
      /\ \A k \in 0 .. 7 : ~predec \/ k # T.index => a_reg(P, k) = a_reg(m, k)
  BY <1>5, <1>7 DEF MovemStart, Twin
<1>9. Mapped(p, addr, size * n) /\ Perform(m, i) = U[n]
  <2>1. Ok(Perform(m, i))
    BY Completes
  <2>2. ~Ok(Fail(p))
    BY <1>8, FailIsNotOk
  <2> QED BY <1>3, <2>1, <2>2
<1>10. addr \in Int /\ at = addr
  <2>1. P.pc = p.pc
    BY <1>8, TwinRegisters
  <2>2. ea(P, i, u, "dst") = static_ea(T, p.pc)
    BY <1>2, <2>1
  <2> DEFINE sea == static_ea(T, p.pc)
  <2>3. addr \in Int /\ (IF T.kind \in Stepped THEN a_reg(P, T.index) ELSE ea_expr(P, T, sea)) = addr
    <3>1. "dst" \in Roles \cap DOMAIN i /\ sea = static_ea(T, p.pc)
      BY <1>2
    <3> HIDE DEF sea
    <3> QED BY <1>5, <1>8, <1>9, <3>1, MovemAddress
  <2>4. T.kind \in Stepped <=> predec
    BY <1>2, <1>5 DEF Stepped
  <2> QED BY <1>5, <2>2, <2>3, <2>4
<1>11. list \subseteq 0 .. 15 /\ Cardinality(list) = n
  <2>1. back \subseteq 0 .. 15 /\ Cardinality(back) = Cardinality(i.list)
    BY <1>2, <1>6, Reversed
  <2> QED BY <1>2, <1>5, <2>1
<1>12. ASSUME NEW k \in 1 .. n PROVE v[k] = value(k) /\ v[k] \in Int
  <2>1. k - 1 \in Nat /\ k - 1 < Cardinality(list)
    BY <1>2, <1>11
  <2> DEFINE q == CHOOSE q \in list : Rank(q, list) = k - 1
  <2>2. q \in list
    BY <1>11, <2>1, RankTaken
  <2>3. q \in 0 .. 15
    BY <1>11, <2>2
  <2> HIDE DEF q
  <2>4. get_reg(m, q) \in Values(Long)
    BY <1>1, <2>3, GetRegIn
  <2>5. get_reg(m, q) \in Int
    BY <2>4, ValuesWiden
  <2>6. value(k) = get_reg(m, q)
    BY DEF q, value
  <2> QED BY <2>5, <2>6
<1>13. ASSUME NEW b \in i.list PROVE w[b] = v[Rank(b, i.list) + 1] /\ w[b] = get_reg(P, reg(b))
  <2> DEFINE k == Rank(b, i.list)
  <2>1. b \in 0 .. 15 /\ k \in 0 .. n - 1
    BY <1>2, RankBelow
  <2>2. k + 1 \in 1 .. n /\ (k + 1) - 1 = k
    BY <1>2, <2>1
  <2>3. w[b] = get_reg(P, reg(b))
    BY <2>1
  <2>4. v[k + 1] = value(k + 1)
    BY <1>12, <2>2
  <2> DEFINE q == CHOOSE q \in list : Rank(q, list) = k
  <2>5. value(k + 1) = get_reg(m, q)
    BY <2>2, Zenon DEF value
  <2>6. q \in list /\ Rank(q, list) = k
    <3>1. k \in Nat /\ k < Cardinality(list)
      BY <1>2, <1>11, <2>1
    <3>2. \E r \in list : Rank(r, list) = k
      <4> HIDE DEF k
      <4> QED BY <1>11, <3>1, RankTaken
    <3> HIDE DEF k
    <3> QED BY <3>2, Zenon
  <2> HIDE DEF q, k
  <2>7. CASE ~predec
    <3>1. list = i.list
      BY <1>5, <2>7
    <3>2. Rank(q, list) = Rank(b, list)
      BY <2>6, <3>1 DEF k
    <3>3. q = b
      BY <1>11, <2>6, <3>1, <3>2, RankApart
    <3>4. P = m
      BY <1>5, <2>7
    <3>5. reg(b) = b
      BY <2>7
    <3> QED BY <2>3, <2>4, <2>5, <3>3, <3>4, <3>5 DEF k
  <2>8. CASE predec
    <3>0. Cardinality(i.list) = 1 /\ i.list \subseteq 0 .. 15
      BY <1>2, <2>8
    <3>1. PICK c \in 0 .. 15 : i.list = {c}
      BY <3>0, OneRegister
    <3>4. back = {15 - c}
      BY <1>6, <3>1
    <3>2. c = b /\ q = 15 - b /\ reg(b) = 15 - b
      BY <1>5, <2>6, <2>8, <3>1, <3>4
    <3>3. get_reg(P, 15 - b) = get_reg(m, 15 - b)
      <4>1. CASE 15 - b < 8
        BY <1>8, <4>1 DEF get_reg
      <4>2. CASE ~(15 - b < 8)
        <5>1. (15 - b) - 8 \in 0 .. 7 /\ (15 - b) - 8 = 7 - b
          BY <2>1, <4>2
        <5>2. T.index \in 0 .. 7
          BY <1>2, <1>5, <2>8, TargetIn DEF Stepped
        <5>3. 7 - b # T.index
          <6> SUFFICES ASSUME 7 - b = T.index PROVE FALSE
            OBVIOUS
          <6>1. 7 - T.index = b
            BY <2>1, <5>2
          <6> QED BY <1>2, <2>8, <6>1
        <5>4. a_reg(P, (15 - b) - 8) = a_reg(m, (15 - b) - 8)
          BY <1>8, <5>1, <5>3
        <5> QED BY <4>2, <5>4 DEF get_reg
      <4> QED BY <4>1, <4>2
    <3> QED BY <2>3, <2>4, <2>5, <3>2, <3>3 DEF k
  <2> QED BY <2>3, <2>7, <2>8
<1>14. Puts(U, p, addr, size, v, n)
  <2>1. PICK f : Puts(f, p, addr, size, v, n)
    <3> HIDE DEF v
    <3>1. \A k \in 1 .. n : v[k] \in Int
      BY <1>12
    <3> QED BY <1>2, <1>8, <1>9, <1>10, <3>1, PutsExist
  <2>2. \A g : Puts(g, p, addr, size, v, n) <=> Defines(g)
    <3> SUFFICES ASSUME NEW g PROVE Puts(g, p, addr, size, v, n) <=> Defines(g)
      OBVIOUS
    <3>1. ASSUME NEW k \in 0 .. n
          PROVE (IF k = 0 THEN p ELSE Put(g[k - 1], addr + size * (k - 1), size, v[k]))
                = (IF k = 0 THEN p ELSE Put(g[k - 1], addr + size * (k - 1), size, value(k)))
      <4>1. CASE k = 0
        BY <4>1
      <4>2. CASE k # 0
        <5>1. k \in 1 .. n
          BY <1>2, <4>2
        <5>2. v[k] = value(k)
          BY <1>12, <5>1
        <5> HIDE DEF v
        <5> QED BY <5>2
      <4> QED BY <4>1, <4>2
    <3>2. [k \in 0 .. n |-> IF k = 0 THEN p ELSE Put(g[k - 1], addr + size * (k - 1), size, v[k])]
          = [k \in 0 .. n |-> IF k = 0 THEN p ELSE Put(g[k - 1], addr + size * (k - 1), size, value(k))]
      <4> HIDE DEF v
      <4> QED BY <3>1, Zenon
    <3> HIDE DEF v
    <3> QED BY <3>2, Zenon DEF Puts
  <2>3. Defines(f)
    BY <2>1, <2>2
  <2> HIDE DEF Defines
  <2>4. Defines(U)
    BY <2>3, Zenon DEF U
  <2> QED BY <2>2, <2>4
<1>15. Written(H, P, addr, size, i.list, w)
  <2>1. PICK f : Written(f, P, addr, size, i.list, w)
    <3> HIDE DEF w
    <3>1. \A b \in i.list : w[b] \in Int
      <4> SUFFICES ASSUME NEW b \in i.list PROVE w[b] \in Int
        OBVIOUS
      <4>1. Rank(b, i.list) + 1 \in 1 .. n
        BY <1>2, RankBelow
      <4> QED BY <1>12, <1>13, <4>1
    <3> QED BY <1>2, <1>8, <1>10, <3>1, WrittenExist
  <2>2. \A g : Written(g, P, addr, size, i.list, w) <=> Emits(g)
    <3> SUFFICES ASSUME NEW g PROVE Written(g, P, addr, size, i.list, w) <=> Emits(g)
      OBVIOUS
    <3> DEFINE One(b) == IF b = 0 THEN P
                         ELSE IF b - 1 \in i.list
                              THEN recomp_mem_write(g[b - 1], addr + size * Rank(b - 1, i.list), size, w[b - 1])
                              ELSE g[b - 1]
               Two(b) == IF b = 0 THEN P
                         ELSE IF b - 1 \in i.list
                              THEN recomp_mem_write(g[b - 1], at + size * Rank(b - 1, i.list), size,
                                                    get_reg(P, reg(b - 1)))
                              ELSE g[b - 1]
    <3>1. ASSUME NEW b \in 0 .. 16 PROVE One(b) = Two(b)
      <4>1. CASE b = 0 \/ b - 1 \notin i.list
        BY <4>1
      <4>2. CASE b # 0 /\ b - 1 \in i.list
        <5>1. w[b - 1] = get_reg(P, reg(b - 1))
          BY <1>13, <4>2
        <5> HIDE DEF w, reg
        <5> QED BY <1>10, <4>2, <5>1
      <4> QED BY <4>1, <4>2
    <3>2. Written(g, P, addr, size, i.list, w) <=> g = [b \in 0 .. 16 |-> One(b)]
      <4> HIDE DEF w
      <4> QED BY Zenon DEF Written
    <3>3. Emits(g) <=> g = [b \in 0 .. 16 |-> Two(b)]
      BY Zenon
    <3> HIDE DEF One, Two, Emits
    <3>4. [b \in 0 .. 16 |-> One(b)] = [b \in 0 .. 16 |-> Two(b)]
      BY <3>1, Zenon
    <3> QED BY <3>2, <3>3, <3>4
  <2>3. Emits(f)
    BY <2>1, <2>2
  <2> HIDE DEF Emits
  <2>4. Emits(H)
    BY <2>3, Zenon DEF H
  <2> QED BY <2>2, <2>4
<1>16. PutsSteps(U, p, addr, size, v, n) /\ WrittenSteps(H, P, addr, size, i.list, w)
  <2> HIDE DEF v, w
  <2> QED BY <1>2, <1>14, <1>15, PutsAre, WrittenAre
<1>17. (\A k \in 1 .. n : v[k] \in Int) /\ (\A b \in i.list : w[b] = v[Rank(b, i.list) + 1])
  <2> HIDE DEF v, w
  <2> QED BY <1>12, <1>13
<1>18. Twin(D, U[n], H[16]) /\ U[n].incremented = p.incremented
  <2> HIDE DEF v, w
  <2> QED BY <1>2, <1>8, <1>9, <1>10, <1>16, <1>17, StoresInTurn
<1>19. \A role \in Roles \cap DOMAIN i : i[role].kind # "AddressIncrement" \/ role \in U[n].incremented
  BY <1>2, <1>5 DEF Roles
<1> HIDE DEF v, w
<1>20. Twin(D, Execute(m, i), H[16])
  BY <1>9, <1>18, <1>19, EndsStill
<1> QED BY <1>4, <1>20 DEF Agrees

(* What a load gives a register of the list is the same on both sides.     *)
LEMMA LoadedWord ==
    ASSUME EightBits, NEW D, NEW x, NEW y, Twin(D, x, y), NEW addr \in Int, NEW size \in {Word, Long},
               Mapped(x, addr, size),
           NEW v, v = Fetch(x, addr, size), NEW w, w = recomp_mem_read(y, addr, size)
    PROVE  LET one == IF size = Word THEN Low(Signed(v, Word), Long) ELSE v
               two == IF size = Word THEN Signed(w, Word) ELSE w
           IN  one \in Values(Long) /\ Low(two, Long) = one
<1>1. x \in Machines(D) /\ size \in Sizes /\ Word \in Sizes
  BY DEF Twin, Sizes
<1>2. v \in Values(size) /\ v \in Int
  BY <1>1, MappedFetch
<1>3. w = v
  BY TwinAddress DEF recomp_mem_read
<1>4. Low(Signed(v, Word), Long) \in Values(Long)
  BY <1>1, <1>2, SignedIn, LowLong
<1>5. size = Long => v \in Values(Long) /\ Low(v, Long) = v
  BY <1>2, LowKeeps
<1>6. size = Word \/ size = Long
  OBVIOUS
<1>7. Word # Long
  BY DEF Word, Long
<1> QED BY <1>3, <1>4, <1>5, <1>6, <1>7

(* MOVEM from memory: the register of (An)+ ends stepped, whether or not   *)
(* the list has it.                                                        *)
LEMMA MovemLoadAgrees ==
    ASSUME EightBits, NEW D, NEW m, NEW i, Ready(D, m, i), i.kind = "Movem", "src" \in DOMAIN i,
               Ok(Execute(m, i)),
           NEW u, ~Deviates(m, i, u, Execute(m, i))
    PROVE  Agrees(D, m, i, u)
<1> DEFINE S == i["src"]
           list == i.list
           n == RegisterCount(i)
           size == i.size
           p == try_decrement_address(m, i, "src")
           addr == effective_address(p, S)
           value(q) == Fetch(p, addr + size * Rank(q, list), size)
           word(q) == IF size = Word THEN Low(Signed(value(q), Word), Long) ELSE value(q)
           kept == IF S.kind = "AddressIncrement" THEN {8 + S.index} ELSE {}
           new(q) == IF q \in list \ kept THEN word(q) ELSE get_reg(p, q)
           y == [SetStackPtr(p, new(15)) EXCEPT !.d = [q \in 0 .. 7 |-> new(q)], !.a
               = [q \in 0 .. 6 |-> new(q + 8)]]
           F == [q \in 0 .. 15 |-> new(q)]
           postinc == S.kind = "AddressIncrement"
           at == ea_expr(m, S, ea(m, i, u, "src"))
           read(q) == recomp_mem_read(m, at + size * Rank(q, list), size)
           half(q) == IF size = Word THEN Signed(read(q), Word) ELSE read(q)
           next(q) == IF q \in list THEN Low(half(q), Long) ELSE get_reg(m, q)
           z == [SetStackPtr(m, next(15)) EXCEPT !.d = [q \in 0 .. 7 |-> next(q)], !.a
               = [q \in 0 .. 6 |-> next(q + 8)]]
           G == [q \in 0 .. 15 |-> next(q)]
<1>1. m \in Machines(D) /\ WellFormed(i) /\ m.decremented = {} /\ m.incremented = {} /\ Twin(D, m, m)
  BY Begins
<1>2. /\ list \subseteq 0 .. 15 /\ size \in {Word, Long} /\ size \in Sizes /\ size \in Nat
      /\ n = Cardinality(list) /\ n \in Nat \ {0} /\ n \in Nat
      /\ "src" \in Roles /\ "dst" \notin DOMAIN i /\ S \in Targets /\ S.kind # "AddressDecrement"
      /\ (S.kind \in Stepped => S.size = size) /\ ea(m, i, u, "src") = static_ea(S, m.pc)
  BY MovemAt DEF Roles
<1>3. Perform(m, i) = IF Mapped(p, addr, size * n) THEN y ELSE Fail(p)
  <2>1. Perform(m, i) = ExecMovem(m, i)
    BY PerformIs
  <2>2. ExecMovem(m, i) = MovemLoad(m, i)
    BY DEF ExecMovem
  <2>3. MovemLoad(m, i) = IF Mapped(p, addr, size * n) THEN y ELSE Fail(p)
    BY Zenon DEF MovemLoad
  <2> QED BY <2>1, <2>2, <2>3
<1>4. translate_inst(m, i, u) = IF postinc THEN SetA(z, S.index, at + size * n) ELSE z
  <2>1. translate_inst(m, i, u) = LiftMovem(m, i, u)
    BY TranslateIs
  <2>2. LiftMovem(m, i, u) = LiftMovemLoad(m, i, u)
    BY DEF LiftMovem
  <2>3. LiftMovemLoad(m, i, u) = IF postinc THEN SetA(z, S.index, at + size * n) ELSE z
    BY Zenon DEF LiftMovemLoad
  <2> QED BY <2>1, <2>2, <2>3
<1>5. y = Filled(p, F) /\ z = Filled(m, G)
  <2>1. \A q \in 0 .. 6 : q + 8 \in 0 .. 15
    OBVIOUS
  <2>2. \A q \in 0 .. 7 : q \in 0 .. 15
    OBVIOUS
  <2>3. 15 \in 0 .. 15
    OBVIOUS
  <2> HIDE DEF new, next
  <2>4. F[15] = new(15) /\ G[15] = next(15)
    BY <2>3
  <2>5. [q \in 0 .. 7 |-> new(q)] = [q \in 0 .. 7 |-> F[q]] /\ [q \in 0 .. 7 |-> next(q)]
            = [q \in 0 .. 7 |-> G[q]]
    BY <2>2
  <2>6. [q \in 0 .. 6 |-> new(q + 8)] = [q \in 0 .. 6 |-> F[q + 8]] /\ [q \in 0 .. 6 |-> next(q + 8)]
            = [q \in 0 .. 6 |-> G[q + 8]]
    BY <2>1
  <2> HIDE DEF F, G
  <2> QED BY <2>4, <2>5, <2>6, Zenon DEF Filled
<1>6. /\ p = try_decrement_address(m, i, "src") /\ addr = effective_address(p, S) /\ S = i["src"]
             /\ n = RegisterCount(i)
      /\ at = ea_expr(m, S, ea(m, i, u, "src")) /\ size = i.size /\ (postinc <=> S.kind = "AddressIncrement")
      /\ kept = (IF postinc THEN {8 + S.index} ELSE {}) /\ list = i.list
  OBVIOUS
<1> HIDE DEF p, addr, S, n, at, size, postinc, list, y, z, kept
<1>7. p = [m EXCEPT !.decremented = {"src"}]
  BY <1>1, <1>2, <1>6 DEF try_decrement_address
<1>8. Twin(D, p, m) /\ p.incremented = {} /\ p.pc = m.pc /\ p \in Machines(D) /\ p.d = m.d
  <2> DEFINE marks == {"src"}
  <2>1. marks \in SUBSET Roles /\ p = [m EXCEPT !.decremented = marks]
    BY <1>7 DEF Roles
  <2> HIDE DEF marks
  <2>2. Twin(D, p, m)
    BY <1>1, <2>1, TwinMarks
  <2>3. p.incremented = m.incremented /\ p.pc = m.pc /\ p.d = m.d
    BY <1>1, <1>7 DEF Machines
  <2> QED BY <1>1, <2>2, <2>3 DEF Twin
<1>9. Mapped(p, addr, size * n) /\ Perform(m, i) = y
  <2>1. Ok(Perform(m, i))
    BY Completes
  <2>2. ~Ok(Fail(p))
    BY <1>8, FailIsNotOk
  <2> QED BY <1>3, <2>1, <2>2
<1>10. addr \in Int /\ at = addr
           /\ (postinc => a_reg(m, S.index) = addr /\ S.index \in 0 .. 7 /\ S.kind \in Stepped)
  <2> DEFINE sea == static_ea(S, p.pc)
  <2>1. "src" \in Roles \cap DOMAIN i /\ sea = static_ea(S, p.pc)
    BY <1>2
  <2> HIDE DEF sea
  <2>2. addr \in Int /\ (IF S.kind \in Stepped THEN a_reg(m, S.index) ELSE ea_expr(m, S, sea)) = addr
    BY <1>6, <1>8, <1>9, <2>1, MovemAddress
  <2>3. ea(m, i, u, "src") = sea
    BY <1>2, <1>8, <2>1
  <2>4. S.kind \in Stepped <=> postinc
    BY <1>2, <1>6 DEF Stepped
  <2>5. postinc => ea_expr(m, S, sea) = a_reg(m, S.index)
    <3> SUFFICES ASSUME S.kind = "AddressIncrement" PROVE ea_expr(m, S, sea) = a_reg(m, S.index)
      BY <1>6
    <3>1. ea_expr(m, S, sea) =
            CASE S.kind \in {"Address", "AddressIncrement", "AddressDecrement"} -> a_reg(m, S.index)
              [] S.kind \in Static              -> sea
              [] S.kind = "ProgramCounterIndex" -> Bus(indexed_address(m, S, m.pc - 2))
              [] S.kind \in {"AddressDisplacement", "AddressIndex"} -> Bus(effective_address(m, S))
              [] OTHER                          -> 0
      BY Zenon DEF ea_expr
    <3> QED BY <3>1 DEF Static
  <2>6. S.kind \in Stepped => S.index \in 0 .. 7
    BY <1>2, TargetIn
  <2> QED BY <1>6, <2>2, <2>3, <2>4, <2>5, <2>6
<1>11. \A q : get_reg(p, q) = get_reg(m, q)
  <2>1. \A k : a_reg(m, k) = a_reg(p, k)
    BY <1>8, TwinRegisters
  <2> QED BY <1>8, <2>1 DEF get_reg
<1>12. ASSUME NEW q \in list PROVE word(q) \in Values(Long) /\ Low(half(q), Long) = word(q)
  <2> DEFINE k == addr + size * Rank(q, list)
             a == value(q)
             b == read(q)
  <2>1. Rank(q, list) \in 0 .. n - 1
    BY <1>2, RankBelow
  <2>2. k \in Int /\ Mapped(p, k, size)
    <3> DEFINE e == Rank(q, list)
    <3>1. e \in 0 .. n - 1
      BY <2>1
    <3> HIDE DEF e
    <3>2. addr + size * e \in Int /\ Mapped(p, addr + size * e, size)
      BY <1>2, <1>9, <1>10, <3>1, PieceMapped
    <3> QED BY <3>2 DEF e
  <2>3. a = Fetch(p, k, size) /\ b = recomp_mem_read(m, k, size)
    BY <1>10
  <2>4. word(q) = (IF size = Word THEN Low(Signed(a, Word), Long) ELSE a)
            /\ half(q) = (IF size = Word THEN Signed(b, Word) ELSE b)
    OBVIOUS
  <2> HIDE DEF a, b, k, word, half
  <2>5. LET one == IF size = Word THEN Low(Signed(a, Word), Long) ELSE a
            two == IF size = Word THEN Signed(b, Word) ELSE b
        IN  one \in Values(Long) /\ Low(two, Long) = one
    BY <1>2, <1>8, <2>2, <2>3, LoadedWord
  <2> QED BY <2>4, <2>5
<1> HIDE DEF value, word, read, half
<1>13. ASSUME NEW q \in 0 .. 15 PROVE F[q] = new(q) /\ G[q] = next(q) /\ F[q] \in Values(Long)
                  /\ G[q] \in Values(Long)
                                      /\ (q \notin kept => F[q] = G[q])
  <2>1. get_reg(p, q) \in Values(Long) /\ get_reg(m, q) = get_reg(p, q)
    BY <1>8, <1>11, GetRegIn
  <2>2. F[q] = new(q) /\ G[q] = next(q)
    OBVIOUS
  <2>3. CASE q \in list
    <3>1. word(q) \in Values(Long) /\ Low(half(q), Long) = word(q)
      BY <1>12, <2>3
    <3> HIDE DEF F, G
    <3> QED BY <2>1, <2>2, <2>3, <3>1
  <2>4. CASE q \notin list
    <3> HIDE DEF F, G
    <3> QED BY <2>1, <2>2, <2>4
  <2> QED BY <2>2, <2>3, <2>4
<1>14. F \in [0 .. 15 -> Values(Long)] /\ G \in [0 .. 15 -> Values(Long)]
  <2>1. F = [q \in 0 .. 15 |-> F[q]] /\ G = [q \in 0 .. 15 |-> G[q]]
    OBVIOUS
  <2> HIDE DEF F, G
  <2> QED BY <1>13, <2>1
<1>15. postinc => F[S.index + 8] = addr
  <2> SUFFICES ASSUME postinc PROVE F[S.index + 8] = addr
    OBVIOUS
  <2> DEFINE q == S.index + 8
  <2>1. q \in 0 .. 15 /\ q \in kept /\ ~(q < 8) /\ q - 8 = S.index
    BY <1>6, <1>10
  <2> HIDE DEF q
  <2>2. F[q] = new(q)
    BY <1>13, <2>1
  <2>3. new(q) = get_reg(p, q)
    BY <2>1
  <2>4. get_reg(m, q) = a_reg(m, q - 8)
    BY <2>1 DEF get_reg
  <2>5. F[q] = addr
    BY <1>10, <1>11, <2>1, <2>2, <2>3, <2>4
  <2> QED BY <2>5 DEF q
<1> HIDE DEF F, G, new, next
<1> DEFINE Y == Filled(m, F)
<1>16. Twin(D, y, Y) /\ Y = Filled(m, F)
  BY <1>5, <1>8, <1>14, FilledTwin
<1>17. FilledAs(D, p, F, y)
  BY <1>5, <1>8, <1>14, FilledIs
<1>18. y.incremented = {} /\ y \in Machines(D)
  BY <1>8, <1>17 DEF FilledAs
<1> HIDE DEF Y
<1>19. CASE ~postinc
  <2>1. F = G
    <3>1. \A q \in 0 .. 15 : F[q] = G[q]
      BY <1>6, <1>13, <1>19
    <3> QED BY <1>14, <3>1
  <2>2. Y = z
    BY <1>5, <1>16, <2>1
  <2>3. \A role \in Roles \cap DOMAIN i : i[role].kind # "AddressIncrement" \/ role \in y.incremented
    BY <1>2, <1>6, <1>19 DEF Roles
  <2>4. Twin(D, Execute(m, i), z)
    BY <1>9, <1>16, <2>2, <2>3, EndsStill
  <2> QED BY <1>4, <1>19, <2>4 DEF Agrees
<1>20. CASE postinc
  <2> DEFINE e == S.index
             w == addr + size * n
  <2>1. e \in 0 .. 7 /\ size * n \in Nat /\ StepBytes(S, n) = size * n
    BY <1>2, <1>10, <1>20, MovemSteps
  <2>2. w \in Int
    BY <1>10, <2>1
  <2>3. a_reg(y, e) = addr
    <3>1. e < 7 => y.a[e] = F[e + 8]
      BY <1>17, <2>1 DEF FilledAs
    <3>2. stack_ptr(y) = F[15]
      BY <1>8, <1>17 DEF FilledAs, stack_ptr
    <3>3. ~(e < 7) => e + 8 = 15
      BY <2>1
    <3> QED BY <1>15, <1>20, <3>1, <3>2, <3>3 DEF a_reg
  <2>4. IncrementCount(i) = n
    BY <1>6 DEF IncrementCount
  <2> DEFINE x == SetA(y, e, w)
  <2>5. try_increment_address(y, i, "src") = [x EXCEPT !.incremented = {"src"}]
    <3>1. "src" \notin y.incremented /\ S.kind = "AddressIncrement"
      BY <1>6, <1>18, <1>20
    <3>2. x.incremented = y.incremented
      <4>1. x = SetA(y, e, w)
        OBVIOUS
      <4> HIDE DEF x
      <4> QED BY <1>18, <4>1, SetAKeeps
    <3>3. try_increment_address(y, i, "src")
          = [SetA(y, S.index, a_reg(y, S.index) + StepBytes(S,
              IncrementCount(i))) EXCEPT !.incremented = @ \cup {"src"}]
      BY <1>6, <3>1 DEF try_increment_address
    <3>4. SetA(y, S.index, a_reg(y, S.index) + StepBytes(S, IncrementCount(i))) = x
      BY <2>1, <2>3, <2>4
    <3>5. {} \cup {"src"} = {"src"}
      OBVIOUS
    <3> HIDE DEF x, e
    <3> QED BY <1>18, <3>2, <3>3, <3>4, <3>5
  <2> DEFINE t == try_increment_address(y, i, "src")
  <2>6. Execute(m, i) = Forget(t)
    <3>1. Execute(m, i) = Forget(try_increment_address(try_increment_address(y, i, "src"), i, "dst"))
      BY <1>9, Completes
    <3>2. \A k : try_increment_address(k, i, "dst") = k
      BY <1>2 DEF try_increment_address
    <3> QED BY <3>1, <3>2
  <2>7. t = [x EXCEPT !.incremented = {"src"}]
    BY <2>5
  <2>8. x = SetA(y, e, w) /\ e = S.index
    OBVIOUS
  <2> HIDE DEF x, t, e, w
  <2>9. Twin(D, x, SetA(Y, e, w))
    BY <1>16, <2>1, <2>2, <2>8, TwinSetA
  <2>10. Twin(D, t, SetA(Y, e, w))
    <3> DEFINE marks == {"src"}
    <3>1. marks \in SUBSET Roles /\ t = [x EXCEPT !.incremented = marks]
      BY <2>7 DEF Roles
    <3> HIDE DEF marks
    <3> QED BY <2>9, <3>1, TwinMarks
  <2>11. Twin(D, Execute(m, i), SetA(Y, e, w))
    BY <2>6, <2>10, TwinForget
  <2>12. Twin(D, SetA(Filled(m, F), e, w), SetA(Filled(m, G), e, w))
    <3>1. \A q \in 0 .. 15 : q # e + 8 => F[q] = G[q]
      <4> SUFFICES ASSUME NEW q \in 0 .. 15, q # e + 8 PROVE F[q] = G[q]
        OBVIOUS
      <4>1. q \notin kept
        BY <1>6, <1>20, <2>1, <2>8
      <4> QED BY <1>13, <4>1
    <3> QED BY <1>1, <1>14, <2>1, <2>2, <3>1, FilledBeside
  <2>13. Twin(D, Execute(m, i), SetA(z, e, w))
    <3>1. SetA(z, e, w) \in Machines(D) /\ Same(SetA(Y, e, w), SetA(z, e, w))
      BY <1>5, <1>16, <2>12 DEF Twin
    <3> QED BY <2>11, <3>1, TwinTrans
  <2>14. translate_inst(m, i, u) = SetA(z, e, w)
    BY <1>4, <1>10, <1>20, <2>8 DEF w
  <2> QED BY <2>13, <2>14 DEF Agrees
<1> QED BY <1>19, <1>20

-----------------------------------------------------------------------------
(***************************************************************************)
(* Every kind, and the specification.                                      *)
(***************************************************************************)

(* The kinds, once each.                                                   *)
LEMMA KindsAre ==
    ASSUME NEW kind \in Kinds
    PROVE  \/ kind \in SourceToDestination \/ kind \in {"Cmp", "Cmpi"} \/ kind = "Cmpm"
           \/ kind \in AddressKinds \/ kind \in QuickKinds \/ kind \in ExtendKinds \/ kind \in UnaryKinds
           \/ kind \in Shifts \/ kind \in BitKinds \/ kind \in ToCcrKinds \/ kind \in ToSrKinds
           \/ kind \in {"Abcd", "Sbcd", "Nbcd", "Mulu", "Muls", "Divu", "Divs", "Chk", "Move", "Movea", "Movem"}
           \/ kind \in {"Moveq", "MoveToCcr", "MoveToSr", "MoveFromSr", "MoveToUsp", "MoveFromUsp", "Swap",
                  "Exg", "Ext"}
           \/ kind \in {"Bcc", "Bsr", "Dbcc", "Scc", "Jmp", "Jsr", "Lea", "Pea", "Link", "Unlink", "Tas"}
           \/ kind \in {"Trap", "Trapv", "Rts", "Rtr", "Nop", "Reset", "Tst", "Movep", "Rte"}
BY DEF Kinds, UsesSize, UsesSrc, UsesDst, UsesBoth, UsesData, UsesNothing, SourceToDestination, BinaryKinds

(* The kinds that deviate whatever their operands.                         *)
LEMMA NotLifted ==
    ASSUME NEW i, AsDecoded(i), NEW m, NEW u, NEW r, ~Deviates(m, i, u, r)
    PROVE  i.kind \notin {"Cmpm", "Tst", "Movep", "Rte"}
<1>1. i.kind \notin {"Tst", "Movep", "Rte"}
  BY Zenon DEF Deviates, Incomplete
<1>2. ~Unstepped(i, "dst")
  <2>1. "dst" \in Roles
    BY DEF Roles
  <2> QED BY <2>1, Zenon DEF Deviates
<1>3. ASSUME i.kind = "Cmpm" PROVE FALSE
  <2>1. Roles \cap DOMAIN i \in OperandsUsed(i)
    BY DEF AsDecoded, Given, WellFormed
  <2>2. "dst" \in DOMAIN i
    BY <1>3, <2>1 DEF OperandsUsed, Roles, UsesSrc, UsesDst, UsesBoth, BinaryKinds
  <2>3. i["dst"].kind = "AddressIncrement"
    BY <1>3 DEF AsDecoded, Given
  <2>4. i["dst"].kind \notin Stepped
    BY <1>2, <1>3, <2>2, UnsteppedIs
  <2> QED BY <2>3, <2>4 DEF Stepped
<1> QED BY <1>1, <1>3

(* What is shown of a kind.                                                *)
Settled(D, m, i, u) == IF i.kind \in {"Rts", "Rtr"} THEN Returns(D, m, i, u) ELSE Matches(D, m, i, u)

(* Every kind, by the lemma about it.                                      *)
LEMMA Settles ==
    ASSUME EightBits, NEW D, NEW m, NEW i, Ready(D, m, i), Ok(Execute(m, i)), NEW u,
               ~Deviates(m, i, u, Execute(m, i))
    PROVE  Settled(D, m, i, u)
<1>1. i.kind \in Kinds /\ AsDecoded(i)
  BY DEF Ready, AsDecoded, Given, WellFormed
<1>2. i.kind \notin {"Cmpm", "Tst", "Movep", "Rte"}
  BY <1>1, NotLifted
<1>3. ASSUME i.kind \notin {"Rts", "Rtr"}, Matches(D, m, i, u) PROVE Settled(D, m, i, u)
  BY <1>3 DEF Settled
<1>4. ASSUME i.kind \notin {"Rts", "Rtr", "Chk", "Nbcd", "Cmpa"}, Agrees(D, m, i, u) PROVE Settled(D, m, i, u)
  <2>1. ~FlagsDeviate(i)
    BY <1>4 DEF FlagsDeviate
  <2>2. Matches(D, m, i, u)
    BY <1>4, <2>1, Zenon DEF Matches
  <2> QED BY <1>3, <1>4, <2>2
<1>5. CASE i.kind \in SourceToDestination
  <2>1. Agrees(D, m, i, u)
    BY <1>5, BinaryAgrees
  <2> QED BY <1>4, <1>5, <2>1 DEF SourceToDestination
<1>6. CASE i.kind \in {"Cmp", "Cmpi"}
  <2>1. Agrees(D, m, i, u)
    BY <1>6, CompareAgrees
  <2> QED BY <1>4, <1>6, <2>1
<1>7. CASE i.kind \in AddressKinds
  <2>1. CASE i.kind = "Cmpa"
    <3>1. Matches(D, m, i, u)
      BY <2>1, CmpaMatches
    <3> QED BY <1>3, <2>1, <3>1
  <2>2. CASE i.kind \in {"Adda", "Suba"}
    <3>1. Agrees(D, m, i, u)
      BY <2>2, AddaAgrees
    <3> QED BY <1>4, <2>2, <3>1
  <2> QED BY <1>7, <2>1, <2>2 DEF AddressKinds
<1>8. CASE i.kind \in QuickKinds
  <2>1. Agrees(D, m, i, u)
    BY <1>8, QuickAgrees
  <2> QED BY <1>4, <1>8, <2>1 DEF QuickKinds
<1>9. CASE i.kind \in ExtendKinds
  <2>1. Agrees(D, m, i, u)
    BY <1>9, ExtendAgrees
  <2> QED BY <1>4, <1>9, <2>1 DEF ExtendKinds
<1>10. CASE i.kind \in UnaryKinds
  <2>1. Agrees(D, m, i, u)
    BY <1>10, UnaryAgrees
  <2> QED BY <1>4, <1>10, <2>1 DEF UnaryKinds
<1>11. CASE i.kind \in Shifts
  <2>1. Agrees(D, m, i, u)
    BY <1>11, ShiftAgrees
  <2> QED BY <1>4, <1>11, <2>1 DEF Shifts
<1>12. CASE i.kind \in BitKinds
  <2>1. Agrees(D, m, i, u)
    BY <1>12, BitAgrees
  <2> QED BY <1>4, <1>12, <2>1 DEF BitKinds
<1>13. CASE i.kind \in ToCcrKinds
  <2>1. Agrees(D, m, i, u)
    BY <1>13, ToCcrAgrees
  <2> QED BY <1>4, <1>13, <2>1 DEF ToCcrKinds
<1>14. CASE i.kind \in ToSrKinds
  <2>1. Agrees(D, m, i, u)
    BY <1>14, ToSrAgrees
  <2> QED BY <1>4, <1>14, <2>1 DEF ToSrKinds
<1>15. CASE i.kind \in {"Nbcd", "Chk"}
  <2>1. Matches(D, m, i, u)
    BY <1>15, NbcdMatches, ChkMatches
  <2> QED BY <1>3, <1>15, <2>1
<1>16. CASE i.kind \in {"Abcd", "Sbcd"}
  <2>1. Agrees(D, m, i, u)
    BY <1>16, AbcdAgrees, SbcdAgrees
  <2> QED BY <1>4, <1>16, <2>1
<1>17. CASE i.kind \in {"Mulu", "Muls", "Divu", "Divs"}
  <2>1. Agrees(D, m, i, u)
    BY <1>17, MulAgrees, DivAgrees
  <2> QED BY <1>4, <1>17, <2>1
<1>18. CASE i.kind \in {"Move", "Movea"}
  <2>1. Agrees(D, m, i, u)
    BY <1>18, MoveAgrees, MoveaAgrees
  <2> QED BY <1>4, <1>18, <2>1
<1>19. CASE i.kind = "Movem"
  <2>1. Agrees(D, m, i, u)
    <3>1. CASE "src" \in DOMAIN i
      BY <1>19, <3>1, MovemLoadAgrees
    <3>2. CASE "src" \notin DOMAIN i
      BY <1>19, <3>2, MovemStoreAgrees
    <3> QED BY <3>1, <3>2
  <2> QED BY <1>4, <1>19, <2>1
<1>20. CASE i.kind \in {"Moveq", "Swap", "Ext", "Exg"}
  <2>1. Agrees(D, m, i, u)
    BY <1>20, MoveqAgrees, SwapAgrees, ExtAgrees, ExgAgrees
  <2> QED BY <1>4, <1>20, <2>1
<1>21. CASE i.kind \in {"MoveToCcr", "MoveToSr", "MoveToUsp"}
  <2>1. Agrees(D, m, i, u)
    BY <1>21, MoveToCcrAgrees, MoveToSrAgrees, MoveToUspAgrees
  <2> QED BY <1>4, <1>21, <2>1
<1>22. CASE i.kind \in {"MoveFromSr", "MoveFromUsp", "Scc", "Tas"}
  <2>1. Agrees(D, m, i, u)
    BY <1>22, MoveFromSrAgrees, MoveFromUspAgrees, SccAgrees, TasAgrees
  <2> QED BY <1>4, <1>22, <2>1
<1>23. CASE i.kind \in {"Bcc", "Bsr", "Dbcc", "Jmp", "Jsr"}
  <2>1. Agrees(D, m, i, u)
    BY <1>23, BccAgrees, BsrAgrees, DbccAgrees, JumpAgrees
  <2> QED BY <1>4, <1>23, <2>1
<1>24. CASE i.kind \in {"Lea", "Pea", "Link", "Unlink"}
  <2>1. Agrees(D, m, i, u)
    BY <1>24, LeaAgrees, PeaAgrees, LinkAgrees, UnlinkAgrees
  <2> QED BY <1>4, <1>24, <2>1
<1>25. CASE i.kind \in {"Trap", "Trapv", "Nop", "Reset"}
  <2>1. Agrees(D, m, i, u)
    BY <1>25, TrapAgrees, IdleAgrees
  <2> QED BY <1>4, <1>25, <2>1
<1>26. CASE i.kind \in {"Rts", "Rtr"}
  <2>1. Returns(D, m, i, u)
    BY <1>26, RtsAgrees, RtrAgrees
  <2> QED BY <1>26, <2>1 DEF Settled
<1>27. \/ i.kind \in SourceToDestination \/ i.kind \in {"Cmp", "Cmpi"} \/ i.kind = "Cmpm"
       \/ i.kind \in AddressKinds \/ i.kind \in QuickKinds \/ i.kind \in ExtendKinds \/ i.kind \in UnaryKinds
       \/ i.kind \in Shifts \/ i.kind \in BitKinds \/ i.kind \in ToCcrKinds \/ i.kind \in ToSrKinds
       \/ i.kind \in {"Abcd", "Sbcd", "Nbcd", "Mulu", "Muls", "Divu", "Divs", "Chk", "Move", "Movea", "Movem"}
       \/ i.kind \in {"Moveq", "MoveToCcr", "MoveToSr", "MoveFromSr", "MoveToUsp", "MoveFromUsp", "Swap",
              "Exg", "Ext"}
       \/ i.kind \in {"Bcc", "Bsr", "Dbcc", "Scc", "Jmp", "Jsr", "Lea", "Pea", "Link", "Unlink", "Tas"}
       \/ i.kind \in {"Trap", "Trapv", "Rts", "Rtr", "Nop", "Reset", "Tst", "Movep", "Rte"}
  BY <1>1, KindsAre
<1> QED
  BY <1>2, <1>5, <1>6, <1>7, <1>8, <1>9, <1>10, <1>11, <1>12, <1>13, <1>14, <1>15, <1>16, <1>17, <1>18,
         <1>19, <1>20,
     <1>21, <1>22, <1>23, <1>24, <1>25, <1>26, <1>27

(* The program counter is one field.                                       *)
LEMMA PcAsideSame ==
    ASSUME NEW D, NEW z, NEW v, NEW y \in Machines(D), y = [z EXCEPT !.pc = v]
    PROVE  z.d = y.d /\ z.a = y.a /\ z.ssp = y.ssp /\ z.usp = y.usp /\ z.mem = y.mem /\ z.sr = y.sr
<1>1. DOMAIN y = DOMAIN z /\ {"d", "a", "ssp", "usp", "mem", "sr", "pc"} \subseteq DOMAIN y
  BY DEF Machines
<1>2. \A f \in DOMAIN z : f # "pc" => y[f] = z[f]
  BY Zenon
<1> QED BY <1>1, <1>2

(* The status register is one field.                                       *)
LEMMA FlagsAsideSame ==
    ASSUME NEW D, NEW z, NEW v, NEW y \in Machines(D), y = [z EXCEPT !.sr = v]
    PROVE  z.d = y.d /\ z.a = y.a /\ z.ssp = y.ssp /\ z.usp = y.usp /\ z.mem = y.mem /\ z.pc = y.pc
<1>1. DOMAIN y = DOMAIN z /\ {"d", "a", "ssp", "usp", "mem", "sr", "pc"} \subseteq DOMAIN y
  BY DEF Machines
<1>2. \A f \in DOMAIN z : f # "sr" => y[f] = z[f]
  BY Zenon
<1> QED BY <1>1, <1>2

(* For one instruction: what the interpreter completes, the emitted code   *)
(* does, but for the deviations.                                           *)
LEMMA Outcomes ==
    ASSUME EightBits, NEW D, NEW m, NEW i, Ready(D, m, i), Ok(Execute(m, i)), NEW u,
               ~Deviates(m, i, u, Execute(m, i))
    PROVE  SameOutcome(i, Execute(m, i), translate_inst(m, i, u))
<1> DEFINE r == Execute(m, i)
           z == translate_inst(m, i, u)
<1>1. Settled(D, m, i, u)
  BY Settles
<1>2. i.kind \in {"Rts", "Rtr"} => Twin(D, r, [z EXCEPT !.pc = r.pc])
  BY <1>1, Zenon DEF Settled, Returns
<1>3. i.kind \notin {"Rts", "Rtr"} /\ FlagsDeviate(i)
          => \E e \in StatusRegisters : Twin(D, r, [z EXCEPT !.sr = e])
  BY <1>1, Zenon DEF Settled, Matches, Aside
<1>4. i.kind \notin {"Rts", "Rtr"} /\ ~FlagsDeviate(i) => Twin(D, r, z)
  BY <1>1, Zenon DEF Settled, Matches, Agrees
<1> HIDE DEF r, z
<1>5. SameOutcome(i, r, z)
  <2>1. CASE i.kind \in {"Rts", "Rtr"}
    <3> DEFINE at == r.pc
               y == [z EXCEPT !.pc = at]
    <3>1. Twin(D, r, y) /\ y = [z EXCEPT !.pc = at]
      BY <1>2, <2>1
    <3> HIDE DEF y, at
    <3>2. z.d = y.d /\ z.a = y.a /\ z.ssp = y.ssp /\ z.usp = y.usp /\ z.mem = y.mem /\ z.sr = y.sr
      BY <3>1, PcAsideSame DEF Twin
    <3> QED BY <2>1, <3>1, <3>2 DEF Twin, Same, SameOutcome
  <2>2. CASE i.kind \notin {"Rts", "Rtr"} /\ FlagsDeviate(i)
    <3>1. PICK e \in StatusRegisters : Twin(D, r, [z EXCEPT !.sr = e])
      BY <1>3, <2>2
    <3> DEFINE y == [z EXCEPT !.sr = e]
    <3>2. Twin(D, r, y) /\ y = [z EXCEPT !.sr = e]
      BY <3>1
    <3> HIDE DEF y
    <3>3. z.d = y.d /\ z.a = y.a /\ z.ssp = y.ssp /\ z.usp = y.usp /\ z.mem = y.mem /\ z.pc = y.pc
      BY <3>2, FlagsAsideSame DEF Twin
    <3> QED BY <2>2, <3>2, <3>3 DEF Twin, Same, SameOutcome
  <2>3. CASE i.kind \notin {"Rts", "Rtr"} /\ ~FlagsDeviate(i)
    BY <1>4, <2>3 DEF Twin, Same, SameOutcome
  <2> QED BY <2>1, <2>2, <2>3
<1> QED BY <1>5 DEF r, z

(* The inductive invariant: a machine between two instructions, and each   *)
(* side did its own.                                                       *)
LiftInv ==
    /\ Ready(DOMAIN before.mem, before, inst)
    /\ ran => interpreted = Execute(before, inst) /\ lifted = translate_inst(before, inst, unset)

(* The invariant holds at first: the families hold machines between two    *)
(* instructions and instructions of the decoder.                           *)
LEMMA LiftStarts == Init => LiftInv
<1> SUFFICES ASSUME Init PROVE LiftInv
  OBVIOUS
<1>1. PICK f \in Families : inst \in f.instructions /\ \E o \in f.operands : before = Machine(o)
  BY DEF Init
<1>2. PICK o \in f.operands : before = Machine(o)
  BY <1>1
<1>3. AsDecoded(inst)
  BY <1>1, LiftAssumption
<1>4. Machine(o) \in Machines(DOMAIN Machine(o).mem) /\ Ok(Machine(o)) /\ Forget(Machine(o)) = Machine(o)
      /\ DOMAIN Machine(o).mem \subseteq 0 .. 2 ^ (3 * BYTE) - 1
  BY LiftAssumption, Zenon
<1>5. Ready(DOMAIN before.mem, before, inst)
  BY <1>2, <1>3, <1>4, Zenon DEF Ready, OnBus
<1>6. ~ran
  BY DEF Init
<1> QED BY <1>5, <1>6 DEF LiftInv

(* Running the instruction on both sides keeps it.                         *)
LEMMA LiftStays == LiftInv /\ [Run]_vars => LiftInv'
<1> SUFFICES ASSUME LiftInv, [Run]_vars PROVE LiftInv'
  OBVIOUS
<1>1. before' = before /\ inst' = inst /\ unset' = unset
  BY Zenon DEF Run, vars
<1>2. ran' => interpreted' = Execute(before, inst) /\ lifted' = translate_inst(before, inst, unset)
  <2>1. CASE Run
    BY <2>1, Zenon DEF Run
  <2>2. CASE UNCHANGED vars
    <3>1. ran' = ran /\ interpreted' = interpreted /\ lifted' = lifted
      BY <2>2, Zenon DEF vars
    <3> QED BY <3>1, Zenon DEF LiftInv
  <2> QED BY <2>1, <2>2
<1> QED BY <1>1, <1>2, Zenon DEF LiftInv

(* The invariant says that the outcomes agree.                             *)
LEMMA LiftSuffices == ASSUME EightBits, LiftInv PROVE LiftedAgrees
<1> SUFFICES ASSUME ran, Ok(interpreted), ~Deviates(before, inst, unset, interpreted)
             PROVE  SameOutcome(inst, interpreted, lifted)
  BY Zenon DEF LiftedAgrees
<1>1. Ready(DOMAIN before.mem, before, inst) /\ interpreted = Execute(before, inst)
      /\ lifted = translate_inst(before, inst, unset)
  BY Zenon DEF LiftInv
<1> DEFINE D == DOMAIN before.mem
<1>2. Ready(D, before, inst) /\ Ok(Execute(before, inst))
          /\ ~Deviates(before, inst, unset, Execute(before, inst))
  BY <1>1, Zenon
<1> HIDE DEF D
<1>3. SameOutcome(inst, Execute(before, inst), translate_inst(before, inst, unset))
  BY <1>2, Outcomes
<1> QED BY <1>1, <1>3, Zenon

(* For every machine, every instruction of the decoder and whatever its    *)
(* unset fields hold: where the interpreter completes the instruction and  *)
(* none of the deviations named by Deviates is met, the statement of       *)
(* lifter.cpp:187-806 leaves the registers, the memory, the condition      *)
(* codes and the place of control as Instruction::execute does.            *)
THEOREM LiftedCodeAgrees == EightBits => (Spec => []LiftedAgrees)
<1> SUFFICES ASSUME EightBits PROVE Spec => []LiftedAgrees
  OBVIOUS
<1>1. LiftInv => LiftedAgrees
  BY LiftSuffices
<1> QED BY <1>1, LiftStarts, LiftStays, PTL DEF Spec
=============================================================================
