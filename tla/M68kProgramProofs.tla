------------------------- MODULE M68kProgramProofs -------------------------
(***************************************************************************)
(* Programs on the interpreter: what every trace of M68kProgram has, for   *)
(* every program and all operands, at the widths of the code (EightBits).  *)
(* Trace is the inductive invariant: each instruction was executed on the  *)
(* machine that the last one left.  The properties of single instructions  *)
(* then follow from the account of M68kProofs and from the arithmetic of   *)
(* comparisons, divisions, shifts, and of numbers in two limbs.            *)
(***************************************************************************)
EXTENDS M68kProgram, M68kProofs, SequenceTheorems

(* Instruction k took the machine from Before(k) to After(k).              *)
Executes1(k) ==
    /\ Before(k) \in Machines(DOMAIN machine.mem) /\ Ok(Before(k))
    /\ After(k) = Execute(Before(k), program[k])

Trace ==
    /\ Len(program) \in Nat /\ Len(past) \in Nat /\ Len(past) <= Len(program)
    /\ past \in Seq({past[k] : k \in DOMAIN past})
    /\ \A k \in 1 .. Len(program) : WellFormed(program[k])
    /\ machine \in Machines(DOMAIN machine.mem)
    /\ \A k \in Executed : Executes1(k)

(* Appending to a finite sequence of anything gives its elements in order  *)
(* and the new one last.                                                   *)
LEMMA SequenceIs ==
    ASSUME NEW s, s \in Seq({s[k] : k \in DOMAIN s})
    PROVE  Len(s) \in Nat /\ DOMAIN s = 1 .. Len(s)
OBVIOUS

(* An element of the longer sequence is an element of the shorter one or   *)
(* the new one.                                                            *)
LEMMA AppendIs ==
    ASSUME NEW s, s \in Seq({s[k] : k \in DOMAIN s}), NEW e, NEW t, t = Append(s, e)
    PROVE  /\ t \in Seq({t[k] : k \in DOMAIN t}) /\ Len(t) = Len(s) + 1
           /\ t[Len(s) + 1] = e /\ \A k \in 1 .. Len(s) : t[k] = s[k]
<1> DEFINE S == {s[k] : k \in DOMAIN s} \cup {e}
<1>1. s \in Seq(S) /\ e \in S
  <2>1. Len(s) \in Nat /\ DOMAIN s = 1 .. Len(s)
    BY SequenceIs
  <2>2. s = [k \in 1 .. Len(s) |-> s[k]]
    BY <2>1
  <2>3. \A k \in 1 .. Len(s) : s[k] \in S
    BY <2>1
  <2> QED BY <2>1, <2>2, <2>3
<1> HIDE DEF S
<1>2. t \in Seq(S) /\ Len(t) = Len(s) + 1 /\ t[Len(s) + 1] = e /\ \A k \in 1 .. Len(s) : t[k] = s[k]
  BY <1>1
<1>3. t \in Seq({t[k] : k \in DOMAIN t})
  <2> DEFINE T == {t[k] : k \in DOMAIN t}
  <2>1. Len(t) \in Nat /\ DOMAIN t = 1 .. Len(t)
    BY <1>2
  <2>2. t = [k \in 1 .. Len(t) |-> t[k]]
    <3>1. t \in [1 .. Len(t) -> S]
      BY <1>2, LenProperties
    <3> QED BY <3>1
  <2>3. \A k \in 1 .. Len(t) : t[k] \in T
    BY <2>1
  <2> HIDE DEF T
  <2>4. t \in Seq(T)
    BY <2>1, <2>2, <2>3
  <2> QED BY <2>4 DEF T
<1> QED BY <1>2, <1>3

(* The trace of an empty execution.                                        *)
LEMMA TraceStarts == ASSUME EightBits, Init PROVE Trace
<1>1. PICK f \in Families : \E p \in f.programs, o \in f.operands : program = p /\ machine = Machine(o)
  BY DEF Init
<1>2. PICK p \in f.programs, o \in f.operands : program = p /\ machine = Machine(o)
  BY <1>1
<1>3. program \in Seq({program[k] : k \in DOMAIN program}) /\ \A k \in DOMAIN program : WellFormed(program[k])
  BY <1>2, ProgramAssumption
<1>4. machine \in Machines(DOMAIN machine.mem)
  BY <1>2, ProgramAssumption
<1>5. Len(program) \in Nat /\ DOMAIN program = 1 .. Len(program)
  BY <1>3, SequenceIs
<1>6. past = <<>> /\ Len(past) = 0 /\ past \in Seq({past[k] : k \in DOMAIN past}) /\ Executed = {}
  BY DEF Init, Executed
<1> QED BY <1>3, <1>4, <1>5, <1>6 DEF Trace

(* Running one more instruction keeps the trace: the instruction was run   *)
(* on the machine the last one left.                                       *)
LEMMA TraceGrows == ASSUME EightBits, Trace, [Next]_vars PROVE Trace'
<1>1. CASE UNCHANGED vars
  BY <1>1 DEF Trace, vars, Executed, Executes1, Before, After
<1>2. CASE ExecuteNext
  <2> DEFINE n == Len(past) + 1
             D == DOMAIN machine.mem
  <2>1. n \in 1 .. Len(program) /\ WellFormed(program[n]) /\ machine \in Machines(D) /\ Ok(machine)
        /\ machine' = Execute(machine, program[n])
    BY <1>2 DEF Trace, ExecuteNext
  <2>2. machine' \in Machines(D)
    BY <2>1, Executes
  <2>3. DOMAIN (machine.mem)' = D
    BY <2>2 DEF Machines
  <2>4. /\ past' \in Seq({past'[k] : k \in DOMAIN past'}) /\ Len(past') = n
        /\ past'[n] = machine /\ \A k \in 1 .. Len(past) : past'[k] = past[k]
    <3>1. past' = Append(past, machine) /\ past \in Seq({past[k] : k \in DOMAIN past})
      BY <1>2 DEF ExecuteNext, Trace
    <3> QED BY <3>1, AppendIs
  <2>5. program' = program
    BY <1>2 DEF ExecuteNext
  <2>6. ASSUME NEW k \in 1 .. n PROVE Executes1(k)'
    <3>1. CASE k = n
      <4>1. Before(k)' = machine
        BY <2>4, <3>1 DEF Before
      <4>2. After(k)' = machine'
        BY <2>4, <3>1 DEF After
      <4> QED BY <2>1, <2>3, <2>5, <3>1, <4>1, <4>2 DEF Executes1
    <3>2. CASE k # n
      <4>1. k \in 1 .. Len(past) /\ k # n
        BY <3>2 DEF Trace
      <4>2. Executes1(k)
        BY <4>1 DEF Trace, Executed
      <4>3. Before(k)' = Before(k)
        BY <2>4, <4>1 DEF Before
      <4>4. After(k)' = After(k)
        <5>1. CASE k = Len(past)
          BY <2>4, <5>1, <4>1 DEF After
        <5>2. CASE k # Len(past)
          <6>1. k + 1 \in 1 .. Len(past)
            BY <4>1, <5>2 DEF Trace
          <6> QED BY <2>4, <5>2, <4>1, <6>1 DEF After
        <5> QED BY <5>1, <5>2
      <4> QED BY <2>3, <2>5, <4>2, <4>3, <4>4 DEF Executes1
    <3> QED BY <3>1, <3>2
  <2>7. Executed' = 1 .. n
    BY <2>4 DEF Executed
  <2> QED BY <2>1, <2>2, <2>3, <2>4, <2>5, <2>6, <2>7 DEF Trace
<1> QED BY <1>1, <1>2 DEF Next

(* Whatever program is run on whatever operands, every executed            *)
(* instruction was run by Instruction::execute on a well-formed machine    *)
(* that had not failed, and the machine it left is well-formed too. This   *)
(* is the inductive invariant that the properties of single instructions   *)
(* follow from.                                                            *)
THEOREM Tracing == EightBits => (Spec => []Trace)
<1> SUFFICES ASSUME EightBits PROVE Spec => []Trace
  OBVIOUS
<1>1. Init => Trace
  BY TraceStarts
<1>2. Trace /\ [Next]_vars => Trace'
  BY TraceGrows
<1> QED BY <1>1, <1>2, PTL DEF Spec

-----------------------------------------------------------------------------
(***************************************************************************)
(* What every executed instruction does: types, steps, failures.           *)
(***************************************************************************)

(* The greater of two numbers, as the set maximum of the library gives it. *)
LEMMA MaxTwo ==
    ASSUME NEW x \in Nat
    PROVE  Max({x, 2}) = IF x < 2 THEN 2 ELSE x
<1>1. \E y \in {x, 2} : \A z \in {x, 2} : y >= z
  OBVIOUS
<1>2. Max({x, 2}) \in {x, 2} /\ \A z \in {x, 2} : Max({x, 2}) >= z
  BY <1>1 DEF Max
<1> QED BY <1>2

(* The step of one operand, as StepsOnce counts it.                        *)
Step(i, role, n) ==
    IF role \notin DOMAIN i THEN 0
    ELSE LET t == i[role]
             bytes == t.size * IF i.kind = "Movem" THEN Cardinality(i.list) ELSE 1
             even == IF n = 7 /\ bytes < 2 THEN 2 ELSE bytes
         IN  CASE t.kind = "AddressIncrement" /\ t.index = n -> even
               [] t.kind = "AddressDecrement" /\ t.index = n -> -even
               [] OTHER -> 0

(* The step of an operand on a register, written out: two bytes at least   *)
(* at the stack pointer.                                                   *)
LEMMA StepIs ==
    ASSUME EightBits, NEW i, WellFormed(i), NEW role \in Roles, NEW n \in 0 .. 7
    PROVE  /\ Up(i, role, n) \in Int /\ Down(i, role, n) \in Int
           /\ Step(i, role, n) = Up(i, role, n) - Down(i, role, n)
<1> DEFINE t == i[role]
           count == IF i.kind = "Movem" THEN Cardinality(i.list) ELSE 1
           bytes == t.size * count
           even == IF n = 7 /\ bytes < 2 THEN 2 ELSE bytes
<1>1. Up(i, role, n) \in Int /\ Down(i, role, n) \in Int
  BY DownUpIn
<1>2. CASE role \notin DOMAIN i
  BY <1>2 DEF Up, Down, Step
<1>3. CASE role \in DOMAIN i
  <2>1. t \in Targets
    BY <1>3 DEF WellFormed
  <2>2. count \in Nat /\ count = IF i.kind = "Movem" THEN RegisterCount(i) ELSE 1
    BY MovemIs DEF RegisterCount
  <2>3. Step(i, role, n) = CASE t.kind = "AddressIncrement" /\ t.index = n -> even
                             [] t.kind = "AddressDecrement" /\ t.index = n -> -even
                             [] OTHER -> 0
    BY <1>3 DEF Step
  <2>4. ASSUME t.kind \in Stepped, t.index = n PROVE even = StepBytes(t, count) /\ even \in Int
    <3>1. bytes \in Nat
      <4>1. t.size \in {1, 2, 4}
        BY <2>1, <2>4, TargetIn DEF Sizes, Byte, Word, Long
      <4> HIDE DEF t, count
      <4> QED BY <2>2, <4>1
    <3>2. StepBytes(t, count) = IF n = 7 THEN Max({bytes, 2}) ELSE bytes
      BY <2>4 DEF StepBytes
    <3> HIDE DEF bytes
    <3>3. Max({bytes, 2}) = IF bytes < 2 THEN 2 ELSE bytes
      BY <3>1, MaxTwo
    <3> QED BY <3>1, <3>2, <3>3
  <2>5. t.kind = "AddressIncrement" => IncrementCount(i) = count
    <3> HAVE t.kind = "AddressIncrement"
    <3>1. i.kind = "Movem" => "src" \in DOMAIN i
      BY <1>3, MovemIs DEF Roles
    <3> QED BY <2>2, <3>1 DEF IncrementCount
  <2>6. t.kind = "AddressDecrement" => DecrementCount(i, role) = count
    <3> HAVE t.kind = "AddressDecrement"
    <3>1. i.kind = "Movem" => role = "dst"
      BY <1>3, MovemIs DEF Roles
    <3> QED BY <2>2, <3>1 DEF DecrementCount
  <2> HIDE DEF even, count
  <2>7. CASE t.kind = "AddressIncrement" /\ t.index = n
    <3>1. Up(i, role, n) = even /\ Down(i, role, n) = 0
      BY <1>3, <2>4, <2>5, <2>7 DEF Up, Down, Stepped
    <3> QED BY <1>1, <2>3, <2>7, <3>1
  <2>8. CASE t.kind = "AddressDecrement" /\ t.index = n
    <3>1. Up(i, role, n) = 0 /\ Down(i, role, n) = even /\ even \in Int
      BY <1>3, <2>4, <2>6, <2>8 DEF Up, Down, Stepped
    <3>2. Step(i, role, n) = -even
      BY <2>3, <2>8
    <3> QED BY <1>1, <3>1, <3>2
  <2>9. CASE ~(t.kind = "AddressIncrement" /\ t.index = n) /\ ~(t.kind = "AddressDecrement" /\ t.index = n)
    <3>1. Up(i, role, n) = 0 /\ Down(i, role, n) = 0
      BY <1>3, <2>9 DEF Up, Down
    <3>2. Step(i, role, n) = 0
      BY <2>3, <2>9
    <3> QED BY <1>1, <3>1, <3>2
  <2> QED BY <2>7, <2>8, <2>9
<1> QED BY <1>1, <1>2, <1>3

(* The machine under test is well-formed after every instruction:          *)
(* registers keep their 32 bits, flags are bits, memory holds bytes and no *)
(* byte appears or disappears.                                             *)
THEOREM Types == EightBits => (Spec => []TypeOK)
<1> SUFFICES ASSUME EightBits PROVE Spec => []TypeOK
  OBVIOUS
<1>1. Trace => TypeOK
  BY DEF Trace, TypeOK, Machines
<1> QED BY <1>1, Tracing, PTL

(* The account of the steps that Executes gives is the one StepsOnce asks  *)
(* for.                                                                    *)
LEMMA StepsOnceNow == ASSUME EightBits, Trace PROVE StepsOnce
<1>1. ASSUME NEW k \in Executed, NEW n \in 0 .. 7, Ok(After(k)), ~Writes(program[k], n)
      PROVE  a_reg(After(k), n)
             = Low(a_reg(Before(k), n) + Step(program[k], "src", n) + Step(program[k], "dst", n), Long)
  <2> DEFINE i == program[k]
             m == Before(k)
             r == After(k)
  <2>1. WellFormed(i) /\ m \in Machines(DOMAIN machine.mem) /\ Ok(m) /\ r = Execute(m, i)
    BY DEF Trace, Executes1, Executed
  <2>2. Ok(r) /\ ~Writes(i, n)
    BY <1>1
  <2> HIDE DEF i, m, r
  <2>3. Steady(m, i, r)
    BY <2>1, <2>2, Executes
  <2>4. a_reg(r, n) = Low(a_reg(m, n) + Total(i, n), Long)
    BY <2>2, <2>3 DEF Steady
  <2>5. ASSUME NEW role \in Roles
        PROVE /\ Up(i, role, n) \in Int /\ Down(i, role, n) \in Int
              /\ Step(i, role, n) = Up(i, role, n) - Down(i, role, n)
    BY <2>1, StepIs
  <2>6. "src" \in Roles /\ "dst" \in Roles
    BY DEF Roles
  <2>7. a_reg(m, n) \in Int
    <3>1. a_reg(m, n) \in Values(Long)
      BY <2>1, RegisterIn
    <3> QED BY <3>1, ValuesWiden
  <2>8. a_reg(m, n) + Total(i, n) = a_reg(m, n) + Step(i, "src", n) + Step(i, "dst", n)
    BY <2>5, <2>6, <2>7 DEF Total
  <2>9. a_reg(r, n) = Low(a_reg(m, n) + Step(i, "src", n) + Step(i, "dst", n), Long)
    BY <2>4, <2>8
  <2> QED BY <2>9 DEF i, m, r
<1> QED BY <1>1, Zenon DEF StepsOnce, Step

(* However often an instruction reads and writes its operands, (An)+ and   *)
(* -(An) step once, two operands on one register step it twice, and no     *)
(* other instruction moves an address register it does not write.          *)
THEOREM SteppedOnce == EightBits => (Spec => []StepsOnce)
<1> SUFFICES ASSUME EightBits PROVE Spec => []StepsOnce
  OBVIOUS
<1>1. Trace => StepsOnce
  BY StepsOnceNow
<1> QED BY <1>1, Tracing, PTL

(* Every error that an instruction returns after changing anything is of   *)
(* the kinds FailureKeepsOperands excepts.                                 *)
LEMMA FailureKeepsNow == ASSUME EightBits, Trace PROVE FailureKeepsOperands
<1>1. ASSUME NEW k \in Executed, After(k).status = "error", program[k].kind \notin Unfinished
      PROVE  /\ After(k).d = Before(k).d
             /\ {f \in DOMAIN machine.sr : After(k).sr[f] # Before(k).sr[f]} \subseteq MayChange(program[k])
  <2> DEFINE i == program[k]
             m == Before(k)
             r == After(k)
  <2>1. WellFormed(i) /\ m \in Machines(DOMAIN machine.mem) /\ Ok(m) /\ r = Execute(m, i)
    BY DEF Trace, Executes1, Executed
  <2>2. r.status = "error" /\ i.kind \notin Unfinished
    BY <1>1
  <2> HIDE DEF i, m, r
  <2>3. r.d = m.d /\ KeepsFlags(m, i, r)
    BY <2>1, <2>2, Executes
  <2>4. DOMAIN machine.sr = {"c", "v", "z", "n", "x", "s", "mask"}
    BY DEF Trace, Machines, StatusRegisters
  <2>5. ASSUME NEW f \in DOMAIN machine.sr, r.sr[f] # m.sr[f] PROVE f \in MayChange(i)
    BY <2>3, <2>4, <2>5 DEF KeepsFlags
  <2>6. {f \in DOMAIN machine.sr : r.sr[f] # m.sr[f]} \subseteq MayChange(i)
    BY <2>5
  <2> QED BY <2>3, <2>6 DEF i, m, r
<1> QED BY <1>1, Zenon DEF FailureKeepsOperands, Unfinished, MayChange

(* An instruction that returns an error has changed no data register, and  *)
(* no flag but those its code sets before the access that failed.          *)
THEOREM Retryable == EightBits => (Spec => []FailureKeepsOperands)
<1> SUFFICES ASSUME EightBits PROVE Spec => []FailureKeepsOperands
  OBVIOUS
<1>1. Trace => FailureKeepsOperands
  BY FailureKeepsNow
<1> QED BY <1>1, Tracing, PTL

-----------------------------------------------------------------------------
(***************************************************************************)
(* Comparisons: the conditions order the operands.                         *)
(***************************************************************************)

(* The top bit of a number between -2H and 2H, H being half the span.      *)
LEMMA TopBit ==
    ASSUME NEW H \in Nat \ {0}, NEW v \in Int, -2 * H <= v, v < 2 * H
    PROVE  /\ 0 <= v /\ v < H => (v \div H) % 2 = 0
           /\ H <= v => (v \div H) % 2 = 1
           /\ -H <= v /\ v < 0 => (v \div H) % 2 = 1
           /\ v < -H => (v \div H) % 2 = 0
<1>1. ASSUME 0 <= v, v < H PROVE v \div H = 0
  <2>1. v = H * 0 + v
    OBVIOUS
  <2> QED BY <1>1, <2>1, Divides
<1>2. ASSUME H <= v PROVE v \div H = 1
  <2> DEFINE r == v - H
  <2>1. v = H * 1 + r /\ r \in Int /\ 0 <= r /\ r < H
    BY <1>2
  <2> HIDE DEF r
  <2> QED BY <2>1, Divides
<1>3. ASSUME -H <= v, v < 0 PROVE v \div H = -1
  <2> DEFINE r == v + H
  <2>1. v = H * (-1) + r /\ r \in Int /\ 0 <= r /\ r < H
    BY <1>3
  <2> HIDE DEF r
  <2> QED BY <2>1, Divides
<1>4. ASSUME v < -H PROVE v \div H = -2
  <2> DEFINE r == v + 2 * H
  <2>1. v = H * (-2) + r /\ r \in Int /\ 0 <= r /\ r < H
    BY <1>4
  <2> HIDE DEF r
  <2> QED BY <2>1, Divides
<1> QED BY <1>1, <1>2, <1>3, <1>4

Half(size) == 2 ^ (bit_count(size) - 1)

(* The span of a size is twice the weight of its top bit.                  *)
LEMMA HalfIs ==
    ASSUME EightBits, NEW size \in Sizes
    PROVE  Half(size) \in Nat \ {0} /\ Span(size) = 2 * Half(size)
<1>1. CASE size = Byte
  BY <1>1, SpanValues, TopBits, SMT DEF Half
<1>2. CASE size = Word
  BY <1>2, SpanValues, TopBits, SMT DEF Half
<1>3. CASE size = Long
  BY <1>3, SpanValues, TopBits, SMT DEF Half
<1> QED BY <1>1, <1>2, <1>3 DEF Sizes

(* When the top bit of a number within the span, positive or negative, is  *)
(* clear.                                                                  *)
LEMMA MsbIs ==
    ASSUME EightBits, NEW size \in Sizes, NEW v \in Int, -Span(size) <= v, v < Span(size)
    PROVE  /\ msb(v, size) \in {0, 1}
           /\ msb(v, size) = 0 <=> (0 <= v /\ v < Half(size)) \/ v < -Half(size)
<1> DEFINE H == Half(size)
           t == (v \div H) % 2
<1>1. H \in Nat \ {0} /\ -2 * H <= v /\ v < 2 * H
  BY HalfIs
<1>2. msb(v, size) = t
  BY DEF msb, Half
<1> HIDE DEF H
<1>3. /\ 0 <= v /\ v < H => t = 0
      /\ H <= v => t = 1
      /\ -H <= v /\ v < 0 => t = 1
      /\ v < -H => t = 0
  BY <1>1, TopBit
<1> HIDE DEF t
<1>4. /\ msb(v, size) \in {0, 1}
      /\ msb(v, size) = 0 <=> (0 <= v /\ v < H) \/ v < -H
  BY <1>1, <1>2, <1>3
<1> QED BY <1>4 DEF H

(* Truncation of a number within the span, positive or negative.           *)
LEMMA LowIs ==
    ASSUME EightBits, NEW size \in Sizes, NEW v \in Int, -Span(size) <= v, v < Span(size)
    PROVE  Low(v, size) = IF v < 0 THEN v + Span(size) ELSE v
<1> DEFINE S == Span(size)
           r == IF v < 0 THEN v + S ELSE v
           q == IF v < 0 THEN -1 ELSE 0
<1>1. S \in Nat \ {0}
  BY HalfIs
<1> HIDE DEF S
<1>2. r \in Int /\ q \in Int /\ 0 <= r /\ r < S /\ v = S * q + r
  <2>1. v < S /\ -S <= v
    BY DEF S
  <2>2. CASE v < 0
    BY <1>1, <2>1, <2>2
  <2>3. CASE ~(v < 0)
    BY <1>1, <2>1, <2>3
  <2> QED BY <2>2, <2>3
<1>3. Low(v, size) = v % S
  BY DEF Low, S
<1> HIDE DEF r, q
<1>4. v % S = r
  BY <1>1, <1>2, Divides
<1> QED BY <1>3, <1>4 DEF r, S

(* Sign extension of a value takes the span off its upper half.            *)
LEMMA SignedIs ==
    ASSUME EightBits, NEW size \in Sizes, NEW v \in Values(size)
    PROVE  Signed(v, size) = IF v < Half(size) THEN v ELSE v - Span(size)
<1>1. v \in Int /\ 0 <= v /\ v < Span(size) /\ Span(size) \in Int
  <2>1. Span(size) \in Int
    BY HalfIs
  <2> QED BY <2>1 DEF Values
<1>2. -Span(size) <= v
  BY <1>1
<1>3. Low(v, size) = v
  BY <1>1, <1>2, LowIs
<1>4. msb(v, size) \in {0, 1} /\ (msb(v, size) = 0 <=> v < Half(size))
  <2>1. Half(size) \in Nat
    BY HalfIs
  <2> QED BY <1>1, <1>2, <2>1, MsbIs
<1> QED BY <1>1, <1>3, <1>4 DEF Signed

(* A number reads as its low bits do, its sign too.                        *)
LEMMA SignedLow ==
    ASSUME EightBits, NEW size \in Sizes, NEW v \in Int
    PROVE  /\ Low(v, size) \in Values(size) /\ Signed(v, size) = Signed(Low(v, size), size)
           /\ msb(v, size) = msb(Low(v, size), size)
<1> DEFINE S == Span(size)
           H == Half(size)
           l == Low(v, size)
           k == v \div S
           a == l \div H
           b == l % H
<1>1. S \in Nat \ {0} /\ H \in Nat \ {0} /\ S = 2 * H
  BY HalfIs
<1>2. l = v % S /\ k = v \div S /\ a = l \div H /\ b = l % H
  BY DEF Low
<1>3. l \in Values(size)
  BY LowIn
<1> HIDE DEF S, H, l, k, a, b
<1>4. v = S * k + l /\ k \in Int /\ l \in Int /\ 0 <= l /\ l < S
  <2>1. k = v \div S /\ l = v % S /\ S \in Nat \ {0}
    BY <1>1, <1>2
  <2> QED BY <2>1, Divided, SMT
<1>5. l = H * a + b /\ a \in Int /\ b \in Int /\ 0 <= b /\ b < H
  BY <1>1, <1>2, <1>4, Divided, SMTT(30)
<1> DEFINE g == 2 * k + a
<1>6. v = H * g + b /\ g \in Int
  <2>1. S * k = H * (2 * k)
    BY <1>1, <1>4
  <2>2. H * (2 * k) + H * a = H * g
    BY <1>1, <1>4, <1>5
  <2> HIDE DEF g
  <2>3. H * (2 * k) \in Int /\ H * a \in Int /\ H * g \in Int /\ g \in Int
    BY <1>1, <1>4, <1>5 DEF g
  <2> QED BY <1>4, <1>5, <2>1, <2>2, <2>3
<1>7. g % 2 = a % 2
  BY <1>4, <1>5
<1> HIDE DEF g
<1>8. v \div H = g
  BY <1>1, <1>5, <1>6, Divides
<1>9. msb(v, size) = msb(l, size)
  BY <1>2, <1>7, <1>8 DEF msb, H, Half
<1>10. Low(l, size) = l
  <2>1. l = S * 0 + l
    BY <1>1, <1>4
  <2>2. l % S = l
    BY <1>1, <1>4, <2>1, Divides
  <2> QED BY <2>2 DEF Low, S
<1> QED BY <1>3, <1>9, <1>10 DEF Signed, l

(* A number and the same plus a span have the same low bits and sign.      *)
LEMMA SpanMore ==
    ASSUME EightBits, NEW size \in Sizes, NEW v \in Int
    PROVE  /\ v + Span(size) \in Int /\ Low(v + Span(size), size) = Low(v, size)
           /\ msb(v + Span(size), size) = msb(v, size)
<1> DEFINE S == Span(size)
           q == v \div S
           r == v % S
           w == v + S
<1>1. S \in Nat \ {0}
  BY HalfIs
<1>2. q = v \div S /\ r = v % S /\ w = v + S
  OBVIOUS
<1> HIDE DEF S, q, r, w
<1>3. v = S * q + r /\ q \in Int /\ r \in Int /\ 0 <= r /\ r < S
  BY <1>1, <1>2, Divided
<1>4. q + 1 \in Int /\ w = S * (q + 1) + r /\ w \in Int
  <2>1. S * (q + 1) = S * q + S /\ S * q \in Int
    BY <1>1, <1>3
  <2> QED BY <1>1, <1>2, <1>3, <2>1
<1>5. w % S = r
  BY <1>1, <1>3, <1>4, Divides
<1>6. Low(w, size) = Low(v, size)
  BY <1>2, <1>5 DEF Low, S
<1>7. msb(w, size) = msb(v, size)
  BY <1>4, <1>6, SignedLow
<1> QED BY <1>4, <1>6, <1>7 DEF w, S

(* The flags of a comparison of s and d, the carry aside.                  *)
SignsCompared(sr, s, d, size) ==
    /\ sr.n = msb(d - s, size) /\ sr.z = Flag(d = s)
    /\ sr.v = Flag(1 - msb(s, size) = msb(d, size) /\ msb(d - s, size) # msb(d, size))

(* The flags of a comparison of s and d.                                   *)
Compared(sr, s, d, size) == SignsCompared(sr, s, d, size) /\ sr.c = Flag(d < s)

(* Z and the carry of a comparison decide every order between the          *)
(* operands as unsigned numbers.                                           *)
LEMMA UnsignedOrders ==
    ASSUME NEW s \in Int, NEW d \in Int, NEW sr, sr.z = Flag(d = s), sr.c = Flag(d < s)
    PROVE  UnsignedOrder(sr, s, d)
<1>1. (sr.z = 1 <=> d = s) /\ (sr.z = 0 <=> d # s) /\ (sr.c = 1 <=> d < s) /\ (sr.c = 0 <=> d >= s)
  BY DEF Flag
<1>2. /\ calculate_condition(sr, "Higher") <=> sr.c = 0 /\ sr.z = 0
      /\ calculate_condition(sr, "LowerOrSame") <=> sr.c = 1 \/ sr.z = 1
      /\ calculate_condition(sr, "CarryClear") <=> sr.c = 0
      /\ calculate_condition(sr, "CarrySet") <=> sr.c = 1
  BY DEF calculate_condition
<1>3. /\ sr.c = 0 /\ sr.z = 0 <=> d > s
      /\ sr.c = 1 \/ sr.z = 1 <=> d <= s
  BY <1>1
<1> QED BY <1>1, <1>2, <1>3 DEF UnsignedOrder

(* The other flags decide every order between them as signed numbers.      *)
LEMMA SignedOrders ==
    ASSUME EightBits, NEW size \in Sizes, NEW s \in Values(size), NEW d \in Values(size), NEW sr,
           SignsCompared(sr, s, d, size)
    PROVE  SignedOrder(sr, s, d, size)
<1> DEFINE S == Span(size)
           H == Half(size)
           s1 == Signed(s, size)
           d1 == Signed(d, size)
           r == d - s
           ms == msb(s, size)
           md == msb(d, size)
           mr == msb(r, size)
           n == sr.n
           v == sr.v
           z == sr.z
<1>1. S \in Int /\ H \in Nat \ {0} /\ S = 2 * H
  BY HalfIs
<1>2. s \in Int /\ 0 <= s /\ s < S /\ d \in Int /\ 0 <= d /\ d < S
  BY <1>1 DEF Values
<1>3. s1 = IF s < H THEN s ELSE s - S
  BY SignedIs
<1>4. d1 = IF d < H THEN d ELSE d - S
  BY SignedIs
<1>5. ms \in {0, 1} /\ (ms = 0 <=> (0 <= s /\ s < H) \/ s < -H)
  <2>1. -S <= s
    BY <1>1, <1>2
  <2> QED BY <1>2, <2>1, MsbIs
<1>6. md \in {0, 1} /\ (md = 0 <=> (0 <= d /\ d < H) \/ d < -H)
  <2>1. -S <= d
    BY <1>1, <1>2
  <2> QED BY <1>2, <2>1, MsbIs
<1>7. r \in Int /\ mr \in {0, 1} /\ (mr = 0 <=> (0 <= r /\ r < H) \/ r < -H)
  <2>1. r \in Int /\ -S <= r /\ r < S
    BY <1>1, <1>2
  <2> HIDE DEF r, S, H
  <2> QED BY <2>1, MsbIs DEF S, H
<1>8. /\ n = mr /\ z = Flag(d = s) /\ v = Flag(1 - ms = md /\ mr # md)
  BY DEF SignsCompared
<1>9. r = d - s
  OBVIOUS
<1> HIDE DEF S, H, s1, d1, r, ms, md, mr, n, v, z
<1>10. (z = 1 <=> d = s) /\ (z = 0 <=> d # s)
  BY <1>2, <1>8 DEF Flag
<1>11. n = mr /\ (v = 1 <=> ms # md /\ mr # md) /\ v \in {0, 1}
  BY <1>5, <1>6, <1>7, <1>8 DEF Flag
<1>12. d1 < s1 <=> n # v
  <2>1. CASE ms = 0 /\ md = 0
    <3>1. s < H /\ d < H /\ s1 = s /\ d1 = d /\ v = 0
      BY <1>1, <1>2, <1>3, <1>4, <1>5, <1>6, <1>11, <2>1
    <3>2. n = 0 <=> d >= s
      BY <1>1, <1>2, <1>7, <1>9, <1>11, <3>1
    <3> QED BY <1>2, <1>7, <1>11, <3>1, <3>2
  <2>2. CASE ms = 1 /\ md = 1
    <3>1. s >= H /\ d >= H /\ s1 = s - S /\ d1 = d - S /\ v = 0
      BY <1>1, <1>2, <1>3, <1>4, <1>5, <1>6, <1>11, <2>2
    <3>2. n = 0 <=> d >= s
      BY <1>1, <1>2, <1>7, <1>9, <1>11, <3>1
    <3> QED BY <1>1, <1>2, <1>7, <1>11, <3>1, <3>2
  <2>3. CASE ms = 0 /\ md = 1
    <3>1. s < H /\ d >= H /\ s1 = s /\ d1 = d - S
      BY <1>1, <1>2, <1>3, <1>4, <1>5, <1>6, <2>3
    <3>2. v = 1 <=> mr = 0
      BY <1>7, <1>11, <2>3
    <3>3. n # v
      BY <1>7, <1>11, <3>2
    <3>4. d1 < s1
      BY <1>1, <1>2, <3>1
    <3> QED BY <3>3, <3>4
  <2>4. CASE ms = 1 /\ md = 0
    <3>1. s >= H /\ d < H /\ s1 = s - S /\ d1 = d
      BY <1>1, <1>2, <1>3, <1>4, <1>5, <1>6, <2>4
    <3>2. v = 1 <=> mr = 1
      BY <1>7, <1>11, <2>4
    <3>3. n = v
      BY <1>7, <1>11, <3>2
    <3>4. ~(d1 < s1)
      BY <1>1, <1>2, <3>1
    <3> QED BY <3>3, <3>4
  <2> QED BY <1>5, <1>6, <2>1, <2>2, <2>3, <2>4
<1>13. d1 = s1 <=> d = s
  BY <1>1, <1>2, <1>3, <1>4
<1>14. d1 \in Int /\ s1 \in Int /\ n \in {0, 1}
  BY <1>1, <1>2, <1>3, <1>4, <1>7, <1>11
<1>15. /\ calculate_condition(sr, "Equal") <=> z = 1
       /\ calculate_condition(sr, "NotEqual") <=> z = 0
       /\ calculate_condition(sr, "GreaterOrEqual") <=> n = v
       /\ calculate_condition(sr, "LessThan") <=> n # v
       /\ calculate_condition(sr, "GreaterThan") <=> (n = 1 /\ v = 1 /\ z = 0) \/ (n = 0 /\ v = 0 /\ z = 0)
       /\ calculate_condition(sr, "LessOrEqual") <=> z = 1 \/ (n = 1 /\ v = 0) \/ (n = 0 /\ v = 1)
  BY DEF calculate_condition, n, v, z
<1>16. /\ n = v <=> d1 >= s1
       /\ n # v <=> d1 < s1
       /\ (n = 1 /\ v = 1 /\ z = 0) \/ (n = 0 /\ v = 0 /\ z = 0) <=> d1 > s1
       /\ z = 1 \/ (n = 1 /\ v = 0) \/ (n = 0 /\ v = 1) <=> d1 <= s1
  BY <1>10, <1>11, <1>12, <1>13, <1>14
<1> QED BY <1>10, <1>15, <1>16 DEF SignedOrder, s1, d1

(* Machine y differs from x in what it remembers of the steps only, and    *)
(* reads operand t, a register, as x has it.                               *)
SameRegisters(D, x, y) ==
    /\ y \in Machines(D)
    /\ y.d = x.d /\ y.a = x.a /\ stack_ptr(y) = stack_ptr(x) /\ y.sr = x.sr /\ y.status = x.status
    /\ \A n : a_reg(y, n) = a_reg(x, n)

ReadsRegister(x, t, y) ==
    /\ \A size : Accessible(y, t, size)
    /\ \A size : OperandValue(y, t, size) = InRegister(x, t, size)

(* An operand in a register is read without a step.                        *)
LEMMA RegisterRead ==
    ASSUME NEW D, NEW x \in Machines(D), NEW i, NEW role \in Roles, IsRegister(i[role]),
           NEW y, y = try_decrement_address(x, i, role)
    PROVE  SameRegisters(D, x, y) /\ ReadsRegister(x, i[role], y)
<1>1. y = x \/ y = [x EXCEPT !.decremented = x.decremented \cup {role}]
  BY DEF try_decrement_address, IsRegister
<1>2. y.d = x.d /\ y.a = x.a /\ stack_ptr(y) = stack_ptr(x) /\ y.sr = x.sr /\ y.status = x.status
  BY <1>1 DEF Machines, stack_ptr
<1>3. y \in Machines(D)
  BY <1>1 DEF Machines
<1>4. \A n : a_reg(y, n) = a_reg(x, n)
  BY <1>2 DEF a_reg
<1>5. \A size : Accessible(y, i[role], size)
  BY DEF Accessible
<1>6. RegisterValue(y, i[role])
      = IF i[role].kind = "AddressRegister" THEN a_reg(x, i[role].index) ELSE x.d[i[role].index]
  BY <1>2, <1>4 DEF RegisterValue, IsRegister
<1>7. \A size : OperandValue(y, i[role], size) = InRegister(x, i[role], size)
  BY <1>6 DEF OperandValue, IsRegister, InRegister
<1> QED BY <1>2, <1>3, <1>4, <1>5, <1>7 DEF SameRegisters, ReadsRegister

(* The increment that ends an instruction moves no operand but (An)+.      *)
LEMMA RegisterKept ==
    ASSUME NEW D, NEW x \in Machines(D), NEW i, NEW role \in Roles,
           role \in DOMAIN i => i[role].kind # "AddressIncrement",
           NEW y, y = try_increment_address(x, i, role)
    PROVE  SameRegisters(D, x, y)
<1>1. y = x \/ y = [x EXCEPT !.incremented = x.incremented \cup {role}]
  BY DEF try_increment_address
<1>2. y.d = x.d /\ y.a = x.a /\ stack_ptr(y) = stack_ptr(x) /\ y.sr = x.sr /\ y.status = x.status
  BY <1>1 DEF Machines, stack_ptr
<1>3. y \in Machines(D)
  BY <1>1 DEF Machines
<1>4. \A n : a_reg(y, n) = a_reg(x, n)
  BY <1>2 DEF a_reg
<1> QED BY <1>2, <1>3, <1>4 DEF SameRegisters

(* A write to a data register stores and does nothing else.                *)
StoresIn(x, n, value, w) ==
    /\ w.status = x.status /\ w.sr = x.sr /\ DOMAIN w = DOMAIN x
    /\ w.d = [x.d EXCEPT ![n] = value]

(* A write to a data register stores the value and does nothing else.      *)
LEMMA RegisterWritten ==
    ASSUME NEW D, NEW x \in Machines(D), NEW i, NEW role \in Roles, i[role].kind = "DataRegister", NEW size, NEW v,
           NEW w, w = Write(x, i, role, size, v)
    PROVE  StoresIn(x, i[role].index, Replaced(x.d[i[role].index], v, size), w)
<1> DEFINE p == try_decrement_address(x, i, role)
           n == i[role].index
           val == Replaced(p.d[n], v, size)
<1>1. w = [p EXCEPT !.d[n] = val]
  BY Zenon DEF Write
<1>2. p \in Machines(D) /\ p.d = x.d /\ p.sr = x.sr /\ p.status = x.status
  <2>1. p = try_decrement_address(x, i, role) /\ IsRegister(i[role])
    BY DEF IsRegister
  <2> HIDE DEF p
  <2>2. SameRegisters(D, x, p)
    BY <2>1, RegisterRead
  <2> QED BY <2>2 DEF SameRegisters
<1>3. val = Replaced(x.d[n], v, size)
  BY <1>2
<1> HIDE DEF p, val
<1>4. w.status = p.status /\ w.sr = p.sr /\ w.d = [p.d EXCEPT ![n] = val] /\ DOMAIN w = DOMAIN p
  BY <1>1, <1>2 DEF Machines
<1>5. DOMAIN p = DOMAIN x
  BY <1>2 DEF Machines
<1> QED BY <1>2, <1>3, <1>4, <1>5 DEF StoresIn

(* Instructions on registers end as their code leaves them.                *)
LEMMA EndsOnRegisters ==
    ASSUME EightBits, NEW D, NEW m \in Machines(D), Ok(m), NEW i, WellFormed(i),
           \A role \in Roles \cap DOMAIN i : i[role].kind # "AddressIncrement",
           NEW f, f = Forget(m), NEW done, done = Perform(f, i), NEW r, r = Execute(m, i)
    PROVE  /\ f \in Machines(D) /\ f.d = m.d /\ f.sr = m.sr /\ Ok(f) /\ Fresh(f, i)
           /\ \A n \in 0 .. 7 : a_reg(f, n) = a_reg(m, n)
           /\ done \in Machines(D) /\ r.d = done.d /\ r.sr = done.sr /\ r.status = done.status
<1> DEFINE y == try_increment_address(done, i, "src")
           z == try_increment_address(y, i, "dst")
           last == IF Ok(done) THEN z ELSE done
<1>1. r = Forget(last)
  BY DEF Execute
<1>2. y = try_increment_address(done, i, "src") /\ z = try_increment_address(y, i, "dst")
      /\ "src" \in Roles /\ "dst" \in Roles
  BY DEF Roles
<1> HIDE DEF y, z
<1>3. Fresh(f, i) /\ f \in Machines(D) /\ f.d = m.d /\ f.sr = m.sr
      /\ \A n \in 0 .. 7 : a_reg(f, n) = a_reg(m, n)
  BY BeginsFresh
<1>4. D = DOMAIN f.mem
  BY <1>3 DEF Machines
<1>5. Result(f, i, done)
  BY <1>3, Performs
<1>6. done \in Machines(D)
  BY <1>4, <1>5 DEF Result
<1>7. y \in Machines(D) /\ y.d = done.d /\ y.sr = done.sr /\ y.status = done.status
  BY <1>2, <1>6, RegisterKept DEF SameRegisters
<1>8. z \in Machines(D) /\ z.d = y.d /\ z.sr = y.sr /\ z.status = y.status
  BY <1>2, <1>7, RegisterKept DEF SameRegisters
<1>9. last \in Machines(D) /\ last.d = done.d /\ last.sr = done.sr /\ last.status = done.status
  BY <1>6, <1>7, <1>8
<1> HIDE DEF last
<1>10. r.d = last.d /\ r.sr = last.sr /\ r.status = last.status
  BY <1>1, <1>9, ForgetKeeps
<1> QED BY <1>3, <1>6, <1>9, <1>10 DEF Fresh, Untouched

(* What a register operand gives for a size is a value of the size.        *)
LEMMA InRegisterIn ==
    ASSUME EightBits, NEW D, NEW x \in Machines(D), NEW t \in Targets, IsRegister(t), NEW size \in Sizes
    PROVE  InRegister(x, t, size) \in Values(size)
<1>1. t.index \in 0 .. 7
  BY TargetIn
<1>2. x.d[t.index] \in Values(Long) /\ a_reg(x, t.index) \in Values(Long)
  BY <1>1, RegisterIn
<1>3. x.d[t.index] \in Int /\ a_reg(x, t.index) \in Int
  BY <1>2, ValuesWiden
<1> QED BY <1>3, LowIn DEF InRegister

(* What SetCompare leaves after d - s.                                     *)
LEMMA ComparesNow ==
    ASSUME EightBits, NEW size \in Sizes, NEW s \in Values(size), NEW d \in Values(size), NEW sr \in StatusRegisters,
           NEW op \in {"Sub", "Cmp"}, NEW new,
           new \in {SetCompare(sr, s, d, d - s, size, op), SetArithmetic(sr, s, d, d - s, size, op)}
    PROVE  Compared(new, s, d, size)
<1> DEFINE r == d - s
           n == msb(r, size)
           z == is_zero(r, size)
           v == is_overflow(s, d, r, size, op)
           c == is_carry(r, size)
           set == [sr EXCEPT !.n = n, !.z = z, !.v = v, !.c = c]
<1>1. new = set \/ new = [set EXCEPT !.x = c]
  BY DEF SetArithmetic, SetCompare
<1>2. s \in Int /\ 0 <= s /\ s < Span(size) /\ d \in Int /\ 0 <= d /\ d < Span(size) /\ Span(size) \in Int
  <2>1. Span(size) \in Int
    BY HalfIs
  <2> QED BY <2>1 DEF Values
<1>3. r \in Int /\ -Span(size) <= r /\ r < Span(size)
  BY <1>2
<1>4. r = d - s /\ set = [sr EXCEPT !.n = n, !.z = z, !.v = v, !.c = c]
  OBVIOUS
<1> HIDE DEF r
<1>5. Low(r, size) = IF r < 0 THEN r + Span(size) ELSE r
  BY <1>3, LowIs
<1>6. Low(r, size) = 0 <=> d = s
  BY <1>2, <1>4, <1>5
<1>7. r # Low(r, size) <=> d < s
  BY <1>2, <1>4, <1>5
<1>8. z = Flag(d = s)
  BY <1>6 DEF is_zero, Flag
<1>9. c = Flag(d < s)
  BY <1>7 DEF is_carry, Flag
<1>10. v = Flag(1 - msb(s, size) = msb(d, size) /\ msb(r, size) # msb(d, size))
  BY Zenon DEF is_overflow, Subtracts
<1> HIDE DEF n, z, v, c, set
<1>11. set.n = n /\ set.z = z /\ set.v = v /\ set.c = c /\ DOMAIN set = DOMAIN sr
  BY <1>4 DEF StatusRegisters
<1>12. new.n = n /\ new.z = z /\ new.v = v /\ new.c = c
  <2>1. CASE new = set
    BY <1>11, <2>1
  <2>2. CASE new = [set EXCEPT !.x = c]
    <3>1. set = [f \in DOMAIN set |-> set[f]]
      BY <1>4 DEF StatusRegisters
    <3>2. DOMAIN set = {"c", "v", "z", "n", "x", "s", "mask"}
      BY <1>11 DEF StatusRegisters
    <3> QED BY <1>11, <2>2, <3>1, <3>2
  <2> QED BY <1>1, <2>1, <2>2
<1> QED BY <1>4, <1>8, <1>9, <1>10, <1>12 DEF Compared, SignsCompared, n

(* CMP and SUB on data registers leave the flags of the comparison.        *)
LEMMA BinaryCompares ==
    ASSUME EightBits, NEW D, NEW m \in Machines(D), Ok(m), m.sr \in StatusRegisters, NEW i, WellFormed(i),
           i.kind \in {"Cmp", "Sub"}, i["src"].kind = "DataRegister", i["dst"].kind = "DataRegister",
           NEW r, r = ExecBinary(m, i)
    PROVE  Compared(r.sr, InRegister(m, i["src"], i.size), InRegister(m, i["dst"], i.size), i.size)
<1> DEFINE size == i.size
           op == opcode_type(i.kind)
           p == try_decrement_address(m, i, "src")
           s == OperandValue(p, i["src"], size)
           k == try_increment_address(p, i, "src")
           q == try_decrement_address(k, i, "dst")
           d == OperandValue(q, i["dst"], size)
           v == do_binary_op(op, s, d)
           sr == SetBinary(q.sr, s, d, v, size, op)
           w == Write(q, i, "dst", size, v)
<1>0. "src" \in Roles \cap DOMAIN i /\ "dst" \in Roles \cap DOMAIN i /\ i["src"] \in Targets /\ i["dst"] \in Targets
  BY Operands DEF UsesSrc, UsesDst, UsesBoth, Roles, Shifts, BinaryKinds
<1>1. size \in Sizes /\ op \in {"Cmp", "Sub"}
  <2>1. size \in Sizes
    BY SizeIn DEF UsesSize, BinaryKinds
  <2>2. op \in {"Cmp", "Sub"}
    BY DEF opcode_type
  <2> QED BY <2>1, <2>2
<1>2. r = IF Accessible(p, i["src"], size)
          THEN IF Accessible(q, i["dst"], size)
               THEN Then(IF op = "Cmp" THEN q ELSE w, sr) ELSE Fail(q)
          ELSE Fail(p)
  BY Zenon DEF ExecBinary, Read
<1>3. p = try_decrement_address(m, i, "src") /\ k = try_increment_address(p, i, "src")
      /\ q = try_decrement_address(k, i, "dst") /\ w = Write(q, i, "dst", size, v)
  OBVIOUS
<1>4. v = d - s
  BY <1>1 DEF do_binary_op, Subtracts
<1>5. sr \in {SetCompare(q.sr, s, d, v, size, op), SetArithmetic(q.sr, s, d, v, size, op)}
  BY <1>1 DEF SetBinary
<1> HIDE DEF p, k, q, w, op, sr
<1>6. p \in Machines(D) /\ p.d = m.d /\ p.sr = m.sr /\ p.status = m.status
      /\ Accessible(p, i["src"], size) /\ s = InRegister(m, i["src"], size)
  <2>1. SameRegisters(D, m, p) /\ ReadsRegister(m, i["src"], p)
    BY <1>0, <1>3, RegisterRead DEF IsRegister
  <2> QED BY <2>1 DEF SameRegisters, ReadsRegister
<1>7. k \in Machines(D) /\ k.d = p.d /\ k.sr = p.sr /\ k.status = p.status
  BY <1>0, <1>3, <1>6, RegisterKept DEF SameRegisters
<1>8. q \in Machines(D) /\ q.d = k.d /\ q.sr = k.sr /\ q.status = k.status
      /\ Accessible(q, i["dst"], size) /\ d = InRegister(k, i["dst"], size)
  <2>1. SameRegisters(D, k, q) /\ ReadsRegister(k, i["dst"], q)
    BY <1>0, <1>3, <1>7, RegisterRead DEF IsRegister
  <2> QED BY <2>1 DEF SameRegisters, ReadsRegister
<1>9. d = InRegister(m, i["dst"], size)
  BY <1>6, <1>7, <1>8 DEF InRegister
<1>10. s \in Values(size) /\ d \in Values(size)
  BY <1>0, <1>1, <1>6, <1>9, InRegisterIn DEF IsRegister
<1>11. w.status = q.status /\ w.sr = q.sr /\ DOMAIN w = DOMAIN q
  <2> DEFINE new == Replaced(q.d[i["dst"].index], v, size)
  <2>1. StoresIn(q, i["dst"].index, new, w)
    BY <1>0, <1>3, <1>8, RegisterWritten
  <2> QED BY <2>1 DEF StoresIn
<1> HIDE DEF s, d, v
<1>12. Compared(sr, s, d, size)
  BY <1>1, <1>4, <1>5, <1>6, <1>7, <1>8, <1>10, ComparesNow
<1>13. r.sr = sr
  <2> DEFINE x == IF op = "Cmp" THEN q ELSE w
  <2>1. Ok(x) /\ r = [x EXCEPT !.sr = sr]
    BY <1>2, <1>6, <1>7, <1>8, <1>11 DEF Ok, Then
  <2>2. "sr" \in DOMAIN x
    BY <1>8, <1>11 DEF Machines
  <2> HIDE DEF x
  <2> QED BY <2>1, <2>2
<1> QED BY <1>6, <1>9, <1>12, <1>13

(* CMPA leaves the flags of the comparison of two longs; the carry, which  *)
(* it takes from the bits above a long, unless a negative word was         *)
(* extended over them.                                                     *)
LEMMA AddressCompares ==
    ASSUME EightBits, NEW D, NEW m \in Machines(D), Ok(m), m.sr \in StatusRegisters, NEW i, WellFormed(i),
           i.kind = "Cmpa", IsRegister(i["src"]), i["dst"].kind = "AddressRegister",
           NEW r, r = ExecAddress(m, i), NEW x, x = Subtrahend(m, i), NEW y, y = InRegister(m, i["dst"], Long)
    PROVE  /\ x \in Values(Long) /\ y \in Values(Long)
           /\ SignsCompared(r.sr, x, y, Long)
           /\ ~NegativeWord(m, i) => r.sr.c = Flag(y < x)
<1> DEFINE size == i.size
           op == opcode_type(i.kind)
           p == try_decrement_address(m, i, "src")
           q == try_decrement_address(p, i, "dst")
           u == OperandValue(p, i["src"], size)
           d == OperandValue(q, i["dst"], Long)
           s == IF size = Word THEN Signed(u, Word) ELSE u
           v == do_binary_op(op, s, d)
           cmp == SetCompare(q.sr, s, d, v, Long, op)
           c == Flag(v \div Span(Long) # s \div Span(Long))
           sr == [cmp EXCEPT !.c = c]
           w == Write(q, i, "dst", Long, v)
           S == Span(Long)
<1>0. "src" \in Roles \cap DOMAIN i /\ "dst" \in Roles \cap DOMAIN i /\ i["src"] \in Targets /\ i["dst"] \in Targets
      /\ Long \in Sizes /\ Word \in Sizes /\ IsRegister(i["dst"])
  BY Operands DEF UsesSrc, UsesDst, UsesBoth, Roles, Shifts, AddressKinds, Sizes, IsRegister
<1>1. size \in {Word, Long} /\ op = "Cmp"
  <2>1. size \in {Word, Long}
    BY DEF WellFormed, UsesSize, SizesOf, AddressKinds
  <2>2. op = "Cmp"
    BY DEF opcode_type
  <2> QED BY <2>1, <2>2
<1>2. r = IF Accessible(p, i["src"], size)
          THEN IF Accessible(q, i["dst"], Long)
               THEN IF op = "Cmp" THEN [q EXCEPT !.sr = sr] ELSE w
               ELSE Fail(q)
          ELSE Fail(p)
  BY Zenon DEF ExecAddress, Read
<1>3. p = try_decrement_address(m, i, "src") /\ q = try_decrement_address(p, i, "dst")
  OBVIOUS
<1>4. v = d - s
  BY <1>1 DEF do_binary_op, Subtracts
<1>5. cmp = SetCompare(q.sr, s, d, v, Long, op) /\ sr = [cmp EXCEPT !.c = c] /\ u = OperandValue(p, i["src"], size)
      /\ s = (IF size = Word THEN Signed(u, Word) ELSE u) /\ size = i.size
  OBVIOUS
<1> HIDE DEF p, q, w, op, sr, cmp, u, size, s, d, v, c
<1>6. p \in Machines(D) /\ p.d = m.d /\ p.a = m.a /\ stack_ptr(p) = stack_ptr(m) /\ p.sr = m.sr /\ p.status = m.status
      /\ Accessible(p, i["src"], size) /\ u = InRegister(m, i["src"], size) /\ \A n : a_reg(p, n) = a_reg(m, n)
  <2>1. SameRegisters(D, m, p) /\ ReadsRegister(m, i["src"], p)
    BY <1>0, <1>3, RegisterRead
  <2> QED BY <1>5, <2>1 DEF SameRegisters, ReadsRegister
<1>7. q \in Machines(D) /\ q.sr = p.sr /\ q.status = p.status
      /\ Accessible(q, i["dst"], Long) /\ d = InRegister(p, i["dst"], Long)
  <2>1. SameRegisters(D, p, q) /\ ReadsRegister(p, i["dst"], q)
    BY <1>0, <1>3, <1>6, RegisterRead
  <2> QED BY <2>1 DEF SameRegisters, ReadsRegister, d
<1>8. d = y
  BY <1>6, <1>7 DEF InRegister
<1>9. S \in Nat \ {0} /\ y \in Values(Long) /\ y \in Int /\ 0 <= y /\ y < S
  <2>1. S \in Nat \ {0} /\ y \in Values(Long)
    BY <1>0, HalfIs, InRegisterIn
  <2> HIDE DEF S
  <2> QED BY <2>1 DEF Values, S
<1>10. /\ x \in Values(Long) /\ x \in Int /\ 0 <= x /\ x < S
       /\ s = x \/ (s = x - S /\ NegativeWord(m, i))
  <2>1. u \in Values(size)
    BY <1>0, <1>1, <1>6, InRegisterIn
  <2>2. CASE size = Word
    <3>1. x = Low(s, Long) /\ (NegativeWord(m, i) <=> s < 0)
      BY <1>5, <1>6, <2>2 DEF Subtrahend, ExtendsWord, NegativeWord
    <3>2. s \in Int /\ -32768 <= s /\ s < 32768
      <4>1. s = IF u < Half(Word) THEN u ELSE u - Span(Word)
        BY <1>0, <1>5, <2>1, <2>2, SignedIs
      <4>2. u \in Int /\ 0 <= u /\ u < 65536 /\ Half(Word) = 32768 /\ Span(Word) = 65536
        BY <2>1, <2>2, SpanValues, TopBits DEF Values, Half
      <4> QED BY <4>1, <4>2
    <3>3. S = 4294967296
      BY SpanValues
    <3>4. x = IF s < 0 THEN s + S ELSE s
      BY <1>0, <3>1, <3>2, <3>3, LowIs
    <3>5. x \in Values(Long)
      BY <1>0, <3>1, <3>2, LowIn
    <3> HIDE DEF S
    <3> QED BY <3>1, <3>2, <3>3, <3>4, <3>5
  <2>3. CASE size # Word
    <3>1. size = Long /\ s = u /\ x = u
      BY <1>1, <1>5, <1>6, <2>3 DEF Subtrahend, ExtendsWord
    <3>2. x \in Int /\ 0 <= x /\ x < S
      <4>1. x \in Values(Long) /\ S \in Nat
        BY <1>9, <2>1, <3>1
      <4> HIDE DEF S
      <4> QED BY <4>1 DEF Values, S
    <3> QED BY <2>1, <3>1, <3>2
  <2> QED BY <2>2, <2>3
<1> DEFINE t == y - x
           other == SetCompare(q.sr, x, y, t, Long, op)
<1>11. t = y - x /\ t \in Int /\ s \in Int /\ v \in Int /\ other = SetCompare(q.sr, x, y, t, Long, op)
       /\ (v = t \/ v = t + S)
  BY <1>4, <1>8, <1>9, <1>10
<1> HIDE DEF S, t, other
<1>12. q.sr \in StatusRegisters /\ op \in {"Sub", "Cmp"}
  BY <1>1, <1>6, <1>7
<1>13. Compared(other, x, y, Long)
  BY <1>0, <1>9, <1>10, <1>11, <1>12, ComparesNow DEF t
<1>14. cmp \in StatusRegisters /\ other \in StatusRegisters
  BY <1>0, <1>5, <1>8, <1>9, <1>10, <1>11, <1>12, SetCompareIn DEF NewFlags
<1>15. msb(v, Long) = msb(t, Long) /\ Low(v, Long) = Low(t, Long)
  BY <1>0, <1>11, SpanMore DEF S
<1>16. msb(s, Long) = msb(x, Long)
  <2>1. CASE s = x - S
    <3>1. x = s + S
      BY <1>9, <1>10, <2>1
    <3> QED BY <1>0, <1>11, <3>1, SpanMore DEF S
  <2> QED BY <1>10, <2>1
<1>17. /\ is_zero(v, Long) = is_zero(t, Long)
       /\ is_overflow(s, d, v, Long, op) = is_overflow(x, y, t, Long, op)
  <2>1. is_zero(v, Long) = is_zero(t, Long)
    BY <1>15 DEF is_zero
  <2>2. is_overflow(s, d, v, Long, op) = is_overflow(x, y, t, Long, op)
    BY <1>8, <1>15, <1>16, Zenon DEF is_overflow
  <2> QED BY <2>1, <2>2
<1>18. cmp.n = other.n /\ cmp.z = other.z /\ cmp.v = other.v
  BY <1>5, <1>11, <1>12, <1>15, <1>17 DEF SetCompare, StatusRegisters
<1>19. sr.c = c /\ sr.n = cmp.n /\ sr.z = cmp.z /\ sr.v = cmp.v
  BY <1>5, <1>14 DEF StatusRegisters
<1>20. SignsCompared(sr, x, y, Long)
  BY <1>13, <1>18, <1>19 DEF Compared, SignsCompared
<1>21. ASSUME ~NegativeWord(m, i) PROVE c = Flag(y < x)
  <2>1. s = x /\ v = y - x
    BY <1>4, <1>8, <1>10, <1>21
  <2>2. s = S * 0 + s
    BY <1>9, <1>10, <2>1
  <2>3. s \div S = 0
    BY <1>9, <1>10, <2>1, <2>2, Divides
  <2>4. CASE y < x
    <3> DEFINE g == v + S
    <3>1. g \in Int /\ v \in Int /\ 0 <= g /\ g < S /\ v = S * (-1) + g
      BY <1>9, <1>10, <2>1, <2>4
    <3> HIDE DEF g
    <3>2. v \div S = -1
      BY <1>9, <3>1, Divides
    <3> QED BY <2>3, <2>4, <3>2 DEF S, c
  <2>5. CASE ~(y < x)
    <3>1. v \in Int /\ 0 <= v /\ v < S /\ v = S * 0 + v
      BY <1>9, <1>10, <2>1, <2>5
    <3>2. v \div S = 0
      BY <1>9, <3>1, Divides
    <3> QED BY <2>3, <2>5, <3>2 DEF S, c
  <2> QED BY <2>4, <2>5
<1>22. r.sr = sr
  <2>1. r = [q EXCEPT !.sr = sr]
    BY <1>1, <1>2, <1>6, <1>7
  <2> QED BY <1>7, <2>1 DEF Machines
<1> QED BY <1>9, <1>10, <1>19, <1>20, <1>21, <1>22

(* What was executed of the trace leaves conditions that compare.          *)
LEMMA ConditionsCompareNow == ASSUME EightBits, Trace PROVE ConditionsCompare
<1>1. ASSUME NEW k \in Executed, Compares(program[k]),
             NEW x, x = Subtrahend(Before(k), program[k]),
             NEW y, y = InRegister(Before(k), program[k]["dst"], ComparedSize(program[k]))
      PROVE  /\ SignedOrder(After(k).sr, x, y, ComparedSize(program[k]))
             /\ ~NegativeWord(Before(k), program[k]) => UnsignedOrder(After(k).sr, x, y)
  <2> DEFINE i == program[k]
             m == Before(k)
             r == After(k)
             f == Forget(m)
             done == Perform(f, i)
             size == ComparedSize(i)
             D == DOMAIN machine.mem
  <2>1. WellFormed(i) /\ m \in Machines(D) /\ Ok(m) /\ r = Execute(m, i)
    BY DEF Trace, Executes1, Executed
  <2>2. Compares(i) /\ f = Forget(m) /\ done = Perform(f, i) /\ size = ComparedSize(i)
        /\ x = Subtrahend(m, i) /\ y = InRegister(m, i["dst"], size)
    BY <1>1
  <2> HIDE DEF i, m, r, f, done, size, D
  <2>3. IsRegister(i["src"]) /\ i.kind \in {"Cmp", "Sub", "Cmpa"}
        /\ (i.kind # "Cmpa" => i["src"].kind = "DataRegister" /\ i["dst"].kind = "DataRegister")
        /\ (i.kind = "Cmpa" => i["dst"].kind = "AddressRegister")
    BY <2>1, <2>2 DEF Compares, BothInRegisters, WellFormed, OperandsFit, AddressKinds, IsRegister
  <2>4. \A role \in Roles \cap DOMAIN i : i[role].kind # "AddressIncrement"
    BY <2>3 DEF Roles, IsRegister
  <2>5. /\ f \in Machines(D) /\ f.d = m.d /\ f.sr = m.sr /\ Ok(f)
        /\ \A n \in 0 .. 7 : a_reg(f, n) = a_reg(m, n)
        /\ r.sr = done.sr
    BY <2>1, <2>2, <2>4, EndsOnRegisters
  <2>6. f.sr \in StatusRegisters
    BY <2>5 DEF Machines
  <2>7. i["src"] \in Targets /\ i["dst"] \in Targets /\ i.size \in Sizes /\ IsRegister(i["dst"])
    BY <2>1, <2>2, <2>3, Operands, SizeIn
    DEF UsesSrc, UsesDst, UsesBoth, UsesSize, Roles, Shifts, BinaryKinds, AddressKinds, IsRegister
  <2>8. i["src"].index \in 0 .. 7 /\ i["dst"].index \in 0 .. 7
    BY <2>3, <2>7, TargetIn
  <2>9. \A n : InRegister(f, i["src"], n) = InRegister(m, i["src"], n)
                /\ InRegister(f, i["dst"], n) = InRegister(m, i["dst"], n)
    BY <2>5, <2>8 DEF InRegister
  <2>10. /\ size \in Sizes /\ x \in Values(size) /\ y \in Values(size)
         /\ SignsCompared(done.sr, x, y, size)
         /\ ~NegativeWord(m, i) => done.sr.c = Flag(y < x)
    <3>1. CASE i.kind = "Cmpa"
      <4>1. done = ExecAddress(f, i)
        BY <2>2, <3>1, Zenon DEF Perform, BinaryKinds, AddressKinds, QuickKinds, ExtendKinds, UnaryKinds, ToCcrKinds, ToSrKinds, Shifts, BitKinds
      <4>2. x = Subtrahend(f, i) /\ (NegativeWord(f, i) <=> NegativeWord(m, i))
        BY <2>2, <2>9 DEF Subtrahend, NegativeWord
      <4>3. size = Long /\ Long \in Sizes
        <5>1. i.size \in {Word, Long}
          BY <2>1, <3>1 DEF WellFormed, UsesSize, SizesOf, AddressKinds
        <5> QED BY <2>2, <3>1, <5>1 DEF ComparedSize, ExtendsWord, Sizes
      <4>4. y = InRegister(f, i["dst"], Long)
        BY <2>2, <2>9, <4>3
      <4> QED BY <2>1, <2>3, <2>5, <2>6, <3>1, <4>1, <4>2, <4>3, <4>4, AddressCompares
    <3>2. CASE i.kind # "Cmpa"
      <4>1. i.kind \in {"Cmp", "Sub"} /\ i["dst"].kind = "DataRegister" /\ i["src"].kind = "DataRegister"
        BY <2>3, <3>2
      <4>2. done = ExecBinary(f, i)
        BY <2>2, <4>1, Zenon DEF Perform, BinaryKinds, AddressKinds, QuickKinds, ExtendKinds, UnaryKinds, ToCcrKinds, ToSrKinds, Shifts, BitKinds
      <4>3. size = i.size /\ x = InRegister(f, i["src"], i.size) /\ y = InRegister(f, i["dst"], i.size)
        BY <2>2, <2>9, <3>2 DEF ComparedSize, Subtrahend, ExtendsWord
      <4>4. x \in Values(size) /\ y \in Values(size)
        BY <2>3, <2>5, <2>7, <4>3, InRegisterIn
      <4>5. Compared(done.sr, x, y, size)
        BY <2>1, <2>5, <2>6, <4>1, <4>2, <4>3, BinaryCompares
      <4> QED BY <2>7, <4>3, <4>4, <4>5 DEF Compared
    <3> QED BY <3>1, <3>2
  <2>11. x \in Int /\ y \in Int
    BY <2>10, ValuesAreInts
  <2>12. SignedOrder(done.sr, x, y, size)
    BY <2>10, SignedOrders
  <2>13. ~NegativeWord(m, i) => UnsignedOrder(done.sr, x, y)
    BY <2>10, <2>11, UnsignedOrders DEF SignsCompared
  <2>14. SignedOrder(r.sr, x, y, ComparedSize(i)) /\ (~NegativeWord(m, i) => UnsignedOrder(r.sr, x, y))
    BY <2>2, <2>5, <2>12, <2>13
  <2> QED BY <2>14 DEF i, m, r
<1> QED BY <1>1, Zenon DEF ConditionsCompare

(* After a comparison or a subtraction on registers every condition that   *)
(* orders two numbers holds exactly when the operands are so ordered,      *)
(* unsigned and signed, at every size, but for the unsigned conditions     *)
(* after a CMPA of a negative word.                                        *)
THEOREM Comparing == EightBits => (Spec => []ConditionsCompare)
<1> SUFFICES ASSUME EightBits PROVE Spec => []ConditionsCompare
  OBVIOUS
<1>1. Trace => ConditionsCompare
  BY ConditionsCompareNow
<1> QED BY <1>1, Tracing, PTL

-----------------------------------------------------------------------------
(***************************************************************************)
(* Divisions.                                                              *)
(***************************************************************************)

(* The numbers that are themselves when read as signed ones.               *)
LEMMA SignedRange ==
    ASSUME EightBits, NEW size \in Sizes, NEW v \in Int
    PROVE  v = Signed(v, size) <=> -Half(size) <= v /\ v < Half(size)
<1> DEFINE S == Span(size)
           H == Half(size)
           l == Low(v, size)
           g == Signed(v, size)
<1>1. S \in Nat \ {0} /\ H \in Nat \ {0} /\ S = 2 * H
  BY HalfIs
<1>2. l \in Int /\ 0 <= l /\ l < S
  <2>1. l \in Values(size)
    BY LowIn
  <2> HIDE DEF l
  <2> QED BY <1>1, <2>1 DEF Values
<1>3. g = IF l < H THEN l ELSE l - S
  <2>1. g = Signed(l, size) /\ l \in Values(size)
    BY SignedLow
  <2> HIDE DEF g, l
  <2> QED BY <2>1, SignedIs
<1>4. ASSUME -H <= v, v < H PROVE l = IF v < 0 THEN v + S ELSE v
  <2>1. -S <= v /\ v < S
    BY <1>1, <1>4
  <2> QED BY <2>1, LowIs
<1> HIDE DEF S, H, l, g
<1>5. g = v <=> -H <= v /\ v < H
  BY <1>1, <1>2, <1>3, <1>4
<1> QED BY <1>5 DEF g, H

(* The quotient of C: the remainder is smaller than the divisor and has    *)
(* the sign of the dividend.                                               *)
Inverted(n, d, q, r) == q * d + r = n /\ Abs(r) < Abs(d) /\ SameSign(r, n)

(* Rounding the quotient of the absolute values towards zero divides: the  *)
(* remainder is smaller than the divisor and has the sign of the dividend. *)
LEMMA Truncates ==
    ASSUME NEW n \in Int, NEW d \in Int, d # 0, NEW q, q = Quotient(n, d), NEW r, r = Remainder(n, d)
    PROVE  q \in Int /\ r \in Int /\ Inverted(n, d, q, r)
<1> DEFINE a == Abs(n)
           b == Abs(d)
           k == a \div b
           t == a % b
<1>1. a \in Nat /\ b \in Nat \ {0} /\ (n < 0 => n = -a) /\ (~(n < 0) => n = a) /\ (d < 0 => d = -b) /\ (~(d < 0) => d = b)
  BY DEF Abs
<1>2. k = a \div b /\ t = a % b
  OBVIOUS
<1>3. q = IF (n < 0) = (d < 0) THEN k ELSE -k
  BY Zenon DEF Quotient
<1>4. r = n - d * q
  BY DEF Remainder
<1> HIDE DEF a, b, k, t
<1>5. a = b * k + t /\ k \in Int /\ t \in Int /\ 0 <= t /\ t < b
  BY <1>1, <1>2, Divided
<1>6. q \in Int /\ d * q = IF n < 0 THEN -(b * k) ELSE b * k
  <2>1. CASE n < 0 /\ d < 0
    <3>1. q = k /\ d = -b
      BY <1>1, <1>3, <2>1
    <3> QED BY <1>1, <1>5, <2>1, <3>1
  <2>2. CASE n < 0 /\ ~(d < 0)
    <3>1. q = -k /\ d = b
      BY <1>1, <1>3, <2>2
    <3> QED BY <1>1, <1>5, <2>2, <3>1
  <2>3. CASE ~(n < 0) /\ d < 0
    <3>1. q = -k /\ d = -b
      BY <1>1, <1>3, <2>3
    <3> QED BY <1>1, <1>5, <2>3, <3>1
  <2>4. CASE ~(n < 0) /\ ~(d < 0)
    <3>1. q = k /\ d = b
      BY <1>1, <1>3, <2>4
    <3> QED BY <1>1, <1>5, <2>4, <3>1
  <2> QED BY <2>1, <2>2, <2>3, <2>4
<1> DEFINE x == d * q
           y == b * k
<1>7. x \in Int /\ y \in Int /\ x = IF n < 0 THEN -y ELSE y
  BY <1>1, <1>5, <1>6
<1>8. r = n - x /\ a = y + t /\ q * d = x
  BY <1>4, <1>5, <1>6
<1> HIDE DEF x, y
<1>9. r = IF n < 0 THEN -t ELSE t
  BY <1>1, <1>5, <1>7, <1>8
<1>10. r \in Int /\ Abs(r) < b
  BY <1>5, <1>9 DEF Abs
<1>11. SameSign(r, n)
  <2>1. CASE n < 0
    <3>1. r = 0 \/ r < 0
      BY <1>5, <1>9, <2>1
    <3> QED BY <2>1, <3>1 DEF SameSign
  <2>2. CASE ~(n < 0)
    <3>1. ~(r < 0)
      BY <1>5, <1>9, <2>2
    <3> QED BY <2>2, <3>1 DEF SameSign
  <2> QED BY <2>1, <2>2
<1>12. q * d + r = n
  BY <1>7, <1>8, <1>10
<1> QED BY <1>6, <1>10, <1>11, <1>12 DEF Inverted, b

(* There is one such quotient.                                             *)
LEMMA OneQuotient ==
    ASSUME NEW n \in Int, NEW d \in Int, d # 0, NEW q \in Int, NEW r \in Int, Inverted(n, d, q, r),
           NEW p \in Int, NEW s \in Int, Inverted(n, d, p, s)
    PROVE  p = q
<1>1. q * d + r = n /\ p * d + s = n
  BY DEF Inverted
<1>2. Abs(r - s) < Abs(d)
  <2>1. Abs(r) < Abs(d) /\ Abs(s) < Abs(d) /\ (r = 0 \/ ((r < 0) = (n < 0))) /\ (s = 0 \/ ((s < 0) = (n < 0)))
    BY Zenon DEF Inverted, SameSign
  <2>2. CASE n < 0
    <3>1. r <= 0 /\ s <= 0
      BY <2>1, <2>2
    <3> QED BY <2>1, <3>1 DEF Abs
  <2>3. CASE ~(n < 0)
    <3>1. 0 <= r /\ 0 <= s
      BY <2>1, <2>3
    <3> QED BY <2>1, <3>1 DEF Abs
  <2> QED BY <2>2, <2>3
<1> DEFINE k == p - q
<1>3. k \in Int /\ k * d = r - s
  <2>1. k * d = p * d - q * d
    OBVIOUS
  <2>2. p * d \in Int /\ q * d \in Int
    OBVIOUS
  <2> QED BY <1>1, <2>1, <2>2
<1>4. k = 0
  <2> HIDE DEF k
  <2> DEFINE e == Abs(d)
             x == k * e
  <2>1. e \in Int /\ e > 0 /\ (d = e \/ d = -e)
    BY DEF Abs
  <2> HIDE DEF e
  <2>2. x \in Int /\ (k * d = x \/ k * d = -x)
    BY <1>3, <2>1
  <2>3. k >= 1 => x >= e
    BY <1>3, <2>1
  <2>4. k <= -1 => x <= -e
    BY <1>3, <2>1
  <2> HIDE DEF x
  <2>5. -e < r - s /\ r - s < e
    BY <1>2 DEF e, Abs
  <2> QED BY <1>3, <2>1, <2>2, <2>3, <2>4, <2>5
<1> QED BY <1>4

(* What DivisionInverts says of a quotient that fits and of one that does  *)
(* not: s and d are the numbers of DIVS or DIVU.                           *)
ReadAs(kind, v, size) == IF kind = "Divs" THEN Signed(v, size) ELSE v
QuotientRead(kind, after) == IF kind = "Divs" THEN Signed(after, Word) ELSE after % Span(Word)
RemainderRead(kind, after) ==
    IF kind = "Divs" THEN Signed(after \div Span(Word), Word) ELSE after \div Span(Word)
Quotients(kind) == IF kind = "Divs" THEN -(Span(Word) \div 2) .. Span(Word) \div 2 - 1 ELSE Values(Word)

Inverts(kind, s, d, after, sr) ==
    /\ Inverted(d, s, QuotientRead(kind, after), RemainderRead(kind, after))
    /\ sr.n = msb(QuotientRead(kind, after), Word)
    /\ sr.z = Flag(QuotientRead(kind, after) = 0)
NoQuotient(kind, s, d) ==
    \A q \in Quotients(kind) : LET r == d - q * s IN ~(Abs(r) < Abs(s) /\ SameSign(r, d))

DivideGives(kind, s, d, v) ==
    /\ v.fits \in BOOLEAN
    /\ v.fits => v.value \in Values(Long) /\ v.sr.v = 0 /\ Inverts(kind, s, d, v.value, v.sr)
    /\ ~v.fits => v.sr.v = 1 /\ NoQuotient(kind, s, d)

(* Divide of the code gives a quotient and a remainder in the halves of    *)
(* the result that give the dividend back, or says that there is no        *)
(* quotient of a word, and then there is none.                             *)
LEMMA DivideInverts ==
    ASSUME EightBits, NEW kind \in {"Divu", "Divs"}, NEW sr \in StatusRegisters,
           NEW divisor \in Values(Word), divisor # 0, NEW dividend \in Values(Long),
           NEW s, s = ReadAs(kind, divisor, Word), NEW d, d = ReadAs(kind, dividend, Long),
           NEW v, v = Divide(kind, sr, divisor, dividend)
    PROVE  DivideGives(kind, s, d, v)
<1> DEFINE q == Quotient(d, s)
           r == Remainder(d, s)
           fits == q = IF kind = "Divu" THEN Low(q, Word) ELSE Signed(q, Word)
           lq == Low(q, Word)
           lr == Low(r, Word)
           value == lr * Span(Word) + lq
           n == msb(q, Word)
           z == Flag(q = 0)
           yes == [sr EXCEPT !.v = 0, !.c = 0, !.n = n, !.z = z]
           no == [sr EXCEPT !.v = 1, !.c = 0]
           S == Span(Word)
           H == Half(Word)
<1>1. s = (IF kind = "Divu" THEN divisor ELSE Signed(divisor, Word))
      /\ d = (IF kind = "Divu" THEN dividend ELSE Signed(dividend, Long))
  BY DEF ReadAs
<1>2. v = [fits |-> fits, value |-> value, sr |-> IF fits THEN yes ELSE no]
  BY <1>1, Zenon DEF Divide
<1>3. Word \in Sizes /\ Long \in Sizes /\ S \in Nat \ {0} /\ H \in Nat \ {0} /\ S = 2 * H /\ S \div 2 = H
  <2>1. Word \in Sizes /\ Long \in Sizes
    BY DEF Sizes
  <2>2. S \in Nat \ {0} /\ H \in Nat \ {0} /\ S = 2 * H
    BY <2>1, HalfIs
  <2> HIDE DEF S, H
  <2> QED BY <2>1, <2>2
<1>4. divisor \in Int /\ 0 <= divisor /\ divisor < S /\ dividend \in Int /\ 0 <= dividend
  BY <1>3, InValues, ValuesWiden, SpanValues, SMT
<1>5. s \in Int /\ s # 0 /\ d \in Int
  BY <1>1, <1>3, <1>4, SignedIn, SignedZero
<1>6. kind = "Divu" => s = divisor /\ d = dividend
  BY <1>1
<1>7. kind = "Divs" => -H <= s /\ s <= H
  <2> HAVE kind = "Divs"
  <2>1. s = Signed(divisor, Word)
    BY <1>1
  <2>2. s = IF divisor < H THEN divisor ELSE divisor - S
    BY <1>3, <2>1, SignedIs
  <2> HIDE DEF S, H
  <2> QED BY <1>3, <1>4, <2>2
<1>8. q \in Int /\ r \in Int /\ Inverted(d, s, q, r)
  BY <1>5, Truncates
<1>9. /\ fits \in BOOLEAN /\ fits = (q = IF kind = "Divu" THEN lq ELSE Signed(q, Word))
      /\ lq = Low(q, Word) /\ lr = Low(r, Word) /\ value = lr * S + lq /\ n = msb(q, Word) /\ z = Flag(q = 0)
  OBVIOUS
<1>10. lq \in Values(Word) /\ lr \in Values(Word)
  BY <1>3, <1>8, SignedLow
<1>11. lq \in Int /\ 0 <= lq /\ lq < S /\ lr \in Int /\ 0 <= lr /\ lr < S
  <2> HIDE DEF lq, lr
  <2> QED BY <1>3, <1>10 DEF Values
<1> HIDE DEF q, r, lq, lr, value, n, z, S, H, fits
<1>12. ASSUME fits PROVE value \in Values(Long) /\ v.sr.v = 0 /\ Inverts(kind, s, d, value, v.sr)
  <2>1. v.sr = yes /\ v.value = value
    BY <1>2, <1>12
  <2>2. v.sr.v = 0 /\ v.sr.n = n /\ v.sr.z = z
    BY <2>1 DEF StatusRegisters
  <2>3. value = S * lr + lq
    BY <1>3, <1>9, <1>11
  <2>4. value % S = lq /\ value \div S = lr
    BY <1>3, <1>11, <2>3, Divides
  <2>5. value \in Values(Long)
    <3> DEFINE x == lr * S
    <3>1. S = 65536
      BY SpanValues DEF S
    <3>2. x \in Int /\ 0 <= x /\ x <= 65535 * 65536 /\ value = x + lq
      BY <1>9, <1>11, <3>1, SMT
    <3> HIDE DEF x
    <3>3. value \in Int /\ 0 <= value /\ value < 4294967296
      BY <1>11, <3>1, <3>2, SMT
    <3> QED BY <3>3, InValues
  <2>6. QuotientRead(kind, value) = q
    <3>1. CASE kind = "Divu"
      BY <1>9, <1>12, <2>4, <3>1 DEF QuotientRead, S
    <3>2. CASE kind = "Divs"
      <4>1. value \in Int
        BY <2>5, ValuesWiden
      <4>2. Signed(value, Word) = Signed(Low(value, Word), Word)
        BY <1>3, <4>1, SignedLow
      <4>3. Low(value, Word) = lq
        BY <2>4 DEF Low, S
      <4>4. Signed(q, Word) = Signed(lq, Word)
        BY <1>3, <1>8, <1>9, SignedLow
      <4> QED BY <1>9, <1>12, <3>2, <4>2, <4>3, <4>4 DEF QuotientRead
    <3> QED BY <3>1, <3>2
  <2>7. RemainderRead(kind, value) = r
    <3>1. CASE kind = "Divu"
      <4>1. 0 <= r /\ r < S
        <5>1. Abs(r) < Abs(s) /\ (r = 0 \/ ((r < 0) = (d < 0)))
          BY <1>8, Zenon DEF Inverted, SameSign
        <5>2. ~(d < 0) /\ ~(s < 0) /\ s < S
          BY <1>4, <1>6, <3>1
        <5>3. ~(r < 0)
          BY <1>8, <5>1, <5>2
        <5> QED BY <1>8, <5>1, <5>2, <5>3, <1>3, <1>5 DEF Abs
      <4>2. r = S * 0 + r
        BY <1>3, <1>8
      <4>3. lr = r
        <5>1. r % S = r
          BY <1>3, <1>8, <4>1, <4>2, Divides
        <5> QED BY <1>9, <5>1 DEF Low, S
      <4> QED BY <2>4, <3>1, <4>3 DEF RemainderRead, S
    <3>2. CASE kind = "Divs"
      <4>1. -H <= r /\ r < H
        <5>1. Abs(r) < Abs(s)
          BY <1>8 DEF Inverted
        <5> QED BY <1>3, <1>5, <1>7, <1>8, <3>2, <5>1 DEF Abs
      <4>2. Signed(r, Word) = r
        BY <1>3, <1>8, <4>1, SignedRange DEF H
      <4>3. Signed(lr, Word) = Signed(r, Word)
        BY <1>3, <1>8, <1>9, SignedLow
      <4> QED BY <2>4, <3>2, <4>2, <4>3 DEF RemainderRead, S
    <3> QED BY <3>1, <3>2
  <2> QED BY <1>8, <1>9, <2>2, <2>5, <2>6, <2>7 DEF Inverts
<1>13. ASSUME ~fits PROVE v.sr.v = 1 /\ NoQuotient(kind, s, d)
  <2>1. v.sr = no
    BY <1>2, <1>13
  <2>2. v.sr.v = 1
    BY <2>1 DEF StatusRegisters
  <2>3. ASSUME NEW p \in Quotients(kind), Abs(d - p * s) < Abs(s), SameSign(d - p * s, d)
        PROVE  FALSE
    <3> DEFINE t == d - p * s
    <3>1. p \in Int
      <4>1. CASE kind = "Divs"
        <5>1. p \in -(S \div 2) .. S \div 2 - 1
          BY <2>3, <4>1 DEF Quotients, S
        <5> QED BY <5>1
      <4>2. CASE kind = "Divu"
        BY <2>3, <4>2, ValuesWiden DEF Quotients
      <4> QED BY <4>1, <4>2
    <3>2. t \in Int /\ p * s + t = d
      <4> DEFINE x == p * s
      <4>1. x \in Int
        BY <1>5, <3>1
      <4> HIDE DEF x
      <4>2. d - x \in Int /\ x + (d - x) = d
        BY <1>5, <4>1
      <4> QED BY <4>2 DEF x
    <3>3. Inverted(d, s, p, t)
      BY <2>3, <3>2 DEF Inverted
    <3> HIDE DEF t
    <3>4. p = q
      BY <1>5, <1>8, <3>1, <3>2, <3>3, OneQuotient
    <3>5. CASE kind = "Divu"
      <4>1. 0 <= q /\ q < S
        <5>1. p \in Values(Word)
          BY <3>5 DEF Quotients
        <5> QED BY <1>3, <3>1, <3>4, <5>1 DEF Values, S
      <4>2. q = S * 0 + q
        BY <1>3, <1>8
      <4>3. q % S = q
        BY <1>3, <1>8, <4>1, <4>2, Divides
      <4>4. lq = q
        BY <1>9, <4>3 DEF Low, S
      <4> QED BY <1>9, <1>13, <3>5, <4>4
    <3>6. CASE kind = "Divs"
      <4>1. p \in -(S \div 2) .. S \div 2 - 1
        BY <2>3, <3>6 DEF Quotients, S
      <4>2. -H <= q /\ q < H
        BY <1>3, <3>4, <4>1
      <4>3. q = Signed(q, Word)
        BY <1>3, <1>8, <4>2, SignedRange DEF H
      <4> QED BY <1>9, <1>13, <3>6, <4>3
    <3> QED BY <3>5, <3>6
  <2> QED BY <2>2, <2>3 DEF NoQuotient
<1>14. v.fits = fits /\ v.value = value
  BY <1>2
<1> QED BY <1>9, <1>12, <1>13, <1>14 DEF DivideGives

(* A division on registers: it crashes, or divides.                        *)
Dividing(kind, x, n, word, r) ==
    LET s == ReadAs(kind, word, Word)
        d == ReadAs(kind, x.d[n], Long)
    IN  IF r.status = "crash"
        THEN s = -1 /\ d = -(Span(Long) \div 2)
        ELSE IF r.sr.v = 1
        THEN r.d = x.d /\ NoQuotient(kind, s, d)
        ELSE Inverts(kind, s, d, r.d[n], r.sr)

(* DIVU and DIVS on data registers store what Divide gives, leave the      *)
(* register alone when the quotient does not fit, and crash on the least   *)
(* long by -1 only.                                                        *)
LEMMA DivOnRegisters ==
    ASSUME EightBits, NEW D, NEW m \in Machines(D), Ok(m), NEW i, WellFormed(i), i.kind \in {"Divu", "Divs"},
           i["src"].kind = "DataRegister", i["dst"].kind = "DataRegister",
           InRegister(m, i["src"], Word) # 0, NEW r, r = ExecDiv(m, i)
    PROVE  Dividing(i.kind, m, i["dst"].index, InRegister(m, i["src"], Word), r)
<1> DEFINE p == try_decrement_address(m, i, "src")
           q == try_decrement_address(p, i, "dst")
           s == OperandValue(p, i["src"], Word)
           d == OperandValue(q, i["dst"], Long)
           super == [q EXCEPT !.sr.s = 1]
           framed == push_stack(push_stack(super, Long, q.pc), Word, SrWord(super.sr))
           e == [framed EXCEPT !.pc = Fetch(framed, 4 * DivisionByZeroVector, Long)]
           zero == IF Mapped(framed, 4 * DivisionByZeroVector, Long)
                   THEN [e EXCEPT !.sr.n = 0, !.sr.z = 0, !.sr.v = 0, !.sr.c = 0] ELSE Fail(framed)
           v == Divide(i.kind, q.sr, s, d)
           value == v.value
           w == Write(q, i, "dst", Long, value)
           n == i["dst"].index
<1>0. "src" \in Roles \cap DOMAIN i /\ "dst" \in Roles \cap DOMAIN i /\ i["src"] \in Targets /\ i["dst"] \in Targets
      /\ Word \in Sizes /\ Long \in Sizes
  BY Operands DEF UsesSrc, UsesDst, UsesBoth, Roles, Shifts, Sizes
<1>1. r = IF Accessible(p, i["src"], Word)
          THEN IF Accessible(q, i["dst"], Long)
               THEN IF s = 0 THEN zero
                    ELSE IF i.kind = "Divs" /\ Signed(s, Word) = -1 /\ d = Span(Long) \div 2
                         THEN [q EXCEPT !.status = "crash"]
                         ELSE IF v.fits THEN Then(w, v.sr) ELSE [q EXCEPT !.sr = v.sr]
               ELSE Fail(q)
          ELSE Fail(p)
  BY Zenon DEF ExecDiv, Read, Exception
<1>2. p = try_decrement_address(m, i, "src") /\ q = try_decrement_address(p, i, "dst")
      /\ v = Divide(i.kind, q.sr, s, d) /\ w = Write(q, i, "dst", Long, value) /\ value = v.value /\ n = i["dst"].index
  OBVIOUS
<1> HIDE DEF p, q, zero, w, v, value
<1>3. p \in Machines(D) /\ p.d = m.d /\ p.sr = m.sr /\ p.status = m.status
      /\ Accessible(p, i["src"], Word) /\ s = InRegister(m, i["src"], Word)
  <2>1. SameRegisters(D, m, p) /\ ReadsRegister(m, i["src"], p)
    BY <1>0, <1>2, RegisterRead DEF IsRegister
  <2> QED BY <2>1 DEF SameRegisters, ReadsRegister
<1>4. q \in Machines(D) /\ q.d = m.d /\ q.status = "ok" /\ Accessible(q, i["dst"], Long)
      /\ d = InRegister(p, i["dst"], Long)
  <2>1. SameRegisters(D, p, q) /\ ReadsRegister(p, i["dst"], q)
    BY <1>0, <1>2, <1>3, RegisterRead DEF IsRegister
  <2> QED BY <1>3, <2>1 DEF SameRegisters, ReadsRegister, Ok
<1>5. n \in 0 .. 7 /\ m.d[n] \in Values(Long) /\ d = m.d[n]
  <2>1. n \in 0 .. 7
    BY <1>0, TargetIn DEF IsRegister
  <2>2. m.d[n] \in Values(Long)
    BY <2>1, RegisterIn
  <2>3. d = Low(m.d[n], Long)
    BY <1>3, <1>4 DEF InRegister
  <2> QED BY <2>1, <2>2, <2>3, LowKeeps
<1>6. s \in Values(Word) /\ s # 0
  BY <1>0, <1>3, InRegisterIn DEF IsRegister
<1> DEFINE a == ReadAs(i.kind, s, Word)
           b == ReadAs(i.kind, d, Long)
<1>7. a = ReadAs(i.kind, s, Word) /\ b = ReadAs(i.kind, d, Long)
  OBVIOUS
<1> HIDE DEF s, d, a, b, n
<1>8. CASE i.kind = "Divs" /\ Signed(s, Word) = -1 /\ d = Span(Long) \div 2
  <2>1. r = [q EXCEPT !.status = "crash"]
    BY <1>1, <1>3, <1>4, <1>6, <1>8
  <2>2. r.status = "crash"
    BY <1>4, <2>1 DEF Machines
  <2>3. a = -1
    BY <1>7, <1>8 DEF ReadAs
  <2>4. b = -(Span(Long) \div 2)
    <3> DEFINE S == Span(Long)
               H == Half(Long)
    <3>1. S \in Nat \ {0} /\ H \in Nat \ {0} /\ S = 2 * H
      BY <1>0, HalfIs
    <3>2. b = Signed(d, Long)
      BY <1>7, <1>8 DEF ReadAs
    <3>3. b = IF d < H THEN d ELSE d - S
      BY <1>0, <1>5, <3>2, SignedIs
    <3> HIDE DEF S, H
    <3>4. d = S \div 2
      BY <1>8 DEF S
    <3>5. d = H /\ b = -H
      BY <3>1, <3>3, <3>4
    <3> QED BY <3>4, <3>5 DEF S
  <2> QED BY <1>3, <1>5, <1>7, <2>2, <2>3, <2>4 DEF Dividing, n
<1>9. CASE ~(i.kind = "Divs" /\ Signed(s, Word) = -1 /\ d = Span(Long) \div 2)
  <2>1. r = IF v.fits THEN Then(w, v.sr) ELSE [q EXCEPT !.sr = v.sr]
    BY <1>1, <1>3, <1>4, <1>6, <1>9
  <2>2. q.sr \in StatusRegisters
    BY <1>4 DEF Machines
  <2>3. DivideGives(i.kind, a, b, v)
    BY <1>2, <1>5, <1>6, <1>7, <2>2, DivideInverts
  <2>4. CASE v.fits
    <3>1. value \in Values(Long) /\ v.sr.v = 0 /\ Inverts(i.kind, a, b, value, v.sr)
      BY <1>2, <2>3, <2>4 DEF DivideGives
    <3> DEFINE new == Replaced(q.d[n], value, Long)
    <3>2. StoresIn(q, n, new, w)
      BY <1>0, <1>2, <1>4, RegisterWritten
    <3>3. new = value
      <4>1. Low(value, Long) = value /\ Low(q.d[n], Long) = q.d[n] /\ q.d[n] \in Values(Long)
        BY <1>4, <1>5, <3>1, LowKeeps
      <4>2. q.d[n] \in Int /\ value \in Int
        BY <3>1, <4>1, ValuesWiden
      <4> QED BY <4>1, <4>2 DEF Replaced
    <3> HIDE DEF new
    <3>4. w.status = "ok" /\ DOMAIN w = DOMAIN q /\ w.d = [q.d EXCEPT ![n] = value]
      BY <1>4, <3>2, <3>3 DEF StoresIn
    <3>5. r = [w EXCEPT !.sr = v.sr]
      BY <2>1, <2>4, <3>4 DEF Then, Ok
    <3>6. "sr" \in DOMAIN w /\ "d" \in DOMAIN w /\ "status" \in DOMAIN w
      BY <1>4, <3>4 DEF Machines
    <3>7. r.sr = v.sr /\ r.d = w.d /\ r.status = w.status
      BY <3>5, <3>6
    <3>8. w.d[n] = value
      <4>1. n \in DOMAIN q.d
        BY <1>4, <1>5 DEF Machines
      <4> QED BY <3>4, <4>1
    <3> QED BY <1>3, <1>5, <1>7, <3>1, <3>4, <3>7, <3>8 DEF Dividing, n
  <2>5. CASE ~v.fits
    <3>1. v.sr.v = 1 /\ NoQuotient(i.kind, a, b)
      BY <2>3, <2>5 DEF DivideGives
    <3>2. r = [q EXCEPT !.sr = v.sr]
      BY <2>1, <2>5
    <3>3. r.sr = v.sr /\ r.d = q.d /\ r.status = q.status
      BY <1>4, <3>2 DEF Machines
    <3> QED BY <1>3, <1>4, <1>5, <1>7, <3>1, <3>3 DEF Dividing, n
  <2> QED BY <2>4, <2>5
<1> QED BY <1>8, <1>9

(* What was executed of the trace divides.                                 *)
LEMMA DivisionInvertsNow == ASSUME EightBits, Trace PROVE DivisionInverts
<1>1. ASSUME NEW k \in Executed, program[k].kind \in {"Divs", "Divu"}, BothInRegisters(program[k]),
             InRegister(Before(k), program[k]["src"], Word) # 0
      PROVE  Dividing(program[k].kind, Before(k), program[k]["dst"].index,
                      InRegister(Before(k), program[k]["src"], Word), After(k))
  <2> DEFINE i == program[k]
             m == Before(k)
             r == After(k)
             f == Forget(m)
             done == Perform(f, i)
             D == DOMAIN machine.mem
  <2>1. WellFormed(i) /\ m \in Machines(D) /\ Ok(m) /\ r = Execute(m, i)
    BY DEF Trace, Executes1, Executed
  <2>2. i.kind \in {"Divs", "Divu"} /\ f = Forget(m) /\ done = Perform(f, i) /\ InRegister(m, i["src"], Word) # 0
    BY <1>1
  <2>3. i["src"].kind = "DataRegister" /\ i["dst"].kind = "DataRegister"
    BY <1>1 DEF BothInRegisters
  <2> HIDE DEF i, m, r, f, done, D
  <2>4. \A role \in Roles \cap DOMAIN i : i[role].kind # "AddressIncrement"
    BY <2>3 DEF Roles
  <2>5. f \in Machines(D) /\ f.d = m.d /\ Ok(f) /\ r.d = done.d /\ r.sr = done.sr /\ r.status = done.status
    BY <2>1, <2>2, <2>4, EndsOnRegisters
  <2>6. InRegister(f, i["src"], Word) = InRegister(m, i["src"], Word)
    BY <2>3, <2>5 DEF InRegister
  <2>7. done = ExecDiv(f, i)
    BY <2>2, Zenon DEF Perform, BinaryKinds, AddressKinds, QuickKinds, ExtendKinds, UnaryKinds, ToCcrKinds, ToSrKinds, Shifts, BitKinds
  <2>8. Dividing(i.kind, f, i["dst"].index, InRegister(f, i["src"], Word), done)
    BY <2>1, <2>2, <2>3, <2>5, <2>6, <2>7, DivOnRegisters
  <2>9. Dividing(i.kind, m, i["dst"].index, InRegister(m, i["src"], Word), r)
    BY <2>5, <2>6, <2>8 DEF Dividing
  <2> QED BY <2>9 DEF i, m, r
<1>2. \A k \in Executed :
         program[k].kind \in {"Divs", "Divu"} /\ BothInRegisters(program[k])
             /\ InRegister(Before(k), program[k]["src"], Word) # 0 =>
         Dividing(program[k].kind, Before(k), program[k]["dst"].index,
                  InRegister(Before(k), program[k]["src"], Word), After(k))
  BY <1>1
<1> QED
  BY <1>2, ZenonT(30) DEF DivisionInverts, Dividing, Inverts, Inverted, NoQuotient, ReadAs, QuotientRead, RemainderRead, Quotients

(* A quotient and a remainder that are written give the dividend back, the *)
(* remainder is smaller than the divisor and has the dividend's sign; V is *)
(* set, and the register kept, only when no quotient of a word exists;     *)
(* only DIVS of the least long by -1 crashes.                              *)
THEOREM Dividable == EightBits => (Spec => []DivisionInverts)
<1> SUFFICES ASSUME EightBits PROVE Spec => []DivisionInverts
  OBVIOUS
<1>1. Trace => DivisionInverts
  BY DivisionInvertsNow
<1> QED BY <1>1, Tracing, PTL

-----------------------------------------------------------------------------
(***************************************************************************)
(* Shifts: one invariant for the turns to the left, one for the turns to   *)
(* the right.                                                              *)
(***************************************************************************)

(* The powers of two, one step.                                            *)
Doubling(n) == 2 ^ n \in Nat \ {0} /\ 2 ^ (n + 1) = 2 * 2 ^ n

(* The powers of two up to one more than a long has bits: each is twice    *)
(* the one before.                                                         *)
LEMMA Doubles == \A n \in 0 .. 32 : Doubling(n)
<1>1. /\ Doubling(0) /\ Doubling(1) /\ Doubling(2) /\ Doubling(3) /\ Doubling(4) /\ Doubling(5) /\ Doubling(6)
      /\ Doubling(7) /\ Doubling(8) /\ Doubling(9) /\ Doubling(10) /\ Doubling(11) /\ Doubling(12)
  BY SMT DEF Doubling
<1>2. /\ Doubling(13) /\ Doubling(14) /\ Doubling(15) /\ Doubling(16) /\ Doubling(17) /\ Doubling(18)
      /\ Doubling(19) /\ Doubling(20) /\ Doubling(21) /\ Doubling(22) /\ Doubling(23)
  BY SMT DEF Doubling
<1>3. /\ Doubling(24) /\ Doubling(25) /\ Doubling(26) /\ Doubling(27) /\ Doubling(28) /\ Doubling(29)
      /\ Doubling(30) /\ Doubling(31) /\ Doubling(32)
  BY SMT DEF Doubling
<1> QED BY <1>1, <1>2, <1>3, SMT

(* Every value of a size is shifted out after as many turns as the size    *)
(* has bits.                                                               *)
LEMMA SpanPower ==
    ASSUME EightBits, NEW size \in Sizes
    PROVE  /\ 2 ^ 0 = 1 /\ 2 ^ bit_count(size) = Span(size) /\ bit_count(size) \in {8, 16, 32}
BY SpanValues, SMT DEF Span, Sizes

(* Halving a quotient is dividing by twice the divisor.                    *)
LEMMA HalvedAgain ==
    ASSUME NEW v \in Int, NEW p \in Nat \ {0}, NEW q, q = v \div p
    PROVE  q \in Int /\ v \div (2 * p) = q \div 2
<1> DEFINE r == v % p
           a == q \div 2
           b == q % 2
<1>1. r = v % p /\ a = q \div 2 /\ b = q % 2
  OBVIOUS
<1> HIDE DEF r, a, b
<1>2. v = p * q + r /\ q \in Int /\ r \in Int /\ 0 <= r /\ r < p
  <2>1. q = v \div p /\ r = v % p
    BY <1>1
  <2> QED BY <2>1, Divided
<1>3. q = 2 * a + b /\ a \in Int /\ b \in {0, 1}
  BY <1>1, <1>2
<1> DEFINE n == 2 * p
           s == IF b = 1 THEN p + r ELSE r
<1>4. v = n * a + s
  <2>1. p * q = p * (2 * a) + p * b
    BY <1>2, <1>3
  <2>2. p * (2 * a) = n * a
    BY <1>2, <1>3
  <2>3. p * b = IF b = 1 THEN p ELSE 0
    BY <1>3
  <2>4. n * a \in Int
    BY <1>3
  <2> HIDE DEF n
  <2> QED BY <1>2, <1>3, <2>1, <2>2, <2>3, <2>4
<1>5. n \in Nat \ {0} /\ s \in Int /\ 0 <= s /\ s < n
  BY <1>2, <1>3
<1> HIDE DEF n, s
<1>6. v \div n = a
  BY <1>3, <1>4, <1>5, Divides
<1> QED BY <1>1, <1>2, <1>6 DEF n

(* Numbers that differ by a multiple of the span have the same low bits.   *)
LEMMA LowModulo ==
    ASSUME EightBits, NEW size \in Sizes, NEW v \in Int, NEW m \in Int, NEW w, w = v + Span(size) * m
    PROVE  w \in Int /\ Low(w, size) = Low(v, size)
<1> DEFINE S == Span(size)
           k == v \div S
           l == Low(v, size)
           g == k + m
<1>1. S \in Nat \ {0}
  BY HalfIs
<1>2. l = v % S /\ k = v \div S
  BY DEF Low
<1>3. w = v + S * m /\ Low(w, size) = w % S
  BY DEF Low
<1> HIDE DEF S, l, k
<1>4. v = S * k + l /\ k \in Int /\ l \in Int /\ 0 <= l /\ l < S
  <2>1. k = v \div S /\ l = v % S
    BY <1>2
  <2> QED BY <1>1, <2>1, Divided
<1>5. w = S * g + l /\ g \in Int
  <2>1. S * g = S * k + S * m /\ S * k \in Int /\ S * m \in Int /\ g \in Int
    BY <1>1, <1>4
  <2> HIDE DEF g
  <2> QED BY <1>3, <1>4, <2>1
<1> HIDE DEF g
<1>6. w % S = l /\ w \in Int
  <2>1. l \in Int /\ 0 <= l /\ l < S
    BY <1>4
  <2>2. w % S = l
    BY <1>1, <1>5, <2>1, Divides
  <2>3. S * g \in Int
    BY <1>1, <1>5
  <2> QED BY <1>5, <2>1, <2>2, <2>3
<1> QED BY <1>3, <1>6 DEF l

(* A value is its top bit and the rest.                                    *)
LEMMA LowParts ==
    ASSUME EightBits, NEW size \in Sizes, NEW w \in Values(size)
    PROVE  \E a \in {0, 1}, b \in Int : w = Half(size) * a + b /\ 0 <= b /\ b < Half(size) /\ msb(w, size) = a
<1> DEFINE H == Half(size)
           a == w \div H
           b == w % H
<1>1. H \in Nat \ {0} /\ Span(size) = 2 * H
  BY HalfIs
<1>2. w \in Int /\ 0 <= w /\ w < Span(size)
  <2>1. Span(size) \in Int
    BY <1>1
  <2> QED BY <2>1 DEF Values
<1>3. a = w \div H /\ b = w % H /\ msb(w, size) = a % 2
  BY DEF msb, Half
<1> HIDE DEF H, a, b
<1>4. w = H * a + b /\ a \in Int /\ b \in Int /\ 0 <= b /\ b < H
  <2>1. a = w \div H /\ b = w % H
    BY <1>3
  <2>2. w \in Int /\ H \in Nat \ {0}
    BY <1>1, <1>2
  <2> QED BY <2>1, <2>2, Divided
<1>5. a \in {0, 1}
  <2>1. H * a < 2 * H /\ -H < H * a /\ H * a \in Int
    BY <1>1, <1>2, <1>4
  <2>2. ~(a >= 2)
    <3>1. a >= 2 => H * a >= H * 2
      BY <1>1, <1>4
    <3> QED BY <1>1, <2>1, <3>1
  <2>3. ~(a <= -1)
    <3>1. a <= -1 => H * a <= H * (-1)
      BY <1>1, <1>4
    <3> QED BY <1>1, <2>1, <3>1
  <2> QED BY <1>4, <2>2, <2>3
<1>6. a % 2 = a
  BY <1>5
<1> QED BY <1>3, <1>4, <1>5, <1>6 DEF H

(* Doubling commutes with truncation, and the bit that falls out is the    *)
(* top bit of the truncated number.                                        *)
LEMMA DoubledLow ==
    ASSUME EightBits, NEW size \in Sizes, NEW p \in Int, NEW w, w = Low(p, size)
    PROVE  Low(2 * w, size) = Low(2 * p, size) /\ ((2 * p) \div Span(size)) % 2 = msb(w, size)
<1> DEFINE S == Span(size)
           H == Half(size)
           q == p \div S
<1>1. S \in Nat \ {0} /\ H \in Nat \ {0} /\ S = 2 * H
  BY HalfIs
<1>2. w = p % S /\ w \in Values(size)
  BY LowIn DEF Low
<1>3. PICK a \in {0, 1}, b \in Int : w = H * a + b /\ 0 <= b /\ b < H /\ msb(w, size) = a
  BY <1>2, LowParts
<1> HIDE DEF S, H
<1>4. p = S * q + w /\ q \in Int /\ w \in Int
  <2>1. q = p \div S /\ w = p % S
    BY <1>2
  <2> HIDE DEF q
  <2> QED BY <1>1, <2>1, Divided
<1> HIDE DEF q
<1> DEFINE g == 2 * q + a
           c == 2 * b
<1>5. 2 * p = S * g + c /\ 2 * w = S * a + c
  <2>1. S * g = 2 * (S * q) + S * a /\ S * q \in Int /\ S * a = 2 * (H * a) /\ H * a \in Int /\ S * a \in Int
    <3>1. a \in Int
      BY <1>3
    <3> QED BY <1>1, <1>4, <3>1
  <2> HIDE DEF g
  <2> QED BY <1>3, <1>4, <2>1
<1>6. g \in Int /\ g % 2 = a /\ c \in Int /\ 0 <= c /\ c < S
  BY <1>1, <1>3, <1>4
<1> HIDE DEF g, c
<1>7. (2 * p) % S = c /\ (2 * p) \div S = g
  BY <1>1, <1>5, <1>6, Divides, ZenonT(30)
<1>8. (2 * w) % S = c
  <2>1. a \in Int
    BY <1>3
  <2> QED BY <1>1, <1>5, <1>6, <2>1, Divides
<1> QED BY <1>3, <1>6, <1>7, <1>8 DEF Low, S

(* The range of the signed numbers of a size.                              *)
Fits(x, size) == -Half(size) <= x /\ x < Half(size)

(* A number fits a size, as a signed one, exactly when sign extending its  *)
(* low bits gives it back.                                                 *)
LEMMA FitsIs ==
    ASSUME EightBits, NEW size \in Sizes, NEW x \in Int
    PROVE  Fits(x, size) <=> x = Signed(Low(x, size), size)
BY SignedLow, SignedRange DEF Fits

(* The top bit of a number is the top bit of what truncation leaves.       *)
LEMMA MsbOfLow ==
    ASSUME EightBits, NEW size \in Sizes, NEW v \in Int
    PROVE  msb(Low(v, size), size) = msb(v, size)
<1> DEFINE S == Span(size)
           l == Low(v, size)
           a == msb(v, size)
           b == msb(l, size)
<1>1. S \in Nat \ {0}
  BY HalfIs
<1>2. l \in Values(size) /\ Signed(v, size) = Signed(l, size)
  BY SignedLow
<1>3. l \in Int /\ 0 <= l /\ l < S /\ -S <= l
  BY <1>1, <1>2 DEF Values
<1>4. Low(l, size) = l
  <2> DEFINE k == l
  <2>1. k \in Int /\ -Span(size) <= k /\ k < Span(size) /\ 0 <= k
    BY <1>3
  <2> HIDE DEF k
  <2>2. Low(k, size) = k
    BY <2>1, LowIs
  <2> QED BY <2>2 DEF k
<1>5. a \in {0, 1} /\ b \in {0, 1}
  <2>1. a \in Bit /\ b \in Bit
    BY <1>3, MsbIn
  <2> QED BY <2>1 DEF Bit
<1>6. l - a * S = l - b * S
  <2>1. Signed(v, size) = l - a * S
    BY DEF Signed
  <2>2. Signed(l, size) = l - b * S
    BY <1>4 DEF Signed
  <2> QED BY <1>2, <2>1, <2>2
<1> HIDE DEF S, l, a, b
<1>7. a = b
  BY <1>1, <1>3, <1>5, <1>6
<1> QED BY <1>7 DEF a, b, l

(* Once a number does not fit, doubling it never fits again; until then    *)
(* doubling leaves the range exactly when the sign bit changes: the reason *)
(* why ASL may set V turn by turn.                                         *)
LEMMA DoubledSign ==
    ASSUME EightBits, NEW size \in Sizes, NEW x \in Int, NEW w, w = Low(x, size), NEW c \in BOOLEAN, c <=> ~Fits(x, size)
    PROVE  (c \/ msb(Low(2 * w, size), size) # msb(w, size)) <=> ~Fits(2 * x, size)
<1> DEFINE H == Half(size)
           a == msb(w, size)
           b == msb(Low(2 * w, size), size)
<1>1. H \in Nat \ {0} /\ Span(size) = 2 * H
  BY HalfIs
<1>2. a = msb(x, size) /\ b = msb(2 * x, size)
  <2>1. Low(2 * w, size) = Low(2 * x, size)
    BY DoubledLow
  <2>2. 2 * x \in Int
    OBVIOUS
  <2> QED BY <2>1, <2>2, MsbOfLow
<1> HIDE DEF a, b
<1>3. ASSUME Fits(x, size) PROVE a # b <=> ~Fits(2 * x, size)
  <2>1. -H <= x /\ x < H
    BY <1>3 DEF Fits
  <2> DEFINE y == 2 * x
  <2>2. y = 2 * x /\ y \in Int /\ -Span(size) <= y /\ y < Span(size)
    BY <1>1, <2>1
  <2> HIDE DEF y
  <2>3. b \in {0, 1} /\ (b = 0 <=> (0 <= y /\ y < H) \/ y < -H)
    BY <1>2, <2>2, MsbIs
  <2>4. a \in {0, 1} /\ (a = 0 <=> (0 <= x /\ x < H) \/ x < -H)
    <3>1. -Span(size) <= x /\ x < Span(size)
      BY <1>1, <2>1
    <3> QED BY <1>2, <3>1, MsbIs
  <2>5. Fits(y, size) <=> -H <= y /\ y < H
    BY DEF Fits
  <2> HIDE DEF H
  <2>6. a # b <=> ~(-H <= y /\ y < H)
    BY <1>1, <2>1, <2>2, <2>3, <2>4
  <2> QED BY <2>2, <2>5, <2>6
<1>4. ASSUME ~Fits(x, size) PROVE ~Fits(2 * x, size)
  BY <1>1, <1>4 DEF Fits
<1> QED BY <1>3, <1>4 DEF a, b

(* A left shift under way: the operand was multiplied by p, and `changed'  *)
(* says that the signed product does not fit.                              *)
Doubled(kind, size, value, p, s) ==
    /\ s.value = Low(value * p, size)
    /\ kind = "Asl" => (s.changed <=> ~Fits(Signed(value, size) * p, size))

(* One turn of ASL or LSL, written out.                                    *)
LEMMA LeftTurnIs ==
    ASSUME NEW kind \in {"Asl", "Lsl"}, NEW size, NEW j, NEW s, NEW t, t = ShiftOnce(kind, size, j, s)
    PROVE  /\ t.value = Low(2 * s.value + 0, size) /\ t.last = msb(s.value, size)
           /\ t.changed = (s.changed \/ msb(t.value, size) # msb(s.value, size))
<1> DEFINE out == msb(s.value, size)
           next == Low(2 * s.value + 0, size)
           changed == s.changed \/ msb(next, size) # msb(s.value, size)
<1>1. t = [value |-> next, last |-> out, x |-> s.x, changed |-> changed]
  <2>1. kind \in LeftShifts /\ kind \notin {"Rol", "Ror"} /\ kind \notin {"Roxl", "Roxr"} /\ kind # "Asr"
    BY DEF LeftShifts
  <2> QED BY <2>1, Zenon DEF ShiftOnce
<1> HIDE DEF out, next, changed
<1>2. t.value = next /\ t.last = out /\ t.changed = changed
  BY <1>1
<1>3. changed = (s.changed \/ msb(next, size) # msb(s.value, size))
  BY DEF changed
<1> QED BY <1>2, <1>3 DEF out, next

(* A signed value differs from the unsigned one by nothing or by the span. *)
LEMMA SignedPart ==
    ASSUME EightBits, NEW size \in Sizes, NEW value \in Values(size)
    PROVE  \E m \in {-1, 0} : Signed(value, size) = value + Span(size) * m
<1>1. value \in Int /\ Span(size) \in Int
  <2>1. Span(size) \in Int
    BY HalfIs
  <2> QED BY <2>1 DEF Values
<1>2. Signed(value, size) = value + Span(size) * 0 \/ Signed(value, size) = value + Span(size) * (-1)
  BY <1>1, SignedIs
<1> QED BY <1>2

(* Sign extension keeps the low bits of a product.                         *)
LEMMA SignedTimes ==
    ASSUME EightBits, NEW size \in Sizes, NEW value \in Values(size), NEW p \in Int
    PROVE  Signed(value, size) * p \in Int /\ Low(Signed(value, size) * p, size) = Low(value * p, size)
<1> DEFINE S == Span(size)
           x == Signed(value, size)
<1>1. PICK m \in {-1, 0} : x = value + S * m
  BY SignedPart
<1>2. S \in Int /\ value \in Int
  <2>1. Span(size) \in Int
    BY HalfIs
  <2> QED BY <2>1 DEF Values
<1>3. S = Span(size)
  OBVIOUS
<1> HIDE DEF S, x
<1> DEFINE y == x * p
           z == value * p
           g == m * p
<1>4. y = z + S * g
  BY <1>1, <1>2
<1>5. z \in Int /\ g \in Int /\ y = x * p /\ z = value * p
  BY <1>2
<1> HIDE DEF y, z, g
<1>6. y \in Int /\ Low(y, size) = Low(z, size)
  BY <1>3, <1>4, <1>5, LowModulo
<1> QED BY <1>5, <1>6 DEF x

(* A turn of a left shift doubles the number it stands for.                *)
LEMMA LeftTurn ==
    ASSUME EightBits, NEW kind \in {"Asl", "Lsl"}, NEW size \in Sizes, NEW value \in Values(size), NEW p \in Nat \ {0},
           NEW s \in Shifted, Doubled(kind, size, value, p, s), NEW j, NEW t, t = ShiftOnce(kind, size, j, s)
    PROVE  /\ Doubled(kind, size, value, 2 * p, t)
           /\ t.last = ((value * (2 * p)) \div Span(size)) % 2
<1> DEFINE w == s.value
           y == value * p
           x == Signed(value, size) * p
<1>1. value \in Int /\ y \in Int /\ value * (2 * p) = 2 * y
  <2>1. Span(size) \in Int
    BY HalfIs
  <2>2. value \in Int
    BY <2>1 DEF Values
  <2> QED BY <2>2
<1>2. w = Low(y, size) /\ w \in Int
  BY DEF Doubled, Shifted
<1>3. t.value = Low(2 * w, size) /\ t.last = msb(w, size)
      /\ t.changed = (s.changed \/ msb(t.value, size) # msb(w, size))
  <2>1. 2 * w + 0 = 2 * w
    BY <1>2
  <2> QED BY <2>1, LeftTurnIs
<1>4. x \in Int /\ Low(x, size) = w /\ Signed(value, size) * (2 * p) = 2 * x
  <2>1. x \in Int /\ Low(x, size) = w
    BY <1>2, SignedTimes
  <2>2. Signed(value, size) \in Int
    <3>1. PICK m \in {-1, 0} : Signed(value, size) = value + Span(size) * m
      BY SignedPart
    <3>2. Span(size) \in Int
      BY HalfIs
    <3> QED BY <1>1, <3>1, <3>2
  <2> QED BY <2>1, <2>2
<1>5. kind = "Asl" => (s.changed <=> ~Fits(x, size))
  BY DEF Doubled
<1>6. s.changed \in BOOLEAN
  BY DEF Shifted
<1> HIDE DEF w, y, x
<1>7. Low(2 * w, size) = Low(2 * y, size) /\ ((2 * y) \div Span(size)) % 2 = msb(w, size)
  BY <1>1, <1>2, DoubledLow
<1>8. kind = "Asl" => (t.changed <=> ~Fits(2 * x, size))
  BY <1>3, <1>4, <1>5, <1>6, DoubledSign
<1> QED BY <1>1, <1>3, <1>4, <1>7, <1>8 DEF Doubled

(* A turn of a left shift after everything was shifted out changes         *)
(* nothing.                                                                *)
LEMMA LeftEmpty ==
    ASSUME EightBits, NEW kind \in {"Asl", "Lsl"}, NEW size \in Sizes, NEW value \in Values(size), NEW p, p = 2 * Span(size),
           NEW s \in Shifted, Doubled(kind, size, value, p, s), NEW j, NEW t, t = ShiftOnce(kind, size, j, s)
    PROVE  /\ Doubled(kind, size, value, p, t)
           /\ t.last = ((value * p) \div Span(size)) % 2
<1> DEFINE S == Span(size)
           y == value * p
           k == 2 * value
<1>1. S \in Nat \ {0} /\ value \in Int
  <2>1. Span(size) \in Nat \ {0}
    BY HalfIs
  <2> QED BY <2>1 DEF Values
<1>2. y = S * k + 0 /\ k \in Int /\ k % 2 = 0
  BY <1>1
<1>3. S = Span(size) /\ y = value * p
  OBVIOUS
<1> HIDE DEF S, y, k
<1>4. y % S = 0 /\ y \div S = k
  BY <1>1, <1>2, Divides
<1>5. s.value = 0
  BY <1>3, <1>4 DEF Doubled, Low
<1>6. Low(0, size) = 0 /\ msb(0, size) = 0
  <2>1. 0 \in Int /\ -S <= 0 /\ 0 < S
    BY <1>1
  <2>2. Half(size) \in Nat \ {0}
    BY HalfIs
  <2>3. Low(0, size) = 0
    BY <1>3, <2>1, LowIs
  <2>4. msb(0, size) = 0 <=> (0 <= 0 /\ 0 < Half(size)) \/ 0 < -Half(size)
    BY <1>3, <2>1, MsbIs
  <2> QED BY <2>2, <2>3, <2>4
<1>7. t.value = 0 /\ t.last = 0 /\ t.changed = (s.changed \/ msb(t.value, size) # 0)
  <2>1. 2 * s.value + 0 = 0
    BY <1>5
  <2> QED BY <1>5, <1>6, <2>1, LeftTurnIs
<1>8. t.changed = s.changed
  <2>1. s.changed \in BOOLEAN
    BY DEF Shifted
  <2> QED BY <1>6, <1>7, <2>1
<1> QED BY <1>2, <1>3, <1>4, <1>5, <1>7, <1>8 DEF Doubled

(* The turns that count: after one more than the size has bits nothing     *)
(* changes.                                                                *)
Counted(k, size) == IF k <= bit_count(size) THEN k ELSE bit_count(size) + 1

(* A left shift after k turns.                                             *)
LeftRun(kind, size, value, k, s) ==
    /\ Doubled(kind, size, value, 2 ^ Counted(k, size), s)
    /\ k > 0 => s.last = ((value * 2 ^ Counted(k, size)) \div Span(size)) % 2

(* The loop invariant of ASL and LSL: after k turns the value is the       *)
(* operand times the k-th power of two, the last bit out is the one above  *)
(* the size, and the change of sign is remembered.                         *)
LEMMA LeftRuns ==
    ASSUME EightBits, NEW kind \in {"Asl", "Lsl"}, NEW size \in Sizes, NEW count \in Nat, NEW value \in Values(size),
           NEW sr, NEW u, Turns(u, kind, size, count, value, sr)
    PROVE  \A k \in 0 .. count : LeftRun(kind, size, value, k, u[k])
<1> DEFINE W == bit_count(size)
           Good == {q \in (0 .. count) \X Shifted : LeftRun(kind, size, value, q[1], q[2])}
           f == [k \in 0 .. count |-> <<k, u[k]>>]
<1>1. W \in {8, 16, 32} /\ 2 ^ 0 = 1 /\ 2 ^ W = Span(size)
  BY SpanPower
<1>2. /\ u[0] = [value |-> value, last |-> 0, x |-> sr.x, changed |-> FALSE]
      /\ \A k \in 1 .. count : u[k] = ShiftOnce(kind, size, k - 1, u[k - 1])
      /\ \A k \in 0 .. count : u[k] \in Shifted
  BY DEF Turns
<1>3. f[0] \in Good
  <2>1. Counted(0, size) = 0
    BY <1>1 DEF Counted
  <2>2. value \in Int /\ value * 1 = value /\ Low(value, size) = value
    <3>1. Span(size) \in Nat \ {0}
      BY HalfIs
    <3>2. value \in Int /\ 0 <= value /\ value < Span(size) /\ -Span(size) <= value
      BY <3>1 DEF Values
    <3> QED BY <3>2, LowIs
  <2>3. Fits(Signed(value, size) * 1, size)
    <3>1. Signed(value, size) \in Int
      BY SignedIn, <2>2
    <3>2. Signed(value, size) * 1 = Signed(value, size) /\ Signed(Signed(value, size), size) = Signed(value, size)
      <4> DEFINE x == Signed(value, size)
      <4>1. Low(x * 1, size) = Low(value * 1, size)
        BY SignedTimes
      <4>2. x * 1 = x
        BY <3>1
      <4>3. Signed(x, size) = Signed(Low(x, size), size)
        BY <3>1, SignedLow
      <4> HIDE DEF x
      <4>4. Signed(x, size) = Signed(value, size)
        BY <2>2, <4>1, <4>2, <4>3
      <4> QED BY <4>2, <4>4 DEF x
    <3> QED BY <3>1, <3>2, SignedRange DEF Fits
  <2>4. u[0].value = value /\ u[0].changed = FALSE
    BY <1>2
  <2>5. Doubled(kind, size, value, 2 ^ Counted(0, size), u[0])
    BY <1>1, <2>1, <2>2, <2>3, <2>4 DEF Doubled
  <2>6. LeftRun(kind, size, value, 0, u[0])
    BY <2>5 DEF LeftRun
  <2>7. 0 \in 0 .. count /\ u[0] \in Shifted
    BY <1>2
  <2> QED BY <2>6, <2>7
<1>4. ASSUME NEW k \in 1 .. count, f[k - 1] \in Good PROVE f[k] \in Good
  <2> DEFINE s == u[k - 1]
             t == u[k]
  <2>1. k - 1 \in 0 .. count /\ k \in 0 .. count /\ s \in Shifted /\ t \in Shifted
        /\ t = ShiftOnce(kind, size, k - 1, s) /\ LeftRun(kind, size, value, k - 1, s)
    BY <1>2, <1>4
  <2> HIDE DEF s, t
  <2>2. Doubled(kind, size, value, 2 ^ Counted(k - 1, size), s)
    BY <2>1 DEF LeftRun
  <2>3. CASE k <= W + 1
    <3>1. Counted(k - 1, size) = k - 1 /\ Counted(k, size) = k /\ k - 1 \in 0 .. 32
      BY <1>1, <2>3 DEF Counted
    <3>2. 2 ^ (k - 1) \in Nat \ {0} /\ 2 ^ ((k - 1) + 1) = 2 * 2 ^ (k - 1)
      BY <3>1, Doubles DEF Doubling
    <3>3. (k - 1) + 1 = k
      OBVIOUS
    <3>4. 2 ^ k = 2 * 2 ^ (k - 1)
      BY <3>2, <3>3
    <3>5. /\ Doubled(kind, size, value, 2 * 2 ^ (k - 1), t)
          /\ t.last = ((value * (2 * 2 ^ (k - 1))) \div Span(size)) % 2
      <4> DEFINE p == 2 ^ (k - 1)
      <4>1. p \in Nat \ {0} /\ Doubled(kind, size, value, p, s)
        BY <2>2, <3>1, <3>2
      <4> HIDE DEF p
      <4>2. Doubled(kind, size, value, 2 * p, t) /\ t.last = ((value * (2 * p)) \div Span(size)) % 2
        BY <2>1, <4>1, LeftTurn
      <4> QED BY <4>2 DEF p
    <3>6. LeftRun(kind, size, value, k, t)
      BY <3>1, <3>4, <3>5 DEF LeftRun
    <3> QED BY <2>1, <3>6 DEF t
  <2>4. CASE ~(k <= W + 1)
    <3>1. Counted(k - 1, size) = W + 1 /\ Counted(k, size) = W + 1 /\ W \in 0 .. 32
      BY <1>1, <2>4 DEF Counted
    <3>2. 2 ^ (W + 1) = 2 * Span(size)
      <4>1. 2 ^ (W + 1) = 2 * 2 ^ W
        BY <3>1, Doubles DEF Doubling
      <4> QED BY <1>1, <4>1
    <3>3. /\ Doubled(kind, size, value, 2 ^ (W + 1), t)
          /\ t.last = ((value * 2 ^ (W + 1)) \div Span(size)) % 2
      <4> DEFINE p == 2 ^ (W + 1)
      <4>1. p = 2 * Span(size) /\ Doubled(kind, size, value, p, s)
        BY <2>2, <3>1, <3>2
      <4> HIDE DEF p
      <4>2. Doubled(kind, size, value, p, t) /\ t.last = ((value * p) \div Span(size)) % 2
        BY <2>1, <4>1, LeftEmpty
      <4> QED BY <4>2 DEF p
    <3>4. LeftRun(kind, size, value, k, t)
      BY <3>1, <3>3 DEF LeftRun
    <3> QED BY <2>1, <3>4 DEF t
  <2> QED BY <2>3, <2>4
<1> HIDE DEF Good
<1>5. \A k \in 0 .. count : f[k] \in Good
  BY <1>3, <1>4, Stays
<1>6. ASSUME NEW k \in 0 .. count PROVE LeftRun(kind, size, value, k, u[k])
  <2>1. f[k] \in Good /\ f[k] = <<k, u[k]>>
    BY <1>5
  <2> QED BY <2>1 DEF Good
<1> QED BY <1>6

(* The number that a right shift divides.                                  *)
Shifting(kind, size, value) == IF kind = "Asr" THEN Signed(value, size) ELSE value

(* One turn of a right shift.                                              *)
RightTurnIs(kind, size, j, s, t) ==
    /\ t.value = s.value \div 2 + (IF kind = "Asr" THEN msb(s.value, size) ELSE 0) * Half(size)
    /\ j < bit_count(size) => t.last = s.value % 2
    /\ t.changed = (s.changed \/ msb(t.value, size) # msb(s.value, size))

(* One turn of ASR or LSR, written out.                                    *)
LEMMA RightTurnGives ==
    ASSUME NEW kind \in {"Asr", "Lsr"}, NEW size, bit_count(size) \in Nat, NEW j \in Nat, NEW s, NEW t, t = ShiftOnce(kind, size, j, s)
    PROVE  RightTurnIs(kind, size, j, s, t)
<1> DEFINE out == IF kind = "Asr" /\ j >= bit_count(size) THEN 0 ELSE s.value % 2
           enters == IF kind = "Asr" THEN msb(s.value, size) ELSE 0
           next == s.value \div 2 + enters * Half(size)
           changed == s.changed \/ msb(next, size) # msb(s.value, size)
<1>1. t = [value |-> next, last |-> out, x |-> s.x, changed |-> changed]
  <2>1. kind \notin LeftShifts /\ kind \notin {"Rol", "Ror"} /\ kind \notin {"Roxl", "Roxr"}
    BY DEF LeftShifts
  <2> QED BY <2>1, Zenon DEF ShiftOnce, Half
<1>2. j < bit_count(size) => out = s.value % 2
  BY SMT
<1> HIDE DEF out, next, changed
<1>3. t.value = next /\ t.last = out /\ t.changed = changed
  BY <1>1
<1>4. changed = (s.changed \/ msb(next, size) # msb(s.value, size))
  BY DEF changed
<1> QED BY <1>2, <1>3, <1>4 DEF next, RightTurnIs

(* A right shift under way: the operand was divided by p.                  *)
Halved(kind, size, value, p, s) ==
    /\ s.value = Low(Shifting(kind, size, value) \div p, size)
    /\ kind = "Asr" => ~s.changed

(* The numbers that a right shift has under way.                           *)
UnderWay(kind, size, x) == IF kind = "Asr" THEN Fits(x, size) ELSE x \in Values(size)

(* Shifting right by one bit, with the sign filled in or with zero, halves *)
(* the number and rounds down.                                             *)
LEMMA RightStep ==
    ASSUME EightBits, NEW kind \in {"Asr", "Lsr"}, NEW size \in Sizes, NEW x \in Int, UnderWay(kind, size, x),
           NEW w, w = Low(x, size), NEW next, next = w \div 2 + (IF kind = "Asr" THEN msb(w, size) ELSE 0) * Half(size)
    PROVE  /\ next = Low(x \div 2, size) /\ w % 2 = x % 2 /\ UnderWay(kind, size, x \div 2)
           /\ kind = "Asr" => msb(next, size) = msb(w, size)
<1> DEFINE H == Half(size)
           y == x \div 2
           m == msb(x, size)
<1>1. H \in Nat \ {0} /\ Span(size) = 2 * H /\ H % 2 = 0
  <2>1. H \in Nat \ {0} /\ Span(size) = 2 * H
    BY HalfIs
  <2>2. H % 2 = 0
    <3>1. size = Byte \/ size = Word \/ size = Long
      BY DEF Sizes
    <3> QED BY <3>1, TopBits, SMT DEF Half
  <2> QED BY <2>1, <2>2
<1>2. msb(w, size) = m
  BY MsbOfLow
<1>3. y = x \div 2
  OBVIOUS
<1>4. CASE kind = "Asr"
  <2>1. -H <= x /\ x < H
    BY <1>4 DEF UnderWay, Fits
  <2>2. -H <= y /\ y < H /\ y \in Int /\ (x < 0 <=> y < 0)
    BY <1>1, <1>3, <2>1
  <2> HIDE DEF y
  <2>3. w = IF x < 0 THEN x + Span(size) ELSE x
    <3>1. -Span(size) <= x /\ x < Span(size)
      BY <1>1, <2>1
    <3> QED BY <3>1, LowIs
  <2>4. Low(y, size) = IF y < 0 THEN y + Span(size) ELSE y
    <3>1. -Span(size) <= y /\ y < Span(size)
      BY <1>1, <2>2
    <3> QED BY <2>2, <3>1, LowIs
  <2>5. m = IF x < 0 THEN 1 ELSE 0
    <3>1. -Span(size) <= x /\ x < Span(size)
      BY <1>1, <2>1
    <3>2. m \in {0, 1} /\ (m = 0 <=> (0 <= x /\ x < Half(size)) \/ x < -Half(size))
      BY <3>1, MsbIs
    <3> HIDE DEF m
    <3> QED BY <1>1, <2>1, <3>2 DEF H
  <2>6. msb(y, size) = IF y < 0 THEN 1 ELSE 0
    <3>1. -Span(size) <= y /\ y < Span(size)
      BY <1>1, <2>2
    <3> DEFINE z == msb(y, size)
    <3>2. z \in {0, 1} /\ (z = 0 <=> (0 <= y /\ y < Half(size)) \/ y < -Half(size))
      BY <2>2, <3>1, MsbIs
    <3> HIDE DEF z
    <3>3. z = IF y < 0 THEN 1 ELSE 0
      BY <1>1, <2>2, <3>2 DEF H
    <3> QED BY <3>3 DEF z
  <2>7. next = w \div 2 + m * H
    BY <1>2, <1>4
  <2> HIDE DEF H, m
  <2>8. next = Low(y, size) /\ w % 2 = x % 2
    <3>1. CASE x < 0
      <4>1. w = x + 2 * H /\ m = 1 /\ Low(y, size) = y + 2 * H
        BY <1>1, <2>2, <2>3, <2>4, <2>5, <3>1
      <4>2. w \div 2 = y + H /\ w % 2 = x % 2
        BY <1>1, <1>3, <4>1
      <4> QED BY <1>1, <2>2, <2>7, <4>1, <4>2
    <3>2. CASE ~(x < 0)
      <4>1. w = x /\ m = 0 /\ Low(y, size) = y
        BY <1>1, <2>2, <2>3, <2>4, <2>5, <3>2
      <4> QED BY <1>1, <1>3, <2>2, <2>7, <4>1
    <3> QED BY <3>1, <3>2
  <2>9. msb(next, size) = msb(w, size)
    <3>1. msb(next, size) = msb(y, size)
      BY <2>2, <2>8, MsbOfLow
    <3> QED BY <1>2, <2>2, <2>5, <2>6, <3>1
  <2>10. UnderWay(kind, size, y)
    BY <1>4, <2>2 DEF UnderWay, Fits, H
  <2> QED BY <1>3, <2>8, <2>9, <2>10
<1>5. CASE kind = "Lsr"
  <2>1. x \in Int /\ 0 <= x /\ x < Span(size) /\ Span(size) \in Int
    BY <1>1, <1>5 DEF UnderWay, Values
  <2>2. 0 <= y /\ y < Span(size) /\ y \in Int
    BY <1>1, <1>3, <2>1
  <2>3. w = x
    <3>1. -Span(size) <= x
      BY <2>1
    <3> QED BY <2>1, <3>1, LowIs
  <2> HIDE DEF y
  <2>4. Low(y, size) = y
    <3>1. -Span(size) <= y
      BY <2>1, <2>2
    <3> QED BY <2>2, <3>1, LowIs
  <2>5. next = w \div 2 + 0 * H
    BY <1>5
  <2>6. next = y
    BY <1>1, <1>3, <2>2, <2>3, <2>5
  <2>7. UnderWay(kind, size, y)
    BY <1>5, <2>1, <2>2 DEF UnderWay, Values
  <2> QED BY <1>3, <1>5, <2>3, <2>4, <2>6, <2>7
<1> QED BY <1>4, <1>5

(* A turn of a right shift halves the number it stands for.                *)
LEMMA RightTurn ==
    ASSUME EightBits, NEW kind \in {"Asr", "Lsr"}, NEW size \in Sizes, NEW value \in Values(size), NEW p \in Nat \ {0},
           NEW s \in Shifted, Halved(kind, size, value, p, s), UnderWay(kind, size, Shifting(kind, size, value) \div p),
           NEW j \in Nat, NEW t, t = ShiftOnce(kind, size, j, s)
    PROVE  /\ Halved(kind, size, value, 2 * p, t)
           /\ UnderWay(kind, size, Shifting(kind, size, value) \div (2 * p))
           /\ j < bit_count(size) => t.last = (Shifting(kind, size, value) \div p) % 2
<1> DEFINE v == Shifting(kind, size, value)
           x == v \div p
           w == s.value
<1>1. v \in Int
  <2>1. Span(size) \in Int
    BY HalfIs
  <2>2. value \in Int
    BY <2>1 DEF Values
  <2>3. Signed(value, size) \in Int
    BY <2>2, SignedIn
  <2> QED BY <2>2, <2>3 DEF Shifting
<1>2. x = v \div p /\ w = Low(x, size) /\ UnderWay(kind, size, x)
  BY DEF Halved
<1>3. RightTurnIs(kind, size, j, s, t)
  <2>1. bit_count(size) \in Nat
    BY SpanPower
  <2> QED BY <2>1, RightTurnGives
<1> HIDE DEF v, x
<1>4. x \in Int /\ v \div (2 * p) = x \div 2
  BY <1>1, <1>2, HalvedAgain, ZenonT(30)
<1>5. t.value = w \div 2 + (IF kind = "Asr" THEN msb(w, size) ELSE 0) * Half(size)
  BY <1>3 DEF RightTurnIs
<1>6. /\ t.value = Low(x \div 2, size) /\ w % 2 = x % 2 /\ UnderWay(kind, size, x \div 2)
      /\ kind = "Asr" => msb(t.value, size) = msb(w, size)
  BY <1>2, <1>4, <1>5, RightStep
<1>7. kind = "Asr" => ~t.changed
  BY <1>3, <1>6 DEF RightTurnIs, Halved
<1>8. j < bit_count(size) => t.last = x % 2
  BY <1>3, <1>6 DEF RightTurnIs
<1> QED BY <1>2, <1>4, <1>6, <1>7, <1>8 DEF Halved, v

(* A turn of a right shift after everything was shifted out leaves zero,   *)
(* or the sign.                                                            *)
LEMMA RightEmpty ==
    ASSUME EightBits, NEW kind \in {"Asr", "Lsr"}, NEW size \in Sizes, NEW value \in Values(size), NEW p, p = 2 * Span(size),
           NEW s \in Shifted, Halved(kind, size, value, p, s),
           NEW j \in Nat, NEW t, t = ShiftOnce(kind, size, j, s)
    PROVE  Halved(kind, size, value, p, t)
<1> DEFINE S == Span(size)
           H == Half(size)
           v == Shifting(kind, size, value)
           x == v \div p
<1>1. S \in Nat \ {0} /\ H \in Nat \ {0} /\ S = 2 * H
  BY HalfIs
<1>2. value \in Int /\ 0 <= value /\ value < S
  BY <1>1 DEF Values
<1>3. v \in Int /\ (kind = "Asr" => -H <= v /\ v < H) /\ (kind = "Lsr" => v = value)
  <2>1. Signed(value, size) = IF value < H THEN value ELSE value - S
    BY SignedIs
  <2> HIDE DEF S, H
  <2> QED BY <1>1, <1>2, <2>1 DEF Shifting
<1>4. x = v \div p /\ p \in Nat \ {0} /\ p = 2 * S
  BY <1>1
<1> HIDE DEF S, H, v, x
<1>5. x \in {0, -1} /\ (kind = "Lsr" => x = 0)
  <2>1. CASE v < 0
    <3> DEFINE r == v + p
    <3>1. v = p * (-1) + r /\ r \in Int /\ 0 <= r /\ r < p
      BY <1>1, <1>2, <1>3, <1>4, <2>1
    <3> HIDE DEF r
    <3>2. x = -1
      BY <1>4, <3>1, Divides
    <3> QED BY <1>2, <1>3, <2>1, <3>2
  <2>2. CASE ~(v < 0)
    <3>1. v = p * 0 + v /\ 0 <= v /\ v < p
      BY <1>1, <1>2, <1>3, <1>4, <2>2
    <3>2. x = 0
      BY <1>3, <1>4, <3>1, Divides
    <3> QED BY <3>2
  <2> QED BY <1>3, <2>1, <2>2
<1>6. UnderWay(kind, size, x)
  BY <1>1, <1>5 DEF UnderWay, Fits, Values, S, H
<1>7. x \div 2 = x
  BY <1>5
<1>8. s.value = Low(x, size) /\ (kind = "Asr" => ~s.changed)
  BY <1>4 DEF Halved, v
<1>9. RightTurnIs(kind, size, j, s, t)
  <2>1. bit_count(size) \in Nat
    BY SpanPower
  <2> QED BY <2>1, RightTurnGives
<1>10. t.value = Low(x, size) /\ (kind = "Asr" => msb(t.value, size) = msb(s.value, size))
  <2>1. x \in Int
    BY <1>5
  <2>2. t.value = s.value \div 2 + (IF kind = "Asr" THEN msb(s.value, size) ELSE 0) * Half(size)
    BY <1>9 DEF RightTurnIs
  <2>3. t.value = Low(x \div 2, size) /\ (kind = "Asr" => msb(t.value, size) = msb(s.value, size))
    BY <1>6, <1>8, <2>1, <2>2, RightStep
  <2> QED BY <1>7, <2>3
<1>11. kind = "Asr" => ~t.changed
  BY <1>8, <1>9, <1>10 DEF RightTurnIs
<1> QED BY <1>4, <1>10, <1>11 DEF Halved, v

(* A right shift after k turns.                                            *)
RightRun(kind, size, value, k, s) ==
    /\ Halved(kind, size, value, 2 ^ Counted(k, size), s)
    /\ Counted(k, size) = k => UnderWay(kind, size, Shifting(kind, size, value) \div 2 ^ k)
    /\ 0 < k /\ k <= bit_count(size) => s.last = (Shifting(kind, size, value) \div 2 ^ (k - 1)) % 2

(* The loop invariant of ASR and LSR: after k turns the value is the       *)
(* operand divided by the k-th power of two, rounded down.                 *)
LEMMA RightRuns ==
    ASSUME EightBits, NEW kind \in {"Asr", "Lsr"}, NEW size \in Sizes, NEW count \in Nat, NEW value \in Values(size),
           NEW sr, NEW u, Turns(u, kind, size, count, value, sr)
    PROVE  \A k \in 0 .. count : RightRun(kind, size, value, k, u[k])
<1> DEFINE W == bit_count(size)
           v == Shifting(kind, size, value)
           Good == {q \in (0 .. count) \X Shifted : RightRun(kind, size, value, q[1], q[2])}
           f == [k \in 0 .. count |-> <<k, u[k]>>]
<1>1. W \in {8, 16, 32} /\ 2 ^ 0 = 1 /\ 2 ^ W = Span(size)
  BY SpanPower
<1>2. /\ u[0] = [value |-> value, last |-> 0, x |-> sr.x, changed |-> FALSE]
      /\ \A k \in 1 .. count : u[k] = ShiftOnce(kind, size, k - 1, u[k - 1])
      /\ \A k \in 0 .. count : u[k] \in Shifted
  BY DEF Turns
<1>3. f[0] \in Good
  <2>1. Counted(0, size) = 0
    BY <1>1 DEF Counted
  <2>2. value \in Int /\ Low(value, size) = value
    <3>1. Span(size) \in Nat \ {0}
      BY HalfIs
    <3>2. value \in Int /\ 0 <= value /\ value < Span(size) /\ -Span(size) <= value
      BY <3>1 DEF Values
    <3> QED BY <3>2, LowIs
  <2>3. Signed(value, size) \in Int /\ Low(Signed(value, size), size) = value /\ Fits(Signed(value, size), size)
    <3> DEFINE x == Signed(value, size)
    <3>1. x \in Int
      BY SignedIn, <2>2
    <3>2. Low(x * 1, size) = Low(value * 1, size)
      BY SignedTimes
    <3>3. x * 1 = x /\ value * 1 = value
      BY <2>2, <3>1
    <3>4. Low(x, size) = value
      BY <2>2, <3>2, <3>3
    <3>5. x = Signed(Low(x, size), size)
      BY <3>4
    <3> HIDE DEF x
    <3>6. Fits(x, size)
      BY <3>1, <3>5, FitsIs
    <3> QED BY <3>1, <3>4, <3>6 DEF x
  <2>4. v \div 1 = v /\ v \in Int
    BY <2>2, <2>3 DEF Shifting
  <2>5. Low(v, size) = value /\ UnderWay(kind, size, v)
    BY <2>2, <2>3 DEF Shifting, UnderWay
  <2>6. u[0].value = value /\ u[0].changed = FALSE
    BY <1>2
  <2>7. Halved(kind, size, value, 2 ^ Counted(0, size), u[0])
    BY <1>1, <2>1, <2>4, <2>5, <2>6 DEF Halved
  <2>8. RightRun(kind, size, value, 0, u[0])
    BY <1>1, <2>4, <2>5, <2>7 DEF RightRun
  <2>9. 0 \in 0 .. count /\ u[0] \in Shifted
    BY <1>2
  <2> QED BY <2>8, <2>9
<1>4. ASSUME NEW k \in 1 .. count, f[k - 1] \in Good PROVE f[k] \in Good
  <2> DEFINE s == u[k - 1]
             t == u[k]
  <2>1. k - 1 \in 0 .. count /\ k \in 0 .. count /\ s \in Shifted /\ t \in Shifted /\ k - 1 \in Nat
        /\ t = ShiftOnce(kind, size, k - 1, s) /\ RightRun(kind, size, value, k - 1, s)
    BY <1>2, <1>4
  <2> HIDE DEF s, t
  <2>2. Halved(kind, size, value, 2 ^ Counted(k - 1, size), s)
    BY <2>1 DEF RightRun
  <2>3. CASE k <= W + 1
    <3>1. Counted(k - 1, size) = k - 1 /\ Counted(k, size) = k /\ k - 1 \in 0 .. 32 /\ (k <= W <=> k - 1 < W)
      BY <1>1, <2>3 DEF Counted
    <3>2. 2 ^ (k - 1) \in Nat \ {0} /\ 2 ^ ((k - 1) + 1) = 2 * 2 ^ (k - 1)
      BY <3>1, Doubles DEF Doubling
    <3>3. (k - 1) + 1 = k
      OBVIOUS
    <3>4. 2 ^ k = 2 * 2 ^ (k - 1)
      BY <3>2, <3>3
    <3>5. /\ Halved(kind, size, value, 2 * 2 ^ (k - 1), t)
          /\ UnderWay(kind, size, v \div (2 * 2 ^ (k - 1)))
          /\ k - 1 < W => t.last = (v \div 2 ^ (k - 1)) % 2
      <4> DEFINE p == 2 ^ (k - 1)
      <4>1. p \in Nat \ {0} /\ Halved(kind, size, value, p, s) /\ UnderWay(kind, size, Shifting(kind, size, value) \div p)
        BY <2>1, <2>2, <3>1, <3>2 DEF RightRun
      <4> HIDE DEF p
      <4>2. /\ Halved(kind, size, value, 2 * p, t)
            /\ UnderWay(kind, size, Shifting(kind, size, value) \div (2 * p))
            /\ k - 1 < bit_count(size) => t.last = (Shifting(kind, size, value) \div p) % 2
        BY <2>1, <4>1, RightTurn
      <4> QED BY <4>2 DEF p
    <3>6. RightRun(kind, size, value, k, t)
      BY <3>1, <3>4, <3>5 DEF RightRun
    <3> QED BY <2>1, <3>6 DEF t
  <2>4. CASE ~(k <= W + 1)
    <3>1. Counted(k - 1, size) = W + 1 /\ Counted(k, size) = W + 1 /\ W \in 0 .. 32 /\ Counted(k, size) # k /\ ~(k <= W)
      BY <1>1, <2>4 DEF Counted
    <3>2. 2 ^ (W + 1) = 2 * Span(size)
      <4>1. 2 ^ (W + 1) = 2 * 2 ^ W
        BY <3>1, Doubles DEF Doubling
      <4> QED BY <1>1, <4>1
    <3>3. Halved(kind, size, value, 2 ^ (W + 1), t)
      <4> DEFINE p == 2 ^ (W + 1)
      <4>1. p = 2 * Span(size) /\ Halved(kind, size, value, p, s)
        BY <2>2, <3>1, <3>2
      <4> HIDE DEF p
      <4>2. Halved(kind, size, value, p, t)
        BY <2>1, <4>1, RightEmpty
      <4> QED BY <4>2 DEF p
    <3>4. RightRun(kind, size, value, k, t)
      BY <3>1, <3>3 DEF RightRun
    <3> QED BY <2>1, <3>4 DEF t
  <2> QED BY <2>3, <2>4
<1> HIDE DEF Good
<1>5. \A k \in 0 .. count : f[k] \in Good
  BY <1>3, <1>4, Stays
<1>6. ASSUME NEW k \in 0 .. count PROVE RightRun(kind, size, value, k, u[k])
  <2>1. f[k] \in Good /\ f[k] = <<k, u[k]>>
    BY <1>5
  <2> QED BY <2>1 DEF Good
<1> QED BY <1>6

(* What a shift of u by count bits leaves in the register and in the       *)
(* flags.                                                                  *)
Scaled(kind, size, count, u, after, sr) ==
    LET n == Counted(count, size)
        v == IF kind \in {"Asl", "Asr"} THEN Signed(u, size) ELSE u
    IN  IF kind \in {"Asl", "Lsl"}
        THEN /\ after = Low(v * 2 ^ n, size)
             /\ sr.v = Flag(kind = "Asl" /\ v * 2 ^ n # Signed(after, size))
             /\ n > 0 => sr.c = ((u * 2 ^ n) \div Span(size)) % 2
        ELSE /\ after = Low(v \div 2 ^ n, size)
             /\ sr.v = 0
             /\ 0 < n /\ count <= bit_count(size) => sr.c = (v \div 2 ^ (n - 1)) % 2

(* Truncation does nothing to what was truncated.                          *)
LEMMA LowTwice ==
    ASSUME EightBits, NEW size \in Sizes, NEW v \in Int
    PROVE  Low(Low(v, size), size) = Low(v, size)
<1> DEFINE l == Low(v, size)
<1>1. l \in Values(size) /\ Span(size) \in Nat \ {0}
  BY LowIn, HalfIs
<1>2. l = Low(v, size)
  OBVIOUS
<1> HIDE DEF l
<1>3. l \in Int /\ -Span(size) <= l /\ l < Span(size) /\ 0 <= l
  BY <1>1 DEF Values
<1>4. Low(l, size) = l
  BY <1>3, LowIs
<1> QED BY <1>2, <1>4

(* A shift by any count leaves the product or the quotient by the power of *)
(* two, and its flags tell what was lost.                                  *)
LEMMA ShiftScales ==
    ASSUME EightBits, NEW kind \in {"Asl", "Asr", "Lsl", "Lsr"}, NEW size \in Sizes, NEW count \in Nat,
           NEW u \in Values(size), NEW sr \in StatusRegisters, NEW done, done = Shift(kind, size, count, u, sr),
           NEW new, new = ShiftFlags(kind, size, count, done, sr)
    PROVE  Scaled(kind, size, count, u, Low(done.value, size), new) /\ done \in Shifted
<1> DEFINE n == Counted(count, size)
           v == IF kind \in {"Asl", "Asr"} THEN Signed(u, size) ELSE u
           p == 2 ^ n
           after == Low(done.value, size)
<1>1. u \in Int
  <2>1. Span(size) \in Int
    BY HalfIs
  <2> QED BY <2>1 DEF Values
<1>2. PICK turn : Turns(turn, kind, size, count, u, sr) /\ Shift(kind, size, count, u, sr) = turn[count]
  BY <1>1, ShiftTurns
<1>3. done = turn[count] /\ done \in Shifted /\ count \in 0 .. count
  <2>1. count \in 0 .. count
    OBVIOUS
  <2> QED BY <1>2, <2>1 DEF Turns
<1>4. new.v = Flag(kind \in {"Asl", "Asr"} /\ done.changed) /\ (count # 0 => new.c = done.last)
  <2>1. kind \notin {"Roxl", "Roxr"}
    OBVIOUS
  <2> DEFINE a == msb(done.value, size)
             b == is_zero(done.value, size)
             f == Flag(kind \in {"Asl", "Asr"} /\ done.changed)
             c == IF count # 0 THEN done.last ELSE 0
             x == IF count = 0 \/ kind \in {"Rol", "Ror"} THEN sr.x ELSE done.last
  <2>2. new = [sr EXCEPT !.n = a, !.z = b, !.v = f, !.c = c, !.x = x]
    BY <2>1, Zenon DEF ShiftFlags
  <2> HIDE DEF a, b, f, c, x
  <2>3. new.v = f /\ new.c = c
    BY <2>2 DEF StatusRegisters
  <2> QED BY <2>3 DEF f, c
<1>5. bit_count(size) \in {8, 16, 32}
  BY SpanPower
<1>6. n \in 0 .. 33 /\ (n > 0 => count # 0) /\ (count <= bit_count(size) => n = count) /\ (0 < n => 0 < count)
  BY <1>5 DEF Counted
<1>7. p \in Int
  <2>1. CASE n \in 0 .. 32
    BY <2>1, Doubles DEF Doubling
  <2>2. CASE n \notin 0 .. 32
    <3>1. n = 33
      BY <1>6, <2>2
    <3>2. 2 ^ 33 \in Int
      BY SMT
    <3> QED BY <3>1, <3>2
  <2> QED BY <2>1, <2>2
<1> HIDE DEF n
<1>8. CASE kind \in {"Asl", "Lsl"}
  <2>1. LeftRun(kind, size, u, count, done)
    BY <1>2, <1>3, <1>8, LeftRuns
  <2>2. /\ done.value = Low(u * p, size)
        /\ kind = "Asl" => (done.changed <=> ~Fits(Signed(u, size) * p, size))
        /\ count > 0 => done.last = ((u * p) \div Span(size)) % 2
    BY <2>1 DEF LeftRun, Doubled, n
  <2>3. u * p \in Int /\ Signed(u, size) * p \in Int /\ Low(Signed(u, size) * p, size) = Low(u * p, size)
    BY <1>1, <1>7, SignedTimes
  <2> HIDE DEF p
  <2>4. after = Low(u * p, size) /\ after = Low(v * p, size)
    BY <2>2, <2>3, LowTwice
  <2>5. kind = "Asl" => (done.changed <=> v * p # Signed(after, size))
    <3>1. ASSUME kind = "Asl" PROVE done.changed <=> v * p # Signed(after, size)
      <4>1. v = Signed(u, size)
        BY <3>1
      <4>2. Fits(Signed(u, size) * p, size) <=> v * p = Signed(after, size)
        BY <2>3, <2>4, <4>1, FitsIs
      <4> QED BY <2>2, <3>1, <4>2
    <3> QED BY <3>1
  <2>6. new.v = Flag(kind = "Asl" /\ v * p # Signed(after, size))
    <3>1. (kind \in {"Asl", "Asr"} /\ done.changed) <=> (kind = "Asl" /\ v * p # Signed(after, size))
      BY <1>8, <2>5
    <3> HIDE DEF v, after
    <3> QED BY <1>4, <3>1 DEF Flag
  <2>7. n > 0 => new.c = ((u * p) \div Span(size)) % 2
    BY <1>4, <1>6, <2>2
  <2>8. Scaled(kind, size, count, u, after, new)
    BY <1>8, <2>4, <2>6, <2>7, Zenon DEF Scaled, n, p
  <2> QED BY <1>3, <2>8
<1>9. CASE kind \in {"Asr", "Lsr"}
  <2>1. RightRun(kind, size, u, count, done)
    BY <1>2, <1>3, <1>9, RightRuns
  <2>2. v = Shifting(kind, size, u)
    BY <1>9 DEF Shifting
  <2>3. /\ done.value = Low(v \div p, size)
        /\ kind = "Asr" => ~done.changed
        /\ 0 < count /\ count <= bit_count(size) => done.last = (v \div 2 ^ (count - 1)) % 2
    BY <2>1, <2>2 DEF RightRun, Halved, n
  <2>4. after = Low(v \div p, size)
    <3>1. done.value \in Int /\ Span(size) \in Nat \ {0}
      BY <1>3, HalfIs DEF Shifted
    <3>2. CASE v \div p \in Int
      BY <2>3, <3>2, LowTwice
    <3>3. v \div p \in Int
      <4>1. p \in Nat \ {0}
        <5>1. CASE n \in 0 .. 32
          BY <5>1, Doubles DEF Doubling
        <5>2. CASE n \notin 0 .. 32
          <6>1. n = 33
            BY <1>6, <5>2
          <6>2. 2 ^ 33 \in Nat \ {0}
            BY SMT
          <6> QED BY <6>1, <6>2
        <5> QED BY <5>1, <5>2
      <4>2. v \in Int
        BY <1>1, SignedIn
      <4> HIDE DEF p, v
      <4> QED BY <4>1, <4>2
    <3> QED BY <3>2, <3>3
  <2>5. new.v = 0
    BY <1>4, <1>9, <2>3 DEF Flag
  <2>6. 0 < n /\ count <= bit_count(size) => new.c = (v \div 2 ^ (n - 1)) % 2
    BY <1>4, <1>6, <2>3
  <2>7. kind \notin {"Asl", "Lsl"}
    BY <1>9
  <2>8. Scaled(kind, size, count, u, after, new)
    BY <2>4, <2>5, <2>6, <2>7, Zenon DEF Scaled, n, p
  <2> QED BY <1>3, <2>8
<1> QED BY <1>8, <1>9

(* The low bits that were put into a register are read back.               *)
LEMMA ReplacedLow ==
    ASSUME EightBits, NEW size \in Sizes, NEW reg \in Int, NEW v \in Int
    PROVE  Low(Replaced(reg, v, size), size) = Low(v, size)
<1> DEFINE S == Span(size)
           k == reg \div S
           l == Low(reg, size)
           a == Low(v, size)
<1>1. S \in Nat \ {0}
  BY HalfIs
<1>2. k = reg \div S /\ l = reg % S
  BY DEF Low
<1>3. a \in Int /\ Low(a, size) = a
  <2>1. a \in Values(size)
    BY LowIn
  <2>2. Low(a, size) = a
    BY LowTwice
  <2> HIDE DEF a
  <2> QED BY <1>1, <2>1, <2>2 DEF Values
<1>4. Replaced(reg, v, size) = reg - l + a
  BY DEF Replaced
<1>5. S = Span(size)
  OBVIOUS
<1> HIDE DEF S, k, l, a
<1>6. reg = S * k + l /\ k \in Int /\ l \in Int
  BY <1>1, <1>2, Divided
<1>7. reg - l + a = a + S * k
  <2>1. S * k \in Int
    BY <1>1, <1>6
  <2> QED BY <1>3, <1>6, <2>1
<1>8. Low(a + S * k, size) = Low(a, size)
  <2> DEFINE g == a + S * k
  <2>1. g = a + Span(size) * k
    BY <1>5
  <2> HIDE DEF g
  <2>2. Low(g, size) = Low(a, size)
    BY <1>3, <1>6, <2>1, LowModulo
  <2> QED BY <2>2 DEF g
<1> QED BY <1>3, <1>4, <1>7, <1>8 DEF a

(* The shifts that are not rotations.                                      *)
Shiftings == {"Asl", "Asr", "Lsl", "Lsr"}

(* The count of a shift: of a register modulo 64, of the instruction, or   *)
(* one.                                                                    *)
CountOf(m, i) ==
    IF "src" \in DOMAIN i THEN InRegister(m, i.src, i.size) % (2 * bit_count(Long)) ELSE QuickValue(i.data)

(* ASL, ASR, LSL and LSR on a data register scale what was in it by the    *)
(* count.                                                                  *)
LEMMA ShiftOnRegisters ==
    ASSUME EightBits, NEW D, NEW m \in Machines(D), Ok(m), NEW i, WellFormed(i), i.kind \in Shiftings,
           i["dst"].kind = "DataRegister", NEW r, r = ExecShift(m, i)
    PROVE  /\ Scaled(i.kind, i.size, CountOf(m, i), InRegister(m, i["dst"], i.size), InRegister(r, i["dst"], i.size), r.sr)
           /\ CountOf(m, i) \in Nat
<1> DEFINE size == i.size
           p == try_decrement_address(m, i, "dst")
           d == OperandValue(p, i["dst"], size)
           q == try_decrement_address(p, i, "src")
           s == OperandValue(q, i["src"], size)
           Ends(x, count) ==
             LET done == Shift(i.kind, i.size, count, d, x.sr)
                 busy == [x EXCEPT !.sr = Rotating(x.sr, i.kind, count, done)]
             IN  Then(Write(busy, i, "dst", i.size, done.value), ShiftFlags(i.kind, i.size, count, done, x.sr))
           n == i["dst"].index
           c == CountOf(m, i)
<1>0. "dst" \in Roles \cap DOMAIN i /\ i["dst"] \in Targets /\ size \in Sizes
  BY Operands, SizeIn DEF UsesSize, UsesDst, Shifts, Roles, Shiftings
<1>1. r = IF Accessible(p, i["dst"], size)
          THEN IF "src" \in DOMAIN i
               THEN IF Accessible(q, i["src"], size) THEN Ends(q, s % (2 * bit_count(Long))) ELSE Fail(q)
               ELSE Ends(p, QuickValue(i.data))
          ELSE Fail(p)
  BY Zenon DEF ExecShift, Read
<1>2. p = try_decrement_address(m, i, "dst") /\ q = try_decrement_address(p, i, "src") /\ n = i["dst"].index
  OBVIOUS
<1> HIDE DEF p, q, n
<1>3. p \in Machines(D) /\ p.d = m.d /\ p.sr = m.sr /\ p.status = m.status
      /\ Accessible(p, i["dst"], size) /\ d = InRegister(m, i["dst"], size) /\ \A k : a_reg(p, k) = a_reg(m, k)
  <2>1. SameRegisters(D, m, p) /\ ReadsRegister(m, i["dst"], p)
    BY <1>0, <1>2, RegisterRead DEF IsRegister
  <2> QED BY <2>1 DEF SameRegisters, ReadsRegister
<1>4. d \in Values(size)
  BY <1>0, <1>3, InRegisterIn DEF IsRegister
<1>5. n \in 0 .. 7 /\ m.d[n] \in Int
  <2>1. n \in 0 .. 7
    BY <1>0, <1>2, TargetIn DEF IsRegister
  <2>2. m.d[n] \in Values(Long)
    BY <2>1, RegisterIn
  <2> QED BY <2>1, <2>2, ValuesWiden
<1> HIDE DEF d
<1>6. ASSUME NEW x \in Machines(D), x.d = m.d, x.status = m.status, NEW count \in Nat, NEW y, y = Ends(x, count)
      PROVE  Scaled(i.kind, size, count, d, InRegister(y, i["dst"], size), y.sr)
  <2> DEFINE done == Shift(i.kind, size, count, d, x.sr)
             busy == [x EXCEPT !.sr = Rotating(x.sr, i.kind, count, done)]
             w == Write(busy, i, "dst", size, done.value)
             sr == ShiftFlags(i.kind, size, count, done, x.sr)
             new == Replaced(x.d[n], done.value, size)
  <2>1. y = Then(w, sr)
    BY <1>6
  <2>2. x.sr \in StatusRegisters
    BY DEF Machines
  <2>3. done = Shift(i.kind, size, count, d, x.sr) /\ sr = ShiftFlags(i.kind, size, count, done, x.sr)
        /\ w = Write(busy, i, "dst", size, done.value)
    OBVIOUS
  <2>4. busy = x
    <3>1. Rotating(x.sr, i.kind, count, done) = x.sr
      BY DEF Rotating, Shiftings
    <3> QED BY <3>1 DEF Machines
  <2> HIDE DEF done, busy, w, sr
  <2>5. Scaled(i.kind, size, count, d, Low(done.value, size), sr) /\ done \in Shifted
    <3>1. i.kind \in {"Asl", "Asr", "Lsl", "Lsr"}
      BY DEF Shiftings
    <3> QED BY <1>0, <1>4, <2>2, <2>3, <3>1, ShiftScales
  <2>6. StoresIn(x, n, new, w)
    BY <1>0, <1>2, <2>3, <2>4, RegisterWritten
  <2>7. Low(new, size) = Low(done.value, size)
    <3>1. done.value \in Int /\ x.d[n] \in Int
      BY <1>5, <1>6, <2>5 DEF Shifted
    <3> QED BY <1>0, <3>1, ReplacedLow
  <2> HIDE DEF new
  <2>8. w.status = "ok" /\ DOMAIN w = DOMAIN x /\ w.d = [x.d EXCEPT ![n] = new]
    BY <1>6, <2>6 DEF StoresIn, Ok
  <2>9. y = [w EXCEPT !.sr = sr]
    BY <2>1, <2>8 DEF Then, Ok
  <2>10. "sr" \in DOMAIN w /\ "d" \in DOMAIN w
    BY <2>8 DEF Machines
  <2>11. y.sr = sr /\ y.d = w.d
    BY <2>9, <2>10
  <2>12. y.d[n] = new
    <3>1. n \in DOMAIN x.d
      BY <1>5 DEF Machines
    <3> QED BY <2>8, <2>11, <3>1
  <2>13. InRegister(y, i["dst"], size) = Low(done.value, size)
    BY <1>2, <2>7, <2>12 DEF InRegister
  <2> QED BY <2>5, <2>11, <2>13
<1>7. CASE "src" \in DOMAIN i
  <2>1. i["src"].kind = "DataRegister" /\ i["src"] \in Targets /\ "src" \in Roles
    BY <1>7 DEF WellFormed, OperandsFit, Shifts, Shiftings, Roles
  <2>2. q \in Machines(D) /\ q.d = m.d /\ q.sr = m.sr /\ q.status = m.status
        /\ Accessible(q, i["src"], size) /\ s = InRegister(p, i["src"], size)
    <3>1. SameRegisters(D, p, q) /\ ReadsRegister(p, i["src"], q)
      BY <1>2, <1>3, <2>1, RegisterRead DEF IsRegister
    <3> QED BY <1>3, <3>1 DEF SameRegisters, ReadsRegister
  <2>3. s = InRegister(m, i["src"], size)
    BY <1>3, <2>1, <2>2 DEF InRegister
  <2>4. s \in Int
    <3>1. s \in Values(size)
      BY <1>0, <2>1, <2>3, InRegisterIn DEF IsRegister
    <3>2. Span(size) \in Int
      BY <1>0, HalfIs
    <3> HIDE DEF s
    <3> QED BY <3>1, <3>2 DEF Values
  <2>5. c = s % (2 * bit_count(Long)) /\ c \in Nat
    <3>1. bit_count(Long) = 32
      BY SpanValues
    <3>2. c = s % (2 * bit_count(Long))
      BY <1>7, <2>3 DEF CountOf
    <3> HIDE DEF s, c
    <3>3. s % 64 \in Nat
      BY <2>4
    <3>4. 2 * bit_count(Long) = 64
      BY <3>1
    <3> QED BY <3>2, <3>3, <3>4
  <2>6. r = Ends(q, c)
    BY <1>1, <1>3, <1>7, <2>2, <2>5
  <2> HIDE DEF c, Ends, s
  <2>7. Scaled(i.kind, size, c, d, InRegister(r, i["dst"], size), r.sr)
    BY <1>6, <2>2, <2>5, <2>6
  <2> QED BY <1>3, <2>5, <2>7 DEF c
<1>8. CASE "src" \notin DOMAIN i
  <2>1. c = QuickValue(i.data) /\ c \in Nat
    <3>1. i.data \in Values(Long)
      BY <1>8 DEF WellFormed, Shifts, Shiftings
    <3>2. i.data \in Nat
      BY <3>1, HalfIs DEF Values, Sizes
    <3> QED BY <1>8, <3>2 DEF CountOf, QuickValue
  <2>2. r = Ends(p, c)
    BY <1>1, <1>3, <1>8, <2>1
  <2> HIDE DEF c, Ends
  <2>3. Scaled(i.kind, size, c, d, InRegister(r, i["dst"], size), r.sr)
    BY <1>3, <1>6, <2>1, <2>2
  <2> QED BY <1>3, <2>1, <2>3 DEF c
<1> QED BY <1>7, <1>8

(* What was executed of the trace scales.                                  *)
LEMMA ShiftsScaleNow == ASSUME EightBits, Trace PROVE ShiftsScale
<1>1. ASSUME NEW k \in Executed, program[k].kind \in Shiftings, program[k].dst.kind = "DataRegister"
      PROVE  Scaled(program[k].kind, program[k].size, CountOf(Before(k), program[k]),
                    InRegister(Before(k), program[k].dst, program[k].size),
                    InRegister(After(k), program[k].dst, program[k].size), After(k).sr)
  <2> DEFINE i == program[k]
             m == Before(k)
             r == After(k)
             f == Forget(m)
             done == Perform(f, i)
             D == DOMAIN machine.mem
  <2>1. WellFormed(i) /\ m \in Machines(D) /\ Ok(m) /\ r = Execute(m, i)
    BY DEF Trace, Executes1, Executed
  <2>2. i.kind \in Shiftings /\ f = Forget(m) /\ done = Perform(f, i) /\ i["dst"].kind = "DataRegister"
    BY <1>1
  <2> HIDE DEF i, m, r, f, done, D
  <2>3. "src" \in DOMAIN i => i["src"].kind = "DataRegister"
    BY <2>1, <2>2 DEF WellFormed, OperandsFit, Shifts, Shiftings
  <2>4. \A role \in Roles \cap DOMAIN i : i[role].kind # "AddressIncrement"
    BY <2>2, <2>3 DEF Roles
  <2>5. f \in Machines(D) /\ f.d = m.d /\ Ok(f) /\ r.d = done.d /\ r.sr = done.sr
        /\ \A n \in 0 .. 7 : a_reg(f, n) = a_reg(m, n)
    BY <2>1, <2>2, <2>4, EndsOnRegisters
  <2>6. done = ExecShift(f, i)
    <3>1. i.kind \in {"Asl", "Asr", "Lsl", "Lsr"}
      BY <2>2 DEF Shiftings
    <3> QED BY <2>2, <3>1, Zenon DEF Perform, BinaryKinds, AddressKinds, QuickKinds, ExtendKinds, UnaryKinds, ToCcrKinds, ToSrKinds, Shifts, BitKinds
  <2>7. Scaled(i.kind, i.size, CountOf(f, i), InRegister(f, i["dst"], i.size), InRegister(done, i["dst"], i.size), done.sr)
    BY <2>1, <2>2, <2>5, <2>6, ShiftOnRegisters
  <2>8. InRegister(f, i["dst"], i.size) = InRegister(m, i["dst"], i.size)
        /\ InRegister(done, i["dst"], i.size) = InRegister(r, i["dst"], i.size)
    BY <2>2, <2>5 DEF InRegister
  <2>9. CountOf(f, i) = CountOf(m, i)
    BY <2>3, <2>5 DEF CountOf, InRegister
  <2>10. Scaled(i.kind, i.size, CountOf(m, i), InRegister(m, i["dst"], i.size), InRegister(r, i["dst"], i.size), r.sr)
    BY <2>5, <2>7, <2>8, <2>9
  <2> QED BY <2>10 DEF i, m, r
<1>2. \A k \in Executed :
         program[k].kind \in Shiftings /\ program[k].dst.kind = "DataRegister" =>
         Scaled(program[k].kind, program[k].size, CountOf(Before(k), program[k]),
                InRegister(Before(k), program[k].dst, program[k].size),
                InRegister(After(k), program[k].dst, program[k].size), After(k).sr)
  BY <1>1
<1> QED
  BY <1>2, Zenon DEF ShiftsScale, Scaled, CountOf, Counted, QuickValue, Shiftings

(* A shift of a data register by any count multiplies or divides it by the *)
(* power of two; C and X are the last bit that was shifted out, X is left  *)
(* alone by a count of zero, and V of ASL says that the signed product     *)
(* does not fit.                                                           *)
THEOREM Scaling == EightBits => (Spec => []ShiftsScale)
<1> SUFFICES ASSUME EightBits PROVE Spec => []ShiftsScale
  OBVIOUS
<1>1. Trace => ShiftsScale
  BY ShiftsScaleNow
<1> QED BY <1>1, Tracing, PTL

-----------------------------------------------------------------------------
(***************************************************************************)
(* Limbs: ADD, SUB, NEG and the instructions that carry on with X and Z.   *)
(***************************************************************************)

(* An addition or a subtraction with a carry or a borrow.                  *)
Combined(plus, a, b, x) == IF plus THEN a + b + x ELSE a - b - x

(* The top bit and the signed value of a number, by halves.                *)
LEMMA ValueSigns ==
    ASSUME EightBits, NEW size \in Sizes, NEW v \in Values(size)
    PROVE  /\ v \in Int /\ 0 <= v /\ v < 2 * Half(size) /\ Half(size) \in Nat \ {0} /\ Span(size) = 2 * Half(size)
           /\ msb(v, size) = IF v < Half(size) THEN 0 ELSE 1
           /\ Signed(v, size) = IF v < Half(size) THEN v ELSE v - 2 * Half(size)
<1> DEFINE H == Half(size)
           b == msb(v, size)
<1>1. H \in Nat \ {0} /\ Span(size) = 2 * H
  BY HalfIs
<1>2. v \in Int /\ 0 <= v /\ v < Span(size)
  BY <1>1 DEF Values
<1>3. -Span(size) <= v
  BY <1>1, <1>2
<1>4. b \in {0, 1} /\ (b = 0 <=> (0 <= v /\ v < H) \/ v < -H)
  BY <1>2, <1>3, MsbIs
<1>5. Signed(v, size) = IF v < H THEN v ELSE v - Span(size)
  BY SignedIs
<1> HIDE DEF H, b
<1>6. b = IF v < H THEN 0 ELSE 1
  BY <1>1, <1>2, <1>4
<1>7. v < 2 * H
  BY <1>1, <1>2
<1> QED BY <1>1, <1>2, <1>5, <1>6, <1>7 DEF H, b

(* Truncation of a sum of two values and a carry, or of a difference,      *)
(* takes away the span once at most.                                       *)
LEMMA SumLow ==
    ASSUME EightBits, NEW size \in Sizes, NEW e \in Int, -Span(size) <= e, e < 2 * Span(size)
    PROVE  /\ Low(e, size) = (IF e < 0 THEN e + Span(size) ELSE IF e < Span(size) THEN e ELSE e - Span(size))
           /\ msb(e, size) = IF Low(e, size) < Half(size) THEN 0 ELSE 1
           /\ Low(e, size) \in Values(size)
<1> DEFINE S == Span(size)
           l == Low(e, size)
<1>1. S \in Nat \ {0}
  BY HalfIs
<1>2. l \in Values(size)
  BY LowIn
<1>3. msb(e, size) = msb(l, size)
  BY MsbOfLow
<1>4. msb(l, size) = IF l < Half(size) THEN 0 ELSE 1
  BY <1>2, ValueSigns
<1>5. CASE e < S
  <2>1. l = IF e < 0 THEN e + S ELSE e
    BY <1>5, LowIs
  <2> QED BY <1>1, <1>2, <1>3, <1>4, <1>5, <2>1
<1>6. CASE ~(e < S)
  <2> DEFINE r == e - S
  <2>1. e = S * 1 + r /\ r \in Int /\ 0 <= r /\ r < S
    BY <1>1, <1>6
  <2> HIDE DEF r
  <2>2. e % S = r
    BY <1>1, <2>1, Divides
  <2>3. l = r
    BY <2>2 DEF Low
  <2>4. l = e - S
    BY <1>1, <2>1, <2>3
  <2> QED BY <1>1, <1>2, <1>3, <1>4, <1>6, <2>4
<1> QED BY <1>5, <1>6

(* The code's overflow of a sum or a difference, a comparison of three     *)
(* sign bits, says that the signed sum or difference does not fit; the     *)
(* carry is counted.                                                       *)
LEMMA LimbOverflows ==
    ASSUME EightBits, NEW size \in Sizes, NEW a \in Values(size), NEW b \in Values(size), NEW x \in {0, 1}, NEW plus \in BOOLEAN,
           NEW e, e = Combined(plus, a, b, x), NEW f, f = Combined(plus, Signed(a, size), Signed(b, size), x)
    PROVE  /\ e \in Int /\ f \in Int /\ -Span(size) <= e /\ e < 2 * Span(size)
           /\ ~Fits(f, size) <=> /\ (IF plus THEN msb(b, size) ELSE 1 - msb(b, size)) = msb(a, size)
                                 /\ msb(e, size) # msb(a, size)
<1> DEFINE H == Half(size)
           sa == Signed(a, size)
           sb == Signed(b, size)
           ma == msb(a, size)
           mb == msb(b, size)
           me == msb(e, size)
           l == Low(e, size)
<1>1. a \in Int /\ 0 <= a /\ a < 2 * H /\ H \in Nat \ {0} /\ Span(size) = 2 * H
      /\ ma = (IF a < H THEN 0 ELSE 1) /\ sa = IF a < H THEN a ELSE a - 2 * H
  BY ValueSigns
<1>2. b \in Int /\ 0 <= b /\ b < 2 * H
      /\ mb = (IF b < H THEN 0 ELSE 1) /\ sb = IF b < H THEN b ELSE b - 2 * H
  BY ValueSigns
<1>3. f = Combined(plus, sa, sb, x)
  OBVIOUS
<1>4. Fits(f, size) <=> -H <= f /\ f < H
  BY DEF Fits
<1> HIDE DEF H, sa, sb, ma, mb
<1>5. e \in Int /\ f \in Int /\ -(2 * H) <= e /\ e < 2 * (2 * H)
  BY <1>1, <1>2, <1>3 DEF Combined
<1>6. -Span(size) <= e /\ e < 2 * Span(size)
  BY <1>1, <1>5
<1>7. l = (IF e < 0 THEN e + Span(size) ELSE IF e < Span(size) THEN e ELSE e - Span(size))
      /\ me = IF l < Half(size) THEN 0 ELSE 1
  BY <1>5, <1>6, SumLow
<1>8. me = IF l < H THEN 0 ELSE 1
  BY <1>7 DEF H
<1>9. l = IF e < 0 THEN e + 2 * H ELSE IF e < 2 * H THEN e ELSE e - 2 * H
  BY <1>1, <1>5, <1>7
<1> HIDE DEF me, l
<1>10. CASE plus
  <2>1. e = a + b + x /\ f = sa + sb + x
    BY <1>3, <1>10 DEF Combined
  <2>2. ~(-H <= f /\ f < H) <=> mb = ma /\ me # ma
    BY <1>1, <1>2, <1>8, <1>9, <2>1
  <2> QED BY <1>4, <1>5, <1>6, <1>10, <2>2 DEF ma, mb, me
<1>11. CASE ~plus
  <2>1. e = a - b - x /\ f = sa - sb - x
    BY <1>3, <1>11 DEF Combined
  <2>2. ~(-H <= f /\ f < H) <=> 1 - mb = ma /\ me # ma
    BY <1>1, <1>2, <1>8, <1>9, <2>1
  <2> QED BY <1>4, <1>5, <1>6, <1>11, <2>2 DEF ma, mb, me
<1> QED BY <1>10, <1>11

(* A limb: the value and the flags of an addition or a subtraction of      *)
(* which z is the zero so far.                                             *)
Limb(plus, a, b, x, size, z, value, sr) ==
    LET e == Combined(plus, a, b, x)
        f == Combined(plus, Signed(a, size), Signed(b, size), x)
    IN  /\ value = Low(e, size) /\ sr.c = Flag(e # Low(e, size)) /\ sr.x = sr.c
        /\ sr.n = msb(e, size) /\ sr.v = Flag(~Fits(f, size))
        /\ sr.z = IF Low(e, size) = 0 THEN z ELSE 0

(* SetArithmetic leaves the flags of a limb: with the sticky zero of ADDX  *)
(* and SUBX the zero is of all limbs so far.                               *)
LEMMA LimbFlags ==
    ASSUME EightBits, NEW size \in Sizes, NEW a \in Values(size), NEW b \in Values(size), NEW x \in {0, 1},
           NEW plus \in BOOLEAN, NEW e, e = Combined(plus, a, b, x), NEW sr \in StatusRegisters,
           NEW op, op = (IF plus THEN "Add" ELSE "Sub"), NEW set, set = SetArithmetic(sr, b, a, e, size, op)
    PROVE  /\ Limb(plus, a, b, x, size, 1, Low(e, size), set)
           /\ Limb(plus, a, b, x, size, sr.z, Low(e, size), StickyZero(sr, set))
<1> DEFINE n == msb(e, size)
           z == is_zero(e, size)
           v == is_overflow(b, a, e, size, op)
           c == is_carry(e, size)
           first == [sr EXCEPT !.n = n, !.z = z, !.v = v, !.c = c]
           f == Combined(plus, Signed(a, size), Signed(b, size), x)
           last == StickyZero(sr, set)
<1>1. set = [first EXCEPT !.x = c]
  BY DEF SetArithmetic, SetCompare
<1>2. v = Flag(~Fits(f, size))
  <2>1. ~Fits(f, size) <=> /\ (IF plus THEN msb(b, size) ELSE 1 - msb(b, size)) = msb(a, size)
                           /\ msb(e, size) # msb(a, size)
    BY LimbOverflows
  <2>2. v = Flag(/\ (IF plus THEN msb(b, size) ELSE 1 - msb(b, size)) = msb(a, size)
                 /\ msb(e, size) # msb(a, size))
    <3>1. CASE plus
      BY <3>1 DEF is_overflow, Subtracts
    <3>2. CASE ~plus
      BY <3>2 DEF is_overflow, Subtracts
    <3> QED BY <3>1, <3>2
  <2> HIDE DEF v, f
  <2> QED BY <2>1, <2>2 DEF Flag
<1>3. z = Flag(Low(e, size) = 0) /\ c = Flag(e # Low(e, size))
  BY DEF is_zero, is_carry
<1> HIDE DEF n, z, v, c
<1>4. set.n = n /\ set.z = z /\ set.v = v /\ set.c = c /\ set.x = c
  BY <1>1 DEF StatusRegisters
<1>5. last = [set EXCEPT !.z = IF set.z = 1 THEN sr.z ELSE 0] 
  BY DEF StickyZero
<1>6. last.n = n /\ last.z = (IF z = 1 THEN sr.z ELSE 0) /\ last.v = v /\ last.c = c /\ last.x = c
  <2>1. DOMAIN set = {"c", "v", "z", "n", "x", "s", "mask"} /\ set = [k \in DOMAIN set |-> set[k]]
    BY <1>1 DEF StatusRegisters
  <2> QED BY <1>4, <1>5, <2>1
<1> HIDE DEF first, last, f
<1>7. Limb(plus, a, b, x, size, 1, Low(e, size), set)
  <2>1. set.z = IF Low(e, size) = 0 THEN 1 ELSE 0
    BY <1>3, <1>4 DEF Flag
  <2> QED BY <1>2, <1>3, <1>4, <2>1 DEF Limb, f, n
<1>8. Limb(plus, a, b, x, size, sr.z, Low(e, size), last)
  <2>1. last.z = IF Low(e, size) = 0 THEN sr.z ELSE 0
    BY <1>3, <1>6 DEF Flag
  <2> QED BY <1>2, <1>3, <1>6, <2>1 DEF Limb, f, n
<1> QED BY <1>7, <1>8 DEF last

(* NEG and NEGX subtract from zero.                                        *)
LEMMA NegatedIs ==
    ASSUME NEW d \in Int, NEW x \in {0, 1}, NEW sr, NEW kind, (kind = "Neg" /\ x = 0) \/ (kind = "Negx" /\ x = sr.x), NEW size
    PROVE  Unary(kind, size, d, sr).value = Combined(FALSE, 0, d, x)
<1>1. Unary(kind, size, d, sr).value = -d - 1 + Flag(kind = "Neg" \/ sr.x = 0)
  BY DEF Unary
<1>2. -d - 1 + Flag(kind = "Neg" \/ sr.x = 0) = -d - x
  BY DEF Flag
<1>3. -d - x = Combined(FALSE, 0, d, x)
  BY DEF Combined
<1> QED BY <1>1, <1>2, <1>3

(* NEG and NEGX leave the flags of a limb of a subtraction from zero.      *)
LEMMA NegatedFlags ==
    ASSUME EightBits, NEW size \in Sizes, NEW d \in Values(size), NEW sr \in StatusRegisters, NEW kind \in {"Neg", "Negx"},
           NEW x, x = (IF kind = "Neg" THEN 0 ELSE sr.x), NEW done, done = Unary(kind, size, d, sr),
           NEW set, set = SetUnary(sr, kind, size, done), NEW z, z = IF kind = "Neg" THEN 1 ELSE sr.z
    PROVE  Limb(FALSE, 0, d, x, size, z, Low(done.value, size), set)
<1> DEFINE e == done.value
           H == Half(size)
           sd == Signed(d, size)
           f == Combined(FALSE, Signed(0, size), sd, x)
           adds == kind = "Neg" \/ sr.x = 0
           inverted == -d - 1
           v == done.v
           set1 == [sr EXCEPT !.n = msb(e, size), !.z = is_zero(e, size), !.v = 0, !.c = 0]
           set2 == [set1 EXCEPT !.v = v]
           c == is_carry(e, size)
           set3 == [set2 EXCEPT !.c = c, !.x = c]
<1>1. d \in Int /\ 0 <= d /\ d < 2 * H /\ H \in Nat \ {0} /\ Span(size) = 2 * H /\ sd = IF d < H THEN d ELSE d - 2 * H
  BY ValueSigns
<1>2. x \in {0, 1} /\ (adds <=> x = 0)
  BY DEF StatusRegisters, Bit
<1>3. e = inverted + Flag(adds) /\ v = Flag(adds /\ Low(inverted, size) = Span(size) \div 2 - 1)
  BY DEF Unary
<1>4. e = -d - x
  BY <1>1, <1>2, <1>3 DEF Flag
<1>5. Signed(0, size) = 0
  <2>1. 0 \in Values(size)
    BY <1>1 DEF Values
  <2> QED BY <1>1, <2>1, ValueSigns
<1>6. f = -sd - x
  BY <1>1, <1>2, <1>5 DEF Combined
<1>7. Fits(f, size) <=> -H <= f /\ f < H
  BY DEF Fits
<1>8. Low(inverted, size) = 2 * H - 1 - d
  <2> DEFINE g == inverted
  <2>1. g \in Int /\ -Span(size) <= g /\ g < 0 /\ g < Span(size)
    BY <1>1
  <2> HIDE DEF g
  <2>2. Low(g, size) = g + Span(size)
    BY <2>1, LowIs
  <2>3. Low(inverted, size) = inverted + Span(size)
    BY <2>2 DEF g
  <2> QED BY <1>1, <2>3
<1>9. Span(size) \div 2 = H
  BY <1>1
<1> HIDE DEF H, sd, f, adds
<1>10. v = Flag(~Fits(f, size))
  <2>1. adds /\ 2 * H - 1 - d = H - 1 <=> ~(-H <= f /\ f < H)
    <3>1. CASE x = 0
      BY <1>1, <1>2, <1>6, <3>1
    <3>2. CASE x = 1
      BY <1>1, <1>2, <1>6, <3>2
    <3> QED BY <1>2, <3>1, <3>2
  <2> QED BY <1>3, <1>7, <1>8, <1>9, <2>1 DEF Flag
<1>11. set = IF kind = "Negx" THEN StickyZero(sr, set3) ELSE set3
  BY DEF SetUnary, SetLogic
<1>12. is_zero(e, size) = Flag(Low(e, size) = 0) /\ c = Flag(e # Low(e, size))
  BY DEF is_zero, is_carry
<1> HIDE DEF e, v, c, inverted
<1>13. set3.n = msb(e, size) /\ set3.z = is_zero(e, size) /\ set3.v = v /\ set3.c = c /\ set3.x = c
  BY DEF StatusRegisters
<1>14. set.n = msb(e, size) /\ set.v = v /\ set.c = c /\ set.x = c
       /\ set.z = IF kind = "Negx" THEN (IF set3.z = 1 THEN sr.z ELSE 0) ELSE set3.z
  <2>1. CASE kind = "Negx"
    <3>1. set = [set3 EXCEPT !.z = IF set3.z = 1 THEN sr.z ELSE 0]
      BY <1>11, <2>1 DEF StickyZero
    <3>2. DOMAIN set3 = {"c", "v", "z", "n", "x", "s", "mask"} /\ set3 = [k \in DOMAIN set3 |-> set3[k]]
      BY DEF StatusRegisters
    <3> HIDE DEF set3
    <3> QED BY <1>13, <2>1, <3>1, <3>2
  <2>2. CASE kind # "Negx"
    BY <1>11, <1>13, <2>2
  <2> QED BY <2>1, <2>2
<1>15. set.z = IF Low(e, size) = 0 THEN z ELSE 0
  BY <1>12, <1>13, <1>14 DEF Flag
<1>16. e = Combined(FALSE, 0, d, x)
  BY <1>1, <1>2, <1>4 DEF Combined
<1>17. Limb(FALSE, 0, d, x, size, z, Low(e, size), set)
  BY <1>10, <1>12, <1>14, <1>15, <1>16 DEF Limb, f, sd
<1> QED BY <1>17 DEF e

(* The operands are data registers.                                        *)
OnRegisters(i) == \A role \in Roles \cap DOMAIN i : i[role].kind = "DataRegister"

(* The low bits of what is written to a data register are read from it,    *)
(* and the other data registers are kept.                                  *)
LEMMA StoredIn ==
    ASSUME EightBits, NEW D, NEW x \in Machines(D), Ok(x), NEW i, i["dst"] \in Targets, i["dst"].kind = "DataRegister",
           NEW size \in Sizes, NEW v \in Int, NEW sr, NEW r, r = Then(Write(x, i, "dst", size, v), sr)
    PROVE  /\ Ok(r) /\ r.sr = sr /\ InRegister(r, i["dst"], size) = Low(v, size)
           /\ \A n \in 0 .. 7 : n # i["dst"].index => r.d[n] = x.d[n]
<1> DEFINE w == Write(x, i, "dst", size, v)
           n == i["dst"].index
           new == Replaced(x.d[n], v, size)
<1>1. w = Write(x, i, "dst", size, v) /\ r = Then(w, sr) /\ n = i["dst"].index /\ "dst" \in Roles
  BY DEF Roles
<1>2. n \in 0 .. 7 /\ x.d[n] \in Int
  <2>1. n \in 0 .. 7
    BY <1>1, TargetIn DEF IsRegister
  <2>2. x.d[n] \in Values(Long)
    BY <2>1, RegisterIn
  <2> QED BY <2>1, <2>2, ValuesWiden
<1> HIDE DEF w, n
<1>3. StoresIn(x, n, new, w)
  BY <1>1, RegisterWritten
<1>4. Low(new, size) = Low(v, size)
  BY <1>2, ReplacedLow
<1> HIDE DEF new
<1>5. w.status = "ok" /\ DOMAIN w = DOMAIN x /\ w.d = [x.d EXCEPT ![n] = new]
  BY <1>3 DEF StoresIn, Ok
<1>6. r = [w EXCEPT !.sr = sr]
  BY <1>1, <1>5 DEF Then, Ok
<1>7. r.sr = sr /\ r.d = w.d /\ r.status = "ok"
  BY <1>5, <1>6 DEF Machines
<1>8. r.d[n] = new /\ \A k \in 0 .. 7 : k # n => r.d[k] = x.d[k]
  BY <1>2, <1>5, <1>7 DEF Machines
<1>9. InRegister(r, i["dst"], size) = Low(v, size)
  BY <1>1, <1>4, <1>8 DEF InRegister
<1> QED BY <1>1, <1>7, <1>8, <1>9 DEF Ok

(* Two operands in data registers are what the registers held when the     *)
(* instruction began.                                                      *)
LEMMA BothRead ==
    ASSUME EightBits, NEW D, NEW m \in Machines(D), NEW i, "src" \in DOMAIN i, "dst" \in DOMAIN i,
           i["src"].kind = "DataRegister", i["dst"].kind = "DataRegister",
           NEW p, p = try_decrement_address(m, i, "src"), NEW k, k = p \/ k = try_increment_address(p, i, "src"),
           NEW q, q = try_decrement_address(k, i, "dst"), NEW size
    PROVE  /\ Accessible(p, i["src"], size) /\ OperandValue(p, i["src"], size) = InRegister(m, i["src"], size)
           /\ Accessible(q, i["dst"], size) /\ OperandValue(q, i["dst"], size) = InRegister(m, i["dst"], size)
           /\ q \in Machines(D) /\ q.d = m.d /\ q.sr = m.sr /\ q.status = m.status
<1>1. "src" \in Roles /\ "dst" \in Roles /\ IsRegister(i["src"]) /\ IsRegister(i["dst"])
  BY DEF Roles, IsRegister
<1>2. SameRegisters(D, m, p) /\ ReadsRegister(m, i["src"], p)
  BY <1>1, RegisterRead
<1>3. p \in Machines(D)
  BY <1>2 DEF SameRegisters
<1>4. k \in Machines(D) /\ k.d = p.d /\ k.sr = p.sr /\ k.status = p.status
  <2>1. CASE k = p
    BY <1>3, <2>1
  <2>2. CASE k = try_increment_address(p, i, "src")
    <3>1. SameRegisters(D, p, k)
      BY <1>1, <1>3, <2>2, RegisterKept
    <3> QED BY <3>1 DEF SameRegisters
  <2> QED BY <2>1, <2>2
<1>5. SameRegisters(D, k, q) /\ ReadsRegister(k, i["dst"], q)
  BY <1>1, <1>4, RegisterRead
<1>6. q \in Machines(D) /\ q.d = m.d /\ q.sr = m.sr /\ q.status = m.status
  BY <1>2, <1>4, <1>5 DEF SameRegisters
<1>7. InRegister(k, i["dst"], size) = InRegister(m, i["dst"], size)
  BY <1>2, <1>4 DEF SameRegisters, InRegister
<1> QED BY <1>2, <1>5, <1>6, <1>7 DEF ReadsRegister

(* The instructions that make limbs, what they combine, and the flags that *)
(* they read.                                                              *)
LimbKinds == {"Add", "Sub", "Addx", "Subx", "Neg", "Negx"}
Negates(i) == i.kind \in {"Neg", "Negx"}
Extends(i) == i.kind \in {"Addx", "Subx", "Negx"}
Adds(i) == i.kind \in {"Add", "Addx"}
First(m, i) == IF Negates(i) THEN 0 ELSE InRegister(m, i["dst"], i.size)
Second(m, i) == IF Negates(i) THEN InRegister(m, i["dst"], i.size) ELSE InRegister(m, i["src"], i.size)
CarryIn(m, i) == IF Extends(i) THEN m.sr.x ELSE 0
ZeroIn(m, i) == IF Extends(i) THEN m.sr.z ELSE 1

(* What an instruction did when it made a limb.                            *)
LimbDone(m, i, r) ==
    /\ Ok(r) /\ \A n \in 0 .. 7 : n # i["dst"].index => r.d[n] = m.d[n]
    /\ Limb(Adds(i), First(m, i), Second(m, i), CarryIn(m, i), i.size, ZeroIn(m, i), InRegister(r, i["dst"], i.size), r.sr)

(* ADD, SUB, ADDX and SUBX on data registers make a limb.                  *)
LEMMA TwoLimbs ==
    ASSUME EightBits, NEW D, NEW m \in Machines(D), Ok(m), NEW i, WellFormed(i), OnRegisters(i),
           i.kind \in {"Add", "Sub", "Addx", "Subx"},
           NEW r, r = IF i.kind \in {"Add", "Sub"} THEN ExecBinary(m, i) ELSE ExecExtend(m, i)
    PROVE  LimbDone(m, i, r)
<1> DEFINE size == i.size
           op == opcode_type(i.kind)
           p == try_decrement_address(m, i, "src")
           s == OperandValue(p, i["src"], size)
           k == IF i.kind \in {"Add", "Sub"} THEN try_increment_address(p, i, "src") ELSE p
           q == try_decrement_address(k, i, "dst")
           d == OperandValue(q, i["dst"], size)
           x == IF i.kind \in {"Add", "Sub"} THEN 0 ELSE q.sr.x
           e == do_binary_op(op, s + x, d)
           set == SetArithmetic(q.sr, s, d, e, size, op)
           sr == IF i.kind \in {"Add", "Sub"} THEN set ELSE StickyZero(q.sr, set)
           plus == Adds(i)
<1>1. "src" \in DOMAIN i /\ "dst" \in DOMAIN i /\ i["src"] \in Targets /\ i["dst"] \in Targets
      /\ i["src"].kind = "DataRegister" /\ i["dst"].kind = "DataRegister"
  BY Operands DEF UsesSrc, UsesDst, UsesBoth, Roles, Shifts, BinaryKinds, ExtendKinds, OnRegisters
<1>2. size \in Sizes
  BY SizeIn DEF UsesSize, BinaryKinds, ExtendKinds
<1>3. op = (IF plus THEN "Add" ELSE "Sub") /\ plus \in BOOLEAN
  BY DEF opcode_type, Adds
<1>4. p = try_decrement_address(m, i, "src") /\ (k = p \/ k = try_increment_address(p, i, "src"))
      /\ q = try_decrement_address(k, i, "dst")
  OBVIOUS
<1> HIDE DEF p, k, q
<1>5. /\ Accessible(p, i["src"], size) /\ s = InRegister(m, i["src"], size)
      /\ Accessible(q, i["dst"], size) /\ d = InRegister(m, i["dst"], size)
      /\ q \in Machines(D) /\ q.d = m.d /\ q.sr = m.sr /\ q.status = m.status
  BY <1>1, <1>4, BothRead
<1>6. s \in Values(size) /\ d \in Values(size) /\ s \in Int /\ d \in Int
  <2>1. InRegister(m, i["src"], size) \in Values(size) /\ InRegister(m, i["dst"], size) \in Values(size)
    BY <1>1, <1>2, InRegisterIn DEF IsRegister
  <2>2. Values(size) \subseteq Int
    BY <1>2, ValuesAreInts
  <2> QED BY <1>5, <2>1, <2>2
<1>7. q.sr \in StatusRegisters /\ x \in {0, 1} /\ x = CarryIn(m, i)
  BY <1>5 DEF Machines, StatusRegisters, Bit, CarryIn, Extends
<1>8. r = IF Accessible(p, i["src"], size)
          THEN IF Accessible(q, i["dst"], size) THEN Then(Write(q, i, "dst", size, e), sr) ELSE Fail(q)
          ELSE Fail(p)
  <2>1. CASE i.kind \in {"Add", "Sub"}
    <3>1. op # "Cmp" /\ op \in {"Add", "Sub"}
      BY <1>3
    <3>2. SetBinary(q.sr, s, d, e, size, op) = sr
      BY <2>1, <3>1 DEF SetBinary
    <3>3. e = do_binary_op(op, s, d)
      BY <1>6, <2>1
    <3>4. q = try_decrement_address(try_increment_address(p, i, "src"), i, "dst")
      BY <1>4, <2>1 DEF k
    <3> HIDE DEF s, d, e, op, sr
    <3> DEFINE v == do_binary_op(op, s, d)
    <3>5. r = IF Accessible(p, i["src"], size)
              THEN IF Accessible(q, i["dst"], size)
                   THEN Then(IF op = "Cmp" THEN q ELSE Write(q, i, "dst", size, v),
                             SetBinary(q.sr, s, d, v, size, op))
                   ELSE Fail(q)
              ELSE Fail(p)
      BY <1>4, <2>1, <3>4, Zenon DEF ExecBinary, Read, s, d, op, p
    <3> QED BY <3>1, <3>2, <3>3, <3>5
  <2>2. CASE ~(i.kind \in {"Add", "Sub"})
    <3>1. q = try_decrement_address(p, i, "dst")
      BY <1>4, <2>2 DEF k
    <3> DEFINE v == do_binary_op(op, s + q.sr.x, d)
    <3>2. r = IF Accessible(p, i["src"], size)
              THEN IF Accessible(q, i["dst"], size)
                   THEN Then(Write(q, i, "dst", size, v), StickyZero(q.sr, SetArithmetic(q.sr, s, d, v, size, op)))
                   ELSE Fail(q)
              ELSE Fail(p)
      BY <2>2, <3>1, Zenon DEF ExecExtend, Read, p
    <3>3. e = v /\ sr = StickyZero(q.sr, SetArithmetic(q.sr, s, d, v, size, op))
      BY <2>2
    <3> HIDE DEF v, e, sr, s, d, op
    <3> QED BY <3>2, <3>3
  <2> QED BY <2>1, <2>2
<1>9. e = Combined(plus, d, s, x)
  <2> HIDE DEF s, d, x, op, plus
  <2>1. x \in Int
    BY <1>7
  <2>2. CASE plus
    <3>0. op = "Add"
      BY <1>3, <2>2
    <3>1. e = s + x + d
      BY <3>0 DEF do_binary_op, Subtracts
    <3> HIDE DEF e
    <3> QED BY <1>6, <2>1, <2>2, <3>1 DEF Combined
  <2>3. CASE ~plus
    BY <1>3, <1>6, <2>1, <2>3 DEF do_binary_op, Combined, Subtracts
  <2> QED BY <2>2, <2>3
<1>10. set = SetArithmetic(q.sr, s, d, e, size, op)
  OBVIOUS
<1> HIDE DEF s, d, e, set, op, x, plus
<1>11. Limb(plus, d, s, x, size, 1, Low(e, size), set) /\ Limb(plus, d, s, x, size, q.sr.z, Low(e, size), StickyZero(q.sr, set))
  BY <1>2, <1>3, <1>6, <1>7, <1>9, <1>10, LimbFlags
<1>12. Limb(plus, d, s, x, size, ZeroIn(m, i), Low(e, size), sr)
  BY <1>5, <1>11 DEF ZeroIn, Extends
<1> HIDE DEF sr
<1>13. r = Then(Write(q, i, "dst", size, e), sr) /\ e \in Int /\ Ok(q)
  BY <1>5, <1>6, <1>7, <1>8, <1>9 DEF Combined, Ok
<1>14. /\ Ok(r) /\ r.sr = sr /\ InRegister(r, i["dst"], size) = Low(e, size)
       /\ \A n \in 0 .. 7 : n # i["dst"].index => r.d[n] = q.d[n]
  BY <1>1, <1>2, <1>5, <1>13, StoredIn
<1>15. First(m, i) = d /\ Second(m, i) = s
  BY <1>5 DEF First, Second, Negates
<1> QED BY <1>5, <1>7, <1>12, <1>14, <1>15 DEF LimbDone, plus

(* NEG and NEGX on a data register make a limb.                            *)
LEMMA NegatedLimb ==
    ASSUME EightBits, NEW D, NEW m \in Machines(D), Ok(m), NEW i, WellFormed(i), OnRegisters(i),
           i.kind \in {"Neg", "Negx"}, NEW r, r = ExecUnary(m, i)
    PROVE  LimbDone(m, i, r)
<1> DEFINE size == i.size
           q == try_decrement_address(m, i, "dst")
           d == OperandValue(q, i["dst"], size)
           done == Unary(i.kind, size, d, q.sr)
           sr == SetUnary(q.sr, i.kind, size, done)
           e == done.value
           x == IF i.kind = "Neg" THEN 0 ELSE q.sr.x
           z == IF i.kind = "Neg" THEN 1 ELSE q.sr.z
<1>1. "dst" \in Roles /\ "dst" \in DOMAIN i /\ i["dst"] \in Targets /\ i["dst"].kind = "DataRegister" /\ IsRegister(i["dst"])
  BY Operands DEF UsesDst, UnaryKinds, Roles, Shifts, OnRegisters, IsRegister
<1>2. size \in Sizes
  BY SizeIn DEF UsesSize, UnaryKinds
<1>3. q = try_decrement_address(m, i, "dst")
  OBVIOUS
<1>4. r = IF Accessible(q, i["dst"], size) THEN Then(Write(q, i, "dst", size, e), sr) ELSE Fail(q)
  BY Zenon DEF ExecUnary, Read
<1> HIDE DEF q
<1>5. /\ Accessible(q, i["dst"], size) /\ d = InRegister(m, i["dst"], size)
      /\ q \in Machines(D) /\ q.d = m.d /\ q.sr = m.sr /\ q.status = m.status
  <2>1. SameRegisters(D, m, q) /\ ReadsRegister(m, i["dst"], q)
    BY <1>1, <1>3, RegisterRead
  <2> QED BY <2>1 DEF SameRegisters, ReadsRegister
<1>6. d \in Values(size) /\ d \in Int
  <2>1. InRegister(m, i["dst"], size) \in Values(size)
    BY <1>1, <1>2, InRegisterIn
  <2>2. Values(size) \subseteq Int
    BY <1>2, ValuesAreInts
  <2> QED BY <1>5, <2>1, <2>2
<1>7. q.sr \in StatusRegisters /\ x \in {0, 1} /\ x = CarryIn(m, i) /\ z = ZeroIn(m, i)
  BY <1>5 DEF Machines, StatusRegisters, Bit, CarryIn, ZeroIn, Extends
<1>8. done = Unary(i.kind, size, d, q.sr) /\ sr = SetUnary(q.sr, i.kind, size, done)
      /\ x = (IF i.kind = "Neg" THEN 0 ELSE q.sr.x) /\ z = IF i.kind = "Neg" THEN 1 ELSE q.sr.z
  OBVIOUS
<1> HIDE DEF d, x, z, done, sr
<1>9. Limb(FALSE, 0, d, x, size, z, Low(e, size), sr) /\ e = Combined(FALSE, 0, d, x)
  <2> DEFINE kind == i.kind
  <2>1. kind \in {"Neg", "Negx"} /\ done = Unary(kind, size, d, q.sr) /\ sr = SetUnary(q.sr, kind, size, done)
        /\ x = (IF kind = "Neg" THEN 0 ELSE q.sr.x) /\ z = IF kind = "Neg" THEN 1 ELSE q.sr.z
    BY <1>8
  <2>2. size \in Sizes /\ d \in Values(size) /\ q.sr \in StatusRegisters
    BY <1>2, <1>6, <1>7
  <2> HIDE DEF kind, size
  <2>3. Limb(FALSE, 0, d, x, size, z, Low(done.value, size), sr)
    BY <2>1, <2>2, NegatedFlags
  <2>4. done.value = Combined(FALSE, 0, d, x)
    <3>1. d \in Int /\ x \in {0, 1} /\ ((kind = "Neg" /\ x = 0) \/ (kind = "Negx" /\ x = q.sr.x))
      <4>1. kind = "Neg" \/ kind = "Negx"
        BY <2>1
      <4>2. x = IF kind = "Neg" THEN 0 ELSE q.sr.x
        BY <2>1
      <4> QED BY <1>6, <1>7, <4>1, <4>2, Zenon
    <3> QED BY <2>1, <3>1, NegatedIs
  <2> QED BY <2>3, <2>4
<1> HIDE DEF e
<1>10. e \in Int /\ Ok(q) /\ r = Then(Write(q, i, "dst", size, e), sr)
  BY <1>4, <1>5, <1>6, <1>7, <1>9 DEF Combined, Ok
<1>11. /\ Ok(r) /\ r.sr = sr /\ InRegister(r, i["dst"], size) = Low(e, size)
       /\ \A n \in 0 .. 7 : n # i["dst"].index => r.d[n] = q.d[n]
  BY <1>1, <1>2, <1>5, <1>10, StoredIn
<1>12. First(m, i) = 0 /\ Second(m, i) = d /\ Adds(i) = FALSE
  BY <1>5 DEF First, Second, Negates, Adds
<1> QED BY <1>5, <1>7, <1>9, <1>11, <1>12 DEF LimbDone

(* Every executed instruction of these kinds made a limb.                  *)
LEMMA LimbExecuted ==
    ASSUME EightBits, Trace, NEW k \in Executed, program[k].kind \in LimbKinds, OnRegisters(program[k])
    PROVE  LimbDone(Before(k), program[k], After(k))
<1> DEFINE i == program[k]
           m == Before(k)
           r == After(k)
           f == Forget(m)
           done == Perform(f, i)
           D == DOMAIN machine.mem
<1>1. WellFormed(i) /\ m \in Machines(D) /\ Ok(m) /\ r = Execute(m, i)
  BY DEF Trace, Executes1, Executed
<1>2. i.kind \in LimbKinds /\ OnRegisters(i) /\ f = Forget(m) /\ done = Perform(f, i)
  OBVIOUS
<1> HIDE DEF i, m, r, f, done, D
<1>3. \A role \in Roles \cap DOMAIN i : i[role].kind # "AddressIncrement"
  BY <1>2 DEF OnRegisters
<1>4. /\ f \in Machines(D) /\ f.d = m.d /\ f.sr = m.sr /\ Ok(f) /\ r.d = done.d /\ r.sr = done.sr /\ r.status = done.status
      /\ \A n \in 0 .. 7 : a_reg(f, n) = a_reg(m, n)
  BY <1>1, <1>2, <1>3, EndsOnRegisters
<1>5. LimbDone(f, i, done)
  <2>1. CASE i.kind \in {"Add", "Sub"}
    <3>1. done = ExecBinary(f, i)
      BY <1>2, <2>1, Zenon DEF Perform, BinaryKinds, AddressKinds, QuickKinds, ExtendKinds, UnaryKinds, ToCcrKinds, ToSrKinds, Shifts, BitKinds
    <3> QED BY <1>1, <1>2, <1>4, <2>1, <3>1, TwoLimbs
  <2>2. CASE i.kind \in {"Addx", "Subx"}
    <3>1. done = ExecExtend(f, i)
      BY <1>2, <2>2, Zenon DEF Perform, BinaryKinds, AddressKinds, QuickKinds, ExtendKinds, UnaryKinds, ToCcrKinds, ToSrKinds, Shifts, BitKinds
    <3>2. ~(i.kind \in {"Add", "Sub"}) /\ i.kind \in {"Add", "Sub", "Addx", "Subx"}
      BY <2>2
    <3> QED BY <1>1, <1>2, <1>4, <3>1, <3>2, TwoLimbs
  <2>3. CASE i.kind \in {"Neg", "Negx"}
    <3>1. done = ExecUnary(f, i)
      BY <1>2, <2>3, Zenon DEF Perform, BinaryKinds, AddressKinds, QuickKinds, ExtendKinds, UnaryKinds, ToCcrKinds, ToSrKinds, Shifts, BitKinds
    <3> QED BY <1>1, <1>2, <1>4, <2>3, <3>1, NegatedLimb
  <2> QED BY <1>2, <2>1, <2>2, <2>3 DEF LimbKinds
<1>6. "dst" \in DOMAIN i /\ i["dst"].kind = "DataRegister" /\ (~Negates(i) => "src" \in DOMAIN i /\ i["src"].kind = "DataRegister")
  BY <1>1, <1>2, Operands DEF LimbKinds, Negates, UsesSrc, UsesDst, UsesBoth, Roles, Shifts, BinaryKinds, ExtendKinds, UnaryKinds, OnRegisters
<1>7. InRegister(f, i["dst"], i.size) = InRegister(m, i["dst"], i.size)
      /\ InRegister(done, i["dst"], i.size) = InRegister(r, i["dst"], i.size)
      /\ (~Negates(i) => InRegister(f, i["src"], i.size) = InRegister(m, i["src"], i.size))
  BY <1>4, <1>6 DEF InRegister
<1>8. First(f, i) = First(m, i) /\ Second(f, i) = Second(m, i) /\ CarryIn(f, i) = CarryIn(m, i) /\ ZeroIn(f, i) = ZeroIn(m, i)
  BY <1>4, <1>7 DEF First, Second, CarryIn, ZeroIn
<1>9. LimbDone(m, i, r)
  BY <1>4, <1>5, <1>7, <1>8 DEF LimbDone, Ok
<1> QED BY <1>9 DEF i, m, r

(* Two limbs as a number.                                                  *)
WideSign(v, wide) == IF v >= wide \div 2 THEN v - wide ELSE v

(* Multiplication by the span distributes and keeps the order.             *)
LEMMA ScaledBy ==
    ASSUME NEW S \in Nat \ {0}, NEW a \in Int, NEW b \in Int
    PROVE  /\ S * a \in Int /\ S * (a + b) = S * a + S * b /\ S * (a - b) = S * a - S * b
           /\ a <= b => S * a <= S * b
           /\ S * a = S * b => a = b
<1>1. S * a \in Int /\ S * (a + b) = S * a + S * b /\ S * (a - b) = S * a - S * b
  OBVIOUS
<1>2. a <= b => S * a <= S * b
  OBVIOUS
<1>3. ASSUME S * a = S * b PROVE a = b
  <2>1. a < b => S * a < S * b
    OBVIOUS
  <2>2. b < a => S * b < S * a
    OBVIOUS
  <2> QED BY <1>3, <2>1, <2>2
<1> QED BY <1>1, <1>2, <1>3

(* The value, the sign and the zero of a number of two limbs.              *)
MakesNumber(H, S, wide, h, l, v) ==
    /\ v \in Int /\ 0 <= v /\ v < wide /\ v = S * h + l
    /\ WideSign(v, wide) = S * (IF h < H THEN h ELSE h - S) + l
    /\ WideSign(v, wide) < 0 <=> H <= h
    /\ v = 0 <=> h = 0 /\ l = 0

(* Two limbs make a number below the square of the span, of which the sign *)
(* is the sign of the high limb and which is zero when both are.           *)
LEMMA TwoLimbsMake ==
    ASSUME NEW H \in Nat \ {0}, NEW S, S = 2 * H, NEW wide, wide = S * S,
           NEW h \in 0 .. S - 1, NEW l \in 0 .. S - 1, NEW v, v = h * S + l
    PROVE  MakesNumber(H, S, wide, h, l, v)
<1>1. S \in Nat \ {0} /\ h \in Int /\ l \in Int /\ wide \in Int /\ S * H \in Int /\ S * h \in Int
  OBVIOUS
<1>2. wide = 2 * (S * H)
  OBVIOUS
<1>3. wide \div 2 = S * H
  <2>1. wide = 2 * (S * H) + 0
    BY <1>1, <1>2
  <2> DEFINE g == S * H
  <2>2. g \in Int /\ wide = 2 * g + 0
    BY <1>1, <2>1
  <2> HIDE DEF g
  <2>3. wide \div 2 = g
    BY <1>1, <2>2, Divides
  <2> QED BY <2>3 DEF g
<1>4. v = S * h + l
  OBVIOUS
<1>5. h < H => S * h <= S * H - S
  <2>1. h <= H - 1 => S * h <= S * (H - 1)
    BY <1>1, ScaledBy
  <2>2. S * (H - 1) = S * H - S
    BY <1>1
  <2> QED BY <1>1, <2>1, <2>2
<1>6. H <= h => S * H <= S * h
  BY <1>1, ScaledBy
<1>7. 0 <= S * h /\ (h # 0 => S <= S * h)
  <2>1. S * 0 <= S * h /\ (1 <= h => S * 1 <= S * h)
    BY <1>1, ScaledBy
  <2> QED BY <1>1, <2>1
<1>8. S * h <= wide - S
  <2>1. h <= S - 1 => S * h <= S * (S - 1)
    BY <1>1, ScaledBy
  <2>2. S * (S - 1) = wide - S
    BY <1>1
  <2> QED BY <1>1, <2>1, <2>2
<1>9. S * (h - S) = S * h - wide
  BY <1>1
<1> DEFINE sh == S * h
           sH == S * H
<1>10. sh \in Int /\ sH \in Int /\ v = sh + l /\ wide = 2 * sH /\ wide \div 2 = sH
       /\ (h < H => sh <= sH - S) /\ (H <= h => sH <= sh) /\ 0 <= sh /\ (h # 0 => S <= sh) /\ sh <= wide - S
  BY <1>1, <1>2, <1>3, <1>4, <1>5, <1>6, <1>7, <1>8
<1>11. WideSign(v, wide) = IF h < H THEN sh + l ELSE S * (h - S) + l
  <2>1. v >= sH <=> H <= h
    <3> HIDE DEF sh, sH
    <3> QED BY <1>1, <1>10
  <2>2. WideSign(v, wide) = IF v >= sH THEN v - wide ELSE v
    BY <1>10 DEF WideSign
  <2>3. S * (h - S) = sh - wide
    BY <1>9
  <2> HIDE DEF sh, sH
  <2> DEFINE k == S * (h - S)
  <2>4. k = sh - wide
    BY <2>3
  <2> HIDE DEF k
  <2>5. WideSign(v, wide) = IF h < H THEN sh + l ELSE k + l
    BY <1>1, <1>10, <2>1, <2>2, <2>4
  <2> QED BY <2>5 DEF k
<1>12. WideSign(v, wide) < 0 <=> H <= h
  <2> DEFINE k == S * (h - S)
  <2>1. k = sh - wide
    BY <1>9
  <2> HIDE DEF sh, sH, k
  <2>2. WideSign(v, wide) = IF h < H THEN sh + l ELSE k + l
    BY <1>11 DEF k
  <2> QED BY <1>1, <1>10, <2>1, <2>2
<1>13. WideSign(v, wide) = S * (IF h < H THEN h ELSE h - S) + l
  BY <1>11
<1>14. v = 0 <=> h = 0 /\ l = 0
  <2>1. h = 0 => sh = 0
    BY <1>1
  <2> HIDE DEF sh, sH
  <2> QED BY <1>1, <1>10, <2>1
<1>15. 0 <= v /\ v < wide /\ v \in Int
  <2> HIDE DEF sh, sH
  <2> QED BY <1>1, <1>10
<1> QED BY <1>4, <1>12, <1>13, <1>14, <1>15 DEF MakesNumber

(* One limb as a number.                                                   *)
HalfSign(v, H) == IF v < H THEN v ELSE v - 2 * H

(* A limb in numbers.                                                      *)
LimbNumbers(plus, a, b, x, H, z, value, sr) ==
    /\ value \in 0 .. 2 * H - 1 /\ sr.c \in {0, 1} /\ sr.x = sr.c
    /\ value = IF plus THEN a + b + x - 2 * H * sr.c ELSE a - b - x + 2 * H * sr.c
    /\ sr.n = (IF value < H THEN 0 ELSE 1) /\ sr.z = (IF value = 0 THEN z ELSE 0)
    /\ sr.v = Flag(Combined(plus, HalfSign(a, H), HalfSign(b, H), x) # HalfSign(value, H))

(* What a limb's value and flags say about the numbers.                    *)
LEMMA LimbIs ==
    ASSUME EightBits, NEW size \in Sizes, NEW a \in Values(size), NEW b \in Values(size), NEW x \in {0, 1},
           NEW plus \in BOOLEAN, NEW z, NEW value, NEW sr, Limb(plus, a, b, x, size, z, value, sr)
    PROVE  LimbNumbers(plus, a, b, x, Half(size), z, value, sr) /\ value \in Values(size)
<1> DEFINE H == Half(size)
           e == Combined(plus, a, b, x)
           sa == Signed(a, size)
           sb == Signed(b, size)
           f == Combined(plus, sa, sb, x)
           l == Low(e, size)
           c == sr.c
<1>1. H \in Nat \ {0} /\ Span(size) = 2 * H /\ a \in Int /\ 0 <= a /\ a < 2 * H /\ sa = HalfSign(a, H)
  BY ValueSigns DEF HalfSign
<1>2. b \in Int /\ 0 <= b /\ b < 2 * H /\ sb = HalfSign(b, H)
  BY ValueSigns DEF HalfSign
<1>3. e \in Int /\ f \in Int /\ -Span(size) <= e /\ e < 2 * Span(size)
  BY LimbOverflows
<1>4. l = (IF e < 0 THEN e + Span(size) ELSE IF e < Span(size) THEN e ELSE e - Span(size))
      /\ msb(e, size) = (IF l < H THEN 0 ELSE 1) /\ l \in Values(size)
  BY <1>3, SumLow
<1>5. value = l /\ c = Flag(e # l) /\ sr.x = c /\ sr.n = msb(e, size) /\ sr.v = Flag(~Fits(f, size)) /\ sr.z = IF l = 0 THEN z ELSE 0
  BY DEF Limb
<1>6. Fits(f, size) <=> -H <= f /\ f < H
  BY DEF Fits
<1>7. f = Combined(plus, HalfSign(a, H), HalfSign(b, H), x)
  BY <1>1, <1>2
<1> HIDE DEF H, l, sa, sb, e, f, c
<1>8. l = (IF e < 0 THEN e + 2 * H ELSE IF e < 2 * H THEN e ELSE e - 2 * H)
  BY <1>1, <1>3, <1>4
<1>9. c \in {0, 1} /\ (c = 1 <=> e # l)
  BY <1>5 DEF Flag
<1>10. CASE plus
  <2>1. e = a + b + x /\ f = HalfSign(a, H) + HalfSign(b, H) + x
    BY <1>7, <1>10 DEF Combined, e
  <2>2. ASSUME c = 0 PROVE l = a + b + x - 2 * H * c /\ (-H <= f /\ f < H <=> f = HalfSign(l, H))
    <3>1. l = a + b + x /\ 2 * H * c = 0
      BY <1>1, <1>9, <2>1, <2>2
    <3>2. -H <= f /\ f < H <=> f = HalfSign(l, H)
      BY <1>1, <1>2, <1>3, <1>4, <1>8, <2>1, <3>1 DEF HalfSign
    <3>3. l = a + b + x - 2 * H * c
      BY <1>1, <1>2, <3>1, <2>2
    <3> QED BY <1>1, <3>2, <3>3
  <2>3. ASSUME c = 1 PROVE l = a + b + x - 2 * H * c /\ (-H <= f /\ f < H <=> f = HalfSign(l, H))
    <3>1. l = a + b + x - 2 * H /\ 2 * H * c = 2 * H
      BY <1>1, <1>2, <1>8, <1>9, <2>1, <2>3
    <3>2. -H <= f /\ f < H <=> f = HalfSign(l, H)
      BY <1>1, <1>2, <1>3, <1>4, <1>8, <2>1, <3>1 DEF HalfSign
    <3>3. l = a + b + x - 2 * H * c
      BY <1>1, <1>2, <3>1, <2>3
    <3> QED BY <1>1, <3>2, <3>3
  <2>4. l = a + b + x - 2 * H * c /\ (-H <= f /\ f < H <=> f = HalfSign(l, H))
    BY <1>9, <2>2, <2>3
  <2> QED BY <1>1, <1>4, <1>5, <1>6, <1>7, <1>9, <1>10, <2>4 DEF LimbNumbers, Values, Flag, H, c
<1>11. CASE ~plus
  <2>1. e = a - b - x /\ f = HalfSign(a, H) - HalfSign(b, H) - x
    BY <1>7, <1>11 DEF Combined, e
  <2>2. ASSUME c = 0 PROVE l = a - b - x + 2 * H * c /\ (-H <= f /\ f < H <=> f = HalfSign(l, H))
    <3>1. l = a - b - x /\ 2 * H * c = 0
      BY <1>1, <1>9, <2>1, <2>2
    <3>2. -H <= f /\ f < H <=> f = HalfSign(l, H)
      BY <1>1, <1>2, <1>3, <1>4, <1>8, <2>1, <3>1 DEF HalfSign
    <3>3. l = a - b - x + 2 * H * c
      BY <1>1, <1>2, <3>1, <2>2
    <3> QED BY <1>1, <3>2, <3>3
  <2>3. ASSUME c = 1 PROVE l = a - b - x + 2 * H * c /\ (-H <= f /\ f < H <=> f = HalfSign(l, H))
    <3>1. l = a - b - x + 2 * H /\ 2 * H * c = 2 * H
      BY <1>1, <1>2, <1>8, <1>9, <2>1, <2>3
    <3>2. -H <= f /\ f < H <=> f = HalfSign(l, H)
      BY <1>1, <1>2, <1>3, <1>4, <1>8, <2>1, <3>1 DEF HalfSign
    <3>3. l = a - b - x + 2 * H * c
      BY <1>1, <1>2, <3>1, <2>3
    <3> QED BY <1>1, <3>2, <3>3
  <2>4. l = a - b - x + 2 * H * c /\ (-H <= f /\ f < H <=> f = HalfSign(l, H))
    BY <1>9, <2>2, <2>3
  <2> QED BY <1>1, <1>4, <1>5, <1>6, <1>7, <1>9, <1>11, <2>4 DEF LimbNumbers, Values, Flag, H, c
<1> QED BY <1>10, <1>11

(* The result and the flags of an operation of twice the width.            *)
Widened(plus, a, b, x, wide, z, after, sr) ==
    LET u == Combined(plus, a, b, x)
        g == Combined(plus, WideSign(a, wide), WideSign(b, wide), x)
    IN  /\ after = u % wide
        /\ sr.c = Flag(u # after) /\ sr.x = sr.c
        /\ sr.v = Flag(g # WideSign(after, wide))
        /\ sr.n = Flag(WideSign(after, wide) < 0)
        /\ z = 1 => sr.z = Flag(after = 0)

(* Two limbs that are linked by the carry and the zero.                    *)
Linked(H, S, wide, plus, x, z, a0, b0, a1, b1, v0, s0, v1, s1, a, b, after) ==
    /\ H \in Nat \ {0} /\ S = 2 * H /\ wide = S * S /\ plus \in BOOLEAN /\ x \in {0, 1}
    /\ a0 \in 0 .. S - 1 /\ b0 \in 0 .. S - 1 /\ a1 \in 0 .. S - 1 /\ b1 \in 0 .. S - 1
    /\ LimbNumbers(plus, a0, b0, x, H, z, v0, s0) /\ LimbNumbers(plus, a1, b1, s0.x, H, s0.z, v1, s1)
    /\ a = a1 * S + a0 /\ b = b1 * S + b0 /\ after = v1 * S + v0

(* Two limbs linked by the carry and the zero make one addition or         *)
(* subtraction of twice the width, in its value, carry, overflow, sign and *)
(* zero.                                                                   *)
LEMMA WideLimbs ==
    ASSUME NEW H, NEW S, NEW wide, NEW plus, NEW x, NEW z, NEW a0, NEW b0, NEW a1, NEW b1, NEW v0, NEW sr0, NEW v1, NEW sr1,
           NEW a, NEW b, NEW after, Linked(H, S, wide, plus, x, z, a0, b0, a1, b1, v0, sr0, v1, sr1, a, b, after)
    PROVE  Widened(plus, a, b, x, wide, z, after, sr1)
<1>0. /\ H \in Nat \ {0} /\ S = 2 * H /\ wide = S * S /\ plus \in BOOLEAN /\ x \in {0, 1}
      /\ a0 \in 0 .. S - 1 /\ b0 \in 0 .. S - 1 /\ a1 \in 0 .. S - 1 /\ b1 \in 0 .. S - 1
      /\ LimbNumbers(plus, a0, b0, x, H, z, v0, sr0) /\ LimbNumbers(plus, a1, b1, sr0.x, H, sr0.z, v1, sr1)
      /\ a = a1 * S + a0 /\ b = b1 * S + b0 /\ after = v1 * S + v0
  BY Zenon DEF Linked
<1> USE <1>0
<1> DEFINE c0 == sr0.c
           c1 == sr1.c
           sa1 == HalfSign(a1, H)
           sb1 == HalfSign(b1, H)
           sv1 == HalfSign(v1, H)
           f1 == Combined(plus, sa1, sb1, c0)
           u == Combined(plus, a, b, x)
           g == Combined(plus, WideSign(a, wide), WideSign(b, wide), x)
           sv == WideSign(after, wide)
           k == IF plus THEN c1 ELSE -c1
<1>1. S \in Nat \ {0} /\ a0 \in Int /\ b0 \in Int /\ a1 \in Int /\ b1 \in Int /\ x \in Int /\ wide \in Nat \ {0}
  <2>1. S \in Nat \ {0}
    OBVIOUS
  <2>2. wide \in Nat \ {0}
    BY <2>1
  <2> QED BY <2>1, <2>2
<1>2. v0 \in 0 .. S - 1 /\ v1 \in 0 .. S - 1 /\ c0 \in {0, 1} /\ c1 \in {0, 1} /\ sr0.x = c0 /\ sr1.x = c1
  BY DEF LimbNumbers
<1>3. /\ v0 = IF plus THEN a0 + b0 + x - S * c0 ELSE a0 - b0 - x + S * c0
      /\ v1 = IF plus THEN a1 + b1 + c0 - S * c1 ELSE a1 - b1 - c0 + S * c1
  BY <1>2 DEF LimbNumbers
<1>4. sr1.n = (IF v1 < H THEN 0 ELSE 1) /\ sr1.v = Flag(f1 # sv1)
      /\ sr1.z = IF v1 = 0 THEN (IF v0 = 0 THEN z ELSE 0) ELSE 0
  BY <1>2 DEF LimbNumbers
<1>5. /\ a \in Int /\ 0 <= a /\ a < wide /\ a = S * a1 + a0 /\ WideSign(a, wide) = S * sa1 + a0
      /\ b \in Int /\ 0 <= b /\ b < wide /\ b = S * b1 + b0 /\ WideSign(b, wide) = S * sb1 + b0
      /\ after \in Int /\ 0 <= after /\ after < wide /\ after = S * v1 + v0 /\ sv = S * sv1 + v0
      /\ sv < 0 <=> H <= v1
      /\ after = 0 <=> v1 = 0 /\ v0 = 0
  <2>1. \A n \in Int : HalfSign(n, H) = IF n < H THEN n ELSE n - S
    BY DEF HalfSign
  <2>2. sa1 = (IF a1 < H THEN a1 ELSE a1 - S) /\ sb1 = (IF b1 < H THEN b1 ELSE b1 - S) /\ sv1 = IF v1 < H THEN v1 ELSE v1 - S
    BY <1>1, <1>2, <2>1
  <2> HIDE DEF sa1, sb1, sv1, sv
  <2>3. MakesNumber(H, S, wide, a1, a0, a) /\ MakesNumber(H, S, wide, b1, b0, b)
    BY TwoLimbsMake
  <2>4. MakesNumber(H, S, wide, v1, v0, after)
    BY <1>2, TwoLimbsMake
  <2>5. a \in Int /\ 0 <= a /\ a < wide /\ a = S * a1 + a0 /\ WideSign(a, wide) = S * sa1 + a0
    BY <2>2, <2>3, Zenon DEF MakesNumber
  <2>6. b \in Int /\ 0 <= b /\ b < wide /\ b = S * b1 + b0 /\ WideSign(b, wide) = S * sb1 + b0
    BY <2>2, <2>3, Zenon DEF MakesNumber
  <2>7. /\ after \in Int /\ 0 <= after /\ after < wide /\ after = S * v1 + v0 /\ WideSign(after, wide) = S * sv1 + v0
        /\ WideSign(after, wide) < 0 <=> H <= v1
        /\ after = 0 <=> v1 = 0 /\ v0 = 0
    BY <2>2, <2>4, Zenon DEF MakesNumber
  <2> QED BY <2>5, <2>6, <2>7 DEF sv
<1>6. sa1 \in Int /\ sb1 \in Int /\ sv1 \in Int
  BY <1>1, <1>2 DEF HalfSign
<1> HIDE DEF c0, c1, sa1, sb1, sv1, sv
<1>7. u = wide * k + after /\ k \in Int
  <2>1. CASE plus
    <3>1. S * v1 = S * a1 + S * b1 + S * c0 - S * (S * c1)
      <4>1. v1 = a1 + b1 + c0 - S * c1
        BY <1>3, <2>1
      <4>2. S * (a1 + b1 + c0 - S * c1) = S * a1 + S * b1 + S * c0 - S * (S * c1)
        BY <1>1, <1>2
      <4> QED BY <4>1, <4>2
    <3>2. v0 = a0 + b0 + x - S * c0
      BY <1>3, <2>1
    <3>3. S * (S * c1) = wide * c1 /\ S * c0 \in Int /\ wide * c1 \in Int
      BY <1>1, <1>2
    <3>4. u = a + b + x /\ k = c1
      BY <2>1 DEF Combined
    <3> HIDE DEF u, k
    <3>5. S * a1 \in Int /\ S * b1 \in Int
      BY <1>1
    <3>6. u = wide * c1 + after
      BY <1>1, <1>2, <1>5, <3>1, <3>2, <3>3, <3>4, <3>5
    <3> QED BY <1>2, <3>4, <3>6
  <2>2. CASE ~plus
    <3>1. S * v1 = S * a1 - S * b1 - S * c0 + S * (S * c1)
      <4>1. v1 = a1 - b1 - c0 + S * c1
        BY <1>3, <2>2
      <4>2. S * (a1 - b1 - c0 + S * c1) = S * a1 - S * b1 - S * c0 + S * (S * c1)
        BY <1>1, <1>2
      <4> QED BY <4>1, <4>2
    <3>2. v0 = a0 - b0 - x + S * c0
      BY <1>3, <2>2
    <3>3. S * (S * c1) = wide * c1 /\ S * c0 \in Int /\ wide * c1 \in Int /\ wide * (-c1) = -(wide * c1)
      BY <1>1, <1>2
    <3>4. u = a - b - x /\ k = -c1
      BY <2>2 DEF Combined
    <3> HIDE DEF u, k
    <3>5. S * a1 \in Int /\ S * b1 \in Int
      BY <1>1
    <3>6. u = wide * (-c1) + after
      BY <1>1, <1>2, <1>5, <3>1, <3>2, <3>3, <3>4, <3>5
    <3> QED BY <1>2, <3>4, <3>6
  <2> QED BY <2>1, <2>2
<1>8. after = u % wide
  <2> HIDE DEF u, k
  <2>1. u \in Int
    BY <1>1, <1>5, <1>7
  <2>2. wide \in Nat \ {0} /\ k \in Int /\ after \in Int /\ 0 <= after /\ after < wide /\ u = wide * k + after
    BY <1>1, <1>5, <1>7
  <2> QED BY <2>1, <2>2, Divides
<1>9. c1 = Flag(u # after)
  <2>1. k = 0 <=> c1 = 0
    BY <1>2
  <2> HIDE DEF u, k
  <2>2. wide * k = 0 <=> k = 0
    BY <1>1, <1>7
  <2>3. wide * k \in Int
    BY <1>1, <1>7
  <2>4. u # after <=> c1 # 0
    BY <1>5, <1>7, <2>1, <2>2, <2>3
  <2> QED BY <1>2, <2>4 DEF Flag
<1>10. g = S * f1 + v0 /\ f1 \in Int
  <2>1. CASE plus
    <3>1. g = (S * sa1 + a0) + (S * sb1 + b0) + x /\ f1 = sa1 + sb1 + c0
      BY <1>5, <2>1 DEF Combined
    <3>2. S * f1 = S * sa1 + S * sb1 + S * c0 /\ S * sa1 \in Int /\ S * sb1 \in Int /\ S * c0 \in Int
      BY <1>1, <1>2, <1>6, <3>1
    <3>3. v0 = a0 + b0 + x - S * c0
      BY <1>3, <2>1
    <3> HIDE DEF g, f1
    <3>4. f1 \in Int
      BY <1>2, <1>6, <3>1
    <3> QED BY <1>1, <1>2, <3>1, <3>2, <3>3, <3>4
  <2>2. CASE ~plus
    <3>1. g = (S * sa1 + a0) - (S * sb1 + b0) - x /\ f1 = sa1 - sb1 - c0
      BY <1>5, <2>2 DEF Combined
    <3>2. S * f1 = S * sa1 - S * sb1 - S * c0 /\ S * sa1 \in Int /\ S * sb1 \in Int /\ S * c0 \in Int
      BY <1>1, <1>2, <1>6, <3>1
    <3>3. v0 = a0 - b0 - x + S * c0
      BY <1>3, <2>2
    <3> HIDE DEF g, f1
    <3>4. f1 \in Int
      BY <1>2, <1>6, <3>1
    <3> QED BY <1>1, <1>2, <3>1, <3>2, <3>3, <3>4
  <2> QED BY <2>1, <2>2
<1>11. g = sv <=> f1 = sv1
  <2> HIDE DEF g, f1
  <2>1. S * f1 = S * sv1 => f1 = sv1
    BY <1>1, <1>6, <1>10, ScaledBy
  <2>2. S * f1 \in Int /\ S * sv1 \in Int /\ v0 \in Int
    BY <1>1, <1>2, <1>6, <1>10
  <2> QED BY <1>5, <1>10, <2>1, <2>2
<1>12. sr1.v = Flag(g # sv)
  <2> HIDE DEF g, f1
  <2> QED BY <1>4, <1>11 DEF Flag
<1>13. sr1.n = Flag(sv < 0)
  BY <1>1, <1>2, <1>4, <1>5 DEF Flag
<1>14. z = 1 => sr1.z = Flag(after = 0)
  BY <1>4, <1>5 DEF Flag
<1> HIDE DEF u, g
<1> QED BY <1>2, <1>8, <1>9, <1>12, <1>13, <1>14 DEF Widened, u, g, sv, c1

(* The program is one of the chains, and it ended.                         *)
Chained == Ended /\ Len(program) = 2 /\ <<program[1].kind, program[2].kind>> \in LimbPrograms /\ InLimbs

(* What a chain of two instructions is made of: the machine between them,  *)
(* and operands in data registers, the high ones not where the low result  *)
(* went.                                                                   *)
LEMMA LinksAre ==
    ASSUME EightBits, Trace, Chained, NEW i, i = program[1], NEW j, j = program[2]
    PROVE  /\ 1 \in Executed /\ 2 \in Executed /\ Before(1) = past[1] /\ After(1) = past[2] /\ Before(2) = past[2] /\ After(2) = machine
           /\ WellFormed(i) /\ WellFormed(j) /\ OnRegisters(i) /\ OnRegisters(j)
           /\ <<i.kind, j.kind>> \in LimbPrograms /\ (i.kind \notin Decimals => i.size = j.size)
           /\ "dst" \in DOMAIN i /\ "dst" \in DOMAIN j /\ i["dst"] \in Targets /\ j["dst"] \in Targets
           /\ ("src" \in DOMAIN i <=> i.kind \notin {"Neg", "Nbcd"}) /\ ("src" \in DOMAIN j <=> j.kind \notin {"Negx", "Nbcd"})
           /\ "src" \in DOMAIN i => i["src"] \in Targets
           /\ "src" \in DOMAIN j => j["src"] \in Targets
           /\ \A role \in Roles \cap DOMAIN j : j[role].index # i["dst"].index
           /\ past[1] \in Machines(DOMAIN machine.mem) /\ past[2] \in Machines(DOMAIN machine.mem) /\ machine \in Machines(DOMAIN machine.mem)
<1> DEFINE D == DOMAIN machine.mem
<1>1. Len(past) = 2 /\ Executed = 1 .. 2
  BY DEF Chained, Ended, Executed
<1>2. 1 \in Executed /\ 2 \in Executed
  BY <1>1
<1>3. Before(1) = past[1] /\ After(1) = past[2] /\ Before(2) = past[2] /\ After(2) = machine
  BY <1>1 DEF Before, After
<1>4. /\ WellFormed(i) /\ WellFormed(j) /\ past[1] \in Machines(D) /\ past[2] \in Machines(D) /\ machine \in Machines(D)
  BY <1>1, <1>2, <1>3 DEF Trace, Executes1, Executed
<1>5. OnRegisters(i) /\ OnRegisters(j)
  BY DEF Chained, InLimbs, OnRegisters
<1>6. <<i.kind, j.kind>> \in LimbPrograms
  BY DEF Chained
<1>7. /\ i.kind \in {"Add", "Sub", "Neg", "Addx", "Abcd", "Sbcd", "Nbcd"}
      /\ j.kind \in {"Addx", "Subx", "Negx", "Abcd", "Sbcd", "Nbcd"}
  BY <1>6 DEF LimbPrograms
<1>8. (i.kind \notin Decimals => i.size = j.size) /\ \A role \in Roles \cap DOMAIN j : j[role].index # i["dst"].index
  BY DEF Chained, InLimbs
<1>9. \A t : t \in {i, j} => WellFormed(t) /\ t.kind \in {"Add", "Sub", "Neg", "Addx", "Subx", "Negx", "Abcd", "Sbcd", "Nbcd"}
  BY <1>4, <1>7
<1>10. ASSUME NEW t, t \in {i, j}
       PROVE  /\ "dst" \in DOMAIN t /\ t["dst"] \in Targets
              /\ "src" \in DOMAIN t <=> t.kind \notin {"Neg", "Negx", "Nbcd"}
              /\ "src" \in DOMAIN t => t["src"] \in Targets
  <2>1. WellFormed(t) /\ t.kind \in {"Add", "Sub", "Neg", "Addx", "Subx", "Negx", "Abcd", "Sbcd", "Nbcd"}
    BY <1>9, <1>10
  <2>2. Roles \cap DOMAIN t = {role \in Roles : \/ role = "src" /\ t.kind \in UsesSrc
                                                \/ role = "dst" /\ t.kind \in UsesDst}
    BY <2>1 DEF WellFormed, OperandsUsed, Shifts
  <2>3. t.kind \in UsesDst
    BY <2>1 DEF UsesDst, UsesBoth, BinaryKinds, ExtendKinds, UnaryKinds
  <2>4. t.kind \in UsesSrc <=> t.kind \notin {"Neg", "Negx", "Nbcd"}
    BY <2>1 DEF UsesSrc, UsesBoth, BinaryKinds, ExtendKinds, UnaryKinds, AddressKinds, BitKinds, ToCcrKinds, ToSrKinds
  <2>5. \A role \in Roles \cap DOMAIN t : t[role] \in Targets
    BY <2>1 DEF WellFormed
  <2> QED BY <2>2, <2>3, <2>4, <2>5 DEF Roles
<1> QED BY <1>2, <1>3, <1>4, <1>5, <1>6, <1>7, <1>8, <1>10

(* The operands of a limb and the flags that it reads.                     *)
LimbInputs(m, i, size) ==
    /\ First(m, i) \in Values(size) /\ Second(m, i) \in Values(size) /\ CarryIn(m, i) \in {0, 1} /\ Adds(i) \in BOOLEAN

(* The operands of a limb are values and the flags that it reads are bits. *)
LEMMA LimbInputsIn ==
    ASSUME EightBits, NEW D, NEW m \in Machines(D), NEW i, i.size \in Sizes, OnRegisters(i),
           "dst" \in DOMAIN i, i["dst"] \in Targets, ~Negates(i) => "src" \in DOMAIN i /\ i["src"] \in Targets
    PROVE  LimbInputs(m, i, i.size)
<1> DEFINE size == i.size
<1>1. 0 \in Values(size)
  BY HalfIs DEF Values
<1>2. InRegister(m, i["dst"], size) \in Values(size)
  BY InRegisterIn DEF OnRegisters, IsRegister, Roles
<1>3. ~Negates(i) => InRegister(m, i["src"], size) \in Values(size)
  BY InRegisterIn DEF OnRegisters, IsRegister, Roles
<1>4. m.sr.x \in {0, 1}
  BY DEF Machines, StatusRegisters, Bit
<1> QED BY <1>1, <1>2, <1>3, <1>4 DEF LimbInputs, First, Second, CarryIn, Adds

(* Two executed limbs work as one operation of twice the width.            *)
LEMMA WideBinaryNow ==
    ASSUME EightBits, Trace, Chained, program[1].kind \notin Decimals
    PROVE  WideBinary
<1> DEFINE i == program[1]
           j == program[2]
           m == past[1]
           p == past[2]
           size == i.size
           H == Half(size)
           S == Span(size)
           wide == S * S
           a == First(p, j) * S + First(m, i)
           b == Second(p, j) * S + Second(m, i)
           v0 == InRegister(p, i["dst"], size)
           v1 == InRegister(machine, j["dst"], size)
           after == v1 * S + v0
           x == CarryIn(m, i)
           z == ZeroIn(m, i)
           plus == Adds(i)
<1>1. i = program[1] /\ j = program[2] /\ m = past[1] /\ p = past[2]
  OBVIOUS
<1> HIDE DEF i, j, m, p
<1>2. /\ 1 \in Executed /\ 2 \in Executed /\ Before(1) = m /\ After(1) = p /\ Before(2) = p /\ After(2) = machine
      /\ WellFormed(i) /\ WellFormed(j) /\ OnRegisters(i) /\ OnRegisters(j)
      /\ <<i.kind, j.kind>> \in LimbPrograms /\ i.size = j.size
      /\ "dst" \in DOMAIN i /\ "dst" \in DOMAIN j /\ i["dst"] \in Targets /\ j["dst"] \in Targets
      /\ ("src" \in DOMAIN i <=> i.kind \notin {"Neg", "Nbcd"}) /\ ("src" \in DOMAIN j <=> j.kind \notin {"Negx", "Nbcd"})
      /\ "src" \in DOMAIN i => i["src"] \in Targets
      /\ "src" \in DOMAIN j => j["src"] \in Targets
      /\ \A role \in Roles \cap DOMAIN j : j[role].index # i["dst"].index
      /\ m \in Machines(DOMAIN machine.mem) /\ p \in Machines(DOMAIN machine.mem) /\ machine \in Machines(DOMAIN machine.mem)
  BY <1>1, LinksAre
<1>3. i.kind \notin Decimals
  BY <1>1
<1>4. /\ <<i.kind, j.kind>> \in {<<"Add", "Addx">>, <<"Sub", "Subx">>, <<"Neg", "Negx">>, <<"Addx", "Addx">>}
  BY <1>2, <1>3 DEF LimbPrograms, Decimals
<1>5. \/ i.kind = "Add" /\ j.kind = "Addx"
      \/ i.kind = "Sub" /\ j.kind = "Subx"
      \/ i.kind = "Neg" /\ j.kind = "Negx"
      \/ i.kind = "Addx" /\ j.kind = "Addx"
  BY <1>4
<1>6. /\ i.kind \in LimbKinds /\ j.kind \in LimbKinds /\ Adds(j) = plus /\ Extends(j)
      /\ Negates(i) <=> i.kind = "Neg"
      /\ Negates(j) <=> i.kind = "Neg"
      /\ plus <=> i.kind \in {"Add", "Addx"}
      /\ i.kind = "Neg" <=> "src" \notin DOMAIN i
      /\ i.kind = "Neg" <=> "src" \notin DOMAIN j
  BY <1>2, <1>5 DEF LimbKinds, Adds, Extends, Negates
<1>7. LimbDone(m, i, p)
  BY <1>1, <1>2, <1>6, LimbExecuted
<1>8. LimbDone(p, j, machine)
  BY <1>1, <1>2, <1>6, LimbExecuted
<1>9. size \in Sizes
  BY <1>2, <1>6, SizeIn DEF UsesSize, LimbKinds, BinaryKinds, ExtendKinds, UnaryKinds
<1>10. LimbInputs(m, i, size) /\ LimbInputs(p, j, size)
  <2>1. LimbInputs(m, i, i.size)
    BY <1>2, <1>6, <1>9, LimbInputsIn
  <2>2. LimbInputs(p, j, j.size)
    BY <1>2, <1>6, <1>9, LimbInputsIn
  <2> QED BY <1>2, <2>1, <2>2
<1>11. Limb(plus, First(m, i), Second(m, i), x, size, z, v0, p.sr)
  BY <1>7 DEF LimbDone
<1>12. Limb(plus, First(p, j), Second(p, j), p.sr.x, size, p.sr.z, v1, machine.sr)
  BY <1>2, <1>6, <1>8 DEF LimbDone, CarryIn, ZeroIn
<1>13. p.sr.x \in {0, 1}
  BY <1>2 DEF Machines, StatusRegisters, Bit
<1>14. LimbNumbers(plus, First(m, i), Second(m, i), x, H, z, v0, p.sr)
  <2> HIDE DEF size, x, plus, z, v0
  <2>1. First(m, i) \in Values(size) /\ Second(m, i) \in Values(size) /\ x \in {0, 1} /\ plus \in BOOLEAN
    BY <1>10 DEF LimbInputs, x, plus
  <2> QED BY <1>9, <1>11, <2>1, LimbIs
<1>15. LimbNumbers(plus, First(p, j), Second(p, j), p.sr.x, H, p.sr.z, v1, machine.sr)
  <2> HIDE DEF size, plus, v1
  <2>1. First(p, j) \in Values(size) /\ Second(p, j) \in Values(size) /\ plus \in BOOLEAN
    BY <1>6, <1>10 DEF LimbInputs, plus
  <2> QED BY <1>9, <1>12, <1>13, <2>1, LimbIs
<1>16. H \in Nat \ {0} /\ S = 2 * H
  BY <1>9, HalfIs
<1>17. Widened(plus, a, b, x, wide, z, after, machine.sr)
  <2>1. x \in {0, 1} /\ plus \in BOOLEAN
    BY <1>10 DEF LimbInputs
  <2>2. First(m, i) \in 0 .. S - 1 /\ Second(m, i) \in 0 .. S - 1 /\ First(p, j) \in 0 .. S - 1 /\ Second(p, j) \in 0 .. S - 1
    BY <1>10 DEF LimbInputs, Values
  <2>3. wide = S * S /\ a = First(p, j) * S + First(m, i) /\ b = Second(p, j) * S + Second(m, i) /\ after = v1 * S + v0
    OBVIOUS
  <2> DEFINE a0 == First(m, i)
             b0 == Second(m, i)
             a1 == First(p, j)
             b1 == Second(p, j)
             s0 == p.sr
             s1 == machine.sr
  <2>4. LimbNumbers(plus, a0, b0, x, H, z, v0, s0) /\ LimbNumbers(plus, a1, b1, s0.x, H, s0.z, v1, s1)
    BY <1>14, <1>15
  <2>5. a0 \in 0 .. S - 1 /\ b0 \in 0 .. S - 1 /\ a1 \in 0 .. S - 1 /\ b1 \in 0 .. S - 1
    BY <2>2
  <2>6. a = a1 * S + a0 /\ b = b1 * S + b0
    BY <2>3
  <2> HIDE DEF size, H, S, wide, a, b, v0, v1, after, x, z, plus, a0, b0, a1, b1, s0, s1
  <2>7. Widened(plus, a, b, x, wide, z, after, s1)
    <3>1. Linked(H, S, wide, plus, x, z, a0, b0, a1, b1, v0, s0, v1, s1, a, b, after)
      BY <1>16, <2>1, <2>3, <2>4, <2>5, <2>6, Zenon DEF Linked
    <3> QED BY <3>1, WideLimbs
  <2> QED BY <2>7 DEF s1
<1>18. \A n \in 0 .. 7 : n # i["dst"].index => p.d[n] = m.d[n]
  BY <1>7 DEF LimbDone
<1>19. \A n \in 0 .. 7 : n # j["dst"].index => machine.d[n] = p.d[n]
  BY <1>8 DEF LimbDone
<1> DEFINE low(n) == Low(m.d[n], size)
           i1 == i["dst"].index
           j1 == j["dst"].index
           i2 == i["src"].index
           j2 == j["src"].index
<1>20. i1 \in 0 .. 7 /\ j1 \in 0 .. 7 /\ j1 # i1 /\ i["dst"].kind = "DataRegister" /\ j["dst"].kind = "DataRegister"
  BY <1>2, TargetIn DEF OnRegisters, Roles, IsRegister
<1>21. ASSUME i.kind # "Neg"
       PROVE  i2 \in 0 .. 7 /\ j2 \in 0 .. 7 /\ j2 # i1 /\ i["src"].kind = "DataRegister" /\ j["src"].kind = "DataRegister"
  BY <1>2, <1>6, <1>21, TargetIn DEF OnRegisters, Roles, IsRegister
<1>22. v0 = Low(machine.d[i1], size) /\ v1 = Low(machine.d[j1], size)
  BY <1>19, <1>20 DEF InRegister
<1>23. InRegister(m, i["dst"], size) = low(i1) /\ InRegister(p, j["dst"], size) = low(j1)
  BY <1>18, <1>20 DEF InRegister
<1>24. i.kind # "Neg" => InRegister(m, i["src"], size) = low(i2) /\ InRegister(p, j["src"], size) = low(j2)
  BY <1>18, <1>21 DEF InRegister
<1> HIDE DEF low, i1, j1, i2, j2
<1>25. /\ i.kind # "Neg" => a = low(j1) * S + low(i1) /\ b = low(j2) * S + low(i2)
       /\ i.kind = "Neg" => a = 0 /\ b = low(j1) * S + low(i1)
  <2>1. i.kind # "Neg" => a = low(j1) * S + low(i1) /\ b = low(j2) * S + low(i2)
    BY <1>2, <1>6, <1>23, <1>24 DEF First, Second
  <2>2. i.kind = "Neg" => a = 0 * S + 0 /\ b = low(j1) * S + low(i1)
    BY <1>2, <1>6, <1>23 DEF First, Second
  <2>3. 0 * S + 0 = 0
    BY <1>16
  <2> QED BY <2>1, <2>2, <2>3
<1>26. after = Low(machine.d[j1], size) * S + Low(machine.d[i1], size)
  BY <1>22
<1>27. x = (IF i.kind = "Addx" THEN m.sr.x ELSE 0) /\ z = (IF i.kind = "Addx" THEN m.sr.z ELSE 1) /\ x \in Int
  BY <1>5, <1>10 DEF CarryIn, ZeroIn, Extends, LimbInputs
<1>28. /\ wide \in Nat \ {0} /\ WideSign(0, wide) = 0 /\ a \in Int /\ b \in Int
  <2>1. wide \in Nat \ {0}
    BY <1>16
  <2>2. wide \div 2 > 0 /\ wide \div 2 \in Int
    <3>1. wide = 2 * (H * S) /\ H * S \in Nat \ {0}
      BY <1>16
    <3> DEFINE g == H * S
    <3>2. wide = 2 * g + 0 /\ g \in Nat \ {0}
      BY <3>1
    <3> HIDE DEF g, wide
    <3>3. wide \div 2 = g
      BY <2>1, <3>2, Divides
    <3> QED BY <3>2, <3>3
  <2>3. WideSign(0, wide) = 0
    <3> HIDE DEF wide
    <3> QED BY <2>2 DEF WideSign
  <2>4. First(m, i) \in Int /\ Second(m, i) \in Int /\ First(p, j) \in Int /\ Second(p, j) \in Int
    BY <1>9, <1>10, ValuesAreInts DEF LimbInputs
  <2>5. a \in Int /\ b \in Int
    BY <1>16, <2>4
  <2> QED BY <2>1, <2>3, <2>5
<1> DEFINE A == Pairs("dst", S, LAMBDA n : Low(past[1].d[n], size))
           B == Pairs("src", S, LAMBDA n : Low(past[1].d[n], size))
           R == Pairs("dst", S, LAMBDA n : Low(machine.d[n], size))
           X == IF program[1].kind = "Addx" THEN past[1].sr.x ELSE 0
           sgn(v) == IF v >= wide \div 2 THEN v - wide ELSE v
           U == CASE program[2].kind = "Addx" -> A + B + X
                  [] program[2].kind = "Subx" -> A - B
                  [] program[2].kind = "Negx" -> -A
           G == CASE program[2].kind = "Addx" -> sgn(A) + sgn(B) + X
                  [] program[2].kind = "Subx" -> sgn(A) - sgn(B)
                  [] program[2].kind = "Negx" -> -sgn(A)
<1>29. \A v : sgn(v) = WideSign(v, wide)
  BY DEF WideSign
<1>30. X = x
  BY <1>1, <1>27
<1>31. R = after
  <2>1. program[1]["dst"].index = i1 /\ program[2]["dst"].index = j1 /\ "dst" \in DOMAIN program[1]
    BY <1>1, <1>2 DEF i1, j1
  <2>2. R = Low(machine.d[j1], size) * S + Low(machine.d[i1], size)
    BY <2>1, Zenon DEF Pairs
  <2> QED BY <1>26, <2>2
<1>32. A = low(j1) * S + low(i1)
  <2>1. program[1]["dst"].index = i1 /\ program[2]["dst"].index = j1 /\ "dst" \in DOMAIN program[1] /\ past[1] = m
    BY <1>1, <1>2 DEF i1, j1
  <2> QED BY <2>1, Zenon DEF Pairs, low
<1>33. i.kind # "Neg" => B = low(j2) * S + low(i2)
  <2>1. program[1]["src"].index = i2 /\ program[2]["src"].index = j2 /\ past[1] = m
    BY <1>1 DEF i2, j2
  <2>2. i.kind # "Neg" => "src" \in DOMAIN program[1]
    BY <1>1, <1>6
  <2> QED BY <2>1, <2>2, Zenon DEF Pairs, low
<1>34. program[2].kind = j.kind /\ program[1].kind = i.kind
  BY <1>1
<1> HIDE DEF A, B, R, X, sgn, wide, a, b, x, z, plus, after
<1>35. U = Combined(plus, a, b, x) /\ G = Combined(plus, WideSign(a, wide), WideSign(b, wide), x)
  <2>1. CASE i.kind \in {"Add", "Addx"}
    <3>1. plus /\ A = a /\ B = b /\ j.kind = "Addx"
      BY <1>5, <1>6, <1>25, <1>32, <1>33, <2>1
    <3>2. U = A + B + X /\ G = sgn(A) + sgn(B) + X
      BY <1>34, <3>1
    <3> QED BY <1>29, <1>30, <3>1, <3>2 DEF Combined
  <2>2. CASE i.kind = "Sub"
    <3>1. ~plus /\ A = a /\ B = b /\ j.kind = "Subx" /\ x = 0
      BY <1>5, <1>6, <1>25, <1>27, <1>32, <1>33, <2>2
    <3>2. U = A - B /\ G = sgn(A) - sgn(B)
      BY <1>34, <3>1
    <3>3. WideSign(a, wide) \in Int /\ WideSign(b, wide) \in Int
      BY <1>28 DEF WideSign
    <3>4. U = a - b /\ G = WideSign(a, wide) - WideSign(b, wide)
      BY <1>29, <3>1, <3>2
    <3> HIDE DEF U, G
    <3> QED BY <1>28, <3>1, <3>3, <3>4 DEF Combined
  <2>3. CASE i.kind = "Neg"
    <3>1. ~plus /\ a = 0 /\ A = b /\ j.kind = "Negx" /\ x = 0
      BY <1>5, <1>6, <1>25, <1>27, <1>32, <2>3
    <3>2. U = -A /\ G = -sgn(A)
      BY <1>34, <3>1
    <3>3. WideSign(b, wide) \in Int
      BY <1>28 DEF WideSign
    <3>4. U = -b /\ G = -WideSign(b, wide)
      BY <1>29, <3>1, <3>2
    <3> HIDE DEF U, G
    <3> QED BY <1>28, <3>1, <3>3, <3>4 DEF Combined
  <2> QED BY <1>5, <2>1, <2>2, <2>3
<1>36. /\ R = U % wide /\ machine.sr.c = Flag(U # R) /\ machine.sr.x = machine.sr.c
       /\ machine.sr.v = Flag(G # sgn(R)) /\ machine.sr.n = Flag(sgn(R) < 0)
       /\ (program[1].kind # "Addx" \/ past[1].sr.z = 1) => machine.sr.z = Flag(R = 0)
  <2>1. (program[1].kind # "Addx" \/ past[1].sr.z = 1) => z = 1
    BY <1>1, <1>27
  <2> HIDE DEF U, G
  <2> QED BY <1>17, <1>29, <1>31, <1>35, <2>1, Zenon DEF Widened
<1>37. size = program[1].size
  BY <1>1
<1> QED BY <1>36, Zenon DEF WideBinary, A, B, R, X, sgn, wide, i, Pairs

-----------------------------------------------------------------------------
(***************************************************************************)
(* Decimal limbs.                                                          *)
(***************************************************************************)

(* The digits of the code: ten in a nibble.                                *)
TenDigits == RADIX = 10

(* A decimal limb: its value and its flags.                                *)
DecimalLimb(plus, a, b, x, z, value, sr) ==
    /\ IsDecimal(value) /\ Digits(value) \in 0 .. 99 /\ Low(value, Byte) = value /\ value \in Int
    /\ sr.c \in {0, 1} /\ sr.x = sr.c
    /\ Digits(value) = IF plus THEN a + b + x - 100 * sr.c ELSE a - b - x + 100 * sr.c
    /\ sr.z = IF Digits(value) = 0 THEN z ELSE 0

(* The two decimal digits of a byte.                                       *)
LEMMA DigitsAre ==
    ASSUME EightBits, TenDigits, NEW v \in Values(Byte), IsDecimal(v), NEW h, h = v \div Nibble, NEW l, l = v % Nibble
    PROVE  h \in 0 .. 9 /\ l \in 0 .. 9 /\ Digits(v) = 10 * h + l
<1>1. Nibble = 16 /\ RADIX = 10
  BY NibbleIs DEF TenDigits
<1>2. v \in Int /\ 0 <= v /\ v < 256
  BY InValues
<1>3. h \in Int /\ l \in Int /\ v = 16 * h + l /\ 0 <= l
  BY <1>1, <1>2, Divided
<1>4. h < 10 /\ l < 10
  BY <1>1 DEF IsDecimal
<1>5. 0 <= h
  BY <1>2, <1>3, <1>4
<1> QED BY <1>1, <1>3, <1>4, <1>5 DEF Digits

(* Two decimal digits make a byte that has them.                           *)
LEMMA MadeOfDigits ==
    ASSUME EightBits, TenDigits, NEW h \in 0 .. 9, NEW l \in 0 .. 9, NEW e \in Int, e = h * Nibble + l
    PROVE  /\ Low(e, Byte) = e /\ e \in Values(Byte) /\ IsDecimal(e) /\ Digits(e) = 10 * h + l
           /\ is_zero(e, Byte) = Flag(Digits(e) = 0)
<1>1. Nibble = 16 /\ RADIX = 10
  BY NibbleIs DEF TenDigits
<1>2. e = 16 * h + l /\ h \in Int /\ l \in Int /\ 0 <= l /\ l < 16
  BY <1>1
<1>3. e \div Nibble = h /\ e % Nibble = l
  BY <1>1, <1>2, Divides
<1>4. 0 <= e /\ e < 256
  BY <1>2
<1>5. Low(e, Byte) = e
  <2>1. Span(Byte) = 256 /\ e = 256 * 0 + e
    BY SpanValues
  <2>2. e % 256 = e
    BY <1>4
  <2> QED BY <2>1, <2>2 DEF Low
<1>6. IsDecimal(e) /\ Digits(e) = 10 * h + l
  BY <1>1, <1>3 DEF IsDecimal, Digits
<1>7. e = 0 <=> Digits(e) = 0
  BY <1>2, <1>6
<1>8. is_zero(e, Byte) = Flag(Digits(e) = 0)
  BY <1>5, <1>7 DEF is_zero, Flag
<1> QED BY <1>4, <1>5, <1>6, <1>8, InValues

(* The flags that the decimal instructions set: X and C are the carry, Z   *)
(* is only ever cleared.                                                   *)
LEMMA DecimalFlags ==
    ASSUME NEW sr \in StatusRegisters, NEW result, NEW carry, NEW overflow, is_zero(result, Byte) = Flag(Digits(result) = 0),
           NEW new, new = SetDecimal(sr, result, carry, overflow)
    PROVE  new.c = carry /\ new.x = carry /\ new.z = IF Digits(result) = 0 THEN sr.z ELSE 0
<1> DEFINE f == [sr EXCEPT !.n = msb(result, Byte), !.z = is_zero(result, Byte), !.v = overflow, !.c = carry, !.x = carry]
<1>1. new = [f EXCEPT !.z = IF f.z = 1 THEN sr.z ELSE 0]
  BY DEF SetDecimal, StickyZero
<1>2. f.c = carry /\ f.x = carry /\ f.z = Flag(Digits(result) = 0) /\ DOMAIN f = {"c", "v", "z", "n", "x", "s", "mask"}
  BY DEF StatusRegisters
<1> HIDE DEF f
<1>3. new.c = carry /\ new.x = carry /\ new.z = IF f.z = 1 THEN sr.z ELSE 0
  BY <1>1, <1>2
<1>4. f.z = 1 <=> Digits(result) = 0
  BY <1>2 DEF Flag
<1> QED BY <1>3, <1>4

(* ABCD adds two decimal numbers of two digits and the carry.              *)
LEMMA AbcdAdds ==
    ASSUME EightBits, TenDigits, NEW sr \in StatusRegisters, NEW s \in Values(Byte), NEW d \in Values(Byte),
           IsDecimal(s), IsDecimal(d), NEW r, r = Abcd(sr, s, d)
    PROVE  DecimalLimb(TRUE, Digits(d), Digits(s), sr.x, sr.z, r.value, r.sr)
<1> DEFINE hs == s \div Nibble
           ls == s % Nibble
           hd == d \div Nibble
           ld == d % Nibble
           x == sr.x
           low == ls + ld + x
           carry == Flag(low >= RADIX)
           digit == low - RADIX * carry
           spill == Flag(digit >= Nibble)
           high == hs + hd + carry + spill
           out == Flag(high >= RADIX)
           sum == (high - RADIX * out) * Nibble + digit - Nibble * spill
           result == Low(sum, Byte)
           v == Flag(msb(s + d + x, Byte) = 0 /\ msb(result, Byte) = 1)
<1>1. r = [value |-> result, sr |-> SetDecimal(sr, result, out, v)]
  BY Zenon DEF Abcd
<1>2. hs \in 0 .. 9 /\ ls \in 0 .. 9 /\ Digits(s) = 10 * hs + ls
  BY DigitsAre
<1>3. hd \in 0 .. 9 /\ ld \in 0 .. 9 /\ Digits(d) = 10 * hd + ld
  BY DigitsAre
<1>4. Nibble = 16 /\ RADIX = 10 /\ x \in {0, 1}
  BY NibbleIs DEF TenDigits, StatusRegisters, Bit
<1> HIDE DEF hs, ls, hd, ld, x, v
<1>5. carry \in {0, 1} /\ digit \in 0 .. 9 /\ digit = ls + ld + x - 10 * carry
  <2>1. carry = IF ls + ld + x >= 10 THEN 1 ELSE 0
    BY <1>4 DEF Flag
  <2> HIDE DEF carry
  <2>2. digit = ls + ld + x - 10 * carry
    BY <1>2, <1>3, <1>4, <2>1
  <2> HIDE DEF digit
  <2> QED BY <1>2, <1>3, <1>4, <2>1, <2>2
<1> HIDE DEF carry, digit
<1>6. spill = 0
  BY <1>4, <1>5 DEF Flag
<1> HIDE DEF spill
<1>7. high = hs + hd + carry /\ high \in 0 .. 19
  BY <1>2, <1>3, <1>5, <1>6
<1> HIDE DEF high
<1>8. out \in {0, 1} /\ high - 10 * out \in 0 .. 9
  BY <1>4, <1>7 DEF Flag
<1> HIDE DEF out
<1> DEFINE h == high - 10 * out
<1>9. sum = h * Nibble + digit /\ h \in 0 .. 9 /\ sum \in Int
  BY <1>4, <1>5, <1>6, <1>8
<1>10. h = hs + hd + carry - 10 * out
  BY <1>2, <1>3, <1>5, <1>7, <1>8
<1> HIDE DEF sum, h
<1>11. result = sum /\ Low(sum, Byte) = sum /\ IsDecimal(sum) /\ Digits(sum) = 10 * h + digit /\ is_zero(sum, Byte) = Flag(Digits(sum) = 0)
  BY <1>5, <1>9, MadeOfDigits
<1> HIDE DEF result
<1>12. r.value = sum /\ r.sr = SetDecimal(sr, sum, out, v)
  BY <1>1, <1>11
<1>13. r.sr.c = out /\ r.sr.x = out /\ r.sr.z = IF Digits(sum) = 0 THEN sr.z ELSE 0
  <2> DEFINE new == r.sr
  <2>1. is_zero(sum, Byte) = Flag(Digits(sum) = 0) /\ new = SetDecimal(sr, sum, out, v)
    BY <1>11, <1>12
  <2> HIDE DEF new
  <2>2. new.c = out /\ new.x = out /\ new.z = IF Digits(sum) = 0 THEN sr.z ELSE 0
    BY <2>1, DecimalFlags
  <2> QED BY <2>2 DEF new
<1>14. Digits(sum) = Digits(d) + Digits(s) + x - 100 * out
  BY <1>2, <1>3, <1>4, <1>5, <1>8, <1>10, <1>11
<1>15. Digits(sum) \in 0 .. 99
  BY <1>5, <1>9, <1>11
<1> QED BY <1>8, <1>9, <1>11, <1>12, <1>13, <1>14, <1>15 DEF DecimalLimb, x

(* SBCD subtracts two decimal numbers of two digits and the borrow.        *)
LEMMA SbcdSubtracts ==
    ASSUME EightBits, TenDigits, NEW sr \in StatusRegisters, NEW s \in Values(Byte), NEW d \in Values(Byte),
           IsDecimal(s), IsDecimal(d), NEW r, r = Sbcd(sr, d, s)
    PROVE  DecimalLimb(FALSE, Digits(d), Digits(s), sr.x, sr.z, r.value, r.sr)
<1> DEFINE hs == s \div Nibble
           ls == s % Nibble
           hd == d \div Nibble
           ld == d % Nibble
           x == sr.x
           low == ld - ls - x
           borrow == Flag(low < 0)
           digit == low + RADIX * borrow
           high == hd - hs - borrow
           out == Flag(high < 0)
           upper == high + RADIX * out
           sum == upper * Nibble + digit
           result == Low(sum, Byte)
           c == Flag(out = 1 \/ (upper = 0 /\ digit < 0))
           v == Flag(msb(d - s - x, Byte) = 1 /\ msb(result, Byte) = 0)
<1>1. r = [value |-> result, sr |-> SetDecimal(sr, result, c, v)]
  BY Zenon DEF Sbcd
<1>2. hs \in 0 .. 9 /\ ls \in 0 .. 9 /\ Digits(s) = 10 * hs + ls
  BY DigitsAre
<1>3. hd \in 0 .. 9 /\ ld \in 0 .. 9 /\ Digits(d) = 10 * hd + ld
  BY DigitsAre
<1>4. Nibble = 16 /\ RADIX = 10 /\ x \in {0, 1}
  BY NibbleIs DEF TenDigits, StatusRegisters, Bit
<1> HIDE DEF hs, ls, hd, ld, x, v
<1>5. borrow \in {0, 1} /\ digit \in 0 .. 9 /\ digit = ld - ls - x + 10 * borrow
  <2>1. borrow = IF ld - ls - x < 0 THEN 1 ELSE 0
    BY DEF Flag
  <2>2. digit = ld - ls - x + 10 * borrow
    BY <1>4
  <2> HIDE DEF borrow, digit
  <2> QED BY <1>2, <1>3, <1>4, <2>1, <2>2
<1> HIDE DEF borrow, digit
<1>6. high \in -10 .. 9
  BY <1>2, <1>3, <1>5
<1>7. out \in {0, 1} /\ upper \in 0 .. 9 /\ upper = hd - hs - borrow + 10 * out
  <2>1. out = IF hd - hs - borrow < 0 THEN 1 ELSE 0
    BY DEF Flag
  <2>2. upper = hd - hs - borrow + 10 * out
    BY <1>4
  <2> HIDE DEF out, upper
  <2> QED BY <1>2, <1>3, <1>5, <2>1, <2>2
<1> HIDE DEF out, upper
<1>8. c = out
  BY <1>5, <1>7 DEF Flag
<1>9. sum \in Int /\ sum = upper * Nibble + digit
  BY <1>4, <1>5, <1>7
<1> HIDE DEF sum, c
<1>10. result = sum /\ Low(sum, Byte) = sum /\ IsDecimal(sum) /\ Digits(sum) = 10 * upper + digit /\ is_zero(sum, Byte) = Flag(Digits(sum) = 0)
  BY <1>5, <1>7, <1>9, MadeOfDigits
<1> HIDE DEF result
<1>11. r.value = sum /\ r.sr = SetDecimal(sr, sum, out, v)
  BY <1>1, <1>8, <1>10
<1>12. r.sr.c = out /\ r.sr.x = out /\ r.sr.z = IF Digits(sum) = 0 THEN sr.z ELSE 0
  <2> DEFINE new == r.sr
  <2>1. is_zero(sum, Byte) = Flag(Digits(sum) = 0) /\ new = SetDecimal(sr, sum, out, v)
    BY <1>10, <1>11
  <2> HIDE DEF new
  <2>2. new.c = out /\ new.x = out /\ new.z = IF Digits(sum) = 0 THEN sr.z ELSE 0
    BY <2>1, DecimalFlags
  <2> QED BY <2>2 DEF new
<1>13. Digits(sum) = Digits(d) - Digits(s) - x + 100 * out
  BY <1>2, <1>3, <1>4, <1>5, <1>7, <1>10
<1>14. Digits(sum) \in 0 .. 99
  BY <1>5, <1>7, <1>10
<1> QED BY <1>7, <1>9, <1>10, <1>11, <1>12, <1>13, <1>14 DEF DecimalLimb, x

(* The operands of the decimal instructions.                               *)
DecimalFirst(m, i) == IF i.kind = "Nbcd" THEN 0 ELSE InRegister(m, i["dst"], Byte)
DecimalSecond(m, i) == IF i.kind = "Nbcd" THEN InRegister(m, i["dst"], Byte) ELSE InRegister(m, i["src"], Byte)

(* They hold decimal digits.                                               *)
DecimalOperands(m, i) == IsDecimal(DecimalFirst(m, i)) /\ IsDecimal(DecimalSecond(m, i))

(* What an instruction did when it made a decimal limb.                    *)
DecimalDone(m, i, r) ==
    /\ Ok(r) /\ \A n \in 0 .. 7 : n # i["dst"].index => r.d[n] = m.d[n]
    /\ DecimalLimb(i.kind = "Abcd", Digits(DecimalFirst(m, i)), Digits(DecimalSecond(m, i)), m.sr.x, m.sr.z,
                   InRegister(r, i["dst"], Byte), r.sr)

(* The decimal result is in the register, with the flags.                  *)
LEMMA DecimalStored ==
    ASSUME EightBits, NEW D, NEW m \in Machines(D), NEW q \in Machines(D), Ok(q), q.d = m.d, NEW i,
           i["dst"] \in Targets, i["dst"].kind = "DataRegister", NEW plus, NEW a, NEW b, NEW x, NEW z,
           NEW v, NEW sr, DecimalLimb(plus, a, b, x, z, v, sr),
           NEW r, r = Then(Write(q, i, "dst", Byte, v), sr)
    PROVE  /\ Ok(r) /\ \A n \in 0 .. 7 : n # i["dst"].index => r.d[n] = m.d[n]
           /\ DecimalLimb(plus, a, b, x, z, InRegister(r, i["dst"], Byte), r.sr)
<1>1. v \in Int /\ Low(v, Byte) = v /\ Byte \in Sizes
  BY DEF DecimalLimb, Sizes
<1>2. /\ Ok(r) /\ r.sr = sr /\ InRegister(r, i["dst"], Byte) = Low(v, Byte)
      /\ \A n \in 0 .. 7 : n # i["dst"].index => r.d[n] = q.d[n]
  BY <1>1, StoredIn
<1>3. DecimalLimb(plus, a, b, x, z, InRegister(r, i["dst"], Byte), r.sr)
  BY <1>1, <1>2
<1> QED BY <1>2, <1>3

(* ABCD, SBCD and NBCD on data registers that hold decimal digits.         *)
LEMMA DecimalExecutes ==
    ASSUME EightBits, TenDigits, NEW D, NEW m \in Machines(D), Ok(m), NEW i, i.kind \in Decimals, OnRegisters(i),
           "dst" \in DOMAIN i, i["dst"] \in Targets, i.kind # "Nbcd" => "src" \in DOMAIN i /\ i["src"] \in Targets,
           DecimalOperands(m, i), NEW r, r = IF i.kind = "Abcd" THEN ExecAbcd(m, i) ELSE ExecSbcd(m, i)
    PROVE  DecimalDone(m, i, r)
<1>1. i["dst"].kind = "DataRegister" /\ IsRegister(i["dst"]) /\ "dst" \in Roles
      /\ (i.kind # "Nbcd" => i["src"].kind = "DataRegister" /\ IsRegister(i["src"]))
  BY DEF OnRegisters, Roles, IsRegister
<1>2. Byte \in Sizes
  BY DEF Sizes
<1>3. InRegister(m, i["dst"], Byte) \in Values(Byte) /\ (i.kind # "Nbcd" => InRegister(m, i["src"], Byte) \in Values(Byte))
  BY <1>1, <1>2, InRegisterIn
<1>4. CASE i.kind = "Nbcd"
  <2> DEFINE q == try_decrement_address(m, i, "dst")
             d == OperandValue(q, i["dst"], Byte)
             done == Sbcd(q.sr, 0, d)
  <2>1. r = IF Accessible(q, i["dst"], Byte) THEN Then(Write(q, i, "dst", Byte, done.value), done.sr) ELSE Fail(q)
    BY <1>4, Zenon DEF ExecSbcd, Read
  <2>2. q = try_decrement_address(m, i, "dst")
    OBVIOUS
  <2> HIDE DEF q
  <2>3. /\ Accessible(q, i["dst"], Byte) /\ d = InRegister(m, i["dst"], Byte)
        /\ q \in Machines(D) /\ q.d = m.d /\ q.sr = m.sr /\ q.status = m.status
    <3>1. SameRegisters(D, m, q) /\ ReadsRegister(m, i["dst"], q)
      BY <1>1, <2>2, RegisterRead
    <3> QED BY <3>1 DEF SameRegisters, ReadsRegister
  <2>4. done = Sbcd(q.sr, 0, d) /\ q.sr \in StatusRegisters /\ 0 \in Values(Byte) /\ d \in Values(Byte)
    BY <1>3, <2>3, InValues DEF Machines
  <2> HIDE DEF d, done
  <2>5. IsDecimal(0) /\ IsDecimal(d)
    BY <1>4, <2>3 DEF DecimalOperands, DecimalFirst, DecimalSecond
  <2>6. DecimalLimb(FALSE, Digits(0), Digits(d), q.sr.x, q.sr.z, done.value, done.sr)
    BY <2>4, <2>5, SbcdSubtracts
  <2>7. r = Then(Write(q, i, "dst", Byte, done.value), done.sr) /\ Ok(q)
    BY <2>1, <2>3 DEF Ok
  <2>8. /\ Ok(r) /\ \A n \in 0 .. 7 : n # i["dst"].index => r.d[n] = m.d[n]
        /\ DecimalLimb(FALSE, Digits(0), Digits(d), q.sr.x, q.sr.z, InRegister(r, i["dst"], Byte), r.sr)
    <3> DEFINE plus == FALSE
               v == done.value
               sr == done.sr
               a == Digits(0)
               b == Digits(d)
               x == q.sr.x
               z == q.sr.z
    <3>1. DecimalLimb(plus, a, b, x, z, v, sr) /\ r = Then(Write(q, i, "dst", Byte, v), sr)
      BY <2>6, <2>7
    <3>2. m \in Machines(D) /\ q \in Machines(D) /\ Ok(q) /\ q.d = m.d
          /\ i["dst"] \in Targets /\ i["dst"].kind = "DataRegister"
      BY <1>1, <2>3, <2>7
    <3> HIDE DEF plus, v, sr, a, b, x, z
    <3>3. /\ Ok(r) /\ \A n \in 0 .. 7 : n # i["dst"].index => r.d[n] = m.d[n]
          /\ DecimalLimb(plus, a, b, x, z, InRegister(r, i["dst"], Byte), r.sr)
      BY <3>1, <3>2, DecimalStored, SMTT(30)
    <3> QED BY <3>3 DEF plus, a, b, x, z
  <2>9. DecimalFirst(m, i) = 0 /\ DecimalSecond(m, i) = d /\ (i.kind = "Abcd") = FALSE
    BY <1>4, <2>3 DEF DecimalFirst, DecimalSecond
  <2> QED BY <2>3, <2>8, <2>9 DEF DecimalDone
<1>5. CASE i.kind # "Nbcd"
  <2> DEFINE p == try_decrement_address(m, i, "src")
             q == try_decrement_address(p, i, "dst")
             s == OperandValue(p, i["src"], Byte)
             d == OperandValue(q, i["dst"], Byte)
             done == IF i.kind = "Abcd" THEN Abcd(q.sr, s, d) ELSE Sbcd(q.sr, d, s)
  <2>1. r = IF Accessible(p, i["src"], Byte)
            THEN IF Accessible(q, i["dst"], Byte) THEN Then(Write(q, i, "dst", Byte, done.value), done.sr) ELSE Fail(q)
            ELSE Fail(p)
    <3>1. CASE i.kind = "Abcd"
      <4>1. done = Abcd(q.sr, s, d)
        BY <3>1
      <4> HIDE DEF done
      <4>2. r = IF Accessible(p, i["src"], Byte)
                THEN IF Accessible(q, i["dst"], Byte)
                     THEN Then(Write(q, i, "dst", Byte, Abcd(q.sr, s, d).value), Abcd(q.sr, s, d).sr) ELSE Fail(q)
                ELSE Fail(p)
        BY <3>1, Zenon DEF ExecAbcd, Read
      <4> QED BY <4>1, <4>2, Zenon
    <3>2. CASE i.kind # "Abcd"
      <4>1. done = Sbcd(q.sr, d, s)
        BY <3>2
      <4> HIDE DEF done
      <4>2. r = IF Accessible(p, i["src"], Byte)
                THEN IF Accessible(q, i["dst"], Byte)
                     THEN Then(Write(q, i, "dst", Byte, Sbcd(q.sr, d, s).value), Sbcd(q.sr, d, s).sr) ELSE Fail(q)
                ELSE Fail(p)
        BY <1>5, <3>2, Zenon DEF ExecSbcd, Read
      <4> QED BY <4>1, <4>2, Zenon
    <3> QED BY <3>1, <3>2
  <2>2. p = try_decrement_address(m, i, "src") /\ q = try_decrement_address(p, i, "dst")
    OBVIOUS
  <2> HIDE DEF p, q
  <2>3. /\ Accessible(p, i["src"], Byte) /\ s = InRegister(m, i["src"], Byte)
        /\ Accessible(q, i["dst"], Byte) /\ d = InRegister(m, i["dst"], Byte)
        /\ q \in Machines(D) /\ q.d = m.d /\ q.sr = m.sr /\ q.status = m.status
    BY <1>1, <1>5, <2>2, BothRead
  <2>4. q.sr \in StatusRegisters /\ s \in Values(Byte) /\ d \in Values(Byte)
    BY <1>3, <1>5, <2>3 DEF Machines
  <2>5. DecimalFirst(m, i) = d /\ DecimalSecond(m, i) = s
    BY <1>5, <2>3 DEF DecimalFirst, DecimalSecond
  <2>6. done = IF i.kind = "Abcd" THEN Abcd(q.sr, s, d) ELSE Sbcd(q.sr, d, s)
    OBVIOUS
  <2> HIDE DEF s, d, done
  <2>7. IsDecimal(s) /\ IsDecimal(d)
    BY <2>5 DEF DecimalOperands
  <2>8. DecimalLimb(i.kind = "Abcd", Digits(d), Digits(s), q.sr.x, q.sr.z, done.value, done.sr)
    <3>1. CASE i.kind = "Abcd"
      <4>1. DecimalLimb(TRUE, Digits(d), Digits(s), q.sr.x, q.sr.z, done.value, done.sr)
        BY <2>4, <2>6, <2>7, <3>1, AbcdAdds
      <4> QED BY <3>1, <4>1
    <3>2. CASE i.kind # "Abcd"
      <4>1. DecimalLimb(FALSE, Digits(d), Digits(s), q.sr.x, q.sr.z, done.value, done.sr)
        BY <2>4, <2>6, <2>7, <3>2, SbcdSubtracts
      <4> QED BY <3>2, <4>1
    <3> QED BY <3>1, <3>2
  <2>9. r = Then(Write(q, i, "dst", Byte, done.value), done.sr) /\ Ok(q)
    BY <2>1, <2>3 DEF Ok
  <2>10. /\ Ok(r) /\ \A n \in 0 .. 7 : n # i["dst"].index => r.d[n] = m.d[n]
         /\ DecimalLimb(i.kind = "Abcd", Digits(d), Digits(s), q.sr.x, q.sr.z, InRegister(r, i["dst"], Byte), r.sr)
    <3> DEFINE plus == i.kind = "Abcd"
               v == done.value
               sr == done.sr
               a == Digits(d)
               b == Digits(s)
               x == q.sr.x
               z == q.sr.z
    <3>1. DecimalLimb(plus, a, b, x, z, v, sr) /\ r = Then(Write(q, i, "dst", Byte, v), sr)
      BY <2>8, <2>9
    <3>2. m \in Machines(D) /\ q \in Machines(D) /\ Ok(q) /\ q.d = m.d
          /\ i["dst"] \in Targets /\ i["dst"].kind = "DataRegister"
      BY <1>1, <2>3, <2>9
    <3> HIDE DEF plus, v, sr, a, b, x, z
    <3>3. /\ Ok(r) /\ \A n \in 0 .. 7 : n # i["dst"].index => r.d[n] = m.d[n]
          /\ DecimalLimb(plus, a, b, x, z, InRegister(r, i["dst"], Byte), r.sr)
      BY <3>1, <3>2, DecimalStored, SMTT(30)
    <3> QED BY <3>3 DEF plus, a, b, x, z
  <2> QED BY <2>3, <2>5, <2>10 DEF DecimalDone
<1> QED BY <1>4, <1>5

(* Every executed decimal instruction whose operands held decimal digits.  *)
LEMMA DecimalExecuted ==
    ASSUME EightBits, TenDigits, Trace, NEW k \in Executed, NEW i, i = program[k], i.kind \in Decimals, OnRegisters(i),
           "dst" \in DOMAIN i, i["dst"] \in Targets, i.kind # "Nbcd" => "src" \in DOMAIN i /\ i["src"] \in Targets,
           DecimalOperands(Before(k), i)
    PROVE  DecimalDone(Before(k), i, After(k))
<1> DEFINE m == Before(k)
           r == After(k)
           f == Forget(m)
           done == Perform(f, i)
           D == DOMAIN machine.mem
<1>1. WellFormed(i) /\ m \in Machines(D) /\ Ok(m) /\ r = Execute(m, i)
  BY DEF Trace, Executes1, Executed
<1>2. f = Forget(m) /\ done = Perform(f, i) /\ DecimalOperands(m, i)
  OBVIOUS
<1> HIDE DEF m, r, f, done, D
<1>3. \A role \in Roles \cap DOMAIN i : i[role].kind # "AddressIncrement"
  BY DEF OnRegisters
<1>4. /\ f \in Machines(D) /\ f.d = m.d /\ f.sr = m.sr /\ Ok(f) /\ r.d = done.d /\ r.sr = done.sr /\ r.status = done.status
      /\ \A n \in 0 .. 7 : a_reg(f, n) = a_reg(m, n)
  BY <1>1, <1>2, <1>3, EndsOnRegisters
<1>5. done = IF i.kind = "Abcd" THEN ExecAbcd(f, i) ELSE ExecSbcd(f, i)
  <2>1. i.kind = "Abcd" \/ i.kind \in {"Sbcd", "Nbcd"}
    BY DEF Decimals
  <2>2. i.kind = "Abcd" => done = ExecAbcd(f, i)
    BY <1>2, Zenon DEF Perform, BinaryKinds, AddressKinds, QuickKinds, ExtendKinds, UnaryKinds, ToCcrKinds, ToSrKinds, Shifts, BitKinds
  <2>3. i.kind \in {"Sbcd", "Nbcd"} => done = ExecSbcd(f, i)
    BY <1>2, Zenon DEF Perform, BinaryKinds, AddressKinds, QuickKinds, ExtendKinds, UnaryKinds, ToCcrKinds, ToSrKinds, Shifts, BitKinds
  <2> QED BY <2>1, <2>2, <2>3
<1>6. i["dst"].kind = "DataRegister" /\ (i.kind # "Nbcd" => i["src"].kind = "DataRegister")
  BY DEF OnRegisters, Roles
<1>7. InRegister(f, i["dst"], Byte) = InRegister(m, i["dst"], Byte)
      /\ InRegister(done, i["dst"], Byte) = InRegister(r, i["dst"], Byte)
      /\ (i.kind # "Nbcd" => InRegister(f, i["src"], Byte) = InRegister(m, i["src"], Byte))
  BY <1>4, <1>6 DEF InRegister
<1>8. DecimalFirst(f, i) = DecimalFirst(m, i) /\ DecimalSecond(f, i) = DecimalSecond(m, i)
  BY <1>7 DEF DecimalFirst, DecimalSecond
<1>9. DecimalOperands(f, i)
  BY <1>2, <1>8 DEF DecimalOperands
<1>10. DecimalDone(f, i, done)
  BY <1>4, <1>5, <1>9, DecimalExecutes
<1>11. DecimalDone(m, i, r)
  BY <1>4, <1>7, <1>8, <1>10 DEF DecimalDone, Ok
<1> QED BY <1>11 DEF m, r

(* Two decimal limbs that are linked by the carry and the zero.            *)
LinkedDecimals(plus, x, z, a0, b0, a1, b1, v0, s0, v1, s1, exact, after) ==
    /\ plus \in BOOLEAN /\ x \in {0, 1} /\ a0 \in Int /\ b0 \in Int /\ a1 \in Int /\ b1 \in Int
    /\ DecimalLimb(plus, a0, b0, x, z, v0, s0) /\ DecimalLimb(plus, a1, b1, s0.x, s0.z, v1, s1)
    /\ exact = Combined(plus, a1 * 100 + a0, b1 * 100 + b0, x)
    /\ after = Digits(v1) * 100 + Digits(v0)

(* Two decimal limbs linked by X and Z make one operation of four digits.  *)
LEMMA DecimalsWiden ==
    ASSUME NEW plus, NEW x, NEW z, NEW a0, NEW b0, NEW a1, NEW b1, NEW v0, NEW s0, NEW v1, NEW s1, NEW exact, NEW after,
           LinkedDecimals(plus, x, z, a0, b0, a1, b1, v0, s0, v1, s1, exact, after)
    PROVE  /\ after = exact % 10000 /\ s1.c = Flag(exact # after) /\ s1.x = s1.c
           /\ z = 1 => s1.z = Flag(after = 0)
<1>0. /\ plus \in BOOLEAN /\ x \in {0, 1} /\ a0 \in Int /\ b0 \in Int /\ a1 \in Int /\ b1 \in Int
      /\ DecimalLimb(plus, a0, b0, x, z, v0, s0) /\ DecimalLimb(plus, a1, b1, s0.x, s0.z, v1, s1)
      /\ exact = Combined(plus, a1 * 100 + a0, b1 * 100 + b0, x)
      /\ after = Digits(v1) * 100 + Digits(v0)
  BY Zenon DEF LinkedDecimals
<1> USE <1>0
<1> DEFINE c0 == s0.c
           c1 == s1.c
           d0 == Digits(v0)
           d1 == Digits(v1)
           k == IF plus THEN c1 ELSE -c1
<1>1. d0 \in 0 .. 99 /\ d1 \in 0 .. 99 /\ c0 \in {0, 1} /\ c1 \in {0, 1} /\ s0.x = c0 /\ s1.x = c1
      /\ s1.z = IF d1 = 0 THEN (IF d0 = 0 THEN z ELSE 0) ELSE 0
  BY DEF DecimalLimb
<1>2. /\ d0 = IF plus THEN a0 + b0 + x - 100 * c0 ELSE a0 - b0 - x + 100 * c0
      /\ d1 = IF plus THEN a1 + b1 + c0 - 100 * c1 ELSE a1 - b1 - c0 + 100 * c1
  BY <1>1 DEF DecimalLimb
<1>3. after = d1 * 100 + d0
  OBVIOUS
<1> HIDE DEF c0, c1, d0, d1
<1>4. exact = IF plus THEN a1 * 100 + a0 + (b1 * 100 + b0) + x ELSE a1 * 100 + a0 - (b1 * 100 + b0) - x
  BY DEF Combined
<1>5. exact = 10000 * k + after /\ k \in Int
  <2>1. CASE plus
    <3>1. k = c1 /\ d0 = a0 + b0 + x - 100 * c0 /\ d1 = a1 + b1 + c0 - 100 * c1
      BY <1>2, <2>1
    <3>2. exact = a1 * 100 + a0 + (b1 * 100 + b0) + x
      BY <1>4, <2>1
    <3> HIDE DEF k
    <3> QED BY <1>1, <1>3, <3>1, <3>2
  <2>2. CASE ~plus
    <3>1. k = -c1 /\ d0 = a0 - b0 - x + 100 * c0 /\ d1 = a1 - b1 - c0 + 100 * c1
      BY <1>2, <2>2
    <3>2. exact = (a1 * 100 + a0) - (b1 * 100 + b0) - x
      BY <1>4, <2>2
    <3> HIDE DEF k
    <3> QED BY <1>1, <1>3, <3>1, <3>2
  <2> QED BY <2>1, <2>2
<1>6. after \in Int /\ 0 <= after /\ after < 10000 /\ (after = 0 <=> d1 = 0 /\ d0 = 0)
  BY <1>1, <1>3
<1>7. k = 0 <=> c1 = 0
  BY <1>1
<1> HIDE DEF k
<1>8. after = exact % 10000
  <2> DEFINE w == 10000
  <2>1. w \in Nat \ {0} /\ exact = w * k + after /\ k \in Int /\ after \in Int /\ 0 <= after /\ after < w
    BY <1>5, <1>6
  <2> HIDE DEF w
  <2>2. after = exact % w
    BY <2>1, Divides, ZenonT(30)
  <2> QED BY <2>2 DEF w
<1>9. exact # after <=> c1 = 1
  BY <1>1, <1>5, <1>6, <1>7
<1>10. z = 1 => s1.z = Flag(after = 0)
  BY <1>1, <1>6 DEF Flag
<1>11. c1 = Flag(exact # after)
  BY <1>1, <1>9 DEF Flag
<1> QED BY <1>1, <1>8, <1>10, <1>11 DEF c1

(* The operands of a decimal chain hold digits.                            *)
AllDecimal ==
    \A k \in 1 .. 2 : \A role \in Roles \cap DOMAIN program[k] : IsDecimal(Low(past[1].d[program[k][role].index], Byte))

(* Two executed decimal limbs work as one operation of four digits.        *)
LEMMA WideDecimalNow ==
    ASSUME EightBits, TenDigits, Trace, Chained, program[1].kind \in Decimals
    PROVE  WideDecimal
<1> SUFFICES ASSUME AllDecimal PROVE WideDecimal
  BY Zenon DEF AllDecimal, WideDecimal
<1> DEFINE i == program[1]
           j == program[2]
           m == past[1]
           p == past[2]
           D == DOMAIN machine.mem
           v0 == InRegister(p, i["dst"], Byte)
           v1 == InRegister(machine, j["dst"], Byte)
           after == Digits(v1) * 100 + Digits(v0)
           a0 == Digits(DecimalFirst(m, i))
           b0 == Digits(DecimalSecond(m, i))
           a1 == Digits(DecimalFirst(p, j))
           b1 == Digits(DecimalSecond(p, j))
           plus == i.kind = "Abcd"
           x == m.sr.x
           z == m.sr.z
           exact == Combined(plus, a1 * 100 + a0, b1 * 100 + b0, x)
           low(n) == Low(m.d[n], Byte)
           i1 == i["dst"].index
           j1 == j["dst"].index
           i2 == i["src"].index
           j2 == j["src"].index
<1>1. i = program[1] /\ j = program[2] /\ m = past[1] /\ p = past[2]
  OBVIOUS
<1> HIDE DEF i, j, m, p
<1>2. /\ 1 \in Executed /\ 2 \in Executed /\ Before(1) = m /\ After(1) = p /\ Before(2) = p /\ After(2) = machine
      /\ OnRegisters(i) /\ OnRegisters(j)
      /\ <<i.kind, j.kind>> \in LimbPrograms
      /\ "dst" \in DOMAIN i /\ "dst" \in DOMAIN j /\ i["dst"] \in Targets /\ j["dst"] \in Targets
      /\ ("src" \in DOMAIN i <=> i.kind \notin {"Neg", "Nbcd"}) /\ ("src" \in DOMAIN j <=> j.kind \notin {"Negx", "Nbcd"})
      /\ "src" \in DOMAIN i => i["src"] \in Targets
      /\ "src" \in DOMAIN j => j["src"] \in Targets
      /\ \A role \in Roles \cap DOMAIN j : j[role].index # i["dst"].index
      /\ m \in Machines(D) /\ p \in Machines(D) /\ machine \in Machines(D)
  BY <1>1, LinksAre
<1>3. i.kind \in Decimals /\ j.kind = i.kind
  BY <1>1, <1>2 DEF LimbPrograms, Decimals
<1>4. i.kind # "Nbcd" => "src" \in DOMAIN i /\ "src" \in DOMAIN j
  BY <1>2, <1>3 DEF Decimals
<1>5. i1 \in 0 .. 7 /\ j1 \in 0 .. 7 /\ j1 # i1 /\ i["dst"].kind = "DataRegister" /\ j["dst"].kind = "DataRegister"
  BY <1>2, TargetIn DEF OnRegisters, Roles, IsRegister
<1>6. ASSUME i.kind # "Nbcd"
      PROVE  i2 \in 0 .. 7 /\ j2 \in 0 .. 7 /\ j2 # i1 /\ i["src"].kind = "DataRegister" /\ j["src"].kind = "DataRegister"
  BY <1>2, <1>4, <1>6, TargetIn DEF OnRegisters, Roles, IsRegister
<1>7. InRegister(m, i["dst"], Byte) = low(i1) /\ (i.kind # "Nbcd" => InRegister(m, i["src"], Byte) = low(i2))
  BY <1>5, <1>6 DEF InRegister
<1>8. IsDecimal(low(i1)) /\ IsDecimal(low(j1)) /\ (i.kind # "Nbcd" => IsDecimal(low(i2)) /\ IsDecimal(low(j2)))
  <2>1. \A role \in Roles \cap DOMAIN i : IsDecimal(low(i[role].index))
    BY <1>1 DEF AllDecimal
  <2>2. \A role \in Roles \cap DOMAIN j : IsDecimal(low(j[role].index))
    BY <1>1 DEF AllDecimal
  <2> QED BY <1>2, <1>4, <2>1, <2>2 DEF Roles
<1>9. IsDecimal(0) /\ Digits(0) = 0
  <2>1. 0 \in 0 .. 9 /\ 0 = 0 * Nibble + 0
    BY NibbleIs
  <2>2. IsDecimal(0) /\ Digits(0) = 10 * 0 + 0
    BY <2>1, MadeOfDigits
  <2> QED BY <2>2
<1>10. DecimalOperands(m, i)
  BY <1>7, <1>8, <1>9 DEF DecimalOperands, DecimalFirst, DecimalSecond
<1>11. DecimalDone(m, i, p)
  BY <1>1, <1>2, <1>3, <1>4, <1>10, DecimalExecuted
<1>12. \A n \in 0 .. 7 : n # i["dst"].index => p.d[n] = m.d[n]
  BY <1>11 DEF DecimalDone
<1>13. InRegister(p, j["dst"], Byte) = low(j1) /\ (i.kind # "Nbcd" => InRegister(p, j["src"], Byte) = low(j2))
  BY <1>5, <1>6, <1>12 DEF InRegister
<1>14. DecimalOperands(p, j)
  BY <1>3, <1>8, <1>9, <1>13 DEF DecimalOperands, DecimalFirst, DecimalSecond
<1>15. DecimalDone(p, j, machine)
  BY <1>1, <1>2, <1>3, <1>4, <1>14, DecimalExecuted
<1>16. \A n \in 0 .. 7 : n # j["dst"].index => machine.d[n] = p.d[n]
  BY <1>15 DEF DecimalDone
<1>17. v0 = Low(machine.d[i1], Byte) /\ v1 = Low(machine.d[j1], Byte)
  BY <1>5, <1>16 DEF InRegister
<1>18. DecimalLimb(plus, a0, b0, x, z, v0, p.sr)
  BY <1>11 DEF DecimalDone
<1>19. DecimalLimb(plus, a1, b1, p.sr.x, p.sr.z, v1, machine.sr)
  BY <1>3, <1>15 DEF DecimalDone
<1>20. \A n \in 0 .. 7 : IsDecimal(low(n)) => Digits(low(n)) \in Int
  <2> TAKE n \in 0 .. 7
  <2>1. m.d[n] \in Values(Long)
    BY <1>2, RegisterIn
  <2>2. m.d[n] \in Int
    BY <2>1, ValuesWiden
  <2>3. low(n) \in Values(Byte)
    BY <2>2, LowIn DEF Sizes
  <2> DEFINE h == low(n) \div Nibble
             l == low(n) % Nibble
  <2>4. IsDecimal(low(n)) => h \in 0 .. 9 /\ l \in 0 .. 9 /\ Digits(low(n)) = 10 * h + l
    BY <2>3, DigitsAre
  <2> HIDE DEF low, h, l
  <2> QED BY <2>4
<1> HIDE DEF low
<1>21. a0 = (IF i.kind = "Nbcd" THEN 0 ELSE Digits(low(i1))) /\ b0 = (IF i.kind = "Nbcd" THEN Digits(low(i1)) ELSE Digits(low(i2)))
  BY <1>7, <1>9 DEF DecimalFirst, DecimalSecond
<1>22. a1 = (IF i.kind = "Nbcd" THEN 0 ELSE Digits(low(j1))) /\ b1 = (IF i.kind = "Nbcd" THEN Digits(low(j1)) ELSE Digits(low(j2)))
  BY <1>3, <1>9, <1>13 DEF DecimalFirst, DecimalSecond
<1>23. a0 \in Int /\ b0 \in Int /\ a1 \in Int /\ b1 \in Int
  BY <1>5, <1>6, <1>8, <1>20, <1>21, <1>22
<1>24. x \in {0, 1} /\ plus \in BOOLEAN
  BY <1>2 DEF Machines, StatusRegisters, Bit
<1>25. /\ after = exact % 10000 /\ machine.sr.c = Flag(exact # after) /\ machine.sr.x = machine.sr.c
       /\ z = 1 => machine.sr.z = Flag(after = 0)
  <2> DEFINE s0 == p.sr
             s1 == machine.sr
  <2>1. DecimalLimb(plus, a0, b0, x, z, v0, s0) /\ DecimalLimb(plus, a1, b1, s0.x, s0.z, v1, s1)
    BY <1>18, <1>19
  <2>2. exact = Combined(plus, a1 * 100 + a0, b1 * 100 + b0, x) /\ after = Digits(v1) * 100 + Digits(v0)
    OBVIOUS
  <2> HIDE DEF a0, b0, a1, b1, v0, v1, plus, x, z, exact, after, s0, s1
  <2>3. /\ after = exact % 10000 /\ s1.c = Flag(exact # after) /\ s1.x = s1.c
        /\ z = 1 => s1.z = Flag(after = 0)
    <3>1. LinkedDecimals(plus, x, z, a0, b0, a1, b1, v0, s0, v1, s1, exact, after)
      BY <1>23, <1>24, <2>1, <2>2, Zenon DEF LinkedDecimals
    <3> QED BY <3>1, DecimalsWiden
  <2> QED BY <2>3 DEF s1
<1>26. RADIX * RADIX = 100 /\ (RADIX * RADIX) * (RADIX * RADIX) = 10000
  BY DEF TenDigits
<1> DEFINE base == RADIX * RADIX
           A == Pairs("dst", base, LAMBDA n : Digits(Low(past[1].d[n], Byte)))
           B == Pairs("src", base, LAMBDA n : Digits(Low(past[1].d[n], Byte)))
           R == Pairs("dst", base, LAMBDA n : Digits(Low(machine.d[n], Byte)))
           U == CASE program[2].kind = "Abcd" -> A + B + past[1].sr.x
                  [] program[2].kind = "Sbcd" -> A - B - past[1].sr.x
                  [] program[2].kind = "Nbcd" -> -A - past[1].sr.x
<1>27. R = after
  <2>1. program[1]["dst"].index = i1 /\ program[2]["dst"].index = j1 /\ "dst" \in DOMAIN program[1]
    BY <1>1, <1>2 DEF i1, j1
  <2>2. R = Digits(Low(machine.d[j1], Byte)) * base + Digits(Low(machine.d[i1], Byte))
    BY <2>1, Zenon DEF Pairs
  <2> QED BY <1>17, <1>26, <2>2
<1>28. A = Digits(low(j1)) * 100 + Digits(low(i1))
  <2>1. program[1]["dst"].index = i1 /\ program[2]["dst"].index = j1 /\ "dst" \in DOMAIN program[1] /\ past[1] = m
    BY <1>1, <1>2 DEF i1, j1
  <2>2. A = Digits(low(j1)) * base + Digits(low(i1))
    BY <2>1, Zenon DEF Pairs, low
  <2> QED BY <1>26, <2>2
<1>29. i.kind # "Nbcd" => B = Digits(low(j2)) * 100 + Digits(low(i2))
  <2>1. program[1]["src"].index = i2 /\ program[2]["src"].index = j2 /\ past[1] = m
    BY <1>1 DEF i2, j2
  <2>2. i.kind # "Nbcd" => "src" \in DOMAIN program[1]
    BY <1>1, <1>4
  <2>3. i.kind # "Nbcd" => B = Digits(low(j2)) * base + Digits(low(i2))
    BY <2>1, <2>2, Zenon DEF Pairs, low
  <2> QED BY <1>26, <2>3
<1>30. program[2].kind = i.kind /\ past[1].sr.x = x /\ past[1].sr.z = z
  BY <1>1, <1>3
<1> HIDE DEF A, B, R, a0, b0, a1, b1, x, z, after
<1>31. U = exact
  <2>1. CASE i.kind = "Abcd"
    <3>1. U = A + B + x
      BY <1>30, <2>1
    <3>2. A = a1 * 100 + a0 /\ B = b1 * 100 + b0
      BY <1>21, <1>22, <1>28, <1>29, <2>1
    <3> HIDE DEF U
    <3> QED BY <2>1, <3>1, <3>2 DEF Combined
  <2>2. CASE i.kind = "Sbcd"
    <3>1. U = A - B - x
      BY <1>30, <2>2
    <3>2. A = a1 * 100 + a0 /\ B = b1 * 100 + b0
      BY <1>21, <1>22, <1>28, <1>29, <2>2
    <3> HIDE DEF U
    <3> QED BY <2>2, <3>1, <3>2 DEF Combined
  <2>3. CASE i.kind = "Nbcd"
    <3>1. U = -A - x
      BY <1>30, <2>3
    <3>2. A = b1 * 100 + b0 /\ a1 = 0 /\ a0 = 0
      BY <1>21, <1>22, <1>28, <2>3
    <3>3. exact = (a1 * 100 + a0) - (b1 * 100 + b0) - x
      <4>1. plus = FALSE
        BY <2>3
      <4>2. \A a, b : ~plus => Combined(plus, a, b, x) = a - b - x
        <5> HIDE DEF plus
        <5> QED BY Zenon DEF Combined
      <4>3. Combined(plus, a1 * 100 + a0, b1 * 100 + b0, x) = (a1 * 100 + a0) - (b1 * 100 + b0) - x
        BY <4>1, <4>2, Zenon
      <4> QED BY <4>3, Zenon DEF exact
    <3> HIDE DEF U, exact
    <3> QED BY <1>23, <1>24, <3>1, <3>2, <3>3
  <2> QED BY <1>3, <2>1, <2>2, <2>3 DEF Decimals
<1>32. /\ R = U % (base * base) /\ machine.sr.c = Flag(U # R) /\ machine.sr.x = machine.sr.c
       /\ past[1].sr.z = 1 => machine.sr.z = Flag(R = 0)
  <2> HIDE DEF U, exact
  <2> QED BY <1>25, <1>26, <1>27, <1>30, <1>31
<1> QED BY <1>32, Zenon DEF WideDecimal, A, B, R, Pairs

(* What was executed of the trace chains.                                  *)
LEMMA LimbsChainNow == ASSUME EightBits, TenDigits, Trace PROVE LimbsChain
<1> SUFFICES ASSUME Chained PROVE IF program[1].kind \in Decimals THEN WideDecimal ELSE WideBinary
  BY Zenon DEF LimbsChain, Chained
<1>1. CASE program[1].kind \in Decimals
  BY <1>1, WideDecimalNow
<1>2. CASE program[1].kind \notin Decimals
  BY <1>2, WideBinaryNow
<1> QED BY <1>1, <1>2

(* ADD and ADDX, SUB and SUBX, NEG and NEGX, and pairs of ABCD, SBCD or    *)
(* NBCD with the digits of the code (TenDigits) work on two data registers *)
(* as one operation of twice the width: the result, the carry and borrow,  *)
(* the overflow, the sign and the zero are those of the wide numbers.      *)
THEOREM Chaining == EightBits /\ TenDigits => (Spec => []LimbsChain)
<1> SUFFICES ASSUME EightBits, TenDigits PROVE Spec => []LimbsChain
  OBVIOUS
<1>1. Trace => LimbsChain
  BY LimbsChainNow
<1> QED BY <1>1, Tracing, PTL
=============================================================================
