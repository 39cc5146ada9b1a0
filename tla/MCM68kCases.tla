---------------------------- MODULE MCM68kCases ----------------------------
(***************************************************************************)
(* Machines and instructions for the runs of the interpreter and of the    *)
(* lifter: six-bit bytes, decimal digits in base 5, operands at the edges  *)
(* of each size, 48 bytes of memory from address 16, where the vectors 5,  *)
(* 6 and 7 are.                                                            *)
(***************************************************************************)
EXTENDS M68k

SR0 == [c |-> 0, v |-> 0, z |-> 1, n |-> 0, x |-> 0, s |-> 1, mask |-> 0]

Base == [d |-> [n \in 0 .. 7 |-> 4096 * n + 129 * n + 5],
         a |-> [n \in 0 .. 6 |-> 36 + n],
         usp |-> 56, ssp |-> 48, pc |-> 100, sr |-> SR0,
         mem |-> [b \in 16 .. 63 |-> IF b < 32 THEN IF b % 4 = 3 THEN 40 ELSE 0
                                     ELSE (7 * b + 3) % 64],
         status |-> "ok", decremented |-> {}, incremented |-> {}, garbage |-> 9]

Edges(size) ==
    CASE size = Byte -> {0, 1, 2, 31, 32, 33, 62, 63}
      [] size = Word -> {0, 1, 63, 2047, 2048, 2049, 4095}
      [] size = Long -> {0, 1, 4095, 8388607, 8388608, 16777215}

(* Operands: the data registers D0 to D3, X and Z, and a place of the table *)
(* below for the rest of the machine.                                      *)
Ops(d0, d1, d2, d3, x, z) == [d |-> <<d0, d1, d2, d3>>, x |-> x, z |-> z, place |-> 1]

Places == <<Base, [Base EXCEPT !.a[0] = 1000], [Base EXCEPT !.ssp = 2000],
            [Base EXCEPT !.sr.s = 0, !.a[0] = 61, !.usp = 33, !.sr.v = 1],
            [Base EXCEPT !.sr.s = 0]>>

MCMachine(c) ==
    LET m == Places[c.place]
    IN  [m EXCEPT !.d = [n \in 0 .. 7 |-> IF n < 4 THEN c.d[n + 1] ELSE m.d[n]],
                  !.a[1] = Low(c.d[2], Long), !.sr.x = c.x, !.sr.z = c.z]

Op2(kind, size, src, dst) == [kind |-> kind, size |-> size, src |-> src, dst |-> dst]
Op1(kind, size, dst) == [kind |-> kind, size |-> size, dst |-> dst]
Op1s(kind, size, src) == [kind |-> kind, size |-> size, src |-> src]

(* Operands s in D0 and d in D1 (and A1), under a piece of another number. *)
Edged(size, ss, ds, xs) ==
    LET high == IF size = Long THEN 0 ELSE 3 * Span(size)
    IN  {Ops(s + high, d + high, 263, 392, x, 1) : s \in ss, d \in ds, x \in xs}

Family(programs, operands) == [programs |-> programs, operands |-> operands]

D0D1(kinds, size) == {<<Op2(kind, size, DataReg(0), DataReg(1))>> : kind \in kinds}
OnD1(kinds, size) == {<<Op1(kind, size, DataReg(1))>> : kind \in kinds}

-----------------------------------------------------------------------------
(* Operands in memory, on A0 and on the stack pointer, mapped and not.     *)
Memory(size) ==
    {PostInc(n, size) : n \in {0, 7}} \cup {PreDec(n, size) : n \in {0, 7}}
    \cup {Indirect(0), Displaced(0, 2), Displaced(0, 4094), Indexed(0, AddrReg(7), TRUE, 40),
          Indexed(7, DataReg(5), FALSE, 0), AbsShort(42), AbsLong(0, 44)}
Readonly == {PcDisplaced(4040), PcIndexed(DataReg(6), FALSE, 9), Imm(44)}

InMemory(size) ==
    {Op2(kind, size, t, DataReg(1)) : kind \in {"Add", "Cmp", "Or"}, t \in Memory(size) \cup Readonly}
    \cup {Op2(kind, size, DataReg(1), t) : kind \in {"Sub", "And"}, t \in Memory(size)}
    \cup {Op2(kind, size, Imm(34), t) : kind \in {"Addi", "Cmpi", "Eori"}, t \in Memory(size)}
    \cup {[kind |-> "Move", size |-> size, src |-> s, dst |-> t, data |-> 60] :
             s \in Memory(size) \cup Readonly, t \in Memory(size)}
    \cup {Op2("Cmpm", size, PostInc(n, size), PostInc(k, size)) : n \in {0, 7}, k \in {0, 7}}
    \cup {Op2(kind, size, PreDec(n, size), PreDec(k, size)) :
             kind \in ExtendKinds, n \in {0, 7}, k \in {0, 7}}
    \cup {[kind |-> kind, size |-> size, dst |-> t, data |-> 3] : kind \in QuickKinds, t \in Memory(size)}
    \cup {Op1(kind, size, t) : kind \in UnaryKinds, t \in Memory(size)}
    \cup {Op1s("Tst", size, t) : t \in Memory(size)}

ByteMemory ==
    {Op2(kind, Byte, PreDec(n, 1), PreDec(k, 1)) : kind \in {"Abcd", "Sbcd"}, n \in {0, 7}, k \in {0, 7}}
    \cup {Op1(kind, Byte, t) : kind \in {"Nbcd", "Tas"}, t \in Memory(Byte)}
    \cup {[kind |-> "Scc", cond |-> cond, dst |-> t] : cond \in {"Higher", "LessOrEqual"}, t \in Memory(Byte)}
    \cup {Op2(kind, Byte, s, t) : kind \in BitKinds, s \in {DataReg(2), Imm(35)},
                                  t \in Memory(Byte) \cup {DataReg(1)}}

Lists == {{0, 8}, {1, 2, 9}, {15}, {}}

WordMemory ==
    {Op2(kind, Word, t, DataReg(1)) : kind \in {"Chk", "Mulu", "Muls", "Divu", "Divs"}, t \in Memory(Word)}
    \cup {Op2(kind, Word, t, AddrReg(n)) : kind \in {"Adda", "Cmpa"}, t \in Memory(Word), n \in {0, 3}}
    \cup {[kind |-> "Movea", size |-> Word, src |-> t, dst |-> AddrReg(2), data |-> 60] :
             t \in Memory(Word) \cup Readonly}
    \cup {[kind |-> kind, size |-> Word, dst |-> t, data |-> 1] : kind \in Shifts, t \in Memory(Word)}
    \cup {Op1s(kind, Word, t) : kind \in {"MoveToCcr", "MoveToSr"}, t \in Memory(Word)}
    \cup {Op1("MoveFromSr", Word, t) : t \in Memory(Word)}
    \cup {Op1s(kind, Byte, Imm(45)) : kind \in ToCcrKinds}
    \cup {Op1s(kind, Word, Imm(44)) : kind \in ToSrKinds}
    \cup UNION {{[kind |-> "Movem", size |-> size, src |-> t, list |-> l] :
             t \in {PostInc(0, size), PostInc(7, size), Indirect(0)}, l \in Lists} : size \in {Word, Long}}
    \cup UNION {{[kind |-> "Movem", size |-> size, dst |-> t, list |-> l] :
             t \in {PreDec(0, size), PreDec(7, size), Indirect(0)}, l \in Lists} : size \in {Word, Long}}
    \cup {Op2("Movep", size, Displaced(0, k), DataReg(1)) : size \in {Word, Long}, k \in {0, 1}}
    \cup {Op2("Movep", size, DataReg(1), Displaced(0, k)) : size \in {Word, Long}, k \in {0, 1}}

Flow ==
    {[kind |-> "Bcc", cond |-> cond, size |-> size, data |-> n] :
        cond \in Conditions, size \in {Byte, Word}, n \in {2, 3, 62}}
    \cup {[kind |-> "Dbcc", cond |-> cond, size |-> Word, dst |-> DataReg(n), data |-> k] :
        cond \in {"False", "Equal", "True"}, n \in {0, 7}, k \in {4, 4092}}
    \cup {[kind |-> "Bsr", size |-> Byte, data |-> 8]}
    \cup {Op1(kind, Long, t) : kind \in {"Jmp", "Jsr"}, t \in {Indirect(0), Displaced(0, 3), AbsShort(42)}}
    \cup {Op2("Lea", Long, t, AddrReg(3)) : t \in {Displaced(0, 2), PcDisplaced(8)}}
    \cup {Op1s("Pea", Long, t) : t \in {Displaced(0, 2), PcDisplaced(8)}}
    \cup {[kind |-> kind, data |-> 7] : kind \in {"Trap", "Trapv"}}
    \cup {[kind |-> kind] : kind \in {"Rte", "Rtr", "Rts", "Nop", "Reset"}}
    \cup {Op1s("MoveToUsp", Long, AddrReg(2)), Op1("MoveFromUsp", Long, AddrReg(2))}

At(places) == {[Ops(5, 4230, 8455, 12680, 0, 1) EXCEPT !.place = k] : k \in places}
=============================================================================
