--------------------------- MODULE MCM68kProgram ---------------------------
(* Programs of one instruction at the edges of its operands, chains over   *)
(* two limbs, rotations there and back, and programs that restore.         *)
EXTENDS M68kProgram, MCM68kCases

Arithmetic ==
    {Family(D0D1({"Add", "Sub", "Cmp", "And", "Or", "Eor"}, size),
            Edged(size, Edges(size), Edges(size), Bit)) : size \in Sizes}

Addresses ==
    {Family({<<Op2(kind, size, t, AddrReg(1))>> : kind \in AddressKinds, t \in {DataReg(0), AddrReg(1)}},
            {Ops(s, d, 0, 0, 0, 1) : s \in Edges(size), d \in Edges(Long)}) : size \in {Word, Long}}

(* Two limbs: D2 and D3 are the low ones, D0 and D1 the high ones.         *)
Limbs(pairs, size, values, xs, zs) ==
    Family({IF p[2] \in {"Negx", "Nbcd"}
            THEN <<Op1(p[1], size, DataReg(3)), Op1(p[2], size, DataReg(1))>>
            ELSE <<Op2(p[1], size, DataReg(2), DataReg(3)), Op2(p[2], size, DataReg(0), DataReg(1))>> :
                p \in pairs},
           {Ops(s, d, t, e, x, z) :
                s \in values, d \in values, t \in values, e \in values, x \in xs, z \in zs})

Chains ==
    {Limbs({<<"Add", "Addx">>, <<"Sub", "Subx">>, <<"Neg", "Negx">>}, size,
           {0, 1, Span(size) \div 2, Span(size) - 1}, {1}, {0}) : size \in {Byte, Word}}
    \cup {Limbs({<<"Addx", "Addx">>}, Byte, {0, 1, 31, 32, 63}, Bit, {1})}
    \cup {Limbs({<<kind, kind>> : kind \in {"Abcd", "Sbcd", "Nbcd"}}, Byte,
                {0, 1, 4, 12, 35, 36}, {x}, {1}) : x \in Bit}
    \cup {Limbs({<<"Abcd", "Abcd">>}, Byte, {7, 63}, Bit, {1})}

Counted(kind, size, n) == [kind |-> kind, size |-> size, dst |-> DataReg(1), data |-> n]

ShiftCases ==
    {Family({<<Counted(kind, size, n)>> : kind \in Shifts, n \in 0 .. 7},
            Edged(size, {0}, Edges(size), Bit)) : size \in {Byte, Word}}
    \cup {Family(D0D1(Shifts, size), Edged(Byte, {0, 1, 5, 6, 7, 12, 13, 49}, Edges(size), Bit)) :
             size \in {Byte, Word}}
    \cup {Family({<<Counted(kind, Long, n)>> : kind \in Shifts, n \in 1 .. 4},
                 Edged(Long, {0}, Edges(Long), {1}))}

Opposite == [Rol |-> "Ror", Ror |-> "Rol", Roxl |-> "Roxr", Roxr |-> "Roxl"]
Rotations == {<<Op2(kind, size, DataReg(0), DataReg(1)), Op2(Opposite[kind], size, DataReg(0), DataReg(1))>> :
                 kind \in DOMAIN Opposite, size \in {Byte, Word}}
RotationCases == {Family(Rotations, Edged(Byte, {0, 1, 6, 7, 13, 40}, Edges(Byte), Bit))}

Products ==
    {Family(D0D1({"Mulu", "Muls", "Divu", "Divs", "Chk"}, Word),
            {Ops(s, d, 0, 0, 0, 1) : s \in Edges(Word),
                d \in Edges(Long) \cup {2 * 4095, 4096 * 1000, 16777215 - 2048}})}

Unaries ==
    {Family(OnD1(UnaryKinds, size), Edged(size, {0}, Edges(size), Bit)) : size \in Sizes}
    \cup {Family(OnD1({"Ext", "Swap", "Tas"}, size), Edged(Long, {0}, Edges(Long), {0})) :
             size \in {Word, Long}}
    \cup {Family({<<[kind |-> "Moveq", dst |-> DataReg(1), data |-> n], Op1s("Tst", Long, DataReg(1))>> :
                      n \in Edges(Byte)}, Edged(Long, {0}, {5}, {0}))}

Operands ==
    {Family({<<i>> : i \in InMemory(size)}, At(1 .. 4)) : size \in Sizes}
    \cup {Family({<<i>> : i \in ByteMemory \cup WordMemory \cup Flow}, At(1 .. 4))}

-----------------------------------------------------------------------------
Set(n, v) == [kind |-> "Moveq", dst |-> DataReg(n), data |-> v]
Store(list, n, size) == [kind |-> "Movem", size |-> size, dst |-> PreDec(n, size), list |-> {15 - r : r \in list}]
Load(list, n, size) == [kind |-> "Movem", size |-> size, src |-> PostInc(n, size), list |-> list]
Lea(n) == Op2("Lea", Long, AbsShort(44), AddrReg(n))
Link(n, k) == [kind |-> "Link", dst |-> AddrReg(n), data |-> k]
Unlink(n) == [kind |-> "Unlink", dst |-> AddrReg(n)]

RoundTripPrograms ==
    {<<Store({0, 2, 10}, n, Long), Set(0, 3), Set(2, 60), Lea(2), Load({0, 2, 10}, n, Long)>> : n \in {5, 7}}
    \cup {<<Store({3}, 7, Long), Store({4, 8}, 7, Long), Set(4, 0), Lea(0), Load({4, 8}, 7, Long),
            Set(3, 1), Load({3}, 7, Long)>>}
    \cup {<<Op2("Movep", Long, DataReg(1), Displaced(0, k)), Set(1, 0),
            Op2("Movep", Long, Displaced(0, k), DataReg(1))>> : k \in {0, 1}}
    \cup {<<Link(n, 4092), Op1s("Pea", Long, Indirect(0)), Unlink(n)>> : n \in {5, 6}}
    \cup {<<Link(5, 4092), Link(6, 4090), Unlink(6), Unlink(5)>>}
    \cup {<<Op1("Jsr", Long, AbsShort(42)), Link(6, 4094), Unlink(6), [kind |-> "Rts"]>>,
          <<[kind |-> "Bsr", size |-> Byte, data |-> 8], Op1("Jsr", Long, AbsShort(42)),
            [kind |-> "Rts"], [kind |-> "Rts"]>>}
    \cup {<<Op2("Exg", Long, DataReg(1), t), Op2("Exg", Long, DataReg(1), t)>> : t \in {DataReg(2), AddrReg(3)}}
    \cup {<<Op1("Swap", Long, DataReg(1)), Op1("Swap", Long, DataReg(1))>>}

MCRoundTrips == Rotations \cup RoundTripPrograms

MCFamilies == Arithmetic \cup Addresses \cup Chains \cup ShiftCases \cup RotationCases
              \cup Products \cup Unaries \cup Operands \cup {Family(RoundTripPrograms, At({1, 5}))}
=============================================================================
