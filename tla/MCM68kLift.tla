----------------------------- MODULE MCM68kLift -----------------------------
(* The instructions of the interpreter's runs in every operand, and at the *)
(* edges of the arithmetic, with what the decoder may have left unset.     *)
EXTENDS M68kLift, MCM68kCases

Unset == {[size |-> size, target |-> Displaced(n, w)] : size \in Sizes, n \in {3}, w \in {4, 4092}}
KnownSize == {[size |-> Byte, target |-> Displaced(3, 4)]}

Cases(instructions, operands, unsets) ==
    [instructions |-> instructions, operands |-> operands, unset |-> unsets]

Edge(size) == {Ops(s, d, 263, 392, x, z) : s \in Edges(size), d \in Edges(size), x \in Bit, z \in Bit}

Registers(size) ==
    {Op2(kind, size, DataReg(0), DataReg(1)) :
        kind \in {"Add", "And", "Cmp", "Eor", "Or", "Sub"} \cup ExtendKinds \cup Shifts}
    \cup {Op2(kind, size, Imm(44), DataReg(1)) : kind \in {"Addi", "Andi", "Cmpi", "Eori", "Ori", "Subi"}}
    \cup {Op1(kind, size, DataReg(1)) : kind \in UnaryKinds}
    \cup {[kind |-> kind, size |-> size, dst |-> t, data |-> 0] :
             kind \in QuickKinds, t \in {DataReg(1), AddrReg(1)}}

Words ==
    {Op2(kind, Word, DataReg(0), DataReg(1)) : kind \in {"Mulu", "Muls", "Divu", "Divs", "Chk"}}
    \cup {Op2(kind, size, DataReg(0), AddrReg(1)) : kind \in AddressKinds, size \in {Word, Long}}
    \cup {Op1("Ext", size, DataReg(1)) : size \in {Word, Long}}
    \cup {Op1("Swap", Long, DataReg(1))}

Decimals ==
    {Op2(kind, Byte, DataReg(0), DataReg(1)) : kind \in {"Abcd", "Sbcd"} \cup BitKinds}
    \cup {Op1(kind, Byte, DataReg(1)) : kind \in {"Nbcd", "Tas"}}
    \cup {[kind |-> "Moveq", dst |-> DataReg(1), data |-> n] : n \in Edges(Byte)}

Frames ==
    {[kind |-> "Link", dst |-> AddrReg(n), data |-> 4] : n \in {5, 7}}
    \cup {[kind |-> "Unlink", dst |-> AddrReg(n)] : n \in {0, 7}}
    \cup {Op2("Exg", Long, DataReg(1), t) : t \in {DataReg(2), AddrReg(3)}}
    \cup {Op1(kind, Long, t) : kind \in {"Jmp", "Jsr"}, t \in {Displaced(7, 2), PcDisplaced(8), Indexed(0, DataReg(5), TRUE, 5)}}
    \cup {Op1(kind, Long, Displaced(0, 4000)) : kind \in {"Jmp", "Jsr"}}
    \cup {Op2("Lea", Long, Displaced(0, 4000), AddrReg(3)), Op1("MoveFromUsp", Long, AddrReg(1))}
    \cup {[kind |-> "Movea", size |-> Word, src |-> PcIndexed(DataReg(0), FALSE, 55), dst |-> AddrReg(2), data |-> 60]}
    \cup {[kind |-> "Trap", data |-> 32], Op2("Btst", Byte, DataReg(2), PcIndexed(DataReg(0), FALSE, 27))}
    \cup {[kind |-> "Movem", size |-> Long, dst |-> PreDec(3, Long), list |-> {b}] : b \in {4, 12}}

(* Vector 32 for TRAP, above the bytes of the other runs; overflow set or  *)
(* not for TRAPV; the status word RTE pops keeps the supervisor mode or    *)
(* leaves it.                                                              *)
MCLiftMachine(c) ==
    LET m == MCMachine(c)
    IN  [m EXCEPT !.mem = [b \in DOMAIN @ \cup 128 .. 131 |-> CASE b = 48 /\ m.sr.x = 1 -> 26
                                                              [] b \in DOMAIN @ -> @[b]
                                                              [] OTHER -> IF b = 131 THEN 44 ELSE 0],
                  !.sr.v = m.sr.x]

Here == {Ops(5, 4230, 8455, 12680, x, z) : x \in Bit, z \in Bit}

InFlow == {i \in Flow : i.kind # "Trap"}

MCFamilies ==
    {Cases(Registers(size), Edge(size), KnownSize) : size \in Sizes}
    \cup {Cases(Words, {Ops(s, d, 0, 0, 0, 1) : s \in Edges(Word), d \in Edges(Long) \cup Edges(Word)}, KnownSize)}
    \cup {Cases(Decimals, Edge(Byte), KnownSize)}
    \cup {Cases({i \in Flow : i.kind = "Dbcc"}, {Ops(n, 0, 0, 0, 0, z) : n \in {0, 1, 4096}, z \in Bit}, KnownSize)}
    \cup {Cases(InMemory(size), Here, KnownSize) : size \in Sizes}
    \cup {Cases(ByteMemory \cup WordMemory \cup InFlow \cup Frames, Here, Unset)}
    \cup {Cases(WordMemory \cup InFlow \cup Frames, At(2 .. 5), KnownSize)}
=============================================================================
