----------------------------- MODULE M68kTypes -----------------------------
(***************************************************************************)
(* What the interpreter is given: machines, operands and instructions as   *)
(* the decoder builds them for the opcodes of the processor's manual.  The *)
(* decoder also takes opcodes the manual leaves out, LEA of a register for *)
(* one, on which execute.cpp runs into unreachable(): they are not here.   *)
(***************************************************************************)
EXTENDS M68k

(* Machines with some bytes of memory.                                     *)
Machines(bytes) ==
    [d : [0 .. 7 -> Values(Long)], a : [0 .. 6 -> Values(Long)],
     usp : Values(Long), ssp : Values(Long), pc : Values(Long), sr : StatusRegisters,
     mem : [bytes -> Values(Byte)], status : {"ok", "error", "crash"},
     decremented : SUBSET Roles, incremented : SUBSET Roles, garbage : Values(Word)]

-----------------------------------------------------------------------------
Stepped == {"AddressIncrement", "AddressDecrement"}
Relative == {"ProgramCounterDisplacement", "AbsoluteShort"}

Targets ==
    [kind : {"DataRegister", "AddressRegister", "Address"}, index : 0 .. 7]
    \cup [kind : Stepped, index : 0 .. 7, size : Sizes]
    \cup [kind : {"AddressDisplacement"}, index : 0 .. 7, word : Values(Word)]
    \cup [kind : {"AddressIndex"}, index : 0 .. 7, xlong : BOOLEAN, disp : Values(Byte),
          xreg : [kind : {"DataRegister", "AddressRegister"}, index : 0 .. 7]]
    \cup [kind : {"ProgramCounterIndex"}, xlong : BOOLEAN, disp : Values(Byte),
          xreg : [kind : {"DataRegister", "AddressRegister"}, index : 0 .. 7]]
    \cup [kind : Relative, word : Values(Word)]
    \cup [kind : {"AbsoluteLong"}, word : Values(Word), low : Values(Word)]
    \cup [kind : {"Immediate"}, address : Values(Long)]

IsMemory(t) == ~IsRegister(t)
HasFixedAddress(t) == IsMemory(t) /\ t.kind \notin Stepped

-----------------------------------------------------------------------------
(* What Instruction::execute reads of an instruction, by its kind: an      *)
(* Instruction is not initialized, so that a field the decoder does not    *)
(* set holds anything, and an operand too many is stepped once too often.  *)
UsesSize ==
    BinaryKinds \cup AddressKinds \cup QuickKinds \cup ExtendKinds \cup UnaryKinds \cup Shifts
        \cup {"Tst", "Move", "Movea", "Movep", "Movem", "Ext", "Bcc", "Bsr", "Dbcc"}
UsesBoth ==
    BinaryKinds \cup AddressKinds \cup ExtendKinds \cup BitKinds
        \cup {"Abcd", "Sbcd", "Mulu", "Muls", "Divu", "Divs", "Chk", "Move", "Movea", "Movep", "Exg", "Lea"}
UsesSrc == UsesBoth \cup ToCcrKinds \cup ToSrKinds \cup {"MoveToCcr", "MoveToSr", "MoveToUsp", "Tst", "Pea"}
UsesDst ==
    UsesBoth \cup QuickKinds \cup UnaryKinds \cup Shifts
        \cup {"Nbcd", "MoveFromSr", "MoveFromUsp", "Tas", "Moveq", "Swap", "Ext", "Dbcc", "Scc", "Jmp",
              "Jsr", "Link", "Unlink"}
UsesData ==
    QuickKinds \cup {"Move", "Movea", "Moveq", "Bcc", "Bsr", "Dbcc", "Link", "Trap", "Trapv"}
UsesNothing == {"Rte", "Rtr", "Rts", "Nop", "Reset"}

Kinds == UsesSize \cup UsesSrc \cup UsesDst \cup UsesData \cup UsesNothing

OperandsUsed(i) ==
    IF i.kind = "Movem" THEN {{"src"}, {"dst"}}
    ELSE IF i.kind \in Shifts THEN {{"dst"}, {"src", "dst"}}
    ELSE {{role \in Roles : \/ role = "src" /\ i.kind \in UsesSrc
                            \/ role = "dst" /\ i.kind \in UsesDst}}

SizesOf(kind) ==
    CASE kind \in {"Bcc", "Bsr"} -> {Byte, Word}
      [] kind \in AddressKinds \cup {"Ext", "Movem", "Movep", "Movea"} -> {Word, Long}
      [] kind = "Dbcc" -> {Word}
      [] OTHER -> Sizes

(* The operands of a kind whose code works on one sort of operand only.    *)
OperandsFit(i) ==
    /\ i.kind \in {"Lea", "Pea"} => HasFixedAddress(i.src)
    /\ i.kind \in {"Jmp", "Jsr"} => HasFixedAddress(i.dst)
    /\ i.kind \in {"Link", "Unlink"} => i.dst.kind = "AddressRegister"
    /\ i.kind \in AddressKinds => i.dst.kind = "AddressRegister"
    /\ i.kind = "Dbcc" => i.dst.kind = "DataRegister"
    /\ i.kind = "Exg" => IsRegister(i.src) /\ IsRegister(i.dst)
    /\ i.kind = "Movep" => \/ i.src.kind = "DataRegister" /\ i.dst.kind = "AddressDisplacement"
                           \/ i.src.kind = "AddressDisplacement" /\ i.dst.kind = "DataRegister"
    /\ i.kind = "Movem" => /\ i.list \in SUBSET (0 .. 15)
                           /\ "src" \in DOMAIN i => IsMemory(i.src) /\ i.src.kind # "AddressDecrement"
                           /\ "dst" \in DOMAIN i => IsMemory(i.dst) /\ i.dst.kind # "AddressIncrement"
    /\ i.kind \in Shifts /\ "src" \in DOMAIN i => i.src.kind = "DataRegister"

WellFormed(i) ==
    /\ i.kind \in Kinds
    /\ Roles \cap DOMAIN i \in OperandsUsed(i)
    /\ \A role \in Roles \cap DOMAIN i : i[role] \in Targets
    /\ i.kind \in UsesSize => i.size \in SizesOf(i.kind)
    /\ i.kind \in UsesData \/ (i.kind \in Shifts /\ "src" \notin DOMAIN i) => i.data \in Values(Long)
    /\ i.kind \in {"Bcc", "Dbcc", "Scc"} => i.cond \in Conditions
    /\ OperandsFit(i)

(* The bytes that execute.cpp reads and writes of an operand at a time:    *)
(* the size of the kind or of the instruction.                             *)
TransferSize(i) ==
    CASE i.kind \in {"Abcd", "Sbcd", "Nbcd", "Scc", "Tas"} \cup BitKinds \cup ToCcrKinds -> Byte
      [] i.kind \in {"Mulu", "Muls", "Divu", "Divs", "Chk", "MoveToCcr", "MoveToSr", "MoveFromSr"} -> Word
      [] i.kind \in {"Lea", "Pea", "Jmp", "Jsr"} -> Long
      [] OTHER -> i.size

(* The operands the decoder gives a kind, where execute.cpp would take     *)
(* others.                                                                 *)
Immediates == {"Addi", "Andi", "Cmpi", "Eori", "Ori", "Subi"} \cup ToCcrKinds \cup ToSrKinds

Given(i) ==
    /\ i.kind \in BitKinds \cup {"Nbcd", "Chk"} => i.size = TransferSize(i)
    /\ i.kind \in Immediates => i.src.kind = "Immediate"
    /\ i.kind \in {"Cmp", "Mulu", "Muls", "Divu", "Divs", "Chk", "Moveq", "Swap", "Ext"} =>
           i.dst.kind = "DataRegister"
    /\ i.kind \in ExtendKinds \cup {"Abcd", "Sbcd"} =>
           i.src.kind = i.dst.kind /\ i.src.kind \in {"DataRegister", "AddressDecrement"}
    /\ i.kind \in BitKinds => i.src.kind \in {"DataRegister", "Immediate"}
    /\ i.kind = "Cmpm" => i.src.kind = "AddressIncrement" /\ i.dst.kind = "AddressIncrement"
    /\ i.kind \in {"Lea", "Movea", "MoveFromUsp"} => i.dst.kind = "AddressRegister"
    /\ i.kind = "MoveToUsp" => i.src.kind = "AddressRegister"
    /\ i.kind \in QuickKinds \/ (i.kind \in Shifts /\ "src" \notin DOMAIN i) => i.data \in 0 .. 7
    /\ i.kind = "Trap" => i.data \in 32 .. 47
    /\ i.kind = "Trapv" => i.data = 7

(* Does it write address register n, as an operand or besides?             *)
Writes(i, n) ==
    \/ "dst" \in DOMAIN i /\ i.dst = AddrReg(n)
    \/ i.kind \in {"Exg", "Link", "Unlink"}
    \/ i.kind = "Movem" /\ "src" \in DOMAIN i /\ n + 8 \in i.list /\ i.src # PostInc(n, i.size)
    \/ n = 7 /\ i.kind \in {"Jsr", "Bsr", "Pea", "Rte", "Rtr", "Rts", "Trap", "Trapv", "Chk",
                            "Divu", "Divs", "MoveToUsp", "MoveToSr", "AndiToSr", "EoriToSr", "OriToSr"}
=============================================================================
