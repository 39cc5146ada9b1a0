---------------------------- MODULE MCInterrupts ----------------------------
(***************************************************************************)
(* Five programs on six-bit bytes: a loop that lives on its condition      *)
(* codes, a critical section inside a subroutine, user mode, a handler     *)
(* that lets itself be interrupted, and a TRAP.  Every instruction takes   *)
(* two addresses; the code is not in the memory that data accesses see.    *)
(***************************************************************************)
EXTENDS Interrupts, TLC

Open   == [c |-> 0, v |-> 0, z |-> 0, n |-> 0, x |-> 0, s |-> 1, mask |-> 0]
Closed == [Open EXCEPT !.mask = 7]
User   == [Open EXCEPT !.s = 0]

(* Constants of the programs: three status words, and the vector of TRAP 7. *)
Words == [w \in 8 .. 15 |-> CASE w = 8  -> SrWord(Open)
                              [] w = 9  -> SrWord(Closed)
                              [] w = 10 -> SrWord(User)
                              [] w = 15 -> 240
                              [] OTHER  -> 0]
MCRom == [b \in 16 .. 31 |-> IF b % 2 = 0 THEN Words[b \div 2] \div 64 ELSE Words[b \div 2] % 64]
MCRam == 40 .. 71

SetSr(address) == [kind |-> "MoveToSr", size |-> Word, src |-> Imm(address)]
ToOpen == SetSr(16)
ToClosed == SetSr(18)
ToUser == SetSr(20)
Set(n, v) == [kind |-> "Moveq", dst |-> DataReg(n), data |-> v]
Invert(t) == [kind |-> "Not", size |-> Byte, dst |-> t]
Count(n) == [kind |-> "Subq", size |-> Byte, dst |-> DataReg(n), data |-> 1]
Branch(cond, offset) == [kind |-> "Bcc", size |-> Byte, cond |-> cond, data |-> Low(offset, Byte)]
Call(offset) == [kind |-> "Bsr", size |-> Byte, data |-> offset]
Saved(list) == [kind |-> "Movem", size |-> Long, dst |-> PreDec(7, Long), list |-> {15 - r : r \in list}]
Loaded(list) == [kind |-> "Movem", size |-> Long, src |-> PostInc(7, Long), list |-> list]
Lea(t, n) == [kind |-> "Lea", size |-> Long, src |-> t, dst |-> AddrReg(n)]
Rte == [kind |-> "Rte"]

At(start, insts) ==
    [pc \in {start + 2 * (k - 1) : k \in DOMAIN insts} |->
        [inst |-> insts[(pc - start) \div 2 + 1], next |-> pc + 2]]

(* The handler counts frames at 40.                                        *)
Handler == At(200, <<Saved({0, 8}), Set(0, 7), Lea(AbsShort(40), 0), Invert(AbsShort(40)), Loaded({0, 8}), Rte>>)
Nesting == At(200, <<Saved({0}), ToOpen, Set(0, 7), Loaded({0}), Rte>>)

Looping == At(100, <<ToOpen, Set(0, 2), Count(0), Branch("NotEqual", -4), Invert(AbsShort(41)), Branch("True", -10)>>)
Critical == At(100, <<ToOpen, Set(1, 5), Saved({1}), Call(6), Loaded({2}), Invert(DataReg(1)), Branch("True", -10),
                      ToClosed, Invert(AbsShort(41)), ToOpen, [kind |-> "Rts"]>>)
InUserMode == At(100, <<Lea(AbsShort(60), 0), [kind |-> "MoveToUsp", size |-> Long, src |-> AddrReg(0)],
                        ToUser, Invert(DataReg(1)), Branch("True", -4)>>)
(* A stack for two frames and no more.                                     *)
SmallStack == At(100, <<Lea(AbsShort(62), 7), ToOpen, Branch("True", -2)>>)
Trapping == At(100, <<ToOpen, [kind |-> "Trap", data |-> 7], Invert(DataReg(1)), Branch("True", -6)>>)
                @@ At(240, <<Invert(AbsShort(41)), Rte>>)

MCPrograms ==
    [looping    |-> [code |-> Looping @@ Handler, handlers |-> {40}],
     critical   |-> [code |-> Critical @@ Handler, handlers |-> {40}],
     inUserMode |-> [code |-> InUserMode @@ Handler, handlers |-> {40}],
     trapping   |-> [code |-> Trapping @@ Handler, handlers |-> {40}],
     nesting    |-> [code |-> SmallStack @@ Nesting, handlers |-> {}]]
=============================================================================
