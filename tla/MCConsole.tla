----------------------------- MODULE MCConsole ------------------------------
(***************************************************************************)
(* Three sessions: a program that writes memories at the edges of the      *)
(* ranges, one that writes every port, and one that is saved and loaded.   *)
(* The file of the cartridge is shorter than the range in its header, and  *)
(* the preset maps memory at 200000 (presets.cpp:27).                      *)
(***************************************************************************)
EXTENDS Console

W(addr, data) == [addr |-> addr, data |-> data]

MCRom == [a \in 0 .. 5 |-> 7 * a]
MCExtraMemory == <<<<\h200000, \h3FFFFF>>>>

Mirror == 16777216    \* a high byte that the bus masks away

MemoryWrites ==
    {W(\hFF0000, <<1, 2, 3, 4>>), W(\hFF0001, <<5>>), W(Mirror + \hFF0002, <<6, 7>>), W(\hFFFFFE, <<1, 2>>),
     W(\hFFFFFE, <<1, 2, 3, 4>>), W(\hA00000, <<1, 2>>), W(\hA01FFE, <<1, 2, 3, 4>>), W(\hA04000, <<64>>),
     W(\h200000, <<1, 2>>), W(\h3FFFFF, <<1>>), W(2, <<1, 2>>)}

PortWrites ==
    {W(\hA10003, <<64>>), W(\hA10003, <<0>>), W(\hA10002, <<0, 64>>), W(\hA10004, <<0, 64, 0, 1>>),
     W(\hA10008, <<0, 64>>), W(\hA11100, <<1, 0>>), W(\hA11100, <<0>>), W(\hA11200, <<1, 0>>), W(\hA11101, <<1>>),
     W(\h400000, <<1>>), W(\hA14000, <<83, 69, 71, 65>>), W(\hA14000, <<83, 69>>), W(\hA130F1, <<1>>),
     W(\hC00000, <<0, 1>>), W(\hC00011, <<159>>)}

SaveWrites == {W(\hFF0000, <<1>>), W(\hA00000, <<1>>)}

Pads == {{}, {"Up", "A", "C"}, {"Left", "B", "Start"}}

Session(ws, cs, ps, n) ==
    [writes |-> ws, computes |-> cs, pads |-> ps, clicks |-> n]

MCSessions ==
    {Session(MemoryWrites, FALSE, {{}}, 2), Session(PortWrites, FALSE, Pads, 1), Session(SaveWrites, TRUE, {{}}, 5)}

MCLooks ==
    [addr : {0, 2, 4, \h200000, \h3FFFFE, \hA00000, \hA01FFE, \hFF0000, \hFF0002, Mirror + \hFF0001, \hFFFFFE},
     size : {1, 2, 4}]
=============================================================================
