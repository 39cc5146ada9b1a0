---------------------------- MODULE MCM68kDecode ----------------------------
(* Every opcode of 16 bits, with none to five readable words.              *)
EXTENDS M68kDecode

MCReadable == 0 .. 5
=============================================================================
