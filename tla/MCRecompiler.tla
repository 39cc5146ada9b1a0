---------------------------- MODULE MCRecompiler ----------------------------
(***************************************************************************)
(* All ROMs of four instructions above the vector table, made from fifteen *)
(* instructions.  Two entries are given, one of them also the target of a  *)
(* switch table; the others are found.                                     *)
(***************************************************************************)
EXTENDS Recompiler

I(kind, target) == [kind |-> kind, target |-> target]

\* The vector table itself does not decode.
Roms ==
  {r \in [Addr -> {I("plain", 0), I("bcc", 2), I("bcc", 4), I("bra", 0), I("bra", 1),
                   I("bra", Size), I("call", 3), I("call", 2), I("call", 0), I("calli", 0), I("jmp", 4),
                   I("jmp", 0), I("jmpi", 0), I("rts", 0), I("bad", 0)}] :
     r[0] = I("bad", 0)}

ResetAndVblank == <<1, Size>>
Targets == <<4, 4>>
Known == <<1>>

=============================================================================
