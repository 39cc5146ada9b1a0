----------------------------- MODULE MCVdpPorts -----------------------------
(***************************************************************************)
(* A small VDP: eight bytes of VRAM, so that the address has four quarters *)
(* of two bytes and wraps often, and two smaller RAMs.                     *)
(***************************************************************************)
EXTENDS VdpPorts

\* DMA allowed and not; no, odd, block and other increments; zero, one and two
\* words, with a low byte that replaces another; every type of DMA.
Writes ==
  {<<"ModeSet2", 0>>, <<"ModeSet2", 48>>,
   <<"AutoIncrement", 1>>, <<"AutoIncrement", 2>>,
   <<"DmaLengthLow", 1>>, <<"DmaLengthLow", 2>>,
   <<"DmaSourceHigh", 65>>, <<"DmaSourceHigh", 128>>, <<"DmaSourceHigh", 192>>}

=============================================================================
