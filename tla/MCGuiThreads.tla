---------------------------- MODULE MCGuiThreads ----------------------------
(***************************************************************************)
(* Small instances of GuiThreads: two addresses (the reset entry and the   *)
(* VBLANK handler) and at most MaxClicks buttons pressed.                  *)
(***************************************************************************)
EXTENDS GuiThreads

=============================================================================
