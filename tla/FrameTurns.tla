----------------------------- MODULE FrameTurns -----------------------------
(***************************************************************************)
(* What the frame handshake of sega::Gui promises, without its mutexes,    *)
(* condition variables and program counters: the emulation thread and the  *)
(* main thread take turns with the machine (CPU, bus, VDP).                *)
(*                                                                         *)
(* gui.h:108 states the promise: "emulation thread signals after each      *)
(* VBlank, waits for render to complete".  While a frame is drawn nobody   *)
(* executes an instruction, every finished frame is drawn before the next  *)
(* one begins, and only closing the window ends the alternation.           *)
(***************************************************************************)

VARIABLES
  turn,       \* whose turn it is: "emulating", "ready" (frame finished) or "drawing"
  executing,  \* TRUE while the emulation thread is inside an instruction
  open        \* FALSE from the moment the window is being closed

vars == <<turn, executing, open>>

TypeOK ==
  /\ turn \in {"emulating", "ready", "drawing"}
  /\ executing \in BOOLEAN
  /\ open \in BOOLEAN

Init ==
  /\ turn = "emulating"
  /\ executing = FALSE
  /\ open = TRUE

BeginInstruction ==
  /\ turn = "emulating"
  /\ executing' = TRUE
  /\ UNCHANGED <<turn, open>>

EndInstruction ==
  /\ executing
  /\ executing' = FALSE
  /\ UNCHANGED <<turn, open>>

ReachVblank ==
  /\ turn = "emulating"
  /\ ~executing
  /\ turn' = "ready"
  /\ UNCHANGED <<executing, open>>

TakeFrame ==
  /\ open
  /\ turn = "ready"
  /\ turn' = "drawing"
  /\ UNCHANGED <<executing, open>>

FinishFrame ==
  /\ turn = "drawing"
  /\ turn' = "emulating"
  /\ UNCHANGED <<executing, open>>

\* The main thread closes between two frames of its own.
Close ==
  /\ open
  /\ turn # "drawing"
  /\ open' = FALSE
  /\ UNCHANGED <<turn, executing>>

Next ==
  \/ BeginInstruction
  \/ EndInstruction
  \/ ReachVblank
  \/ TakeFrame
  \/ FinishFrame
  \/ Close

Spec ==
  /\ Init
  /\ [][Next]_vars
  /\ WF_vars(TakeFrame)
  /\ WF_vars(FinishFrame)

\* Nobody executes an instruction while a finished frame waits or is drawn.
TurnsExclude == executing => turn = "emulating"

=============================================================================
