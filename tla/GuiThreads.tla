----------------------------- MODULE GuiThreads -----------------------------
(***************************************************************************)
(* The three threads of sega::Gui: the main thread (loop, render and the   *)
(* buttons of the windows), the emulation thread (emulation_thread_body)   *)
(* and the audio thread (audio_thread_body), with the two pieces of state  *)
(* they share: the VBlank handshake (vblank_mutex_, vblank_cv_, render_cv_)*)
(* and the run condition (condition_mutex_, condition_).                   *)
(*                                                                         *)
(* Granularity.  A critical section of a mutex is one action, since every  *)
(* access to the data it protects is inside one.  An access to the machine *)
(* (registers, RAM, VDP), which no mutex protects, is an interval: a       *)
(* program counter that is entered by one action and left by another.      *)
(***************************************************************************)
EXTENDS Integers

CONSTANTS
  PC,         \* the values of registers_.pc that are told apart
  VblankPc,   \* the VBLANK handler's entry, from the ROM's vector table
  ResetPc,    \* the reset entry, from the ROM's vector table
  MaxClicks   \* bound: how many buttons the user presses

ASSUME PcAssumption == VblankPc \in PC /\ ResetPc \in PC
ASSUME ClicksAssumption == MaxClicks \in Nat

VARIABLES
  \* the VBlank handshake
  emu_running,          \* emu_running_
  vblank_ready,         \* vblank_ready_
  render_done,          \* render_done_
  \* the run condition
  condition,            \* condition_
  condition_generation, \* condition_generation_
  reset_time_pending,   \* reset_time_pending_
  \* the machine
  pc,                   \* registers_.pc
  prev_fire,            \* InterruptHandler::prev_fire_, on the clock `clicks`
  \* the emulation thread: where it is, and its locals `cond` and `gen`
  epc, cond, gen,
  \* the main thread: where it is, and its locals
  mpc, got_frame, paused, request, saved_pc,
  \* the audio thread: where it is
  apc,
  \* the user: how many buttons were pressed so far, which is also the clock
  clicks

handshake == <<emu_running, vblank_ready, render_done>>
run       == <<condition, condition_generation, reset_time_pending>>
machine   == <<pc, prev_fire>>
emu       == <<epc, cond, gen>>
mainLocal == <<got_frame, paused, request, saved_pc>>
vars      == <<handshake, run, machine, emu, mpc, mainLocal, apc, clicks>>

-----------------------------------------------------------------------------
(* Run conditions.  A condition is the std::function the emulation loop    *)
(* calls before each instruction: `cnt` is the captured counter, `target`  *)
(* the captured address, `since` the click that created it.                *)

Kinds == {"none", "forever", "step", "until", "vblank"}

Conditions == [kind : Kinds, cnt : 0..2, target : PC, since : Nat]

Condition(kind, cnt, target) ==
  [kind |-> kind, cnt |-> cnt, target |-> target, since |-> clicks + 1]

NoCondition == [kind |-> "none", cnt |-> 0, target |-> ResetPc, since |-> 0]

\* The state a call leaves in the closure.
Called(c) ==
  CASE c.kind = "step"                       -> [c EXCEPT !.cnt = @ + 1]
    [] c.kind = "vblank" /\ pc = VblankPc    -> [c EXCEPT !.cnt = @ - 1]
    [] OTHER                                 -> c

\* Mutant: the VBLANK counter is compared with < instead of <=.
ReturnsLate(c) ==
  \/ c.kind = "step"   /\ c.cnt > 0
  \/ c.kind = "until"  /\ pc = c.target
  \/ c.kind = "vblank" /\ c.cnt < 0

\* What a call returns: TRUE ends the run.
Returns(c) ==
  \/ c.kind = "step"   /\ c.cnt > 0
  \/ c.kind = "until"  /\ pc = c.target
  \/ c.kind = "vblank" /\ Called(c).cnt <= 0

IsRunning == condition.kind # "none"

-----------------------------------------------------------------------------
EmuPcs ==
  {"top", "snapshot", "reset_time", "check", "execute", "fail", "finish",
   "signal", "notify", "wait", "blocked", "exited"}

MainPcs ==
  {"poll", "await", "blocked", "update", "windows", "install_main", "reload",
   "save", "load", "dump", "inspect", "decode", "sample", "commands",
   "decode_next", "install_exec", "present", "stop", "unblock", "join_emu",
   "join_audio", "ended"}

Flags ==
  /\ emu_running \in BOOLEAN
  /\ vblank_ready \in BOOLEAN
  /\ render_done \in BOOLEAN
  /\ reset_time_pending \in BOOLEAN
  /\ got_frame \in BOOLEAN
  /\ paused \in BOOLEAN

TypeOK ==
  /\ Flags
  /\ condition \in Conditions /\ condition_generation \in Nat
  /\ pc \in PC /\ prev_fire \in Nat
  /\ epc \in EmuPcs /\ cond \in Conditions /\ gen \in Nat
  /\ mpc \in MainPcs /\ request \in Conditions /\ saved_pc \in PC
  /\ apc \in {"top", "work", "exited"}
  /\ clicks \in 0..MaxClicks

Init ==
  /\ emu_running = TRUE /\ vblank_ready = FALSE /\ render_done = FALSE
  /\ condition = NoCondition
  /\ condition_generation = 0
  /\ reset_time_pending = FALSE
  /\ pc = ResetPc
  /\ prev_fire = 0
  /\ epc = "top" /\ cond = NoCondition /\ gen = 0
  /\ mpc = "poll" /\ got_frame = FALSE /\ paused = TRUE
  /\ request = NoCondition /\ saved_pc = ResetPc
  /\ apc = "top"
  /\ clicks = 0

EmuGoes(from, to)  == epc = from /\ epc' = to
MainGoes(from, to) == mpc = from /\ mpc' = to

-----------------------------------------------------------------------------
(* The emulation thread.                                                   *)

EmuLoop ==
  /\ EmuGoes("top", IF emu_running THEN "snapshot" ELSE "exited")
  /\ UNCHANGED <<handshake, run, machine, cond, gen, mpc, mainLocal, apc, clicks>>

\* Copies the condition, with the counter captured in it, and its generation.
EmuSnapshot ==
  /\ EmuGoes("snapshot", IF IsRunning THEN "reset_time" ELSE "top")
  /\ cond' = condition
  /\ gen' = condition_generation
  /\ UNCHANGED <<handshake, run, machine, mpc, mainLocal, apc, clicks>>

EmuResetTime ==
  /\ EmuGoes("reset_time", "check")
  /\ reset_time_pending' = FALSE
  /\ prev_fire' = IF reset_time_pending THEN clicks ELSE prev_fire
  /\ UNCHANGED <<handshake, condition, condition_generation, pc, cond, gen, mpc,
                 mainLocal, apc, clicks>>

EmuCheck ==
  /\ EmuGoes("check", IF Returns(cond) THEN "finish" ELSE "execute")
  /\ cond' = Called(cond)
  /\ UNCHANGED <<handshake, run, machine, gen, mpc, mainLocal, apc, clicks>>

\* An instruction ran: the program decides where it goes.
EmuExecuted ==
  /\ EmuGoes("execute", "check")
  /\ pc' \in PC
  /\ UNCHANGED <<handshake, run, prev_fire, cond, gen, mpc, mainLocal, apc, clicks>>

\* InterruptHandler::check fired: the handler is entered instead.
EmuInterrupted ==
  /\ EmuGoes("execute", "signal")
  /\ pc' = VblankPc
  /\ prev_fire' = clicks
  /\ UNCHANGED <<handshake, run, cond, gen, mpc, mainLocal, apc, clicks>>

\* The instruction failed, part of its effect on the registers done, or entering
\* the interrupt handler failed, which happens after the clock was restarted.
EmuFailed ==
  /\ EmuGoes("execute", "fail")
  /\ pc' \in PC
  /\ prev_fire' \in {prev_fire, clicks}
  /\ UNCHANGED <<handshake, run, cond, gen, mpc, mainLocal, apc, clicks>>

\* Mutant: the generation is not compared.
ClearAny ==
  /\ condition' = NoCondition
  /\ condition_generation' = condition_generation + 1

\* Clear the condition unless the main thread replaced the one snapshotted.
ClearOwn ==
  IF condition_generation = gen
    THEN /\ condition' = NoCondition
         /\ condition_generation' = condition_generation + 1
    ELSE UNCHANGED <<condition, condition_generation>>

EmuFail ==
  /\ EmuGoes("fail", "finish")
  /\ ClearOwn
  /\ UNCHANGED <<handshake, reset_time_pending, machine, cond, gen, mpc, mainLocal,
                 apc, clicks>>

EmuFinish ==
  /\ EmuGoes("finish", "top")
  /\ ClearOwn
  /\ UNCHANGED <<handshake, reset_time_pending, machine, cond, gen, mpc, mainLocal,
                 apc, clicks>>

\* Mutant: the render_done_ of the previous frame is left set.
EmuSignalKeepingDone ==
  /\ EmuGoes("signal", "notify")
  /\ vblank_ready' = TRUE
  /\ UNCHANGED <<emu_running, render_done, run, machine, cond, gen, mpc, mainLocal,
                 apc, clicks>>

EmuSignal ==
  /\ EmuGoes("signal", "notify")
  /\ vblank_ready' = TRUE
  /\ render_done' = FALSE
  /\ UNCHANGED <<emu_running, run, machine, cond, gen, mpc, mainLocal, apc, clicks>>

EmuNotify ==
  /\ EmuGoes("notify", "wait")
  /\ mpc' = IF mpc = "blocked" THEN "await" ELSE mpc
  /\ UNCHANGED <<handshake, run, machine, cond, gen, mainLocal, apc, clicks>>

\* render_cv_.wait: the predicate is evaluated under the mutex, and blocking
\* releases the mutex in the same step.
EmuWait ==
  /\ EmuGoes("wait", IF render_done \/ ~emu_running THEN "top" ELSE "blocked")
  /\ UNCHANGED <<handshake, run, machine, cond, gen, mpc, mainLocal, apc, clicks>>

EmuThread ==
  \/ EmuLoop
  \/ EmuSnapshot
  \/ EmuResetTime
  \/ EmuCheck
  \/ EmuExecuted
  \/ EmuInterrupted
  \/ EmuFailed
  \/ EmuFail
  \/ EmuFinish
  \/ EmuSignal
  \/ EmuNotify
  \/ EmuWait

-----------------------------------------------------------------------------
(* The main thread: one round of Gui::loop.                                *)

MainPoll ==
  /\ MainGoes("poll", "await")
  /\ got_frame' = FALSE
  /\ UNCHANGED <<handshake, run, machine, emu, paused, request, saved_pc, apc, clicks>>

\* Consume the finished frame, if there is one.
TakeFrame ==
  /\ vblank_ready
  /\ vblank_ready' = FALSE
  /\ got_frame' = TRUE
  /\ mpc' = "update"
  /\ UNCHANGED <<emu_running, render_done, run, machine, emu, paused, request,
                 saved_pc, apc, clicks>>

\* vblank_cv_.wait_for evaluates its predicate ...
MainAwait ==
  \/ mpc = "await" /\ TakeFrame
  \/ /\ MainGoes("await", "blocked")
     /\ ~vblank_ready
     /\ UNCHANGED <<handshake, run, machine, emu, mainLocal, apc, clicks>>

\* Mutant: the flag is cleared after the wait, whether or not it was seen.
MainTimeoutDropping ==
  \/ mpc = "blocked" /\ TakeFrame
  \/ /\ MainGoes("blocked", "windows")
     /\ vblank_ready' = FALSE
     /\ UNCHANGED <<emu_running, render_done, run, machine, emu, mainLocal, apc, clicks>>

\* ... and once more when its 32 ms are over.
MainTimeout ==
  \/ mpc = "blocked" /\ TakeFrame
  \/ /\ MainGoes("blocked", "windows")
     /\ ~vblank_ready
     /\ UNCHANGED <<handshake, run, machine, emu, mainLocal, apc, clicks>>

\* The end of video_.update(), which reads the whole VDP.
MainUpdate ==
  /\ MainGoes("update", "windows")
  /\ UNCHANGED <<handshake, run, machine, emu, mainLocal, apc, clicks>>

(* Buttons.  ImGui reports at most one click per frame.                    *)

Click == clicks < MaxClicks /\ clicks' = clicks + 1

\* clear_condition()
ClearCondition ==
  /\ condition' = NoCondition
  /\ condition_generation' = condition_generation + 1

\* A button that ends in set_condition(c, /*reset_time=*/true).
Prepare(from, to, c) ==
  /\ MainGoes(from, to)
  /\ Click
  /\ request' = c
  /\ UNCHANGED <<handshake, run, machine, emu, got_frame, paused, saved_pc, apc>>

\* A button that begins with clear_condition().
PauseAnd(from, to) ==
  /\ MainGoes(from, to)
  /\ Click
  /\ ClearCondition
  /\ UNCHANGED <<handshake, reset_time_pending, machine, emu, mainLocal, apc>>

\* Mutant: the condition is installed as if reset_time were false.
InstallWithoutReset(from, to) ==
  /\ MainGoes(from, to)
  /\ condition' = request
  /\ condition_generation' = condition_generation + 1
  /\ UNCHANGED <<handshake, reset_time_pending, machine, emu, mainLocal, apc, clicks>>

\* set_condition: one critical section, the flag is stored inside it.
Install(from, to) ==
  /\ MainGoes(from, to)
  /\ condition' = request
  /\ condition_generation' = condition_generation + 1
  /\ reset_time_pending' = TRUE
  /\ UNCHANGED <<handshake, machine, emu, mainLocal, apc, clicks>>

\* Save Dump and Export Resources read the VDP without pausing.
ClickDump ==
  /\ MainGoes("windows", "dump")
  /\ Click
  /\ UNCHANGED <<handshake, run, machine, emu, mainLocal, apc>>

MainWindow ==
  \/ Prepare("windows", "install_main", Condition("forever", 0, ResetPc))
  \/ PauseAnd("windows", "inspect")
  \/ PauseAnd("windows", "reload")
  \/ PauseAnd("windows", "save")
  \/ PauseAnd("windows", "load")
  \/ ClickDump
  \/ Install("install_main", "inspect")
  \/ /\ mpc \in {"windows", "save", "dump"}   \* nothing clicked, or file written
     /\ mpc' = "inspect"
     /\ UNCHANGED <<handshake, run, machine, emu, mainLocal, apc, clicks>>

\* Executor::reset and Executor::load_state_from_file restart the clock too.
MainReload ==
  /\ MainGoes("reload", "inspect")
  /\ pc' = ResetPc
  /\ prev_fire' = clicks
  /\ UNCHANGED <<handshake, run, emu, mainLocal, apc, clicks>>

\* A file that is missing or malformed leaves the registers as they are.
MainLoad ==
  /\ MainGoes("load", "inspect")
  /\ pc' \in PC
  /\ prev_fire' = clicks
  /\ UNCHANGED <<handshake, run, emu, mainLocal, apc, clicks>>

\* current_instruction_info: decoding moves the PC, which is then put back.
DecodeBegin(from, to) ==
  /\ MainGoes(from, to)
  /\ saved_pc' = pc
  /\ pc' \in PC
  /\ UNCHANGED <<handshake, run, prev_fire, emu, got_frame, paused, request, apc>>

MainInspect ==
  \/ /\ mpc = "inspect"
     /\ mpc' \in (IF IsRunning THEN {"sample"} ELSE {}) \cup {"present"} \* window hidden
     /\ UNCHANGED <<handshake, run, machine, emu, mainLocal, apc, clicks>>
  \/ /\ ~IsRunning
     /\ DecodeBegin("inspect", "decode")
     /\ UNCHANGED clicks
  \/ /\ MainGoes("decode", "sample")
     /\ pc' = saved_pc
     /\ UNCHANGED <<handshake, run, prev_fire, emu, mainLocal, apc, clicks>>

MainSample ==
  /\ MainGoes("sample", "commands")
  /\ paused' = ~IsRunning
  /\ UNCHANGED <<handshake, run, machine, emu, got_frame, request, saved_pc, apc, clicks>>

StartCount == IF pc = VblankPc THEN 2 ELSE 1

MainCommands ==
  \/ Prepare("commands", "install_exec", Condition("step", 0, ResetPc))
  \/ Prepare("commands", "install_exec", Condition("forever", 0, ResetPc))
  \/ Prepare("commands", "install_exec", Condition("vblank", StartCount, ResetPc))
  \/ \E target \in PC :
       Prepare("commands", "install_exec", Condition("until", 0, target))
  \/ paused /\ Click /\ DecodeBegin("commands", "decode_next")
  \/ PauseAnd("commands", "present")
  \/ Install("install_exec", "present")
  \/ /\ MainGoes("commands", "present")
     /\ UNCHANGED <<handshake, run, machine, emu, mainLocal, apc, clicks>>

\* "Run Until Next Instruction": the next address is any, the click was counted.
MainDecodeNext ==
  /\ MainGoes("decode_next", "install_exec")
  /\ pc' = saved_pc
  /\ \E target \in PC :
       request' = [Condition("until", 0, target) EXCEPT !.since = clicks]
  /\ UNCHANGED <<handshake, run, prev_fire, emu, got_frame, paused, saved_pc, apc, clicks>>

NotifyRender == epc' = IF epc = "blocked" THEN "wait" ELSE epc

\* Mutant: the frame is presented without a notification.
MainPresentSilently ==
  /\ MainGoes("present", "poll")
  /\ render_done' = IF got_frame THEN TRUE ELSE render_done
  /\ UNCHANGED <<emu_running, vblank_ready, run, machine, emu, mainLocal, apc, clicks>>

\* Mutant: the machine is handed back in every round, with a frame or without.
MainPresentAlways ==
  /\ MainGoes("present", "poll")
  /\ render_done' = TRUE
  /\ NotifyRender
  /\ UNCHANGED <<emu_running, vblank_ready, run, machine, cond, gen, mainLocal, apc, clicks>>

\* The end of the round: hand the machine back if this round drew a frame.
MainPresent ==
  /\ MainGoes("present", "poll")
  /\ IF got_frame
       THEN render_done' = TRUE /\ NotifyRender
       ELSE UNCHANGED <<render_done, epc>>
  /\ UNCHANGED <<emu_running, vblank_ready, run, machine, cond, gen, mainLocal, apc, clicks>>

(* The window is closed: stop the threads and join them.                   *)

UserCloses ==
  /\ MainGoes("poll", "stop")
  /\ UNCHANGED <<handshake, run, machine, emu, mainLocal, apc, clicks>>

MainStop ==
  /\ MainGoes("stop", "unblock")
  /\ emu_running' = FALSE
  /\ UNCHANGED <<vblank_ready, render_done, run, machine, emu, mainLocal, apc, clicks>>

\* Mutant: the emulation thread is not notified of the shutdown.
MainUnblockSilently ==
  /\ MainGoes("unblock", "join_emu")
  /\ render_done' = TRUE
  /\ UNCHANGED <<emu_running, vblank_ready, run, machine, emu, mainLocal, apc, clicks>>

MainUnblock ==
  /\ MainGoes("unblock", "join_emu")
  /\ render_done' = TRUE
  /\ NotifyRender
  /\ UNCHANGED <<emu_running, vblank_ready, run, machine, cond, gen, mainLocal, apc, clicks>>

MainJoin ==
  /\ \/ epc = "exited" /\ MainGoes("join_emu", "join_audio")
     \/ apc = "exited" /\ MainGoes("join_audio", "ended")
  /\ UNCHANGED <<handshake, run, machine, emu, mainLocal, apc, clicks>>

MainThread ==
  \/ MainPoll
  \/ MainAwait
  \/ MainTimeout
  \/ MainUpdate
  \/ MainWindow
  \/ MainReload
  \/ MainLoad
  \/ MainInspect
  \/ MainSample
  \/ MainCommands
  \/ MainDecodeNext
  \/ MainPresent
  \/ MainStop
  \/ MainUnblock
  \/ MainJoin

-----------------------------------------------------------------------------
(* The audio thread: a pass sleeps or produces one chunk of samples.       *)

AudioThread ==
  /\ \/ apc = "top"  /\ apc' = IF emu_running THEN "work" ELSE "exited"
     \/ apc = "work" /\ apc' = "top"
  /\ UNCHANGED <<handshake, run, machine, emu, mpc, mainLocal, clicks>>

\* A condition variable may wake without being notified.
SpuriousWakeup ==
  \/ /\ EmuGoes("blocked", "wait")
     /\ UNCHANGED <<handshake, run, machine, cond, gen, mpc, mainLocal, apc, clicks>>
  \/ /\ MainGoes("blocked", "await")
     /\ UNCHANGED <<handshake, run, machine, emu, mainLocal, apc, clicks>>

Terminated ==
  /\ mpc = "ended"
  /\ UNCHANGED vars

Next ==
  \/ EmuThread
  \/ MainThread
  \/ AudioThread
  \/ UserCloses
  \/ SpuriousWakeup
  \/ Terminated

Spec == Init /\ [][Next]_vars

\* The operating system runs every thread that can run.  Nothing is assumed of
\* the user, of spurious wakeups, or of what the emulated program does.
Fairness ==
  /\ WF_vars(EmuThread)
  /\ WF_vars(MainThread)
  /\ WF_vars(AudioThread)

FairSpec == Spec /\ Fairness

-----------------------------------------------------------------------------
(* Properties.                                                             *)

\* The emulation thread has signalled a frame and not been released since.
EmuParked == epc \in {"notify", "wait", "blocked"}

\* The part of a round in which the main thread may hold a frame.
RoundPcs == MainPcs \ {"poll", "await", "blocked", "stop", "unblock", "join_emu",
                       "join_audio", "ended"}

\* The main thread holds a frame.
Drawing == got_frame /\ mpc \in RoundPcs

\* gui.cpp:232 "Wait for main thread to finish reading VDP state for this
\* frame": from taking a frame to presenting it, whatever the user clicks in
\* between, the emulation thread executes nothing.
FrameOwnership == Drawing => EmuParked

\* No wakeup is lost: a blocked emulation thread is always owed one, by the
\* shutdown, by the main thread that draws its frame, or by the frame it
\* signalled, which a main thread that is not joining will take.
BlockedIsOwed ==
  epc = "blocked" =>
    /\ ~render_done
    /\ \/ mpc \in {"stop", "unblock"}
       \/ Drawing
       \/ vblank_ready /\ mpc \notin {"join_emu", "join_audio", "ended"}

\* gui.h:123 "Set by main thread when interrupt time should be reset before
\* next run": no instruction of a run measures its first frame from before the
\* click that started the run.
FreshClock == epc = "execute" => prev_fire >= cond.since

\* gui.cpp:214 "clear it - but only if the main thread hasn't replaced it with
\* a new condition since we snapshotted": the emulation thread never cancels a
\* run it did not execute, not even one of the same kind.
OnlyOwnRunCleared ==
  [][(epc \in {"fail", "finish"} /\ epc' # epc /\ condition' # condition)
       => condition.since = cond.since]_vars

\* The emulation thread never waits in vain for a frame to be drawn.
EmuReleased == epc = "blocked" ~> epc = "top"

Ended == mpc = "ended"

\* Closing the window ends all threads and the loop, provided the emulation
\* thread keeps coming out of its instruction loop.
ShutdownIfInterruptible ==
  []<>(epc \notin {"check", "execute"}) => (mpc = "stop" ~> Ended)

\* The abstract handshake this module implements: in particular every frame that
\* the emulation thread signals is taken and finished, unless the user closes.
Turns == INSTANCE FrameTurns WITH
  turn      <- IF Drawing THEN "drawing"
               ELSE IF vblank_ready THEN "ready"
               ELSE "emulating",
  executing <- epc = "execute",
  open      <- mpc \notin {"stop", "unblock", "join_emu", "join_audio", "ended"}

ImplementsTurns == Turns!Spec

-----------------------------------------------------------------------------
(* What the sources say and the code does not do.                          *)

\* gui.cpp:597 "(running - pause to inspect)": once the window offers the
\* current instruction, nothing executes while it is decoded.
InspectOnlyWhenStopped == mpc = "decode" => epc # "execute"

=============================================================================
