----------------------------- MODULE Interrupts -----------------------------
(***************************************************************************)
(* The executor's loop body and the vertical interrupt                     *)
(* (src/src/sega/executor/executor.cpp, interrupt_handler.cpp): each call  *)
(* either takes the interrupt that is due or executes one instruction of   *)
(* the program, on the machine of module M68k.                             *)
(*                                                                         *)
(* A program is its decoded code, a function from addresses to the         *)
(* instruction there and the address after it.  The interrupt clock counts *)
(* the time since prev_fire_ in ticks, up to the longest period.           *)
(*                                                                         *)
(* `result' is what the last call returned, and `calls' the parity of the  *)
(* calls.  Three variables are not in the code.  `alone' is the same       *)
(* machine running the same program on a console that has no interrupts:   *)
(* it steps with the program and stands still in a handler.  `frames' are  *)
(* the machines that were interrupted and not yet resumed.  `clean' says   *)
(* that since the reset no interrupt was taken in user mode, whose frame   *)
(* goes to a stack that RTE does not pop, and none met an error; after     *)
(* that the other two say nothing.                                         *)
(***************************************************************************)
EXTENDS M68kTypes

CONSTANTS
    Programs,     \* for each name, the code and the addresses only its handlers use
    Rom,          \* the bytes of the cartridge, from their addresses
    Ram,          \* the addresses that a reset clears
    ResetSp, ResetPc, VblankPc,   \* the vector table
    Periods,      \* the time between two frames at each game speed
    Clicks        \* bound: how often the user resets or runs the program

ASSUME TimeAssumption ==
    /\ Periods \subseteq Nat \ {0} /\ IsFiniteSet(Periods) /\ Periods # {}
    /\ Clicks \in Nat

ASSUME ConsoleAssumption ==
    /\ Rom \in [DOMAIN Rom -> Values(Byte)]
    /\ {ResetSp, ResetPc, VblankPc} \subseteq Values(Long)
    /\ \A name \in DOMAIN Programs : \A pc \in DOMAIN Programs[name].code :
           LET at == Programs[name].code[pc] IN at.next \in Values(Long) /\ WellFormed(at.inst)

VARIABLES
    program, machine,
    elapsed, period,     \* now - prev_fire_, NTSC_WAIT_TIME / game_speed_
    enabled,             \* vblank_interrupt_enabled of the VDP
    calls, result,
    clicks,
    alone, frames, clean

returned == <<calls, result>>
ghosts == <<alone, frames, clean>>
vars == <<program, machine, elapsed, period, enabled, calls, result, clicks, alone, frames, clean>>

VBLANK_INTERRUPT_LEVEL == 6

code == Programs[program].code

Bytes == DOMAIN Rom \cup Ram

(* reset_registers on cleared memory.                                      *)
ResetMachine ==
    [d |-> [n \in 0 .. 7 |-> 0], a |-> [n \in 0 .. 6 |-> 0],
     usp |-> 0, ssp |-> ResetSp, pc |-> ResetPc,
     sr |-> [c |-> 0, v |-> 0, z |-> 0, n |-> 0, x |-> 0, s |-> 1, mask |-> 7],
     mem |-> [b \in Bytes |-> IF b \in Ram THEN 0 ELSE Rom[b]],
     status |-> "ok", decremented |-> {}, incremented |-> {}, garbage |-> 0]

(* The clock starts at the epoch: the first check finds the frame due.     *)
Init ==
    /\ program \in DOMAIN Programs
    /\ machine = ResetMachine
    /\ elapsed = Max(Periods) /\ period \in Periods
    /\ enabled = FALSE
    /\ calls = 0 /\ result = "Executed"
    /\ clicks = 0
    /\ alone = machine /\ frames = <<>> /\ clean = TRUE

-----------------------------------------------------------------------------
(* Mutant: the frame holds the status register of the handler.             *)
CallVblankInSupervisor(m) ==
    LET super == [m EXCEPT !.sr.s = 1, !.sr.mask = VBLANK_INTERRUPT_LEVEL]
        a == SetStackPtr(super, stack_ptr(super) - Long)
        p == PutOrFail(a, stack_ptr(a), Long, m.pc)
        b == SetStackPtr(p, stack_ptr(p) - Word)
        q == PutOrFail(b, stack_ptr(b), Word, SrWord(super.sr))
    IN  IF ~Ok(p) THEN p ELSE IF ~Ok(q) THEN q ELSE [q EXCEPT !.pc = VblankPc]

(* Mutant: the stack pointer moves after the write of the status register. *)
CallVblankWritesFirst(m) ==
    LET a == SetStackPtr(m, stack_ptr(m) - Long)
        p == PutOrFail(a, stack_ptr(a), Long, m.pc)
        q == PutOrFail(p, stack_ptr(p), Word, SrWord(m.sr))
        b == SetStackPtr(q, stack_ptr(q) - Word)
    IN  IF ~Ok(p) THEN p
        ELSE IF ~Ok(q) THEN q
        ELSE [b EXCEPT !.sr.s = 1, !.sr.mask = VBLANK_INTERRUPT_LEVEL, !.pc = VblankPc]

(* The frame goes on the stack of the current mode; a push that fails      *)
(* leaves the stack pointer moved and the rest as it was.                  *)
call_vblank(m) ==
    LET a == SetStackPtr(m, stack_ptr(m) - Long)
        p == PutOrFail(a, stack_ptr(a), Long, m.pc)
        b == SetStackPtr(p, stack_ptr(p) - Word)
        q == PutOrFail(b, stack_ptr(b), Word, SrWord(m.sr))
    IN  IF ~Ok(p) THEN p
        ELSE IF ~Ok(q) THEN q
        ELSE [q EXCEPT !.sr.s = 1, !.sr.mask = VBLANK_INTERRUPT_LEVEL, !.pc = VblankPc]

Unmasked == enabled /\ machine.sr.mask < VBLANK_INTERRUPT_LEVEL

Due == Unmasked /\ elapsed >= period

(* The interrupt: the clock is restarted before the frame is pushed.       *)
TakeVblank ==
    /\ Ok(machine) /\ Due
    /\ elapsed' = 0
    /\ machine' = call_vblank(machine)
    /\ calls' = 1 - calls
    /\ result' = IF Ok(machine') THEN "VblankInterrupt" ELSE "Error"
    /\ IF Ok(machine')
       THEN clean' = (clean /\ machine.sr.s = 1)
       ELSE clean' = FALSE
    /\ frames' = IF clean' THEN <<machine>> \o frames ELSE <<>>
    /\ UNCHANGED <<program, period, enabled, clicks, alone>>

-----------------------------------------------------------------------------
(* Decoding leaves the program counter after the instruction.  Where there *)
(* is no instruction the decoder fails, and assert(inst) aborts.           *)
step(m) ==
    IF m.pc \in DOMAIN code
    THEN LET at == code[m.pc] IN Execute([m EXCEPT !.pc = at.next], at.inst)
    ELSE [m EXCEPT !.status = "crash"]

FrameSp(m) == Low(stack_ptr(m) - Long - Word, Long)

(* Does the next instruction return from the last interrupt?               *)
Resumes ==
    /\ frames # <<>>
    /\ machine.pc \in DOMAIN code
    /\ code[machine.pc].inst.kind = "Rte"
    /\ stack_ptr(machine) = FrameSp(Head(frames))

(* Mutant: the time is taken whenever interrupts are looked at.            *)
ClockRestarted == IF Unmasked THEN 0 ELSE elapsed

ClockAfterCheck == elapsed

ExecuteInstruction ==
    /\ Ok(machine) /\ ~Due
    /\ elapsed' = ClockAfterCheck
    /\ machine' = step(machine)
    /\ calls' = 1 - calls
    /\ result' = IF Ok(machine') THEN "Executed" ELSE "Error"
    /\ alone' = IF clean /\ frames = <<>> THEN step(alone) ELSE alone
    /\ clean' = (clean /\ (frames # <<>> => Ok(machine')))
    /\ frames' = IF ~clean' THEN <<>> ELSE IF Resumes THEN Tail(frames) ELSE frames
    /\ UNCHANGED <<program, period, enabled, clicks>>

execute_single_instruction == TakeVblank \/ ExecuteInstruction

-----------------------------------------------------------------------------
Tick ==
    /\ elapsed < Max(Periods)
    /\ elapsed' = elapsed + 1
    /\ UNCHANGED <<program, machine, period, enabled, returned, clicks, ghosts>>

set_game_speed ==
    /\ period' \in Periods \ {period}
    /\ UNCHANGED <<program, machine, elapsed, enabled, returned, clicks, ghosts>>

(* The program writes mode register 2 of the VDP.                          *)
SetVblankInterrupt ==
    /\ enabled' = ~enabled
    /\ UNCHANGED <<program, machine, elapsed, period, returned, clicks, ghosts>>

(* The user runs the program, after an error too, from a fresh clock.      *)
Run ==
    /\ clicks < Clicks
    /\ clicks' = clicks + 1
    /\ machine.status # "crash"
    /\ machine' = [machine EXCEPT !.status = "ok"]
    /\ elapsed' = 0
    /\ alone' = [alone EXCEPT !.status = "ok"]
    /\ UNCHANGED <<program, period, enabled, returned, frames, clean>>

(* The VDP keeps its registers over a reset.                               *)
reset ==
    /\ clicks < Clicks
    /\ clicks' = clicks + 1
    /\ machine.status # "crash"
    /\ machine' = ResetMachine
    /\ elapsed' = 0
    /\ alone' = ResetMachine /\ frames' = <<>> /\ clean' = TRUE
    /\ UNCHANGED <<program, period, enabled, returned>>

Next == execute_single_instruction \/ Tick \/ set_game_speed \/ SetVblankInterrupt \/ Run \/ reset

(* The emulation thread calls the executor again while a run goes on, and  *)
(* time passes.  The step that changes the parity of the calls is          *)
(* execute_single_instruction, and a machine that is ok enables it.        *)
Fairness ==
    /\ WF_calls(Ok(machine) /\ calls' = 1 - calls)
    /\ WF_elapsed(elapsed < Max(Periods) /\ elapsed' = elapsed + 1)

Spec == Init /\ [][Next]_vars /\ Fairness

-----------------------------------------------------------------------------
(* What the program can see of a machine: its registers, and the memory    *)
(* above its stack that no handler uses.                                   *)
Visible(m) ==
    [d |-> m.d, a |-> m.a, usp |-> m.usp, ssp |-> m.ssp, pc |-> m.pc, sr |-> m.sr,
     status |-> m.status,
     mem |-> [b \in {c \in DOMAIN m.mem : c >= m.ssp} \ Programs[program].handlers |-> m.mem[b]]]

(* A program whose handler saves the registers it uses cannot tell that    *)
(* there are interrupts: whenever no handler is running, the machine is    *)
(* the one that never was interrupted, whatever the game speed, however    *)
(* the interrupts were masked and nested (interrupt_handler.cpp:59-79 and  *)
(* the RTE of execute.cpp:957).                                            *)
Transparent ==
    clean /\ frames = <<>> => Visible(machine) = Visible(alone)

(* Until its RTE the frame of an interrupt stays as it was pushed, below   *)
(* the frames of the interrupts it interrupted, and the handler runs in    *)
(* supervisor mode with its stack below the frame.                         *)
FrameKept(m, f) ==
    LET sp == FrameSp(f)
    IN  /\ Fetch(m, sp, Word) = SrWord(f.sr)
        /\ Fetch(m, sp + Word, Long) = f.pc
        /\ stack_ptr(m) <= sp

FramesIntact ==
    clean /\ Ok(machine) =>
        /\ frames # <<>> => machine.sr.s = 1
        /\ \A k \in DOMAIN frames :
               /\ FrameKept(machine, frames[k])
               /\ k > 1 => FrameSp(frames[k - 1]) < FrameSp(frames[k])

(* The RTE of a handler resumes what was interrupted, in its mode and      *)
(* mask, at its instruction and with its stack, a handler too.             *)
HandlersReturn ==
    [][clean' /\ calls' # calls /\ Len(frames') < Len(frames) =>
           /\ machine'.sr = Head(frames).sr /\ machine'.pc = Head(frames).pc
           /\ stack_ptr(machine') = stack_ptr(Head(frames))]_vars

(* Where a frame lies, and whether its addresses wrap around inside it.    *)
FrameBytes(f) == FrameSp(f) .. FrameSp(f) + Word + Long - 1
FrameFits(f) == stack_ptr(f) \notin 1 .. Word + Long - 1

HandlerKeepsFrames ==
    /\ machine'.sr.s = 1 /\ stack_ptr(machine') <= FrameSp(Head(frames))
    /\ \A k \in DOMAIN frames : \A b \in FrameBytes(frames[k]) : machine'.mem[b] = machine.mem[b]

OrderlyStep ==
    /\ clean' /\ frames # <<>> /\ frames' = frames => HandlerKeepsFrames
    /\ Len(frames') > Len(frames) =>
           IF frames = <<>> THEN FrameFits(machine) ELSE stack_ptr(machine) >= Word + Long

(* The handlers that these hold of, whose programs keep to three rules.    *)
(* Up to the RTE that resumes the interrupted program, a handler stays in  *)
(* supervisor mode with its stack below the frame, and writes into no      *)
(* frame.  A handler that unmasks the interrupt leaves room for a frame.   *)
(* The address of a frame does not wrap around in the middle of the frame. *)
Orderly == [][OrderlyStep]_vars

(* While the program runs with the interrupt enabled and unmasks it again  *)
(* and again, frames keep coming: a frame that fell due while masked is    *)
(* late, not lost.                                                         *)
VblankComes ==
    <>[](enabled /\ Ok(machine)) /\ []<>(machine.sr.mask < VBLANK_INTERRUPT_LEVEL)
        => []<>(result = "VblankInterrupt")
=============================================================================
