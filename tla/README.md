# TLA+ models of MegaDriveRecomp

MegaDriveRecomp runs Mega Drive games in two ways: an emulator
(`src/src/sega`, `src/src/m68k`) that interprets the 68000 program of a ROM and
shows the machine in a debugger-like GUI, and a static recompiler
(`src/src/recomp`) that turns the program into C++. This directory holds TLA+
models of its core logic, the TLC configurations that check them on small
instances, and TLAPS proofs about them for all values of their constants.

Paths below are relative to the repository's root; the sources are under `src/`
there. `PROJECT.json` lists for every definition the lines it models, for every
property a plausible bug of the code that breaks it (the operators commented
`Mutant:` in the modules), and the hazards of the code with the properties that
address them.

How to run, inside this directory:

    tlc -workers 2 -config MCGuiThreads.cfg MCGuiThreads    # likewise the others
    tlapm GuiThreadsProofs.tla                              # likewise the others

## 1. Inventory

### The emulator

| Component | State | Operations | What is hard | What makes it correct |
|---|---|---|---|---|
| **GUI** (`sega/gui`) | handshake flags `emu_running_`, `vblank_ready_`, `render_done_`; `condition_` with its generation; `reset_time_pending_` | `loop` (main thread), `emulation_thread_body`, `audio_thread_body`, the buttons of the windows | three threads, two mutexes, two condition variables, and a machine that no mutex protects | nobody executes while a frame is drawn; no wakeup is lost; a button's run is neither lost nor cancelled by another; closing ends |
| **VDP** (`sega/memory/vdp_device`) | register file and the fields extracted from it, command latch, RAM kind and address, pending DMA, three RAMs | control port, data port, status and HV reads, `dump_state`, `apply_state` | commands in two halves, DMA in three kinds, 16-bit wrap-around, failures half-way | fields follow registers; block DMA equals the word loop; accesses stay inside the RAM; halves stay paired |
| **Executor** (`sega/executor`) | CPU registers, ROM, devices, stub devices of the preset | execute one instruction, inspect the current one, reset, load and save state | called from two threads; inspecting decodes on the live registers | one instruction or one interrupt at a time |
| **Interrupt handler** (`sega/executor`) | time of the last VBLANK, game speed | `check`, `reset_time` | real time; two pushes that may fail between changes of state | frame and mask are what RTE undoes |
| **Bus** (`sega/memory/bus_device`) | ordered list of ranges | `read`, `write` | first match wins, ranges overlap, accesses may straddle | every address goes to the intended device |
| **Controllers** (`sega/memory/controller_device`) | pressed buttons (atomic), multiplexer step and control byte per pad | `set_button`, `read`, `write` | written by the main, read by the emulation thread | a button is read in the step that shows it |
| **PSG** (`sega/memory/psg_device`) | latch, periods, volumes, counters, noise register | `write`, `generate` | counters at their limits, shared with the audio thread | every channel toggles at the period written |
| **YM2612** | an external chip emulator behind a mutex | `write`, `generate` | — | — |
| **Audio output** (`sega/audio`) | ring of 4096 frames of an external library | `push`, device callback | producer and consumer threads, partial acquires | samples neither dropped nor repeated |
| **State dump** (`sega/state_dump`) | files | save/load the state, save/apply a VDP dump | truncated files, state that is not in the file | load undoes what happened since save |
| **Video** (`sega/video`) | textures decoded from VDP RAM | `update`, sprites, planes, tilemap, colours | links and addresses read from the emulated RAM | loops end, reads stay in VRAM |
| **68000** (`m68k`) | registers, status register | `Instruction::decode`, `execute`, `Target::read`/`write` | addressing modes with side effects, widths, flags | the flags and results of the reference manual |
| **Simple devices, ROM loader, presets, shader, image saver** | bytes | one-line reads and writes | — | — |

The main thread polls events, waits up to 32 ms for a frame, reads the VDP,
draws the windows (whose buttons install or clear the run condition, reset, load
and save) and gives the machine back. The emulation thread snapshots the
condition, executes instructions until it returns true or a VBLANK interrupt
fires, signals the frame and waits until it is drawn. The audio thread asks the
sound chips for samples while a run is installed and pushes them into the ring
that the audio device empties. An instruction reaches the devices through the
bus; a DMA makes the VDP read the bus in turn.

### The recompiler

| Component | State | Operations | What is hard | What makes it correct |
|---|---|---|---|---|
| **Analyzer** (`recomp/analyzer`) | entries still to trace, entries seen, functions with their blocks | `run`, `enqueue_function`, `trace_function`, `trace_block` | a function is traced while the entries after it are still unknown | exactly the reachable code is translated, and every transfer of control has somewhere to go; the analysis ends |
| **Lifter** (`recomp/lifter`) | none | writes C++ for functions, blocks and instructions | control that is carried by the layout of the text | the code behaves like the program |
| **Configuration** (`recomp/config`) | switch tables, known functions | `parse` | — | — |

Not part of the program's own logic: `src/utils`, build files, `m68k_test` (a
driver for JSON test vectors), the command-line programs.

## 2. How the project is built up

    FrameTurns  <-  GuiThreads          the three threads of the GUI
    VdpPorts                            control port, data port, DMA
    Recompiler                          which code is translated, and its gotos and calls
    M68kAlu <- M68kTargets <- M68k      the 68000: arithmetic, operands, instructions
         M68k  <-  M68kTypes            the machines, operands and instructions it is given
         M68kTypes  <-  M68kProgram     short programs on it
         M68kTypes  <-  M68kDecode      from opcodes to its instructions
         M68kTypes  <-  M68kLift        the recompiler's statement beside the interpreter's step
         M68kTypes  <-  Interrupts      the executor's loop and the vertical interrupt
    Bus  <-  Console                    the devices; resets, buttons, state files, restarts

`FrameTurns` is an abstract specification that `GuiThreads` is shown to implement. The
others state what a component promises against a definition that is independent of
the code: `M68kProgram` against numbers, `M68kLift` against the interpreter,
`Interrupts` against the same program on a machine without interrupts, `Console`
against one flat memory and against the state when Save was clicked, `Recompiler`
against reachability, `VdpPorts` against the loop word by word.

Each module keeps its parameters in CONSTANTS, has one action per operation, and no
RECURSIVE operator, so that it can be proved about. The proofs are beside them:

    GuiThreadsProofs, VdpPortsProofs, ConsoleProofs     one component each
    RecompilerProofs                                    the analyzer and what it leaves the lifter
    M68kProofs  <-  M68kProgramProofs                   one instruction; programs
    M68kProofs  <-  InterruptsProofs                    the frames of the interrupt
    M68kProofs  <-  M68kLiftProofs                      the recompiler's statements, kind by kind

What is left to prove is listed at the end of section 5, with the reasons.

## 3. The modules and the code

### GuiThreads, FrameTurns

A critical section of `vblank_mutex_` or `condition_mutex_` is one action; every
access to what they protect is inside one. The machine (registers, RAM, VDP) is
protected by no mutex, so an access to it is an interval: a value of `epc` (the
emulation thread) or `mpc` (the main thread) that one action enters and another
leaves. What may happen meanwhile is then a question about two program counters.

- `EmuLoop` … `EmuWait` are `emulation_thread_body` line by line. Executing an
  instruction has three outcomes: any new PC, the VBLANK interrupt, or a failure
  that leaves part of its effects behind.
- `MainPoll` … `MainPresent` are a round of `loop`. `MainAwait` and `MainTimeout`
  are `wait_for` with its predicate evaluated before blocking and after the
  timeout. ImGui reports at most one click per frame, so a window's buttons are
  alternatives. Save Dump and Export Resources do not pause the run: they are
  `ClickDump`, the others that touch the machine begin with `clear_condition`.
- A condition is the closure the emulation thread calls: its kind, its captured
  counter and target, and `since`, the click that made it. `EmuSnapshot` copies
  it with its counter, as copying a `std::function` does.
- Time is the number of clicks: `prev_fire` says after which click the interrupt
  clock was last restarted, which is all `FreshClock` needs.
- `SpuriousWakeup` is what the standard allows a condition variable.

`FrameTurns` is the handshake without mutexes, flags and program counters: the two
threads take turns with the machine. `ImplementsTurns` maps the detailed state to
it, fairness included.

### VdpPorts

The state is the register file as far as it steers the ports, the fields that the
`process_vdp_…` handlers extract from it, the command latch, and the port's RAM kind
and address. Bytes stored are abstracted: `accesses` lists the places that the last
access touched, in order, and `result` how it ended. `spoiled` is a history
variable, for `OnlyFillsWait`.

- A second half is one of `FailCommand`, `SelectRam` and `TransferDma`, by the
  returns of `process_vdp_control`. A failed command has already set the
  address, the RAM kind and `use_dma_`, and keeps the first half.
- `TransferDma` lists both loops: the block at once for an increment of 2, else
  word after word, each of which the bus may refuse.
- A data-port write is `AbortOnData`, `FillRam` or `WriteWord`. `ReadBytes` is a
  data-port read. Reads of the status and the HV counter change nothing and have
  no action.
- The VRAM's size is a parameter (a multiple of 4, since the second half holds
  its top two bits); `Wrap` is the 16-bit address. `SafeLength` keeps the unsigned
  subtraction of the code, which underflows beyond the end of the smaller RAMs.
- Registers that only lay out the screen are left out: the ports do not read them.

### Recompiler

The 68000 code is its control flow: an instruction has a kind and a target. An
address is the position of an instruction, so nothing jumps into the middle of one,
and an odd address is like one outside the ROM, as in `enqueue_function` and
`trace_function`. DBcc is a `bcc`. Names are left out.

- `Seed` is one `enqueue_function` of `run`; `BeginFunction` takes the last entry
  of `pending_`; `SkipAddress` and `TraceBlock` are one iteration of
  `trace_function`'s loop, with the whole of `trace_block` in `BlockOf`.
- `seen_entries_` and `function_entries_` are one variable: only
  `enqueue_function` inserts, into both.
- An indirect jump also enqueues the switch targets. This has no effect since they
  are entries already, which is `SwitchTargetsSeeded`; the model leaves it out and
  checks (and proves) that invariant.
- `NextLabel`, `TailCalls`, `BranchLabels`, `ExitLabels` and `CallsAt` are what
  `emit_function`, `emit_block` and the branches of `translate_inst` write: labels in
  the order of addresses, tail calls, the gotos of BRA, Bcc and DBcc, the gotos at the
  end of a block, and calls. `MissingLabels` are the gotos without a label.

### M68kAlu, M68kTargets, M68k, M68kTypes, M68kProgram

The interpreter. A machine is a record: registers, the status word as far as
something reads it, memory (a function whose domain is what the bus answers), the
outcome so far, and what the two `Target` objects remember of their side effects.
Operators take a machine and return one; a status other than "ok" is an early return,
and what was changed before it stays changed.

- The width of a byte and the base of a decimal digit are constants (`BYTE`, `RADIX`;
  8 and 10 in the code), so that the operands of an instruction can be enumerated.
  Nothing else in the arithmetic depends on the width. A 64-bit intermediate result
  is an integer; the borrow that the code looks for above the operand is its sign.
- `M68kTargets` has `Target::read` and `write` for every addressing mode, with
  `already_decremented_` and the order of reads, writes and increments.
- `M68k` has one `Exec...` operator for each branch of `Instruction::execute`, and
  `Perform` chooses it by kind. STOP does nothing, as in the code. A value that the
  code leaves uninitialized (`newSr` after a failed pop) is `garbage`, any value.
- `M68kTypes` says what the interpreter is given: the machines, the operands of every
  addressing mode, and by kind which fields the code reads and what the decoder leaves
  in them (`WellFormed`, and for the lifter `Given`). `MCM68kProgram` instantiates `M68kProgram` under the
  assumption that its programs are well formed, so TLC evaluates it; `FieldsSet` in
  `M68kDecode` says that the decoder sets the fields so listed and gives the operands that
  `Given` lists. The decoder takes opcodes that the processor does not have as well (LEA of
  a register, MOVEA.B): `WellFormed` leaves out those on which `execute.cpp` ends in
  `unreachable()`, `Illegal` of `M68kLift` those on which only the lifter fails.
- `M68kProgram` executes a short program and remembers every machine before, so that
  a property can relate several instructions.
- `MCM68kCases` has the instructions and operands of the runs, by family: one per
  arithmetic kind, size and edge operand; each addressing mode as source and as
  destination, at the ends of memory too; control, stack, status and exceptions; and
  the pairs of instructions that chain limbs or restore what the first did.

### M68kDecode

`Instruction::decode` over the fields of an opcode. Each pattern of the code is a `Row`
of sets of field values, in the order of the code; `Chain` is the order of the
groups, and `FirstMatch` what the chain of ifs takes. Each extension word is
represented by its place after the opcode, so that properties can tell which word
went where. `readable` is how many words the bus gives before it fails.

### M68kLift

`translate_inst`, each emitted statement as what running it does to a machine, beside
`Execute` of the same instruction. The runtime library that the statements call is
not in the repository: its arithmetic is taken to be the interpreter's, so the
comparison is about operands, sizes, addresses, order and side effects. `unset` is
what the decoder left in the fields that the lifter uses without their being set.

`LiftedAgrees` holds for every instruction outside `Deviates`, which lists, by cause,
where the code emitted is not the interpreter's (section 6): operands that no statement
steps (`Unstepped`) or steps in another order (`Entangled`), sizes that nothing has set
(`SizeUnset`), instructions that are not emitted whole (`Incomplete`, with `Excepts` for
exceptions and `NoReturnAddress` for returns on a stack without memory), addresses beyond
the bus (`OffTheBus`) and encodings the processor lacks (`Illegal`). Each is a condition on
the instruction, the machine before and what the interpreter did, never on what the
emitted code did. `LiftAssumption` says that the instructions are the decoder's, that
the machines are those between two instructions, that the memory is on the bus and
that a byte holds the five condition codes.

### Interrupts

One call of the executor, with a program on `M68k` and vertical interrupts. The
program is its decoded code: `step` is `decode` (the program counter moves behind the
instruction) and `execute`. The clock counts the time since `prev_fire_` in ticks, up
to the longest period. The model keeps three variables that are no code: `alone`, the
machine that is never interrupted; `frames`, the interrupted machines; `clean`, that
no interrupt met user mode or an error since the reset. The memory in `Interrupts` is
writable wherever it is mapped, and its programs never write the ROM. The program's
writes to the VDP's mode register are the action `SetVblankInterrupt`.
`ConsoleAssumption` says that the ROM has bytes, the vectors addresses and the programs
instructions of the decoder.

Nothing in the console keeps a handler off the frame it returns by: that is for the
program in the cartridge. `Orderly` says which handlers the frame properties mean: up to
the RTE that resumes the interrupted program they stay in supervisor mode with the stack
below the frame and write into no frame, one that unmasks the interrupt leaves room for
a frame, and no frame wraps around the end of the address space.

### Bus, Console

`Bus` is the devices in the order in which `executor.cpp` adds them, as operators from
a state of the devices and an access to an answer and a new state. `Console` lets a
program write through it while the user presses buttons, resets, saves and loads, and
the process dies and starts again.

- A write beyond the end of the work RAM or of a stub (a long at FFFFFE) overruns a
  vector of the code: the outcome is "undefined", and nothing is claimed after it.
- `Bus` keeps of a sound chip the last byte it was given, and of a VDP port nothing
  (that is `VdpPorts`); the VDP in `Console` is two cells of video RAM, which
  `dump_state` saves, and an address, which it does not.
- A save writes one piece per step (`SavePiece`), may stop anywhere (`SaveFails`,
  `Crash`), and the emulation thread may still be running meanwhile: the buttons clear
  the run condition and do not wait (`run = "finishing"`, see `GuiThreads`).
- `Load` is atomic: it applies the pieces that the file has. This needs no finer grain
  for its property, which begins at the end of the load.

## 4. The runs

| Run | Instance | Shows |
|---|---|---|
| `gui` | 2 addresses, 2 clicks; 283,814 states | `FrameOwnership`: while a frame is drawn the emulation thread is between signal and release. `BlockedIsOwed`, `EmuReleased`: no wakeup is lost. `FreshClock`: a run never starts on an old clock. `OnlyOwnRunCleared`: the generation protects a run from its predecessor's end. `ShutdownIfInterruptible`: closing ends everything if the instruction loop is left again and again. `ImplementsTurns`: the refinement, by which every frame is taken and finished. |
| `gui_inspect` | same | **violated**: after Pause the window decodes the current instruction, moving the PC, while the emulation thread still executes its snapshot. |
| `vdp_ports` | 8 bytes of VRAM, 2 of VSRAM, 4 of CRAM, 9 register writes; 324,001 states | Fields are a function of the registers; block DMA touches what the word loop would, up to the end of the RAM, and leaves the address where it would; data-port words stay inside; the data port aborts only after a failed command or a rewritten DMA type; halves stay paired. |
| `recomp` | every ROM of 4 instructions above the vector table out of 15 instructions; 820,928 states | Nothing that a block leads to is lost; the blocks are exactly the reachable code and the functions exactly the seeds and the targets of reachable calls, in whatever order they were found; the analysis ends. `MissingLabelsAreEntries`: calls find a function, a JMP and a fall find a label or are tail calls, and of the gotos of BRA, Bcc, DBcc and after calls a label inside the ROM is missing only where another function begins, or for a BRA to 0. |
| `recomp_branch` | same | **violated**: an untaken branch runs into the next label, which is not its fallthrough when blocks overlap. |
| `m68k` | six-bit bytes, digits in base 5, 48 bytes of memory, 24,571 pairs of a program and operands; 60,580 states | `ConditionsCompare`: after CMP, SUB or CMPA the conditions of branches order the operands, but for the unsigned ones after a CMPA of a negative word. `LimbsChain`: two limbs make a number twice as wide, binary or decimal. `ShiftsScale`, `DivisionInverts`: shifts and divisions against powers of two and products. `StepsOnce`: (An)+ and -(An) move once, by the right amount. `RoundTripsRestore`: MOVEM, MOVEP, LINK, calls, rotations and exchanges undo themselves. `FailureKeepsOperands`: a failing access leaves the data registers and condition codes. |
| `decode` | all opcodes, 0 to 5 readable words after them; 786,432 states | `EarlierIsNarrower`: no pattern hides another. `FieldsSet`: what execution reads is set, and a kind has the operands that the lifter expects of it (`Given`, the hypothesis of the proof about the lifter). `StepsByTransfer`: a target steps by the size that is transferred. `WordsFollow`: extension words are taken in order, all of them. |
| `lift` | six-bit bytes, 43,092 instructions with operands; 86,184 states | `LiftedAgrees`: outside `Deviates`, the emitted statement does what the interpreter does. |
| `lift_steps` | same | **violated**: `ADD (A0)+,D0` in the emitted code does not step A0. |
| `interrupts` | five programs, periods of 1 and 2 ticks, one click; 281,680 states | `Transparent`: a program whose handler saves what it uses cannot tell that it was interrupted. `FramesIntact`: nested frames lie in order and as they were pushed. `HandlersReturn`: an RTE resumes what was interrupted, a handler too. `Orderly`: the handlers, which save and restore registers with MOVEM, keep the rules of section 3. `VblankComes`: a mask delays a frame and never loses all of them. |
| `console` | three sessions; 174,069 states | `MemoryIsFlat`: through accesses within one device, the memories and their mirrors together are one memory. `PadTellsButtons`: polling tells exactly the buttons held, whatever was written to the ports before. `LoadsOneSave`: a load restores the pieces of one save, those of the moment of the click. |
| `console_sound` | same | **violated**: a byte written to the FM chip's ports goes to the Z80 RAM's range. |

Bounds. Two clicks are a run and what interrupts it (pause, another run, reset, load),
which is what the generation and the clock flag are for; two addresses tell the
handler's entry from the rest. Eight bytes of VRAM give each quarter of the address
two bytes, so that every transfer wraps or meets the end of a RAM for some address;
the register values include DMA allowed and not, increments 0, 1 and 2 (none, the
fill's byte steps, the block), lengths 0 to 2 and every type. Four instructions are enough for
two functions that overlap, a loop into the middle of a block, a call to oneself
and a switch table that names an entry twice; the instructions include a jump and
a seed outside the ROM.

In `m68k` and `lift` the operands are the edges of each size (0, 1, the greatest and
the least signed number and their neighbours, all ones), each in every operand
position; six bits keep a nibble, which a decimal digit of base 5 does not fill, so
that decimal carries differ from binary ones. Memory ends close to the operands, so
that accesses of every size fail at the first, the second or no word. `decode` needs
no bound but the number of readable words, and five is the longest instruction. In
`interrupts` the periods differ by a tick, so that a change of the game speed makes a
frame due or not; the small stack of the `nesting` program has room for two frames, so
that the third push fails; one click is a reset or a run in the middle of anything.
In `console` two clicks are enough for a memory to be reset after a write while a run
goes on; five for run, pause, save, run again and load; the writes are at both ends of
every range, beyond the end of the work RAM, and at a mirror.

Fairness. `GuiThreads`: weak fairness of each thread as a whole, since the operating
system runs every thread that can run. The user, spurious wakeups and the emulated
program owe nothing: whether an instruction loop ends is a premise of
`ShutdownIfInterruptible`, and without it closing need not end (section 6).
`FrameTurns`: the main thread takes and finishes frames. `Recompiler`: weak fairness
of the only process. `Interrupts`: the emulation thread calls the executor again while
a run goes on, and time passes; that the program enables and unmasks the interrupt is
a premise of `VblankComes`. The others state no liveness: they react to their program
or to the user.

Deadlock is checked except in `vdp_ports`, where `std::abort` ends the process; in
`m68k`, `decode` and `lift`, whose programs end; and in `console`, where the user may
have clicked for the last time, with the machine stopped.

## 5. The proofs

All hold for every value of the constants, under the named assumptions only.

**GuiThreadsProofs** (any set of addresses that contains the two entries, any number
of clicks). None of the safety properties is inductive: a frame is owned because of
where the emulation thread must be whenever `vblank_ready_` is set, and a run's clock
is fresh because of a flag stored long before. `IInv` adds four parts: `Counters` (a
closure that has not returned true can be called once more), `Handshake` (how the
flags and the two program counters belong together), `Clock` (a condition's clock was
restarted since, or the flag says it will be) and `Generations` (an equal generation
means an equal condition). Each part is preserved by a lemma with one step per action.
From them: `TypeCorrect`, `FramesOwned`, `NoLostWakeup`, `ClockIsFresh`,
`OthersRunsSurvive`, and `TurnsAreTaken`, that initial states and steps map to those
of `FrameTurns`.

**VdpPortsProofs** (any VRAM whose size is a multiple of 4, smaller RAMs of any size
up to it, any register writes). The properties are inductive over the types; the work
is arithmetic: that each register handler replaces its own byte of a shared number,
that the address stays in its width, and that the word loop with an increment of 2
visits the same places as a block. One theorem per property.

**RecompilerProofs** (any ROM, vectors, switch tables and known functions). The types are
proved (`TypeCorrect`), and no run checks them. `IInv`:
`Seeding` (what is not seeded yet is in `seeds`, and tracing begins after it),
`Queued` (every entry is a function or pending), `EntryTraced` (a finished function
has the block of its entry), `Shapes` (how a block's exit belongs to its last
instruction), `Homes` (where the blocks of a function may start) and `SuccessorsKept`.
`CodeResolves`, which is `MissingLabelsAreEntries`, follows: when the analysis ends,
functions have the labels of their entries and calls have functions, and a goto into
the ROM misses its label only at another function's entry, from BRA, Bcc, DBcc or the
code after a call, or at the 0 of a BRA (`ExitShapes` tells which instruction may end a
block with which exit). `TranslatesTheReachable` adds `Exactness`: every entry, every
address waiting in the function under way and every block is reachable, in whatever
order they are found. `Reachable` is the least set that holds the seeds and that control
does not leave, so that half of the theorem is that the blocks form such a set
(from `SuccessorsKept`) and half that they lie in every one (from `Exactness`).
Within a block, which is a run of addresses, this needs the first address that would be
an exception: the least element of a set of numbers (`LeastNumber`), from the library's
well-founded induction.

**ConsoleProofs** (any sets of accesses, looks and buttons, any number of clicks, a
ROM of any length and contents, any extra memory of a preset). `BusAssumption` puts the
ROM below the other devices and `SessionAssumption` bounds the writes to 1, 2 or 4 bytes.
`OneDeviceAssumption` and `LookAssumption` say of the program that an access stays on one
device and that a look is at memory: of an access that begins on one device and ends on
another the code does not do what one memory would. TLC evaluates all of them on the
sessions of the runs. `IInv` has: `Agree`, that the memories of the devices are the flat
memory seen through `find_by_addr`; `Writing` (the file grows piece by piece),
`Undisturbed` (while a save that began on a stopped machine lasts, nothing changes),
`OneInstant` (its pieces are those of the moment it began) and `Restored` (what a load has
left). `OneMemory`, `OneSave` and `PadTells` follow; the last also needs that the two
writes that start a polling put the multiplexer in a known step from any step at all.

**M68kProofs, M68kProgramProofs** (any program, any operands, at the width of the
code: `EightBits`, that `BYTE` is 8). TLC enumerates edge operands at a width of 6;
the theorems cover every operand at 8. `ProgramAssumption` says that the programs
are well formed and that the machine they start on is one.

- `Executes`: one instruction, from any machine and with any well-formed operands,
  gives a machine again, has stepped its operands exactly once, and when it fails has
  changed no data register and no flag, unless its kind may fail half-way. The
  idea is an account, `Along`: between the beginning of the instruction and any point
  of its execution, each address register that the instruction does not write has moved
  by what the marks `decremented` and `incremented` say was stepped. Reads, writes
  and increments keep it, for the two operands on the same register too; then one
  lemma per kind puts them in the order of the code. MOVEM's loop needs the
  existence of a function defined from one value to the next (`Recursion`).
- `Trace`, the inductive invariant of programs: each instruction was executed on the
  machine that the one before it left. From it and `Executes`: `Types`, `SteppedOnce`,
  `Retryable`.
- `Comparing` and `Dividable` are arithmetic: that the four flags of a subtraction
  decide each of the ten conditions that order numbers as the numbers are ordered, signed
  and unsigned, CMPA of a word being a comparison of the extended source (`AddressCompares`),
  whose carry is right when the word is not negative; that the quotient and remainder that DIVU and DIVS store give the dividend
  back, and when they are refused.
- `Scaling`: the loop of the shifts is a sequence of the loop's variables (`Turns`, by
  `Recursion`), and one invariant for each direction says what number the variables stand
  for after k turns: the operand times, or divided by, the k-th power of two. After one
  turn more than the operand has bits nothing changes any more, so that powers up to the
  33rd settle every count. That ASL may set V turn by turn rests on `DoubledSign`: a number
  that has left the signed range never returns by doubling.
- `Chaining`: each instruction leaves a limb (`Limb`: the value, the carry, the code's
  overflow against the signed sum, the zero so far), and two limbs that are linked by
  X and Z make one operation of twice the width (`WideLimbs`, on numbers alone). The
  decimal instructions do the same with pairs of digits, given that there are ten
  (`TenDigits`, the code's digits). The property says which chains it means (`InLimbs`): data
  registers, one size, and the high limbs not where the low result goes, as in every chain that
  the run enumerates; a result that overwrites a high limb makes no number.

**InterruptsProofs** (any program, ROM, RAM, vectors, game speeds and number of resets, at
the width of the code, `EightBits`; of the handlers `Orderly`, a hypothesis that the run
checks of its programs). `FramesStay` is `FramesIntact`, and `HandlersResume` is
`HandlersReturn`.

- `FramesIntact` is not inductive: it says where the stack pointer is now, and not where it
  was in a handler that was itself interrupted and is resumed by an RTE. `IInv` is `Typed`
  and `Nested`, that is `Stacked`: every frame is in mapped memory as it was pushed, every
  interrupted machine was in supervisor mode, and of every two frames the stack of the
  younger one's machine was below the older frame.
- `FramePushed`: `call_vblank`, when both pushes succeed, changes the six bytes of the frame
  and no other byte, and they read back as the status word and the program counter. This
  rests on `WordTells`, that the status word holds every field of the status register, and on
  `FetchPut` and `PutBytes` of `M68kProofs`, that memory is consistent with itself.
- `FrameReturned`: RTE on an intact frame gives back the status register, the program counter
  and the stack pointer. `Orderly` says nothing of interrupts that push and RTEs that pop:
  those two steps are the proof. That instructions leave a machine at all is `Executes`.

**M68kLiftProofs** (every instruction of the decoder, any operands, any machine and memory,
any values of the fields left unset, at the width of the code, `EightBits`).
`LiftedCodeAgrees` is `LiftedAgrees`. The run has some forty thousand edge cases at six
bits; the theorem has every register, every memory and every pair of addressing modes.

- The two sides step their operands in other places: the interpreter when it reads or
  writes one, remembering that it did, the emitted code in statements before and after.
  `Twin` (of `M68kProofs`) relates a machine of each: equal but for what only the interpreter keeps. A read
  gives both the same value, up to what is above the size (`ReadTwin`); a write keeps
  the relation (`WriteTwin`), and so does each step beside its statement (`DecrementTwin`,
  `IncrementTwin`). `WriteAfter` and `EndsStepping` exchange the steps that the two sides take
  in another order.
- One lemma per kind (`...Agrees`, or `...Matches` where the condition codes may differ) puts the accesses in the order of the two
  sources: where nothing is excluded, the pair ends as twins. The names of the deviations are used there, each in the kinds that it is
  about.
- MOVEM's two loops go over the same list in the same order (`Recurs` and `Stays` on the
  functions that define them); a bit instruction's operand as a set of bits is the number again
  (`FromBits`); the status word that MOVE from SR writes holds every field.
- `LiftInv`, the inductive invariant: the two machines are equal until the step, and after it
  they are what `Execute` and `translate_inst` make of the one before.

Only model-checked:

- all liveness (`ShutdownIfInterruptible`, `VblankComes`, that the analysis ends) and
  the liveness half of the refinement: fairness and ENABLED are outside the prover;
- `Orderly`: it depends on the program;
- `RoundTripsRestore`: which pairs of instructions undo each other is a constant of the
  model, a table that the run fills in;
- the four properties of `M68kDecode`: the run enumerates every opcode, which settles
  them;
- `Transparent`: it compares whole executions of the program, with and without interrupts,
  and rests on what the handlers save, which depends on the program as `Orderly` does.

## 6. Known divergences

Four runs show a disagreement between the code and what it says of itself. The rest of
what was met while modelling is listed here; the models do what the code does, and no
property claims otherwise.

GUI: single-step and two run-until commands are installed while a run is in progress,
against gui.cpp:617. Run Until Next VBLANK, started at the handler's entry, need not
stop: each frame starts from a fresh copy of the counter 2 (gui.cpp:635, 179). Without
VBLANK interrupts the instruction loop never looks at `emu_running_`, and closing the
window hangs in `join` (gui.cpp:194, 168).

Recompiler: a block that starts at another function's entry is never made
(analyzer.cpp:121), and four gotos name its label all the same, so that the C++ does not
compile: those of BRA (lifter.cpp:707), Bcc (711), DBcc (725) and the code after a call
(147). For a BRA the tail call that lifter.cpp:133 promises comes after that goto.
`MissingLabelsAreEntries` says that these are the only such gotos. Gotos to code outside the ROM and those of
a BRA to 0 have no label either. A JSR with an unknown target makes a function of the
vector table (analyzer.cpp:277).

Interpreter: CMPA.W extends its source to 64 bits and takes the carry from the bits above
a long (execute.cpp:378), so that it is set after every negative word and the unsigned
conditions are wrong.
The size bits 11 of some opcodes reach `unreachable()` (decode.cpp:89), which is
undefined behaviour. When the second word of a long cannot be read, the decoder
returns the error of the first (decode.cpp:62). A failed pop in RTE leaves `newSr`
uninitialized (execute.cpp:964); TRAP enters supervisor mode before it pushes the
status register, which then says supervisor (execute.cpp:953).

Interrupts: the frame goes on the stack of the current mode, and RTE pops the
supervisor stack, so that an interrupt of user mode does not return
(interrupt_handler.cpp:61). A push that fails leaves the stack pointer moved and the
clock restarted (interrupt_handler.cpp:41).

State files: the command latch, the RAM kind and address and a pending DMA of the VDP,
stub memory, the Z80 controller, the steps of the controllers and the sound chips are
not saved, although state_dump.h:19 says "Full save state". A save clicked while the
machine runs may mix instants.

Controllers: "even addresses are no-op" (controller_device.cpp:20), but a word read of
the version at A10000 is unmapped, since the range begins at A10001.

Lifter, the entries of `Deviates` in M68kLift:

- an operand is not stepped: the source (An)+ and the destination -(An) of two-operand
  instructions, and either for the destination of MOVE, CMPI and CMPM;
- both operands on one register are stepped in another order: ADDX and SUBX with
  -(An),-(An), MOVE (An)+ to a destination on An;
- the size is used and never set: ABCD, SBCD, Scc, TAS, the status register operations,
  multiplications and divisions with a source in memory, MOVE from USP;
- TST reads a destination that was not set; MOVEP emits nothing; RTE drops two bytes
  too many; DBT decrements; NBCD (An)+ steps twice; LINK takes its displacement from
  the operand that was not set; divisions raise no exception; ADDQ and SUBQ of a word
  to An keep the upper half; reads indexed by the PC take 0 for its value; MOVEM to
  -(An) stores two or more registers in the wrong order, or the stepped An, and emits
  nothing for an empty list; RTS and RTR on a stack without memory go on; a JSR through A7 computes its
  target after the push; a change of the supervisor bit does not switch the stacks;
- LEA, PEA, JMP and JSR mask their address to 24 bits;
- encodings that the processor does not have and the decoder takes: an immediate
  destination, LEA, PEA and MOVEM of an immediate, a bit of an address register;
- condition codes of CHK, NBCD (V) and CMPA.W.

## 7. Not modelled

- **Video, shader, image saver**: functions from VDP RAM to textures and OpenGL calls;
  they keep no state of the console. The VDP's layout registers only tell them where
  to look; `VdpPorts` keeps the bytes of those that the ports use.
- **PSG's generation of samples, YM2612, audio ring**: numbers of samples without an
  effect on the program, and external libraries. `GuiThreads` has the audio thread.
- **M68K printer, recompiler configuration, ROM loader, command-line programs and the
  test driver**: formats, or one pass over a file.
- **The inside of external libraries** (ImGui, miniaudio).
- Parts of modelled components: the dump of the VDP alone (Save Dump, which nothing
  loads); reading a switch table from the ROM bytes in the analyzer; a state file
  that was not written by a save.

Abstractions made on purpose: in `GuiThreads` the program being emulated is any
sequence of PCs, interrupts and failures, and `EmuInterrupted` is possible before
every instruction, because whether it fires depends on real time; in `Console` the
CPU's registers are one value; in `M68kLift` the runtime's arithmetic is the
interpreter's.
