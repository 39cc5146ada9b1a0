------------------------------ MODULE Console -------------------------------
(***************************************************************************)
(* The state of the console and the state file                             *)
(* (src/src/sega/executor/executor.cpp, state_dump/state_dump.cpp): the    *)
(* program reads and writes the devices through the bus, the user presses  *)
(* buttons, reloads, saves and loads, and the process may die at any time. *)
(*                                                                         *)
(* A save is written piece by piece.  The buttons of the GUI clear the run *)
(* condition but do not wait for the emulation thread, which goes on for a *)
(* while (see GuiThreads): `run' is "finishing" then.                      *)
(*                                                                         *)
(* The CPU registers are one value; the VDP is the piece that dump_state   *)
(* gives, here two cells of video RAM, and the address its next access     *)
(* uses, which stands for the command latch and everything else that is    *)
(* not in the file.                                                        *)
(*                                                                         *)
(* Not in the code: `flat', what a single memory indexed by address would  *)
(* hold; `taken', the pieces when the last save began, `quiet', whether    *)
(* the emulation thread had stopped by then; `restored', whether nothing   *)
(* happened since a load, and `before', the pieces before it.              *)
(***************************************************************************)
EXTENDS Bus

CONSTANTS
    Sessions,    \* records: the writes the program does, whether it computes, the sets of
                 \* buttons the user holds, and a bound on the user's clicks
    Looks        \* pairs of an address and a size that the properties read

ASSUME SessionAssumption ==
    \A s \in Sessions :
        /\ s.computes \in BOOLEAN /\ s.clicks \in Nat
        /\ \A w \in s.writes :
              w.addr \in Nat /\ w.data \in Seq(0 .. 255) /\ Len(w.data) \in {1, 2, 4}

VARIABLES
    session, clicks,
    dev, buttons, registers, vdp, outcome,
    run, file, saving,
    flat, taken, quiet, restored, before

machine == <<dev, registers, vdp, outcome>>
ghosts == <<flat, taken, quiet, restored, before>>
vars == <<session, clicks, dev, buttons, registers, vdp, outcome, run, file, saving,
          flat, taken, quiet, restored, before>>

NoFile == <<>>

MemoryOf(name) == SelectInSeq(Devices, LAMBDA d : d.name = name)
Ram == MemoryOf("M68kRam")
Z80 == MemoryOf("Z80Ram")

(* The pieces of the file, after the magic number.                         *)
Pieces == <<registers, dev.mem[Ram], dev.mem[Z80], vdp.ram>>
Saved == 1 .. Len(Pieces)

Init ==
    /\ session \in Sessions /\ clicks = 0
    /\ dev = NewDevices /\ buttons \in session.pads
    /\ registers = 0 /\ vdp = [ram |-> <<0, 0>>, address |-> 1] /\ outcome = "ok"
    /\ run = "stopped" /\ file = NoFile /\ saving = 0
    /\ flat = <<>> /\ taken = <<>> /\ quiet = FALSE /\ restored = FALSE /\ before = <<>>

-----------------------------------------------------------------------------
(* The emulation thread.                                                   *)
Executing == run # "stopped" /\ outcome # "undefined"

(* The bytes that the console keeps: those of a RAM, of a stub, and the    *)
(* first of the Z80's.                                                     *)
Kept(a) ==
    LET k == find_by_addr(a)
    IN  /\ k # 0
        /\ Devices[k].name \in {"M68kRam", "Stub", "Z80Ram"}
        /\ a - Devices[k].begin < Capacity(Devices[k])

(* The bus gives an access to the device of its first byte.  What a single *)
(* memory would do says nothing of one whose other bytes are a neighbour's *)
(* or are hidden behind an earlier device.                                 *)
OneDevice(addr, size) ==
    LET k == find_by_addr(addr)
    IN  \A a \in addr .. addr + size - 1 :
            Kept(a) \/ (k # 0 /\ range_contains(Devices[k], a)) => find_by_addr(a) = k

ASSUME OneDeviceAssumption ==
    \A s \in Sessions : \A w \in s.writes : OneDevice(w.addr % kAddressMask, Len(w.data))

ASSUME LookAssumption ==
    \A l \in Looks :
        LET addr == l.addr % kAddressMask
        IN  /\ l.addr \in Nat /\ l.size \in {1, 2, 4}
            /\ \E k \in DOMAIN Devices :
                  k = find_by_addr(addr) /\ Devices[k].name \in {"Rom", "M68kRam", "Stub", "Z80Ram"}
            /\ OneDevice(addr, l.size)

Written(memory, addr, data) ==
    LET new == {a \in addr .. addr + Len(data) - 1 : Kept(a)}
    IN  [a \in DOMAIN memory \cup new |-> IF a \in new THEN data[a - addr + 1] ELSE memory[a]]

(* Something happened since the last load.                                 *)
Changes == restored' = FALSE /\ before' = <<>>

(* The same memory with other cells in the range of a device.              *)
Replaced(memory, d, cells) ==
    LET others == {a \in DOMAIN memory : ~range_contains(d, a)}
        own    == {d.begin + o : o \in DOMAIN cells}
    IN  [a \in others \cup own |-> IF a \in own THEN cells[a - d.begin] ELSE memory[a]]

WriteBus ==
    /\ Executing
    /\ \E w \in session.writes :
          LET r == write(dev, w.addr, w.data)
          IN  /\ dev' = r.dev /\ outcome' = r.status
              /\ flat' = IF r.status = "undefined" THEN flat
                         ELSE Written(flat, w.addr % kAddressMask, w.data)
    /\ Changes
    /\ UNCHANGED <<session, clicks, buttons, registers, vdp, run, file, saving, taken, quiet>>

(* An instruction that works on registers only.                            *)
Compute ==
    /\ Executing /\ session.computes
    /\ registers' = 1 - registers
    /\ Changes
    /\ UNCHANGED <<session, clicks, dev, buttons, vdp, outcome, run, file, saving, flat, taken, quiet>>

(* One that writes the control port or the data port of the VDP.           *)
WriteVdp ==
    /\ Executing /\ session.computes
    /\ \/ vdp' = [vdp EXCEPT !.address = 3 - @]
       \/ vdp' = [vdp EXCEPT !.ram[vdp.address] = 1 - @, !.address = 3 - @]
    /\ Changes
    /\ UNCHANGED <<session, clicks, dev, buttons, registers, outcome, run, file, saving, flat, taken, quiet>>

(* The thread sees the cleared condition.                                  *)
Finish ==
    /\ run = "finishing"
    /\ run' = "stopped"
    /\ UNCHANGED <<session, clicks, machine, buttons, file, saving, ghosts>>

-----------------------------------------------------------------------------
(* The user.  A click works on an idle main thread.                        *)
set_button ==
    /\ saving = 0
    /\ buttons' \in session.pads \ {buttons}
    /\ UNCHANGED <<session, clicks, machine, run, file, saving, ghosts>>

Click == saving = 0 /\ clicks < session.clicks /\ clicks' = clicks + 1 /\ outcome # "undefined"

ClearCondition == run' = IF run = "running" THEN "finishing" ELSE run

RunForever ==
    /\ Click
    /\ run # "running" /\ run' = "running"
    /\ UNCHANGED <<session, machine, buttons, file, saving, ghosts>>

Pause ==
    /\ Click /\ ClearCondition
    /\ run = "running"
    /\ UNCHANGED <<session, machine, buttons, file, saving, ghosts>>

(* Executor::reset clears the work RAM and the registers, nothing else.    *)
Reload ==
    /\ Click /\ ClearCondition
    /\ dev' = [dev EXCEPT !.mem[Ram] = <<>>]
    /\ registers' = 0
    /\ flat' = Replaced(flat, Devices[Ram], <<>>)
    /\ Changes
    /\ UNCHANGED <<session, buttons, vdp, outcome, file, saving, taken, quiet>>

(* Mutant: the file is opened without std::ios::trunc, for reading too.    *)
Untruncated == file

Truncated == NoFile

(* save_state_to_file opens and truncates the file; `saving' is the next   *)
(* piece to write.                                                         *)
SaveOpen ==
    /\ Click /\ ClearCondition
    /\ file' = Truncated
    /\ saving' = 1
    /\ quiet' = (run = "stopped") /\ taken' = IF quiet' THEN Pieces ELSE <<>>
    /\ Changes
    /\ UNCHANGED <<session, machine, buttons, flat>>

(* A piece goes behind the last one, over what the file had there.         *)
SavePiece ==
    /\ saving # 0
    /\ file' = IF saving <= Len(file) THEN [file EXCEPT ![saving] = Pieces[saving]]
                                      ELSE Append(file, Pieces[saving])
    /\ saving' = IF saving = Len(Pieces) THEN 0 ELSE saving + 1
    /\ UNCHANGED <<session, clicks, machine, buttons, run, ghosts>>

(* The disk is full: the stream goes bad, what follows is not written, and *)
(* nobody looks.                                                           *)
SaveFails ==
    /\ saving # 0
    /\ saving' = 0
    /\ UNCHANGED <<session, clicks, machine, buttons, run, file, ghosts>>

(* load_state_from_file applies what it finds, piece by piece, and stops   *)
(* where the file ends.  A piece replaces the whole of what it restores.   *)
Load ==
    /\ Click /\ ClearCondition
    /\ file # NoFile
    /\ LET piece(k) == IF k <= Len(file) THEN file[k] ELSE Pieces[k]
       IN  /\ registers' = piece(1)
           /\ dev' = [dev EXCEPT !.mem[Ram] = piece(2), !.mem[Z80] = piece(3)]
           /\ vdp' = [vdp EXCEPT !.ram = piece(4)]
           /\ flat' = Replaced(Replaced(flat, Devices[Ram], piece(2)), Devices[Z80], piece(3))
    /\ restored' = TRUE /\ before' = Pieces
    /\ UNCHANGED <<session, buttons, outcome, file, saving, taken, quiet>>

(* The process dies; of a file that is being written some prefix is on the *)
(* disk.  It is started again.                                             *)
Crash ==
    /\ clicks < session.clicks /\ clicks' = clicks + 1
    /\ IF saving = 0 THEN file' = file
       ELSE \E n \in 0 .. Len(file) : file' = SubSeq(file, 1, n)
    /\ saving' = 0 /\ run' = "stopped"
    /\ dev' = NewDevices /\ registers' = 0
    /\ vdp' = [ram |-> <<0, 0>>, address |-> 1] /\ outcome' = "ok"
    /\ flat' = <<>> /\ Changes
    /\ UNCHANGED <<session, buttons, taken, quiet>>

Next ==
    \/ WriteBus \/ Compute \/ WriteVdp \/ Finish
    \/ set_button \/ RunForever \/ Pause \/ Reload \/ SaveOpen \/ SavePiece \/ SaveFails \/ Load \/ Crash

Spec == Init /\ [][Next]_vars

-----------------------------------------------------------------------------
(* The bus is one memory: a read of any size at any of the addresses that  *)
(* a RAM, a stub or the ROM answers gives, byte for byte, what was last    *)
(* written there by a write of any size, at any mirror of the address,     *)
(* through all resets, saves and loads; a byte that the device does not    *)
(* keep is not filled in (bus_device.cpp:25-51 and the devices' loops).    *)
Expected(a) ==
    IF a \in DOMAIN Rom THEN Rom[a]
    ELSE IF ~Kept(a) THEN Unset
    ELSE IF a \in DOMAIN flat THEN flat[a] ELSE 0

MemoryIsFlat ==
    outcome # "undefined" =>
        \A l \in Looks :
            LET addr == l.addr % kAddressMask
                r == read(dev, buttons, l.addr, l.size)
            IN  ~Overruns(Devices[find_by_addr(addr)], addr, l.size) =>
                    /\ r.status = "ok"
                    /\ \A i \in 1 .. l.size : r.bytes[i] = Expected(addr + i - 1)

(* Polling a pad the way a program does, a write that selects the step and *)
(* a read, tells in the two steps exactly which buttons are held, whatever *)
(* was written to the ports before, by bytes or by words                   *)
(* (controller_device.cpp:97-209).                                         *)
Polled(value) ==
    LET byte == read(write(dev, \hA10003, <<value>>).dev, buttons, \hA10003, 1).bytes[1]
        word == read(write(dev, \hA10002, <<0, value>>).dev, buttons, \hA10002, 2).bytes
    IN  [bits |-> {b \in 0 .. 5 : (byte \div 2 ^ b) % 2 = 0}, same |-> word = <<0, byte>>]

PadTellsButtons ==
    LET one == Polled(64)
        two == Polled(0)
        Button == [Up |-> 0, Down |-> 1, Left |-> 2, Right |-> 3, B |-> 4, C |-> 5]
    IN  /\ one.same /\ two.same
        /\ \A b \in DOMAIN Button : b \in buttons <=> Button[b] \in one.bits
        /\ "A" \in buttons <=> 4 \in two.bits
        /\ "Start" \in buttons <=> 5 \in two.bits
        /\ {0, 1} \cap two.bits = {0, 1} \cap one.bits

(* A load brings back pieces of one save, that of the instant at which     *)
(* Save was clicked, all of them if it was complete; after a save that was *)
(* cut short the pieces that are missing keep their values.  This needs    *)
(* the emulation thread to have stopped before Save was clicked.           *)
LoadsOneSave ==
    restored /\ quiet =>
        \A k \in Saved : Pieces[k] = IF k <= Len(file) THEN taken[k] ELSE before[k]

(* A byte written to a port of a sound chip reaches the chip               *)
(* (ym2612_device.cpp:40-47, psg_device.cpp:26-56).                        *)
SoundWritesArrive ==
    \A byte \in {0, 159} :
        /\ write(dev, \hC00011, <<byte>>).dev.psg = <<0, byte>>
        /\ \A port \in 0 .. 3 : write(dev, \hA04000 + port, <<byte>>).dev.ym2612 = <<port, byte>>
=============================================================================
