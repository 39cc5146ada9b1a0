-------------------------------- MODULE Bus ---------------------------------
(***************************************************************************)
(* The memory bus and the devices on it (src/src/sega/memory), in the      *)
(* order Executor::Impl registers them.  Addresses are those of the        *)
(* console.  A data view is a sequence of bytes; a byte of a read that the *)
(* device does not fill in stays Unset.                                    *)
(*                                                                         *)
(* Operators take the state of the devices, a record                       *)
(*   mem      what RAMs and stubs hold, for each place in Devices a        *)
(*            function from offsets to bytes, 0 where it is not defined    *)
(*   bus      bus_value_ of the Z80 controller                             *)
(*   step     current_step_by_controller_,  ctrl  ctrl_value_              *)
(*   ym2612   the last port and byte the FM chip was given,  psg  likewise *)
(* What a VDP port does is in module VdpPorts, what the sound chips do     *)
(* with a byte is not modelled.                                            *)
(***************************************************************************)
EXTENDS Integers, Sequences, SequencesExt

CONSTANTS
    Rom,           \* the bytes of the file, from address 0
    RomEnd,        \* the last address of the ROM's range in its header
    ExtraMemory    \* the preset: a sequence of pairs, first and last address

ASSUME BusAssumption ==
    /\ RomEnd \in Nat /\ RomEnd < \hA00000
    /\ \A a \in DOMAIN Rom : a \in 0 .. RomEnd /\ Rom[a] \in 0 .. 255
    /\ ExtraMemory \in Seq(Nat \X Nat)

Unset == "unset"

kAddressMask == 16777216

Device(name, begin, end) == [name |-> name, begin |-> begin, end |-> end]

Devices ==
    <<Device("Rom", 0, RomEnd),
      Device("Z80Ram", \hA00000, \hA0FFFF),
      Device("Ym2612", \hA04000, \hA04003),
      Device("Controller", \hA10001, \hA1001F),
      Device("Z80Controller", \hA11100, \hA11201),
      Device("Trademark", \hA14000, \hA14003),
      Device("SramAccessRegister", \hA130F1, \hA130F1),
      Device("Vdp", \hC00000, \hC0000E),
      Device("Psg", \hC00011, \hC00012),
      Device("M68kRam", \hFF0000, \hFFFFFF)>>
    \o [k \in DOMAIN ExtraMemory |-> Device("Stub", ExtraMemory[k][1], ExtraMemory[k][2])]

range_contains(d, addr) == d.begin <= addr /\ addr <= d.end

(* The first device whose range holds the address, 0 when there is none.   *)
find_by_addr(addr) == SelectInSeq(Devices, LAMBDA d : range_contains(d, addr))

-----------------------------------------------------------------------------
(* The memories.  The Z80 RAM keeps the first bytes of its range; the      *)
(* others have a byte for every address of theirs, and no check beyond.    *)
kRamSize == 8192

Capacity(d) == IF d.name = "Z80Ram" THEN kRamSize ELSE d.end - d.begin + 1

Cell(cells, offset) == IF offset \in DOMAIN cells THEN cells[offset] ELSE 0

ReadCells(dev, k, addr, size) ==
    [i \in 1 .. size |->
        LET offset == addr - Devices[k].begin + i - 1
        IN  IF offset < Capacity(Devices[k]) THEN Cell(dev.mem[k], offset) ELSE Unset]

(* Mutant: a word or a long is stored in one byte.                         *)
StoredAtOnce(cells, offset, data, capacity) ==
    [o \in DOMAIN cells \cup {offset} |-> IF o = offset THEN data[Len(data)] ELSE cells[o]]

Stored(cells, offset, data, capacity) ==
    LET new == {o \in offset .. offset + Len(data) - 1 : o < capacity}
    IN  [o \in DOMAIN cells \cup new |-> IF o \in new THEN data[o - offset + 1] ELSE cells[o]]

WriteCells(dev, k, addr, data) ==
    [dev EXCEPT !.mem[k] = Stored(@, addr - Devices[k].begin, data, Capacity(Devices[k]))]

(* Does the access run past the end of a RAM or a stub?                    *)
Overruns(d, addr, size) == d.name \in {"M68kRam", "Stub"} /\ addr + size - 1 > d.end

ReadRom(addr, size) ==
    [i \in 1 .. size |-> IF addr + i - 1 \in DOMAIN Rom THEN Rom[addr + i - 1] ELSE Unset]

-----------------------------------------------------------------------------
(* Controllers.  Only the first has buttons; a pressed one reads as 0.     *)
DataRegister == [a \in {\hA10003, \hA10005, \hA10007} |-> (a - \hA10003) \div 2]
CtrlRegister == [a \in {\hA10009, \hA1000B, \hA1000D} |-> (a - \hA10009) \div 2]

Version == 15 + 32 + 128

(* Mutant: the step is not looked at.                                      *)
ShownAlike(step) ==
    [b \in {0, 1, 4, 5} |-> CASE b = 0 -> "Up" [] b = 1 -> "Down" [] b = 4 -> "A" [] b = 5 -> "Start"]

(* Which button a bit of the data register stands for, in each step.       *)
Shown(step) ==
    IF step = 1
    THEN [b \in 0 .. 5 |-> <<"Up", "Down", "Left", "Right", "B", "C">>[b + 1]]
    ELSE [b \in {0, 1, 4, 5} |-> CASE b = 0 -> "Up" [] b = 1 -> "Down" [] b = 4 -> "A" [] b = 5 -> "Start"]

read_pressed_status(dev, buttons, n) ==
    LET shown   == Shown(dev.step[n])
        bit(b)  == IF b \notin DOMAIN shown \/ (n = 0 /\ shown[b] \in buttons) THEN 0 ELSE 2 ^ b
    IN  bit(0) + bit(1) + bit(2) + bit(3) + bit(4) + bit(5)

ControllerByte(dev, buttons, a) ==
    CASE a = \hA10001              -> Version
      [] a \in DOMAIN DataRegister -> read_pressed_status(dev, buttons, DataRegister[a])
      [] a \in DOMAIN CtrlRegister -> dev.ctrl[CtrlRegister[a]]
      [] OTHER                     -> 0

ReadController(dev, buttons, addr, size) ==
    [i \in 1 .. size |-> ControllerByte(dev, buttons, addr + i - 1)]

(* The writes reach the registers byte by byte.                            *)
StepsAfter(dev, addr, data) ==
    [n \in 0 .. 2 |-> LET i == \hA10003 + 2 * n - addr + 1
                      IN  IF i \notin DOMAIN data THEN dev.step[n] ELSE IF data[i] = 64 THEN 1 ELSE 2]

CtrlAfter(dev, addr, data) ==
    [n \in 0 .. 2 |-> LET i == \hA10009 + 2 * n - addr + 1
                      IN  IF i \in DOMAIN data THEN data[i] ELSE dev.ctrl[n]]

WriteController(dev, addr, data) ==
    [dev EXCEPT !.step = StepsAfter(dev, addr, data), !.ctrl = CtrlAfter(dev, addr, data)]

-----------------------------------------------------------------------------
(* The Z80 controller: a bus request is granted at once, and a register    *)
(* answers bytes and words at its own address only.                        *)
kZ80BusRequest == \hA11100
kZ80Reset      == \hA11200

Z80Answers(addr, size) == size <= 2 /\ addr \in {kZ80BusRequest, kZ80Reset}

ReadZ80Controller(dev, addr, size) ==
    [i \in 1 .. size |-> IF addr = kZ80Reset THEN 0
                         ELSE IF i = 1 THEN dev.bus \div 256 ELSE dev.bus % 256]

WriteZ80Controller(dev, addr, data) ==
    LET value == data[1] * 256 + IF Len(data) = 2 THEN data[2] ELSE 0
    IN  IF addr = kZ80Reset THEN dev ELSE [dev EXCEPT !.bus = IF value = 256 THEN 0 ELSE 256]

-----------------------------------------------------------------------------
Trademark == <<83, 69, 71, 65>>

Answer(bytes) == [status |-> "ok", bytes |-> bytes]
Refused == [status |-> "error", bytes |-> <<>>]

(* BusDevice::read: the address is masked once, the first device whose     *)
(* range holds it gets the whole access.                                   *)
read(dev, buttons, address, size) ==
    LET addr == address % kAddressMask
        k == find_by_addr(addr)
        name == Devices[k].name
    IN  IF k = 0 THEN Refused ELSE
        CASE name = "Rom" -> Answer(ReadRom(addr, size))
          [] name \in {"M68kRam", "Stub", "Z80Ram"} -> Answer(ReadCells(dev, k, addr, size))
          [] name = "Controller" -> Answer(ReadController(dev, buttons, addr, size))
          [] name = "Z80Controller" ->
                IF Z80Answers(addr, size) THEN Answer(ReadZ80Controller(dev, addr, size)) ELSE Refused
          [] name \in {"Trademark", "SramAccessRegister", "Psg"} -> Refused
          [] name \in {"Vdp", "Ym2612"} -> Answer([i \in 1 .. size |-> Unset])

(* BusDevice::write.  The result is the state of the devices and whether   *)
(* the device refused; beyond the end of a RAM anything may happen.        *)
write(dev, address, data) ==
    LET addr == address % kAddressMask
        k == find_by_addr(addr)
        name == Devices[k].name
        Kept(status) == [status |-> status, dev |-> dev]
        Changed(d) == [status |-> "ok", dev |-> d]
    IN  IF k = 0 THEN Kept("error") ELSE
        CASE name \in {"M68kRam", "Stub", "Z80Ram"} ->
                IF Overruns(Devices[k], addr, Len(data)) THEN Kept("undefined")
                ELSE Changed(WriteCells(dev, k, addr, data))
          [] name = "Controller" -> Changed(WriteController(dev, addr, data))
          [] name = "Z80Controller" ->
                IF Z80Answers(addr, Len(data)) THEN Changed(WriteZ80Controller(dev, addr, data)) ELSE Kept("error")
          [] name = "Trademark" -> Kept(IF data = Trademark THEN "ok" ELSE "error")
          [] name = "SramAccessRegister" -> Kept(IF Len(data) = 1 THEN "ok" ELSE "error")
          [] name = "Ym2612" -> Changed([dev EXCEPT !.ym2612 = <<addr - Devices[k].begin, data[1]>>])
          [] name = "Psg" -> Changed([dev EXCEPT !.psg = <<0, data[1]>>])
          [] name \in {"Rom", "Vdp"} -> Kept("ok")

NewDevices ==
    [mem |-> [k \in DOMAIN Devices |-> <<>>], bus |-> 0,
     step |-> [n \in 0 .. 2 |-> 1], ctrl |-> [n \in 0 .. 2 |-> 0],
     ym2612 |-> <<>>, psg |-> <<>>]
=============================================================================
