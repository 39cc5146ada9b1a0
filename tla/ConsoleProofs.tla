---------------------------- MODULE ConsoleProofs ---------------------------
(***************************************************************************)
(* Proofs about Console and the Bus it is built on, for any ROM, any       *)
(* preset and any program whose accesses stay inside one device.           *)
(***************************************************************************)
EXTENDS Console, WellFoundedInduction, TLAPS

-----------------------------------------------------------------------------
(* The bus.                                                                *)

\* How many devices are on the bus.
LEMMA DeviceCount ==
  /\ DOMAIN Devices = 1 .. 10 + Len(ExtraMemory)
  /\ Len(Devices) = 10 + Len(ExtraMemory) /\ Len(ExtraMemory) \in Nat
BY SMTT(60), BusAssumption DEF Devices

\* The devices in the order in which executor.cpp:45-79 adds them.
LEMMA DeviceList ==
  /\ Devices[1] = Device("Rom", 0, RomEnd)
  /\ Devices[2] = Device("Z80Ram", \hA00000, \hA0FFFF)
  /\ Devices[3] = Device("Ym2612", \hA04000, \hA04003)
  /\ Devices[4] = Device("Controller", \hA10001, \hA1001F)
  /\ Devices[5] = Device("Z80Controller", \hA11100, \hA11201)
  /\ Devices[6] = Device("Trademark", \hA14000, \hA14003)
  /\ Devices[7] = Device("SramAccessRegister", \hA130F1, \hA130F1)
  /\ Devices[8] = Device("Vdp", \hC00000, \hC0000E)
  /\ Devices[9] = Device("Psg", \hC00011, \hC00012)
  /\ Devices[10] = Device("M68kRam", \hFF0000, \hFFFFFF)
  /\ \A k \in 1 .. Len(ExtraMemory) :
        Devices[10 + k] = Device("Stub", ExtraMemory[k][1], ExtraMemory[k][2])
BY SMTT(200), BusAssumption DEF Devices

Names == {"Rom", "Z80Ram", "Ym2612", "Controller", "Z80Controller", "Trademark",
          "SramAccessRegister", "Vdp", "Psg", "M68kRam", "Stub"}

Types == [name : Names, begin : Nat, end : Nat]

\* What a device is, by its place.
LEMMA DeviceTypes ==
  ASSUME NEW k \in DOMAIN Devices
  PROVE  /\ k \in Nat \ {0}
         /\ Devices[k] \in Types
         /\ Devices[k].name = "Stub" <=> k > 10
         /\ Devices[k].name = "M68kRam" <=> k = 10
         /\ Devices[k].name = "Z80Ram" <=> k = 2
         /\ Devices[k].name = "Rom" <=> k = 1
<1>1. k \in 1 .. 10 \/ k - 10 \in 1 .. Len(ExtraMemory)
  BY SMT, DeviceCount
<1>2. CASE k \in 1 .. 10
  <2>1. Devices[1] \in Types /\ Devices[1].name = "Rom"
    BY SMT, DeviceList, BusAssumption DEF Device, Types, Names
  <2>2. Devices[2] \in Types /\ Devices[2].name = "Z80Ram"
    BY SMT, DeviceList DEF Device, Types, Names
  <2>3. Devices[3] \in Types /\ Devices[3].name = "Ym2612"
    BY SMT, DeviceList DEF Device, Types, Names
  <2>4. Devices[4] \in Types /\ Devices[4].name = "Controller"
    BY SMT, DeviceList DEF Device, Types, Names
  <2>5. Devices[5] \in Types /\ Devices[5].name = "Z80Controller"
    BY SMT, DeviceList DEF Device, Types, Names
  <2>6. Devices[6] \in Types /\ Devices[6].name = "Trademark"
    BY SMT, DeviceList DEF Device, Types, Names
  <2>7. Devices[7] \in Types /\ Devices[7].name = "SramAccessRegister"
    BY SMT, DeviceList DEF Device, Types, Names
  <2>8. Devices[8] \in Types /\ Devices[8].name = "Vdp"
    BY SMT, DeviceList DEF Device, Types, Names
  <2>9. Devices[9] \in Types /\ Devices[9].name = "Psg"
    BY SMT, DeviceList DEF Device, Types, Names
  <2>10. Devices[10] \in Types /\ Devices[10].name = "M68kRam"
    BY SMT, DeviceList DEF Device, Types, Names
  <2>11. k \in {1, 2, 3, 4, 5, 6, 7, 8, 9, 10}
    BY <1>2
  <2> QED BY SMT, <2>1, <2>2, <2>3, <2>4, <2>5, <2>6, <2>7, <2>8, <2>9, <2>10, <2>11
<1>3. CASE k - 10 \in 1 .. Len(ExtraMemory)
  <2> DEFINE i == k - 10
  <2>1. i \in 1 .. Len(ExtraMemory) /\ k = 10 + i /\ ExtraMemory[i] \in Nat \X Nat
    BY SMT, <1>3, BusAssumption, DeviceCount
  <2> HIDE DEF i
  <2>2. k \in Nat /\ k > 10 /\ Devices[k] = Device("Stub", ExtraMemory[i][1], ExtraMemory[i][2])
    BY SMT, <2>1, DeviceList, DeviceCount
  <2> QED BY SMTT(30), <2>1, <2>2 DEF Device, Types, Names
<1> QED BY <1>1, <1>2, <1>3

NatLess == OpToRel(<, Nat)

\* A set of natural numbers has a least element.
LEMMA LeastNumber ==
  ASSUME NEW T, T \subseteq Nat, T # {}
  PROVE  \E x \in T : \A y \in T : x <= y
<1>1. IsWellFoundedOn(NatLess, Nat)
  BY NatLessThanWellFounded DEF NatLess
<1>2. PICK x \in T : \A y \in T : ~ (<<y, x>> \in NatLess)
  BY <1>1, WFMin
<1>3. ASSUME NEW y \in T PROVE x <= y
  <2>1. x \in Nat /\ y \in Nat /\ <<y, x>> \in Nat \X Nat
    OBVIOUS
  <2>2. y < x => <<y, x>> \in NatLess
    BY <2>1 DEF NatLess, OpToRel
  <2> QED BY <1>2, <2>1, <2>2
<1> QED BY <1>3

\* BusDevice::find_by_addr gives the first device whose range holds the address.
LEMMA Finds ==
  ASSUME NEW a
  PROVE  \/ /\ find_by_addr(a) = 0
            /\ \A j \in DOMAIN Devices : ~range_contains(Devices[j], a)
         \/ /\ find_by_addr(a) \in DOMAIN Devices
            /\ range_contains(Devices[find_by_addr(a)], a)
            /\ \A j \in 1 .. find_by_addr(a) - 1 : ~range_contains(Devices[j], a)
<1> DEFINE I == {i \in 1 .. Len(Devices) : range_contains(Devices[i], a)}
           k == find_by_addr(a)
<1>1. k = IF I # {} THEN Min(I) ELSE 0
  BY DEF find_by_addr, SelectInSeq
<1>2. 1 .. Len(Devices) = DOMAIN Devices /\ I \subseteq Nat
  BY DeviceCount
<1> HIDE DEF k
<1>3. CASE I = {}
  BY <1>1, <1>2, <1>3 DEF k
<1>4. CASE I # {}
  <2>1. PICK x \in I : \A y \in I : x <= y
    BY <1>2, <1>4, LeastNumber
  <2>2. k \in I /\ \A y \in I : k <= y
    BY <1>1, <1>4, <2>1 DEF Min
  <2>3. \A j \in 1 .. k - 1 : j \in 1 .. Len(Devices)
    BY <2>2, DeviceCount
  <2>4. \A j \in 1 .. k - 1 : j \notin I
    BY <1>2, <2>2
  <2> QED BY <1>2, <2>2, <2>3, <2>4 DEF k
<1> QED BY <1>3, <1>4

\* The first device that holds the address is the one found.
LEMMA FindsFirst ==
  ASSUME NEW a, NEW j \in DOMAIN Devices, range_contains(Devices[j], a),
         \A i \in 1 .. j - 1 : ~range_contains(Devices[i], a)
  PROVE  find_by_addr(a) = j
BY SMT, Finds, DeviceCount

\* Where the two RAMs that a state file holds are on the bus.
LEMMA Places == Ram = 10 /\ Z80 = 2
<1> DEFINE R == {i \in 1 .. Len(Devices) : Devices[i].name = "M68kRam"}
           Z == {i \in 1 .. Len(Devices) : Devices[i].name = "Z80Ram"}
<1>1. R = {10} /\ Z = {2}
  BY SMT, DeviceTypes, DeviceCount
<1>2. Ram = Min(R) /\ Z80 = Min(Z)
  BY <1>1 DEF Ram, Z80, MemoryOf, SelectInSeq
<1>3. Min({10}) = 10 /\ Min({2}) = 2
  BY DEF Min
<1> QED BY <1>1, <1>2, <1>3

-----------------------------------------------------------------------------
(* Memories.                                                               *)

Byte == 0 .. 255

Memories == UNION {[S -> Byte] : S \in SUBSET Nat}

\* Cells that the device at a place has.
Fit(cells, k) == cells \in Memories /\ \A o \in DOMAIN cells : o < Capacity(Devices[k])

DeviceStates ==
  [mem : [DOMAIN Devices -> Memories], bus : {0, 256}, step : [0 .. 2 -> {1, 2}],
   ctrl : [0 .. 2 -> Byte], ym2612 : Seq(Nat), psg : Seq(Nat)]

Fitting(d) == d \in DeviceStates /\ \A k \in DOMAIN Devices : Fit(d.mem[k], k)

MemoryNames == {"M68kRam", "Stub", "Z80Ram"}

Data == {data \in Seq(Byte) : Len(data) \in {1, 2, 4}}

\* The elements of a sequence.
LEMMA SeqElements ==
  ASSUME NEW S, NEW s \in Seq(S)
  PROVE  Len(s) \in Nat /\ DOMAIN s = 1 .. Len(s) /\ \A i \in 1 .. Len(s) : s[i] \in S
OBVIOUS

\* A memory is a function from some offsets to bytes.
LEMMA MemoryIs ==
  ASSUME NEW f
  PROVE  f \in Memories <=> f \in [DOMAIN f -> Byte] /\ DOMAIN f \subseteq Nat
BY DEF Memories

\* The capacity and the range of a device are numbers.
LEMMA Capacities ==
  ASSUME NEW k \in DOMAIN Devices
  PROVE  Capacity(Devices[k]) \in Int /\ Devices[k].begin \in Nat /\ Devices[k].end \in Nat
BY DeviceTypes DEF Capacity, kRamSize, Types

\* A memory has no more cells than its range has addresses.
LEMMA CapacityInRange ==
  ASSUME NEW k \in DOMAIN Devices, Devices[k].name \in MemoryNames
  PROVE  Capacity(Devices[k]) <= Devices[k].end - Devices[k].begin + 1
<1>1. CASE k = 2
  BY SMT, <1>1, DeviceList DEF Device, Capacity, kRamSize
<1>2. CASE k # 2
  <2>1. Devices[k].name # "Z80Ram"
    BY <1>2, DeviceTypes
  <2> QED BY <2>1, Capacities DEF Capacity
<1> QED BY <1>1, <1>2

\* A store changes the cells of the bytes it writes, as far as the device has them.
LEMMA StoredIs ==
  ASSUME NEW cells \in Memories, NEW offset \in Nat, NEW data \in Data, NEW n \in Int
  PROVE  LET new == Stored(cells, offset, data, n)
         IN  /\ new \in Memories
             /\ \A o \in DOMAIN new : o \in DOMAIN cells \/ o < n
             /\ \A o \in Nat : o < n =>
                  Cell(new, o) = IF o \in offset .. offset + Len(data) - 1
                                 THEN data[o - offset + 1] ELSE Cell(cells, o)
<1> DEFINE within == {o \in offset .. offset + Len(data) - 1 : o < n}
           new == Stored(cells, offset, data, n)
<1>1. new = [o \in DOMAIN cells \cup within |->
               IF o \in within THEN data[o - offset + 1] ELSE cells[o]]
  BY DEF Stored
<1>2. /\ cells \in [DOMAIN cells -> Byte] /\ DOMAIN cells \subseteq Nat
      /\ Len(data) \in Nat /\ DOMAIN data = 1 .. Len(data)
      /\ \A i \in 1 .. Len(data) : data[i] \in Byte
  BY MemoryIs, SeqElements DEF Data
<1>3. within \subseteq Nat /\ \A o \in within : o - offset + 1 \in 1 .. Len(data)
  BY <1>2
<1> HIDE DEF new
<1>4. DOMAIN new = DOMAIN cells \cup within
  BY <1>1
<1>5. new \in [DOMAIN new -> Byte] /\ DOMAIN new \subseteq Nat
  BY <1>1, <1>2, <1>3
<1>6. \A o \in Nat : o < n /\ o \in offset .. offset + Len(data) - 1 => o \in within
  OBVIOUS
<1>7. \A o \in Nat : o < n =>
        Cell(new, o) = IF o \in offset .. offset + Len(data) - 1
                       THEN data[o - offset + 1] ELSE Cell(cells, o)
  BY <1>1, <1>4, <1>6 DEF Cell
<1>8. new \in Memories
  BY <1>5, MemoryIs
<1> QED BY <1>4, <1>7, <1>8 DEF new

\* What a write does, by the device that gets it.
Does(d, addr, k, data, r) ==
  /\ r.status \in {"ok", "error", "undefined"}
  /\ k = 0 => r.dev = d /\ r.status = "error"
  /\ k \in DOMAIN Devices =>
       LET name == Devices[k].name
       IN  /\ name \in MemoryNames =>
                \/ r.status = "undefined" /\ r.dev = d
                \/ r.status = "ok" /\ r.dev = WriteCells(d, k, addr, data)
           /\ name = "Controller" => r.dev = WriteController(d, addr, data)
           /\ name = "Z80Controller" => r.dev \in {d, [d EXCEPT !.bus = 0], [d EXCEPT !.bus = 256]}
           /\ name = "Ym2612" => r.dev = [d EXCEPT !.ym2612 = <<addr - Devices[k].begin, data[1]>>]
           /\ name = "Psg" => r.dev = [d EXCEPT !.psg = <<0, data[1]>>]
           /\ name \in {"Rom", "Vdp", "Trademark", "SramAccessRegister"} => r.dev = d
           /\ r.status = "undefined" => name \in MemoryNames

\* What a write does, by the device that the bus finds.
LEMMA WriteCases ==
  ASSUME NEW d, NEW address \in Nat, NEW data \in Data
  PROVE  LET addr == address % kAddressMask
         IN  Does(d, addr, find_by_addr(addr), data, write(d, address, data))
<1> DEFINE addr == address % kAddressMask
           k == find_by_addr(addr)
           name == Devices[k].name
           r == write(d, address, data)
<1>1. r = IF k = 0 THEN [status |-> "error", dev |-> d]
          ELSE CASE name \in MemoryNames ->
                      IF Overruns(Devices[k], addr, Len(data)) THEN [status |-> "undefined", dev |-> d]
                      ELSE [status |-> "ok", dev |-> WriteCells(d, k, addr, data)]
                 [] name = "Controller" -> [status |-> "ok", dev |-> WriteController(d, addr, data)]
                 [] name = "Z80Controller" ->
                      IF Z80Answers(addr, Len(data))
                      THEN [status |-> "ok", dev |-> WriteZ80Controller(d, addr, data)]
                      ELSE [status |-> "error", dev |-> d]
                 [] name = "Trademark" -> [status |-> IF data = Trademark THEN "ok" ELSE "error", dev |-> d]
                 [] name = "SramAccessRegister" -> [status |-> IF Len(data) = 1 THEN "ok" ELSE "error", dev |-> d]
                 [] name = "Ym2612" -> [status |-> "ok", dev |-> [d EXCEPT !.ym2612 = <<addr - Devices[k].begin, data[1]>>]]
                 [] name = "Psg" -> [status |-> "ok", dev |-> [d EXCEPT !.psg = <<0, data[1]>>]]
                 [] name \in {"Rom", "Vdp"} -> [status |-> "ok", dev |-> d]
  BY DEF write, MemoryNames
<1>2. WriteZ80Controller(d, addr, data) \in {d, [d EXCEPT !.bus = 0], [d EXCEPT !.bus = 256]}
  BY SMT DEF WriteZ80Controller
<1>3. k = 0 \/ k \in DOMAIN Devices
  BY Finds
<1> SUFFICES Does(d, addr, k, data, r)
  OBVIOUS
<1> HIDE DEF r, k, addr
<1>4. CASE k = 0
  <2>1. k \notin DOMAIN Devices
    BY <1>4, DeviceCount
  <2> QED BY <1>1, <1>4, <2>1 DEF Does
<1>5. CASE k # 0
  <2>1. name \in Names
    BY <1>3, <1>5, DeviceTypes DEF Types
  <2>2. CASE name \in MemoryNames
    BY <1>1, <1>3, <1>5, <2>2 DEF Does, MemoryNames
  <2>3. CASE name \in {"Controller", "Z80Controller"}
    BY <1>1, <1>2, <1>3, <1>5, <2>3 DEF Does, MemoryNames
  <2>4. CASE name \in {"Ym2612", "Psg"}
    BY <1>1, <1>3, <1>5, <2>4 DEF Does, MemoryNames
  <2>5. CASE name \in {"Rom", "Vdp", "Trademark", "SramAccessRegister"}
    BY <1>1, <1>3, <1>5, <2>5 DEF Does, MemoryNames
  <2> QED BY <2>1, <2>2, <2>3, <2>4, <2>5 DEF Names, MemoryNames
<1> QED BY <1>4, <1>5

\* The mask of the bus leaves 24 bits.
LEMMA Masked ==
  ASSUME NEW address \in Nat
  PROVE  address % kAddressMask \in 0 .. kAddressMask - 1
<1>1. kAddressMask \in Nat /\ kAddressMask > 0
  BY SMT DEF kAddressMask
<1>2. \A m \in Nat : m > 0 => address % m \in 0 .. m - 1
  BY SMT
<1> QED BY <1>1, <1>2

\* A write to the controllers touches no memory.
LEMMA ControllerTypes ==
  ASSUME NEW d \in DeviceStates, NEW addr \in Nat, NEW data \in Data
  PROVE  LET new == WriteController(d, addr, data)
         IN  new \in DeviceStates /\ new.mem = d.mem
<1>1. d.step \in [0 .. 2 -> {1, 2}] /\ d.ctrl \in [0 .. 2 -> Byte]
  BY DEF DeviceStates
<1>2. StepsAfter(d, addr, data) \in [0 .. 2 -> {1, 2}]
  BY SMT, <1>1 DEF StepsAfter
<1>3. \A i \in DOMAIN data : data[i] \in Byte
  BY SeqElements DEF Data
<1>4. CtrlAfter(d, addr, data) \in [0 .. 2 -> Byte]
  BY SMT, <1>1, <1>3 DEF CtrlAfter
<1> QED BY <1>2, <1>4 DEF WriteController, DeviceStates

\* A write keeps the devices in their types and changes one memory at most.
LEMMA WriteTypes ==
  ASSUME NEW d, Fitting(d), NEW address \in Nat, NEW data \in Data,
         NEW addr, addr = address % kAddressMask, NEW k, k = find_by_addr(addr),
         NEW r, r = write(d, address, data)
  PROVE  /\ Fitting(r.dev)
         /\ r.status \in {"ok", "error", "undefined"}
         /\ r.status = "undefined" => r.dev = d
         /\ IF k \in DOMAIN Devices /\ Devices[k].name \in MemoryNames /\ r.status # "undefined"
            THEN r.dev.mem = [d.mem EXCEPT ![k] =
                                Stored(@, addr - Devices[k].begin, data, Capacity(Devices[k]))]
            ELSE r.dev.mem = d.mem
<1>0. Does(d, addr, k, data, r)
  BY WriteCases
<1>1. addr \in Nat /\ (k = 0 \/ k \in DOMAIN Devices)
  BY Masked, Finds
<1>2. CASE k = 0
  BY <1>2, <1>0, DeviceCount DEF Does
<1>3. CASE k \in DOMAIN Devices
  <2> DEFINE name == Devices[k].name
  <2>1. name \in Names /\ Devices[k].begin \in Nat /\ Devices[k].begin <= addr
    BY <1>1, <1>3, Finds, DeviceTypes DEF Types, range_contains
  <2>2. CASE name \in MemoryNames
    <3>1. CASE r.status = "undefined"
      BY <1>3, <2>2, <3>1, <1>0 DEF Does
    <3>2. CASE r.status # "undefined"
      <4>1. r.dev = WriteCells(d, k, addr, data)
        BY <1>3, <2>2, <3>2, <1>0 DEF Does
      <4> DEFINE new == Stored(d.mem[k], addr - Devices[k].begin, data, Capacity(Devices[k]))
      <4>2. r.dev = [d EXCEPT !.mem = [d.mem EXCEPT ![k] = new]]
        BY <4>1 DEF WriteCells, Fitting, DeviceStates
      <4>3. Fit(new, k)
        <5>1. addr - Devices[k].begin \in Nat /\ Capacity(Devices[k]) \in Int /\ d.mem[k] \in Memories
          BY <1>1, <1>3, <2>1, Capacities DEF Fitting, Fit
        <5>2. new \in Memories /\ \A o \in DOMAIN new : o \in DOMAIN d.mem[k] \/ o < Capacity(Devices[k])
          BY <5>1, StoredIs
        <5> QED BY <1>3, <5>2 DEF Fitting, Fit
      <4> HIDE DEF new
      <4>6. d \in DeviceStates /\ d.mem \in [DOMAIN Devices -> Memories]
        BY DEF Fitting, DeviceStates
      <4>7. [d.mem EXCEPT ![k] = new] \in [DOMAIN Devices -> Memories]
        BY <1>3, <4>3, <4>6 DEF Fit
      <4>4. r.dev \in DeviceStates /\ r.dev.mem = [d.mem EXCEPT ![k] = new]
        BY <4>2, <4>6, <4>7 DEF DeviceStates
      <4>5. \A j \in DOMAIN Devices : Fit(r.dev.mem[j], j)
        BY <1>3, <4>3, <4>4 DEF Fitting, DeviceStates
      <4> QED BY <1>3, <2>2, <3>2, <4>4, <4>5, <1>0 DEF Does, Fitting, new
    <3> QED BY <3>1, <3>2
  <2>3. CASE name \notin MemoryNames
    <3>1. r.dev \in DeviceStates /\ r.dev.mem = d.mem
      <4>5. 1 \in 1 .. Len(data)
        <5>1. Len(data) \in {1, 2, 4}
          BY DEF Data
        <5> QED BY <5>1
      <4>6. data[1] \in Nat /\ addr - Devices[k].begin \in Nat
        <5>1. data[1] \in Byte
          BY <4>5, SeqElements DEF Data
        <5>2. data[1] \in Nat
          BY <5>1 DEF Byte
        <5> QED BY <1>1, <2>1, <5>2
      <4>0. /\ <<addr - Devices[k].begin, data[1]>> \in Seq(Nat) /\ <<0, data[1]>> \in Seq(Nat)
            /\ d \in DeviceStates
        BY <4>6 DEF Fitting
      <4>1. CASE name = "Controller"
        BY <1>1, <1>3, <4>0, <4>1, <1>0, ControllerTypes DEF Does
      <4>2. CASE name = "Z80Controller"
        <5>1. /\ [d EXCEPT !.bus = 0] \in DeviceStates /\ [d EXCEPT !.bus = 0].mem = d.mem
              /\ [d EXCEPT !.bus = 256] \in DeviceStates /\ [d EXCEPT !.bus = 256].mem = d.mem
          BY <4>0 DEF DeviceStates
        <5>2. r.dev = d \/ r.dev = [d EXCEPT !.bus = 0] \/ r.dev = [d EXCEPT !.bus = 256]
          BY <1>3, <4>2, <1>0 DEF Does
        <5> QED BY <4>0, <5>1, <5>2
      <4>3. CASE name \in {"Ym2612", "Psg"}
        <5> DEFINE y == <<addr - Devices[k].begin, data[1]>>
                   p == <<0, data[1]>>
        <5>1. /\ [d EXCEPT !.ym2612 = y] \in DeviceStates /\ [d EXCEPT !.ym2612 = y].mem = d.mem
              /\ [d EXCEPT !.psg = p] \in DeviceStates /\ [d EXCEPT !.psg = p].mem = d.mem
          BY <4>0 DEF DeviceStates
        <5>2. r.dev = [d EXCEPT !.ym2612 = y] \/ r.dev = [d EXCEPT !.psg = p]
          BY <1>3, <4>3, <1>0 DEF Does
        <5> QED BY <5>1, <5>2
      <4>4. CASE name \in {"Rom", "Vdp", "Trademark", "SramAccessRegister"}
        BY <1>3, <4>0, <4>4, <1>0 DEF Does
      <4> QED BY <2>1, <2>3, <4>1, <4>2, <4>3, <4>4 DEF Names, MemoryNames
    <3> QED BY <1>3, <2>3, <3>1, <1>0 DEF Does, Fitting
  <2> QED BY <2>2, <2>3
<1> QED BY <1>1, <1>2, <1>3

-----------------------------------------------------------------------------
(* One memory.                                                             *)

\* The memory indexed by address holds what the devices hold.
Agree(d, memory) ==
  \A a \in Nat : Kept(a) =>
    Cell(d.mem[find_by_addr(a)], a - Devices[find_by_addr(a)].begin) = Cell(memory, a)

\* An address that a memory answers is one of its cells.
LEMMA KeptIn ==
  ASSUME NEW a \in Nat, Kept(a), NEW k, k = find_by_addr(a)
  PROVE  /\ k \in DOMAIN Devices /\ Devices[k].name \in MemoryNames
         /\ range_contains(Devices[k], a)
         /\ a - Devices[k].begin \in Nat /\ a - Devices[k].begin < Capacity(Devices[k])
<1>1. k \in DOMAIN Devices /\ range_contains(Devices[k], a)
  BY Finds DEF Kept
<1>2. Devices[k].begin \in Nat
  BY <1>1, Capacities
<1> QED BY <1>1, <1>2 DEF Kept, MemoryNames, range_contains

\* Intervals moved by the beginning of a device.
LEMMA Shift ==
  ASSUME NEW a \in Int, NEW b \in Int, NEW c \in Int, NEW n \in Int
  PROVE  /\ a - b \in (c - b) .. (c - b) + n - 1 <=> a \in c .. c + n - 1
         /\ (a - b) - (c - b) + 1 = a - c + 1
OBVIOUS

\* A write to the devices is a write to the flat memory.
LEMMA WriteAgrees ==
  ASSUME NEW d, Fitting(d), NEW memory, Agree(d, memory),
         NEW address \in Nat, NEW data \in Data, OneDevice(address % kAddressMask, Len(data)),
         write(d, address, data).status # "undefined"
  PROVE  Agree(write(d, address, data).dev, Written(memory, address % kAddressMask, data))
<1> DEFINE addr == address % kAddressMask
           k == find_by_addr(addr)
           r == write(d, address, data)
           flatter == Written(memory, addr, data)
           window == addr .. addr + Len(data) - 1
<1>1. addr \in Nat /\ (k = 0 \/ k \in DOMAIN Devices)
  BY Masked, Finds
<1>2. /\ d.mem \in [DOMAIN Devices -> Memories] /\ Len(data) \in Nat
      /\ \A a \in window : Kept(a) => find_by_addr(a) = k
      /\ r.status # "undefined"
  BY DEF Fitting, DeviceStates, Data, OneDevice
<1>3. IF k \in DOMAIN Devices /\ Devices[k].name \in MemoryNames
      THEN r.dev.mem = [d.mem EXCEPT ![k] =
                          Stored(@, addr - Devices[k].begin, data, Capacity(Devices[k]))]
      ELSE r.dev.mem = d.mem
  BY <1>2, WriteTypes
<1>4. \A a : Kept(a) => Cell(flatter, a) = IF a \in window THEN data[a - addr + 1] ELSE Cell(memory, a)
  BY DEF Written, Cell
<1> HIDE DEF addr, k, r, flatter
<1> SUFFICES ASSUME NEW a \in Nat, Kept(a), NEW j, j = find_by_addr(a)
             PROVE  Cell(r.dev.mem[j], a - Devices[j].begin) = Cell(flatter, a)
  BY DEF Agree, r, flatter, addr
<1>5. /\ j \in DOMAIN Devices /\ Devices[j].name \in MemoryNames
      /\ a - Devices[j].begin \in Nat /\ a - Devices[j].begin < Capacity(Devices[j])
  BY KeptIn
<1>6. Cell(d.mem[j], a - Devices[j].begin) = Cell(memory, a)
  BY DEF Agree
<1>7. CASE j # k \/ k \notin DOMAIN Devices
  <2>1. a \notin window
    BY <1>2, <1>5, <1>7
  <2>2. r.dev.mem[j] = d.mem[j]
    BY <1>2, <1>3, <1>5, <1>7
  <2> QED BY <1>4, <1>6, <2>1, <2>2
<1>8. CASE j = k /\ k \in DOMAIN Devices
  <2> DEFINE new == Stored(d.mem[k], addr - Devices[k].begin, data, Capacity(Devices[k]))
             o == a - Devices[k].begin
             from == addr - Devices[k].begin
  <2>1. r.dev.mem[j] = new
    BY <1>2, <1>3, <1>5, <1>8
  <2>2. Devices[k].begin \in Nat /\ Devices[k].begin <= addr /\ Capacity(Devices[k]) \in Int
    BY <1>1, <1>8, Finds, Capacities DEF range_contains, k
  <2>3. from \in Nat /\ o \in Nat /\ o < Capacity(Devices[k]) /\ d.mem[k] \in Memories
    BY <1>1, <1>2, <1>5, <1>8, <2>2
  <2>4. Cell(new, o) = IF o \in from .. from + Len(data) - 1 THEN data[o - from + 1] ELSE Cell(d.mem[k], o)
    <3> HIDE DEF from, o
    <3>1. \A x \in Nat : x < Capacity(Devices[k]) =>
            Cell(new, x) = IF x \in from .. from + Len(data) - 1 THEN data[x - from + 1] ELSE Cell(d.mem[k], x)
      <4> DEFINE cells == d.mem[k]
                 n == Capacity(Devices[k])
      <4>1. from \in Nat /\ cells \in Memories /\ n \in Int /\ new = Stored(cells, from, data, n)
        BY <2>2, <2>3 DEF from
      <4> HIDE DEF cells, n
      <4>2. \A x \in Nat : x < n =>
              Cell(Stored(cells, from, data, n), x) =
                IF x \in from .. from + Len(data) - 1 THEN data[x - from + 1] ELSE Cell(cells, x)
        BY <4>1, StoredIs
      <4> QED BY <4>1, <4>2 DEF cells, n
    <3> QED BY <2>3, <3>1
  <2>5. (o \in from .. from + Len(data) - 1 <=> a \in window) /\ o - from + 1 = a - addr + 1
    <3>1. Len(data) \in Nat
      BY <1>2
    <3>2. a \in Int /\ addr \in Int /\ Devices[k].begin \in Int /\ Len(data) \in Int
      BY <1>1, <2>2, <3>1
    <3> HIDE DEF k
    <3> QED BY <1>8, <3>2, Shift
  <2> QED BY <1>4, <1>6, <1>8, <2>1, <2>4, <2>5
<1> QED BY <1>7, <1>8

\* Between the two RAMs and the rest, an address has one owner.
LEMMA Own ==
  ASSUME NEW k \in {2, 10}, NEW a \in Nat, Kept(a)
  PROVE  find_by_addr(a) = k <=> range_contains(Devices[k], a)
<1> DEFINE j == find_by_addr(a)
<1>1. /\ j \in DOMAIN Devices /\ Devices[j].name \in MemoryNames /\ range_contains(Devices[j], a)
      /\ k \in DOMAIN Devices
  BY KeptIn, DeviceCount
<1>2. j \in Nat /\ (j \in {2, 10} \/ j > 10)
  BY <1>1, DeviceTypes DEF MemoryNames
<1>3. range_contains(Devices[k], a) => j <= k
  <2>1. \A i \in 1 .. j - 1 : ~range_contains(Devices[i], a)
    BY <1>1, Finds
  <2> QED BY <1>1, <2>1, DeviceTypes
<1>4. ~(range_contains(Devices[2], a) /\ range_contains(Devices[10], a))
  BY SMT, DeviceList DEF Device, range_contains
<1>5. CASE k = 2
  BY <1>1, <1>2, <1>3, <1>4, <1>5
<1>6. CASE k = 10
  BY <1>1, <1>2, <1>3, <1>4, <1>6
<1> QED BY <1>5, <1>6

\* Replacing a RAM replaces its range of the flat memory.
LEMMA ReplacedAgrees ==
  ASSUME NEW k \in {2, 10}, NEW d, Fitting(d), NEW memory, Agree(d, memory),
         NEW cells, Fit(cells, k), NEW e, e.mem = [d.mem EXCEPT ![k] = cells]
  PROVE  Agree(e, Replaced(memory, Devices[k], cells))
<1> DEFINE begin == Devices[k].begin
           own == {begin + o : o \in DOMAIN cells}
           flatter == Replaced(memory, Devices[k], cells)
<1>1. /\ d.mem \in [DOMAIN Devices -> Memories] /\ k \in DOMAIN Devices
      /\ DOMAIN cells \subseteq Nat /\ begin \in Nat /\ Devices[k].end \in Nat
  <2>1. k \in DOMAIN Devices
    BY DeviceCount
  <2>2. DOMAIN cells \subseteq Nat
    BY MemoryIs DEF Fit
  <2> QED BY <2>1, <2>2, Capacities DEF Fitting, DeviceStates
<1>2. Capacity(Devices[k]) <= Devices[k].end - begin + 1
  <2>1. Capacity(Devices[2]) <= Devices[2].end - Devices[2].begin + 1
    BY SMT, DeviceList DEF Device, Capacity, kRamSize
  <2>2. Capacity(Devices[10]) <= Devices[10].end - Devices[10].begin + 1
    BY SMT, DeviceList DEF Device, Capacity
  <2> QED BY <2>1, <2>2
<1>3. \A a \in own : a \in Nat /\ range_contains(Devices[k], a)
  <2> SUFFICES ASSUME NEW o \in DOMAIN cells
               PROVE  begin + o \in Nat /\ range_contains(Devices[k], begin + o)
    OBVIOUS
  <2>1. o \in Nat /\ o < Capacity(Devices[k]) /\ Capacity(Devices[k]) \in Int
    BY <1>1, Capacities DEF Fit
  <2> QED BY <1>1, <1>2, <2>1 DEF range_contains
<1> SUFFICES ASSUME NEW a \in Nat, Kept(a), NEW j, j = find_by_addr(a)
             PROVE  Cell(e.mem[j], a - Devices[j].begin) = Cell(flatter, a)
  BY DEF Agree
<1>4. j \in DOMAIN Devices /\ (j = k <=> range_contains(Devices[k], a))
  BY KeptIn, Own
<1>5. Cell(d.mem[j], a - Devices[j].begin) = Cell(memory, a)
  BY DEF Agree
<1>6. Cell(flatter, a) = IF a \in own THEN cells[a - begin]
                         ELSE IF range_contains(Devices[k], a) THEN 0 ELSE Cell(memory, a)
  BY DEF Replaced, Cell
<1>7. CASE j = k
  <2>1. a \in own <=> a - begin \in DOMAIN cells
    BY <1>1
  <2>2. e.mem[j] = cells
    BY <1>1, <1>7
  <2> QED BY <1>4, <1>6, <1>7, <2>1, <2>2 DEF Cell
<1>8. CASE j # k
  <2>1. a \notin own /\ ~range_contains(Devices[k], a)
    BY <1>3, <1>4, <1>8
  <2>2. e.mem[j] = d.mem[j]
    BY <1>1, <1>4, <1>8
  <2> QED BY <1>5, <1>6, <2>1, <2>2
<1> QED BY <1>7, <1>8

-----------------------------------------------------------------------------
(* The inductive invariant.                                                *)

Vdps == [ram : [1 .. 2 -> {0, 1}], address : {1, 2}]

\* What a piece of the file restores.
PieceOK(k, p) ==
  /\ k = 1 => p \in {0, 1}
  /\ k = 2 => Fit(p, Ram)
  /\ k = 3 => Fit(p, Z80)
  /\ k = 4 => p \in [1 .. 2 -> {0, 1}]

AnyPiece == {0, 1} \cup Memories \cup [1 .. 2 -> {0, 1}]

TypeOK ==
  /\ session \in Sessions /\ clicks \in 0 .. session.clicks
  /\ Fitting(dev)
  /\ buttons \in session.pads
  /\ registers \in {0, 1} /\ vdp \in Vdps
  /\ outcome \in {"ok", "error", "undefined"}
  /\ run \in {"stopped", "running", "finishing"}
  /\ file \in Seq(AnyPiece) /\ Len(file) <= 4
  /\ \A k \in 1 .. Len(file) : PieceOK(k, file[k])
  /\ saving \in 0 .. 4
  /\ quiet \in BOOLEAN /\ restored \in BOOLEAN

\* A file is written from its first piece, before anything is loaded.
Writing == saving # 0 => saving = Len(file) + 1 /\ ~restored

\* While a save that began quietly lasts, nothing runs.
Undisturbed == saving # 0 /\ quiet => run = "stopped" /\ taken = Pieces

\* The file has the pieces of the instant at which its save began.
OneInstant == quiet => \A k \in 1 .. Len(file) : file[k] = taken[k]

\* Since a load nothing has changed.
Restored == restored => \A k \in Saved : Pieces[k] = IF k <= Len(file) THEN file[k] ELSE before[k]

IInv ==
  /\ TypeOK /\ Agree(dev, flat)
  /\ Writing /\ Undisturbed /\ OneInstant /\ Restored

\* The pieces of a state file, in their order.
LEMMA FourPieces ==
  /\ Len(Pieces) = 4 /\ Saved = 1 .. 4
  /\ Pieces[1] = registers /\ Pieces[2] = dev.mem[Ram]
  /\ Pieces[3] = dev.mem[Z80] /\ Pieces[4] = vdp.ram
BY DEF Pieces, Saved

\* Each piece is of its type.
LEMMA PieceTypes ==
  ASSUME TypeOK
  PROVE  \A k \in 1 .. 4 : PieceOK(k, Pieces[k]) /\ Pieces[k] \in AnyPiece
<1>1. 2 \in DOMAIN Devices /\ 10 \in DOMAIN Devices
  BY DeviceCount
<1>2. Fit(dev.mem[Ram], Ram) /\ Fit(dev.mem[Z80], Z80)
  BY <1>1, Places DEF TypeOK, Fitting
<1>3. registers \in {0, 1} /\ vdp.ram \in [1 .. 2 -> {0, 1}]
  BY DEF TypeOK, Vdps
<1>4. PieceOK(1, Pieces[1]) /\ Pieces[1] \in AnyPiece
  BY <1>3, FourPieces DEF PieceOK, AnyPiece
<1>5. PieceOK(2, Pieces[2]) /\ Pieces[2] \in AnyPiece
  BY <1>2, FourPieces DEF PieceOK, AnyPiece, Fit
<1>6. PieceOK(3, Pieces[3]) /\ Pieces[3] \in AnyPiece
  BY <1>2, FourPieces DEF PieceOK, AnyPiece, Fit
<1>7. PieceOK(4, Pieces[4]) /\ Pieces[4] \in AnyPiece
  BY <1>3, FourPieces DEF PieceOK, AnyPiece
<1>8. \A k \in 1 .. 4 : k = 1 \/ k = 2 \/ k = 3 \/ k = 4
  OBVIOUS
<1> QED BY <1>4, <1>5, <1>6, <1>7, <1>8

\* The empty memory.
LEMMA Empty == <<>> \in Memories /\ DOMAIN <<>> = {}
<1>1. DOMAIN <<>> = {} /\ <<>> \in [{} -> Byte]
  OBVIOUS
<1> QED BY <1>1 DEF Memories

\* The devices of a new process are the empty memory.
LEMMA NewFits == Fitting(NewDevices) /\ Agree(NewDevices, <<>>)
<1>1. NewDevices.mem = [k \in DOMAIN Devices |-> <<>>]
  BY DEF NewDevices
<1>2. NewDevices \in DeviceStates
  <2>1. [k \in DOMAIN Devices |-> <<>>] \in [DOMAIN Devices -> Memories]
    BY Empty
  <2>2. [n \in 0 .. 2 |-> 1] \in [0 .. 2 -> {1, 2}] /\ [n \in 0 .. 2 |-> 0] \in [0 .. 2 -> Byte]
    BY DEF Byte
  <2>3. <<>> \in Seq(Nat) /\ 0 \in {0, 256}
    OBVIOUS
  <2> QED BY <2>1, <2>2, <2>3 DEF NewDevices, DeviceStates
<1>3. \A k \in DOMAIN Devices : Fit(NewDevices.mem[k], k)
  BY <1>1, Empty DEF Fit
<1>4. ASSUME NEW a \in Nat, Kept(a)
      PROVE  NewDevices.mem[find_by_addr(a)] = <<>>
  BY <1>1, <1>4, KeptIn
<1> QED BY <1>2, <1>3, <1>4 DEF Fitting, Agree, Cell

\* The invariant holds at first.
LEMMA InitInductive == Init => IInv
<1> SUFFICES ASSUME Init PROVE IInv
  OBVIOUS
<1>1. Fitting(dev) /\ Agree(dev, flat)
  BY NewFits DEF Init
<1>2. vdp \in Vdps /\ file \in Seq(AnyPiece) /\ Len(file) = 0 /\ session.clicks \in Nat
  <2>1. <<0, 0>> \in [1 .. 2 -> {0, 1}]
    OBVIOUS
  <2> QED BY <2>1, SessionAssumption DEF Init, Vdps, NoFile
<1>3. TypeOK
  <2>1. quiet \in BOOLEAN /\ restored \in BOOLEAN
    BY DEF Init
  <2>2. /\ session \in Sessions /\ clicks \in 0 .. session.clicks /\ buttons \in session.pads
        /\ registers \in {0, 1} /\ outcome = "ok" /\ run = "stopped" /\ saving = 0
    BY <1>2 DEF Init
  <2>3. \A k \in 1 .. Len(file) : PieceOK(k, file[k])
    BY <1>2
  <2> QED BY <1>1, <1>2, <2>1, <2>2, <2>3 DEF TypeOK
<1>4. Writing /\ Undisturbed /\ OneInstant /\ Restored
  BY DEF Init, Writing, Undisturbed, OneInstant, Restored
<1> QED BY <1>1, <1>3, <1>4 DEF IInv

-----------------------------------------------------------------------------
(* Steps of the emulation thread.                                          *)

\* After a change that is not the user's.
LEMMA ThreadStep ==
  ASSUME IInv, Executing, Changes, TypeOK', Agree(dev, flat)',
         UNCHANGED <<run, file, saving, taken, quiet>>
  PROVE  IInv'
<1>1. Writing'
  BY DEF IInv, Writing, Changes
<1>2. Undisturbed'
  BY DEF IInv, Undisturbed, Executing
<1>3. OneInstant'
  BY DEF IInv, OneInstant
<1>4. Restored'
  BY DEF Restored, Changes
<1> QED BY <1>1, <1>2, <1>3, <1>4 DEF IInv

\* What the constants say of a write of the session.
LEMMA Writes ==
  ASSUME NEW w \in session.writes, TypeOK
  PROVE  w.addr \in Nat /\ w.data \in Data /\ OneDevice(w.addr % kAddressMask, Len(w.data))
BY SessionAssumption, OneDeviceAssumption DEF TypeOK, Data, Byte

\* The program writes to the bus.
LEMMA WriteBusStep == IInv /\ WriteBus => IInv'
<1> SUFFICES ASSUME IInv, WriteBus PROVE IInv'
  OBVIOUS
<1>1. PICK w \in session.writes :
        LET r == write(dev, w.addr, w.data)
        IN  /\ dev' = r.dev /\ outcome' = r.status
            /\ flat' = IF r.status = "undefined" THEN flat
                       ELSE Written(flat, w.addr % kAddressMask, w.data)
  BY DEF WriteBus
<1>2. /\ w.addr \in Nat /\ w.data \in Data /\ OneDevice(w.addr % kAddressMask, Len(w.data))
      /\ Fitting(dev) /\ Agree(dev, flat)
  BY Writes DEF IInv, TypeOK
<1>3. /\ Fitting(dev') /\ outcome' \in {"ok", "error", "undefined"}
      /\ outcome' # "undefined" \/ dev' = dev
  <2> DEFINE r == write(dev, w.addr, w.data)
  <2>1. Fitting(r.dev) /\ r.status \in {"ok", "error", "undefined"} /\ (r.status # "undefined" \/ r.dev = dev)
    <3>2. Fitting(r.dev)
      BY <1>2, WriteTypes
    <3>3. r.status \in {"ok", "error", "undefined"}
      BY <1>2, WriteTypes
    <3>4. ASSUME r.status = "undefined" PROVE r.dev = dev
      <4> DEFINE k == find_by_addr(w.addr % kAddressMask)
      <4>1. Does(dev, w.addr % kAddressMask, k, w.data, r)
        BY <1>2, WriteCases
      <4>2. k = 0 \/ k \in DOMAIN Devices
        BY Finds
      <4> HIDE DEF r, k
      <4> QED BY <3>4, <4>1, <4>2 DEF Does, WriteCells
    <3> QED BY <3>2, <3>3, <3>4
  <2> QED BY <1>1, <2>1
<1>4. Agree(dev', flat')
  BY <1>1, <1>2, <1>3, WriteAgrees
<1>5. UNCHANGED <<session, clicks, buttons, registers, vdp, run, file, saving, taken, quiet>>
  BY DEF WriteBus
<1>6. TypeOK'
  BY <1>3, <1>5 DEF IInv, TypeOK, WriteBus, Changes
<1> QED BY <1>4, <1>5, <1>6, ThreadStep DEF WriteBus

\* The program changes its registers.
LEMMA ComputeStep == IInv /\ Compute => IInv'
<1> SUFFICES ASSUME IInv, Compute PROVE IInv'
  OBVIOUS
<1>1. registers' \in {0, 1}
  BY DEF IInv, TypeOK, Compute
<1>2. TypeOK' /\ Agree(dev, flat)'
  BY <1>1 DEF IInv, TypeOK, Compute, Changes
<1> QED BY <1>2, ThreadStep DEF Compute

\* The program changes the RAM of the VDP.
LEMMA WriteVdpStep == IInv /\ WriteVdp => IInv'
<1> SUFFICES ASSUME IInv, WriteVdp PROVE IInv'
  OBVIOUS
<1>1. vdp' \in Vdps
  <2>1. vdp \in Vdps
    BY DEF IInv, TypeOK
  <2>2. 3 - vdp.address \in {1, 2} /\ 1 - vdp.ram[vdp.address] \in {0, 1}
    BY <2>1 DEF Vdps
  <2>3. CASE vdp' = [vdp EXCEPT !.address = 3 - vdp.address]
    BY <2>1, <2>2, <2>3 DEF Vdps
  <2>4. CASE vdp' = [vdp EXCEPT !.ram = [vdp.ram EXCEPT ![vdp.address] = 1 - vdp.ram[vdp.address]],
                                !.address = 3 - vdp.address]
    <3>1. [vdp.ram EXCEPT ![vdp.address] = 1 - vdp.ram[vdp.address]] \in [1 .. 2 -> {0, 1}]
      BY <2>1, <2>2 DEF Vdps
    <3> QED BY <2>1, <2>2, <2>4, <3>1 DEF Vdps
  <2> QED BY <2>1, <2>3, <2>4 DEF WriteVdp, Vdps
<1>2. TypeOK' /\ Agree(dev, flat)'
  BY <1>1 DEF IInv, TypeOK, WriteVdp, Changes
<1> QED BY <1>2, ThreadStep DEF WriteVdp

\* Steps that change neither the machine nor the file.
LEMMA QuietStep ==
  ASSUME IInv, TypeOK', UNCHANGED <<machine, file, saving, ghosts>>,
         saving = 0 \/ UNCHANGED run \/ run' = "stopped"
  PROVE  IInv'
<1>1. Agree(dev, flat)'
  BY DEF IInv, machine, ghosts
<1>2. Pieces' = Pieces /\ Saved' = Saved
  BY DEF Pieces, Saved, machine
<1>3. Writing' /\ OneInstant'
  BY DEF IInv, Writing, OneInstant, ghosts
<1>4. Undisturbed'
  BY <1>2 DEF IInv, Undisturbed, ghosts
<1>5. Restored'
  BY <1>2 DEF IInv, Restored, ghosts
<1> QED BY <1>1, <1>3, <1>4, <1>5 DEF IInv

\* The run ends, a button is pressed, or a run is started or paused.
LEMMA QuietSteps == IInv /\ (Finish \/ set_button \/ RunForever \/ Pause \/ UNCHANGED vars) => IInv'
<1> SUFFICES ASSUME IInv, Finish \/ set_button \/ RunForever \/ Pause \/ UNCHANGED vars PROVE IInv'
  OBVIOUS
<1>1. CASE Finish
  <2>1. TypeOK'
    BY <1>1 DEF IInv, TypeOK, Finish, machine, ghosts
  <2> QED BY <1>1, <2>1, QuietStep DEF Finish
<1>2. CASE set_button
  <2>1. TypeOK'
    BY <1>2 DEF IInv, TypeOK, set_button, machine, ghosts
  <2> QED BY <1>2, <2>1, QuietStep DEF set_button
<1>3. CASE RunForever \/ Pause
  <2>1. clicks' \in 0 .. session.clicks /\ run' \in {"running", "finishing"}
    BY <1>3, SessionAssumption DEF IInv, TypeOK, RunForever, Pause, Click, ClearCondition
  <2>2. saving = 0 /\ UNCHANGED <<session, machine, buttons, file, saving, ghosts>>
    BY <1>3 DEF RunForever, Pause, Click
  <2>3. TypeOK'
    BY <2>1, <2>2 DEF IInv, TypeOK, machine, ghosts
  <2> QED BY <2>2, <2>3, QuietStep
<1>4. CASE UNCHANGED vars
  <2>1. TypeOK'
    BY <1>4 DEF IInv, TypeOK, vars
  <2> QED BY <1>4, <2>1, QuietStep DEF vars, machine, ghosts
<1> QED BY <1>1, <1>2, <1>3, <1>4

-----------------------------------------------------------------------------
(* Steps of the user.                                                      *)

\* One click more.
LEMMA Clicks ==
  ASSUME TypeOK, clicks < session.clicks, clicks' = clicks + 1, UNCHANGED session
  PROVE  clicks' \in 0 .. session'.clicks
<1>1. session.clicks \in Nat
  BY SessionAssumption DEF TypeOK
<1> QED BY <1>1 DEF TypeOK

\* Clearing the condition never makes a stopped machine run.
LEMMA Clears ==
  ASSUME TypeOK, ClearCondition
  PROVE  run' \in {"stopped", "running", "finishing"} /\ (run = "stopped" => run' = "stopped")
BY DEF TypeOK, ClearCondition

\* The devices with other cells in one memory.
LEMMA ReplacedFits ==
  ASSUME NEW k \in {2, 10}, NEW d, Fitting(d), NEW cells, Fit(cells, k)
  PROVE  LET e == [d EXCEPT !.mem = [d.mem EXCEPT ![k] = cells]]
         IN  Fitting(e) /\ e.mem = [d.mem EXCEPT ![k] = cells]
<1>1. k \in DOMAIN Devices /\ d \in DeviceStates /\ d.mem \in [DOMAIN Devices -> Memories]
  BY DeviceCount DEF Fitting, DeviceStates
<1>2. [d.mem EXCEPT ![k] = cells] \in [DOMAIN Devices -> Memories]
  BY <1>1 DEF Fit
<1>3. \A j \in DOMAIN Devices : Fit([d.mem EXCEPT ![k] = cells][j], j)
  BY <1>1 DEF Fitting
<1> QED BY <1>1, <1>2, <1>3 DEF Fitting, DeviceStates

\* Reset clears the machine.
LEMMA ReloadStep == IInv /\ Reload => IInv'
<1> SUFFICES ASSUME IInv, Reload PROVE IInv'
  OBVIOUS
<1>1. Fit(<<>>, 10)
  BY Empty DEF Fit
<1>2. Fitting(dev) /\ dev \in DeviceStates /\ Agree(dev, flat)
  BY DEF IInv, TypeOK, Fitting
<1>3. dev' = [dev EXCEPT !.mem = [dev.mem EXCEPT ![10] = <<>>]]
  BY <1>2, Places DEF Reload, DeviceStates
<1>4. Fitting(dev') /\ dev'.mem = [dev.mem EXCEPT ![10] = <<>>]
  BY <1>1, <1>2, <1>3, ReplacedFits
<1>5. Agree(dev', flat')
  BY <1>1, <1>2, <1>4, Places, ReplacedAgrees DEF Reload
<1>6. clicks' \in 0 .. session'.clicks /\ run' \in {"stopped", "running", "finishing"}
  BY Clicks, Clears DEF IInv, Reload, Click
<1>7. TypeOK'
  BY <1>4, <1>6 DEF IInv, TypeOK, Reload, Changes
<1>8. Writing' /\ Undisturbed' /\ OneInstant' /\ Restored'
  BY DEF IInv, OneInstant, Reload, Click, Changes, Writing, Undisturbed, Restored
<1> QED BY <1>5, <1>7, <1>8 DEF IInv

\* A save begins.
LEMMA SaveOpenStep == IInv /\ SaveOpen => IInv'
<1> SUFFICES ASSUME IInv, SaveOpen PROVE IInv'
  OBVIOUS
<1>1. /\ file' = <<>> /\ saving' = 1 /\ restored' = FALSE
      /\ UNCHANGED <<session, buttons, dev, registers, vdp, outcome, flat>>
  BY DEF SaveOpen, Truncated, NoFile, Changes, machine
<1>2. clicks' \in 0 .. session'.clicks /\ run' \in {"stopped", "running", "finishing"}
      /\ (run = "stopped" => run' = "stopped")
  BY Clicks, Clears DEF IInv, SaveOpen, Click
<1>3. <<>> \in Seq(AnyPiece) /\ Len(<<>>) = 0
  OBVIOUS
<1>4. quiet' \in BOOLEAN
  BY DEF SaveOpen
<1>5. TypeOK'
  <2>1. \A k \in 1 .. Len(file') : PieceOK(k, file'[k])
    BY <1>1, <1>3
  <2>2. /\ file' \in Seq(AnyPiece) /\ Len(file') <= 4 /\ saving' \in 0 .. 4
    BY <1>1, <1>3
  <2>3. restored' \in BOOLEAN
    BY <1>1
  <2> QED BY <1>1, <1>2, <1>4, <2>1, <2>2, <2>3 DEF IInv, TypeOK
<1>6. Agree(dev, flat)' /\ Pieces' = Pieces
  BY <1>1 DEF IInv, Pieces
<1>7. Undisturbed'
  BY <1>2, <1>6 DEF Undisturbed, SaveOpen
<1>8. Writing' /\ OneInstant' /\ Restored'
  BY <1>1, <1>3 DEF Writing, OneInstant, Restored
<1> QED BY <1>5, <1>6, <1>7, <1>8 DEF IInv

\* A save writes its next piece.
LEMMA SavePieceStep == IInv /\ SavePiece => IInv'
<1> SUFFICES ASSUME IInv, SavePiece PROVE IInv'
  OBVIOUS
<1>1. /\ saving = Len(file) + 1 /\ ~restored /\ saving \in 1 .. 4 /\ Len(file) \in 0 .. 3
      /\ file \in Seq(AnyPiece)
  <2>1. saving \in 1 .. 4 /\ file \in Seq(AnyPiece) /\ Len(file) \in Nat
    BY DEF IInv, TypeOK, SavePiece
  <2>2. saving = Len(file) + 1
    BY <2>1 DEF IInv, Writing
  <2>3. ~restored
    BY <2>1 DEF IInv, Writing
  <2>4. Len(file) \in 0 .. 3
    <3> DEFINE n == Len(file)
    <3>1. n \in Nat /\ saving = n + 1 /\ saving \in 1 .. 4
      BY <2>1, <2>2
    <3> HIDE DEF n
    <3>2. n \in 0 .. 3
      BY <3>1
    <3> QED BY <3>2 DEF n
  <2> QED BY <2>1, <2>2, <2>3, <2>4
<1>2. Pieces[saving] \in AnyPiece /\ PieceOK(saving, Pieces[saving])
  BY <1>1, PieceTypes DEF IInv
<1>3. file' = Append(file, Pieces[saving])
  BY <1>1 DEF SavePiece
<1>4. /\ file' \in Seq(AnyPiece) /\ Len(file') = saving
      /\ \A k \in 1 .. Len(file') :
           file'[k] = IF k = saving THEN Pieces[saving] ELSE file[k]
      /\ \A k \in 1 .. Len(file') : k = saving \/ k \in 1 .. Len(file)
  <2> DEFINE p == Pieces[saving]
  <2> HIDE DEF p
  <2>1. p \in AnyPiece /\ file' = Append(file, p)
    BY <1>2, <1>3 DEF p
  <2>2. /\ file' \in Seq(AnyPiece) /\ Len(file') = Len(file) + 1
        /\ \A k \in 1 .. Len(file) : file'[k] = file[k]
        /\ file'[Len(file) + 1] = p
    BY <1>1, <2>1
  <2> QED BY <1>1, <2>2 DEF p
<1>5. saving' = IF saving = 4 THEN 0 ELSE saving + 1
  BY FourPieces DEF SavePiece
<1>6. UNCHANGED <<session, clicks, dev, registers, vdp, outcome, buttons, run, flat, taken, quiet, restored, before>>
  BY DEF SavePiece, machine, ghosts
<1>7. Agree(dev, flat)' /\ Pieces' = Pieces
  BY <1>6 DEF IInv, Pieces
<1>8. TypeOK'
  <2>1. \A k \in 1 .. Len(file') : PieceOK(k, file'[k])
    BY <1>2, <1>4 DEF IInv, TypeOK
  <2>3. saving' \in 0 .. 4 /\ Len(file') <= 4
    BY <1>1, <1>4, <1>5
  <2> QED BY <1>4, <1>6, <2>1, <2>3 DEF IInv, TypeOK
<1>9. Writing' /\ Restored'
  BY <1>1, <1>4, <1>5, <1>6 DEF Writing, Restored
<1>10. Undisturbed'
  BY <1>1, <1>6, <1>7 DEF IInv, Undisturbed
<1>11. OneInstant'
  <2> SUFFICES ASSUME quiet, NEW k \in 1 .. Len(file') PROVE file'[k] = taken[k]
    BY <1>6 DEF OneInstant
  <2>1. taken = Pieces
    BY <1>1 DEF IInv, Undisturbed
  <2> QED BY <1>4, <2>1 DEF IInv, OneInstant
<1> QED BY <1>7, <1>8, <1>9, <1>10, <1>11 DEF IInv

\* A save stops before its last piece.
LEMMA SaveFailsStep == IInv /\ SaveFails => IInv'
<1> SUFFICES ASSUME IInv, SaveFails PROVE IInv'
  OBVIOUS
<1>1. saving' = 0 /\ UNCHANGED <<session, clicks, dev, registers, vdp, outcome, buttons, run, file,
                                 flat, taken, quiet, restored, before>>
  BY DEF SaveFails, machine, ghosts
<1>2. Agree(dev, flat)' /\ Pieces' = Pieces /\ Saved' = Saved
  BY <1>1 DEF IInv, Pieces, Saved
<1>3. TypeOK'
  BY <1>1 DEF IInv, TypeOK
<1>4. Writing' /\ Undisturbed' /\ OneInstant' /\ Restored'
  BY <1>1, <1>2 DEF IInv, Writing, Undisturbed, OneInstant, Restored
<1> QED BY <1>2, <1>3, <1>4 DEF IInv

\* A load applies the pieces that the file has.
LEMMA LoadStep == IInv /\ Load => IInv'
<1> SUFFICES ASSUME IInv, Load PROVE IInv'
  OBVIOUS
<1> DEFINE piece(k) == IF k <= Len(file) THEN file[k] ELSE Pieces[k]
           half == [dev EXCEPT !.mem = [dev.mem EXCEPT ![10] = piece(2)]]
           memory == Replaced(flat, Devices[10], piece(2))
<1>1. /\ Fitting(dev) /\ Agree(dev, flat) /\ dev \in DeviceStates
      /\ dev.mem \in [DOMAIN Devices -> Memories]
      /\ 10 \in DOMAIN Devices /\ 2 \in DOMAIN Devices
  BY DeviceCount DEF IInv, TypeOK, Fitting, DeviceStates
<1>2. \A k \in 1 .. 4 : PieceOK(k, piece(k))
  <2> SUFFICES ASSUME NEW k \in 1 .. 4 PROVE PieceOK(k, piece(k))
    OBVIOUS
  <2>1. k <= Len(file) => PieceOK(k, file[k])
    BY DEF IInv, TypeOK
  <2>2. PieceOK(k, Pieces[k])
    BY PieceTypes DEF IInv
  <2> QED BY <2>1, <2>2
<1>3. /\ piece(1) \in {0, 1} /\ Fit(piece(2), 10) /\ Fit(piece(3), 2)
      /\ piece(4) \in [1 .. 2 -> {0, 1}]
  BY <1>2, Places DEF PieceOK
<1>4. /\ registers' = piece(1) /\ vdp' = [vdp EXCEPT !.ram = piece(4)]
      /\ dev' = [dev EXCEPT !.mem = [[dev.mem EXCEPT ![10] = piece(2)] EXCEPT ![2] = piece(3)]]
      /\ flat' = Replaced(memory, Devices[2], piece(3))
      /\ restored' = TRUE /\ before' = Pieces
      /\ saving = 0 /\ UNCHANGED <<session, buttons, outcome, file, saving, taken, quiet>>
  BY Places DEF Load, Click
<1> HIDE DEF piece
<1>5. Fitting(half) /\ half.mem = [dev.mem EXCEPT ![10] = piece(2)]
  BY <1>1, <1>3, ReplacedFits
<1>6. Agree(half, memory)
  BY <1>1, <1>3, <1>5, ReplacedAgrees
<1>7. dev' = [half EXCEPT !.mem = [half.mem EXCEPT ![2] = piece(3)]]
  BY <1>1, <1>4, <1>5 DEF DeviceStates
<1> HIDE DEF half, memory
<1>8. Fitting(dev') /\ dev'.mem = [half.mem EXCEPT ![2] = piece(3)]
  BY <1>3, <1>5, <1>7, ReplacedFits
<1>9. Agree(dev', flat')
  BY <1>3, <1>4, <1>5, <1>6, <1>8, ReplacedAgrees
<1>10. vdp \in Vdps /\ vdp' \in Vdps /\ vdp'.ram = piece(4)
  BY <1>3, <1>4 DEF IInv, TypeOK, Vdps
<1>11. clicks' \in 0 .. session'.clicks /\ run' \in {"stopped", "running", "finishing"}
  BY Clicks, Clears DEF IInv, Load, Click
<1>12. TypeOK'
  <2>1. restored' \in BOOLEAN /\ registers' \in {0, 1}
    BY <1>3, <1>4
  <2> QED BY <1>4, <1>8, <1>10, <1>11, <2>1 DEF IInv, TypeOK
<1>13. Writing' /\ Undisturbed' /\ OneInstant'
  BY <1>4 DEF IInv, Writing, Undisturbed, OneInstant
<1>14. Restored'
  <2>1. dev'.mem[10] = piece(2) /\ dev'.mem[2] = piece(3)
    BY <1>1, <1>5, <1>8
  <2>2. Pieces' = <<piece(1), piece(2), piece(3), piece(4)>>
    BY <1>4, <1>10, <2>1, Places DEF Pieces
  <2>3. Saved' = 1 .. 4
    BY <2>2 DEF Saved
  <2>4. \A k \in 1 .. 4 : Pieces'[k] = piece(k)
    <3>1. \A k \in 1 .. 4 : k = 1 \/ k = 2 \/ k = 3 \/ k = 4
      OBVIOUS
    <3> QED BY <2>2, <3>1
  <2> QED BY <1>4, <2>3, <2>4 DEF Restored, piece
<1> QED BY <1>9, <1>12, <1>13, <1>14 DEF IInv

\* The process dies and starts again.
LEMMA CrashStep == IInv /\ Crash => IInv'
<1> SUFFICES ASSUME IInv, Crash PROVE IInv'
  OBVIOUS
<1>1. /\ saving' = 0 /\ run' = "stopped" /\ dev' = NewDevices /\ registers' = 0 /\ outcome' = "ok"
      /\ vdp' = [ram |-> <<0, 0>>, address |-> 1] /\ flat' = <<>> /\ restored' = FALSE
      /\ UNCHANGED <<session, buttons, taken, quiet>>
  BY DEF Crash, Changes
<1>2. PICK n \in 0 .. Len(file) : file' = SubSeq(file, 1, n)
  <2>1. file \in Seq(AnyPiece) /\ Len(file) \in Nat
    BY DEF IInv, TypeOK
  <2>2. file = SubSeq(file, 1, Len(file)) /\ Len(file) \in 0 .. Len(file)
    BY <2>1
  <2> QED BY <2>2 DEF Crash
<1>3. /\ file' \in Seq(AnyPiece) /\ Len(file') \in 0 .. Len(file)
      /\ \A k \in 1 .. Len(file') : k \in 1 .. Len(file) /\ file'[k] = file[k]
  BY <1>2 DEF IInv, TypeOK
<1>4. Fitting(dev') /\ Agree(dev', flat')
  BY <1>1, NewFits
<1>5. clicks' \in 0 .. session'.clicks
  BY Clicks DEF IInv, Crash
<1>6. vdp' \in Vdps
  <2>1. <<0, 0>> \in [1 .. 2 -> {0, 1}]
    OBVIOUS
  <2> QED BY <1>1, <2>1 DEF Vdps
<1>7. TypeOK'
  <2>1. restored' \in BOOLEAN /\ registers' \in {0, 1} /\ run' = "stopped" /\ saving' = 0
    BY <1>1
  <2>2. Len(file') <= 4
    BY <1>3 DEF IInv, TypeOK
  <2>3. \A k \in 1 .. Len(file') : PieceOK(k, file'[k])
    BY <1>3 DEF IInv, TypeOK
  <2> QED BY <1>1, <1>3, <1>4, <1>5, <1>6, <2>1, <2>2, <2>3 DEF IInv, TypeOK
<1>8. Writing' /\ Undisturbed' /\ Restored'
  BY <1>1 DEF Writing, Undisturbed, Restored
<1>9. OneInstant'
  BY <1>1, <1>3 DEF IInv, OneInstant
<1> QED BY <1>4, <1>7, <1>8, <1>9 DEF IInv

\* Every step keeps the invariant.
LEMMA InductiveStep == IInv /\ [Next]_vars => IInv'
BY WriteBusStep, ComputeStep, WriteVdpStep, QuietSteps, ReloadStep, SaveOpenStep, SavePieceStep,
   SaveFailsStep, LoadStep, CrashStep DEF Next

-----------------------------------------------------------------------------
(* Theorems.                                                               *)

\* The inductive invariant holds in every reachable state.
THEOREM Invariance == Spec => []IInv
BY InitInductive, InductiveStep, PTL DEF Spec

\* A load brings back the pieces of the one instant at which Save was clicked,
\* whatever the program does, however the save ends and however often the process
\* dies, if the emulation thread had stopped by then (state_dump.cpp:15-60).
THEOREM OneSave == Spec => []LoadsOneSave
<1>1. IInv => LoadsOneSave
  <2> SUFFICES ASSUME IInv, restored, quiet, NEW k \in Saved
               PROVE  Pieces[k] = IF k <= Len(file) THEN taken[k] ELSE before[k]
    BY DEF LoadsOneSave
  <2>1. k \in 1 .. 4 /\ Len(file) \in Nat
    BY FourPieces DEF IInv, TypeOK
  <2>2. k <= Len(file) => file[k] = taken[k]
    BY <2>1 DEF IInv, OneInstant
  <2>3. Pieces[k] = IF k <= Len(file) THEN file[k] ELSE before[k]
    BY DEF IInv, Restored
  <2> QED BY <2>2, <2>3
<1> QED BY <1>1, Invariance, PTL

\* A read at any of the addresses that a memory answers gives what was last
\* written there, at any size and any mirror (bus_device.cpp:25-51).
THEOREM OneMemory == Spec => []MemoryIsFlat
<1>1. IInv => MemoryIsFlat
  <2> SUFFICES ASSUME IInv, NEW l \in Looks, NEW addr, addr = l.addr % kAddressMask,
                      ~Overruns(Devices[find_by_addr(addr)], addr, l.size)
               PROVE  LET r == read(dev, buttons, l.addr, l.size)
                      IN  /\ r.status = "ok"
                          /\ \A i \in 1 .. l.size : r.bytes[i] = Expected(addr + i - 1)
    BY DEF MemoryIsFlat
  <2> DEFINE k == find_by_addr(addr)
             r == read(dev, buttons, l.addr, l.size)
  <2>1. /\ l.addr \in Nat /\ l.size \in {1, 2, 4} /\ addr \in Nat
        /\ k \in DOMAIN Devices /\ Devices[k].name \in {"Rom", "M68kRam", "Stub", "Z80Ram"}
        /\ OneDevice(addr, l.size)
    BY LookAssumption, Masked
  <2>2. \A a \in addr .. addr + l.size - 1 :
          Kept(a) \/ range_contains(Devices[k], a) => find_by_addr(a) = k
    BY <2>1, DeviceCount DEF OneDevice
  <2> HIDE DEF k
  <2> SUFFICES r.status = "ok" /\ \A i \in 1 .. l.size : r.bytes[i] = Expected(addr + i - 1)
    OBVIOUS
  <2>3. CASE Devices[k].name = "Rom"
    <3>1. r = Answer(ReadRom(addr, l.size))
      BY <2>1, <2>3, DeviceCount DEF read, k
    <3>2. \A i \in 1 .. l.size : r.bytes[i] = IF addr + i - 1 \in DOMAIN Rom THEN Rom[addr + i - 1] ELSE Unset
      BY <3>1 DEF Answer, ReadRom
    <3>3. ASSUME NEW i \in 1 .. l.size PROVE ~Kept(addr + i - 1)
      <4> DEFINE a == addr + i - 1
      <4>1. a \in Nat /\ a \in addr .. addr + l.size - 1
        BY <2>1
      <4> HIDE DEF a
      <4>2. Kept(a) => find_by_addr(a) = k /\ Devices[find_by_addr(a)].name \in MemoryNames
        BY <2>2, <4>1, KeptIn
      <4>3. ~Kept(a)
        BY <2>3, <4>2 DEF MemoryNames
      <4> QED BY <4>3 DEF a
    <3> QED BY <3>1, <3>2, <3>3 DEF Answer, Expected
  <2>4. CASE Devices[k].name \in MemoryNames
    <3>1. r = Answer(ReadCells(dev, k, addr, l.size))
      BY <2>1, <2>4, DeviceCount DEF read, k, MemoryNames
    <3> DEFINE begin == Devices[k].begin
    <3>2. ASSUME NEW i \in 1 .. l.size PROVE r.bytes[i] = Expected(addr + i - 1)
      <4> DEFINE a == addr + i - 1
                 o == addr - begin + i - 1
      <4>1. r.bytes[i] = IF o < Capacity(Devices[k]) THEN Cell(dev.mem[k], o) ELSE Unset
        BY <3>1 DEF Answer, ReadCells
      <4>2. /\ begin \in Nat /\ Devices[k].end \in Nat /\ Capacity(Devices[k]) \in Int
            /\ begin <= addr /\ Capacity(Devices[k]) <= Devices[k].end - begin + 1
        <5>1. range_contains(Devices[k], addr)
          BY <2>1, Finds, DeviceCount DEF k
        <5> QED BY <2>1, <2>4, <5>1, Capacities, CapacityInRange DEF range_contains
      <4>3. a \in Nat /\ a \in addr .. addr + l.size - 1 /\ o \in Nat /\ o = a - begin /\ a = begin + o
        BY <2>1, <4>2
      <4>4. a \notin DOMAIN Rom
        <5>1. a \in DOMAIN Rom => a <= RomEnd /\ RomEnd \in Nat
          BY SMT, BusAssumption
        <5>2. a \in DOMAIN Rom => 0 <= addr /\ addr <= RomEnd
          BY <2>1, <4>3, <5>1
        <5>3. Devices[1].begin = 0 /\ Devices[1].end = RomEnd /\ Devices[1].name = "Rom"
          BY SMT, DeviceList DEF Device
        <5>4. a \in DOMAIN Rom => k = 1
          <6>1. 1 \in DOMAIN Devices /\ 1 .. 1 - 1 = {}
            BY DeviceCount
          <6> QED BY <5>2, <5>3, <6>1, FindsFirst DEF range_contains, k
        <5> QED BY <2>4, <5>3, <5>4 DEF MemoryNames
      <4> HIDE DEF a, o
      <4>5. CASE o < Capacity(Devices[k])
        <5>1. range_contains(Devices[k], a)
          BY <4>2, <4>3, <4>5 DEF range_contains
        <5>2. find_by_addr(a) = k
          BY <2>2, <4>3, <5>1
        <5>3. Kept(a)
          BY <2>1, <2>4, <4>3, <4>5, <5>2, DeviceCount DEF Kept, MemoryNames
        <5>4. Cell(dev.mem[k], o) = Cell(flat, a)
          BY <4>3, <5>2, <5>3 DEF IInv, Agree
        <5>5. Expected(a) = Cell(flat, a)
          BY <4>4, <5>3 DEF Expected, Cell
        <5> QED BY <4>1, <4>5, <5>4, <5>5 DEF a
      <4>6. CASE ~(o < Capacity(Devices[k]))
        <5>1. ~Kept(a)
          BY <2>2, <4>3, <4>6, KeptIn
        <5>2. Expected(a) = Unset
          BY <4>4, <5>1 DEF Expected
        <5> QED BY <4>1, <4>6, <5>2 DEF a
      <4> QED BY <4>5, <4>6
    <3> QED BY <3>1, <3>2 DEF Answer
  <2> QED BY <2>1, <2>3, <2>4 DEF MemoryNames
<1> QED BY <1>1, Invariance, PTL

SumOf(x0, x1, x2, x3, x4, x5) == x0 + x1 + x2 + x3 + x4 + x5

\* A sum of six powers of two, each there or not, tells by its bits which are.
LEMMA Bits ==
  ASSUME NEW x0 \in {0, 1}, NEW x1 \in {0, 2}, NEW x2 \in {0, 4},
         NEW x3 \in {0, 8}, NEW x4 \in {0, 16}, NEW x5 \in {0, 32},
         NEW n, n = SumOf(x0, x1, x2, x3, x4, x5)
  PROVE  /\ (n \div 2 ^ 0) % 2 = 0 <=> x0 = 0
         /\ (n \div 2 ^ 1) % 2 = 0 <=> x1 = 0
         /\ (n \div 2 ^ 2) % 2 = 0 <=> x2 = 0
         /\ (n \div 2 ^ 3) % 2 = 0 <=> x3 = 0
         /\ (n \div 2 ^ 4) % 2 = 0 <=> x4 = 0
         /\ (n \div 2 ^ 5) % 2 = 0 <=> x5 = 0
<1>1. 2 ^ 0 = 1 /\ 2 ^ 1 = 2 /\ 2 ^ 2 = 4 /\ 2 ^ 3 = 8 /\ 2 ^ 4 = 16 /\ 2 ^ 5 = 32
  OBVIOUS
<1>0. n = x0 + x1 + x2 + x3 + x4 + x5
  BY DEF SumOf
<1>2. (n \div 2 ^ 0) % 2 = 0 <=> x0 = 0
  BY <1>0, <1>1
<1>3. (n \div 2 ^ 1) % 2 = 0 <=> x1 = 0
  BY <1>0, <1>1
<1>4. (n \div 2 ^ 2) % 2 = 0 <=> x2 = 0
  BY <1>0, <1>1
<1>5. (n \div 2 ^ 3) % 2 = 0 <=> x3 = 0
  BY <1>0, <1>1
<1>6. (n \div 2 ^ 4) % 2 = 0 <=> x4 = 0
  BY <1>0, <1>1
<1>7. (n \div 2 ^ 5) % 2 = 0 <=> x5 = 0
  BY <1>0, <1>1
<1> QED BY <1>2, <1>3, <1>4, <1>5, <1>6, <1>7

\* The data port of the first controller, as a byte and as a word.
LEMMA PadPorts ==
  /\ \hA10003 % kAddressMask = \hA10003 /\ \hA10002 % kAddressMask = \hA10002
  /\ find_by_addr(\hA10003) = 4 /\ find_by_addr(\hA10002) = 4
  /\ Devices[4].name = "Controller"
<1>1. \hA10003 % kAddressMask = \hA10003 /\ \hA10002 % kAddressMask = \hA10002
  BY SMT DEF kAddressMask
<1>2. \A a \in {\hA10002, \hA10003} : /\ range_contains(Devices[4], a)
                                      /\ ~range_contains(Devices[1], a)
                                      /\ ~range_contains(Devices[2], a)
                                      /\ ~range_contains(Devices[3], a)
  BY SMT, DeviceList, BusAssumption DEF range_contains, Device
<1>3. 4 \in DOMAIN Devices /\ \A i \in 1 .. 4 - 1 : i = 1 \/ i = 2 \/ i = 3
  BY SMT, DeviceCount
<1>4. \A a \in {\hA10002, \hA10003} : find_by_addr(a) = 4
  BY SMT, <1>2, <1>3, FindsFirst
<1> QED BY SMT, <1>1, <1>4, DeviceTypes, <1>3, DeviceList DEF Device

\* A write sets the step of a controller, whatever else it does.
LEMMA StepWritten ==
  ASSUME NEW d \in DeviceStates, NEW addr, NEW data
  PROVE  WriteController(d, addr, data).step = StepsAfter(d, addr, data)
BY DEF WriteController, DeviceStates

\* The bits of a data register that are 0: those of the held buttons.
Zeros(n) == {b \in 0 .. 5 : (n \div 2 ^ b) % 2 = 0}

\* Selecting a step and reading the register gives the buttons of that step.
Poll(v, d) ==
  /\ d.step[0] = (IF v = 64 THEN 1 ELSE 2)
  /\ Polled(v).bits = Zeros(read_pressed_status(d, buttons, 0)) /\ Polled(v).same

\* The two writes that begin a polling leave a known step from any step at all.
LEMMA Polls ==
  ASSUME TypeOK, NEW v \in Byte
  PROVE  Poll(v, write(dev, \hA10003, <<v>>).dev)
<1> DEFINE d == write(dev, \hA10003, <<v>>).dev
           e == write(dev, \hA10002, <<0, v>>).dev
<1>1. d = WriteController(dev, \hA10003, <<v>>) /\ e = WriteController(dev, \hA10002, <<0, v>>)
  BY SMT, PadPorts DEF write
<1>2. dev \in DeviceStates
  BY DEF TypeOK, Fitting
<1>3. d.step = StepsAfter(dev, \hA10003, <<v>>) /\ e.step = StepsAfter(dev, \hA10002, <<0, v>>)
  BY SMT, <1>1, <1>2, StepWritten
<1>4. d.step[0] = (IF v = 64 THEN 1 ELSE 2) /\ e.step[0] = (IF v = 64 THEN 1 ELSE 2)
  BY SMT, <1>3 DEF StepsAfter
<1>5. read_pressed_status(d, buttons, 0) = read_pressed_status(e, buttons, 0)
  BY <1>4 DEF read_pressed_status
<1>6. /\ read(d, buttons, \hA10003, 1) = Answer(ReadController(d, buttons, \hA10003, 1))
      /\ read(e, buttons, \hA10002, 2) = Answer(ReadController(e, buttons, \hA10002, 2))
  BY SMT, PadPorts DEF read
<1>7. /\ \hA10003 \in DOMAIN DataRegister /\ DataRegister[\hA10003] = 0
      /\ \hA10003 \notin DOMAIN CtrlRegister
  BY SMT DEF DataRegister, CtrlRegister
<1>8. \hA10002 \notin DOMAIN DataRegister /\ \hA10002 \notin DOMAIN CtrlRegister
  BY SMT DEF DataRegister, CtrlRegister
<1>9. /\ ControllerByte(d, buttons, \hA10003) = read_pressed_status(d, buttons, 0)
      /\ ControllerByte(e, buttons, \hA10003) = read_pressed_status(e, buttons, 0)
      /\ ControllerByte(e, buttons, \hA10002) = 0
  BY SMT, <1>7, <1>8 DEF ControllerByte
<1>10. /\ ReadController(d, buttons, \hA10003, 1)[1] = read_pressed_status(d, buttons, 0)
       /\ ReadController(e, buttons, \hA10002, 2)[1] = 0
       /\ ReadController(e, buttons, \hA10002, 2)[2] = read_pressed_status(e, buttons, 0)
  <2>1. /\ \hA10003 + 1 - 1 = \hA10003 /\ \hA10002 + 1 - 1 = \hA10002
        /\ \hA10002 + 2 - 1 = \hA10003
    BY SMT
  <2> QED BY SMT, <1>9, <2>1 DEF ReadController
<1>11. ReadController(e, buttons, \hA10002, 2) = <<0, read_pressed_status(e, buttons, 0)>>
  <2>1. DOMAIN ReadController(e, buttons, \hA10002, 2) = 1 .. 2
    BY SMT DEF ReadController
  <2> QED BY SMT, <1>10, <2>1 DEF ReadController
<1>12. /\ read(d, buttons, \hA10003, 1).bytes[1] = read_pressed_status(d, buttons, 0)
       /\ read(e, buttons, \hA10002, 2).bytes = <<0, read_pressed_status(d, buttons, 0)>>
  BY SMT, <1>5, <1>6, <1>10, <1>11 DEF Answer
<1>13. Polled(v).bits = Zeros(read_pressed_status(d, buttons, 0)) /\ Polled(v).same
  <2> DEFINE byte == read(d, buttons, \hA10003, 1).bytes[1]
             word == read(e, buttons, \hA10002, 2).bytes
  <2>1. Polled(v) = [bits |-> Zeros(byte), same |-> word = <<0, byte>>]
    BY SMT DEF Polled, Zeros
  <2>2. Polled(v).bits = Zeros(byte) /\ Polled(v).same = (word = <<0, byte>>)
    BY SMT, <2>1
  <2>3. byte = read_pressed_status(d, buttons, 0) /\ word = <<0, byte>>
    BY SMT, <1>12
  <2> HIDE DEF byte, word, d
  <2>4. Polled(v).same
    BY <2>2, <2>3
  <2> QED BY <2>2, <2>3, <2>4
<1> QED BY SMT, <1>4, <1>13 DEF Poll

\* What the first step of the protocol tells.
LEMMA FirstStep ==
  ASSUME NEW d, d.step[0] = 1, NEW n, n = read_pressed_status(d, buttons, 0)
  PROVE  /\ 0 \in Zeros(n) <=> "Up" \in buttons
         /\ 1 \in Zeros(n) <=> "Down" \in buttons
         /\ 2 \in Zeros(n) <=> "Left" \in buttons
         /\ 3 \in Zeros(n) <=> "Right" \in buttons
         /\ 4 \in Zeros(n) <=> "B" \in buttons
         /\ 5 \in Zeros(n) <=> "C" \in buttons
<1> DEFINE x(b, name) == IF name \in buttons THEN 0 ELSE b
<1>1. 2 ^ 0 = 1 /\ 2 ^ 1 = 2 /\ 2 ^ 2 = 4 /\ 2 ^ 3 = 8 /\ 2 ^ 4 = 16 /\ 2 ^ 5 = 32
  OBVIOUS
<1>2. DOMAIN Shown(1) = 0 .. 5 /\ Shown(1)[0] = "Up" /\ Shown(1)[1] = "Down" /\ Shown(1)[2] = "Left"
      /\ Shown(1)[3] = "Right" /\ Shown(1)[4] = "B" /\ Shown(1)[5] = "C"
  BY DEF Shown
<1>3. n = SumOf(x(1, "Up"), x(2, "Down"), x(4, "Left"), x(8, "Right"), x(16, "B"), x(32, "C"))
  BY <1>1, <1>2 DEF read_pressed_status, SumOf
<1>5. x(1, "Up") \in {0, 1} /\ x(2, "Down") \in {0, 2} /\ x(4, "Left") \in {0, 4} /\ x(8, "Right") \in {0, 8} /\ x(16, "B") \in {0, 16} /\ x(32, "C") \in {0, 32}
  OBVIOUS
<1>4. /\ (n \div 2 ^ 0) % 2 = 0 <=> x(1, "Up") = 0
      /\ (n \div 2 ^ 1) % 2 = 0 <=> x(2, "Down") = 0
      /\ (n \div 2 ^ 2) % 2 = 0 <=> x(4, "Left") = 0
      /\ (n \div 2 ^ 3) % 2 = 0 <=> x(8, "Right") = 0
      /\ (n \div 2 ^ 4) % 2 = 0 <=> x(16, "B") = 0
      /\ (n \div 2 ^ 5) % 2 = 0 <=> x(32, "C") = 0
  <2> HIDE DEF x
  <2> QED BY <1>3, <1>5, Bits
<1> QED BY <1>4 DEF Zeros

\* What the second step of the protocol tells.
LEMMA SecondStep ==
  ASSUME NEW d, d.step[0] = 2, NEW n, n = read_pressed_status(d, buttons, 0)
  PROVE  /\ 0 \in Zeros(n) <=> "Up" \in buttons
         /\ 1 \in Zeros(n) <=> "Down" \in buttons
         /\ 4 \in Zeros(n) <=> "A" \in buttons
         /\ 5 \in Zeros(n) <=> "Start" \in buttons
<1> DEFINE x(b, name) == IF name \in buttons THEN 0 ELSE b
<1>1. 2 ^ 0 = 1 /\ 2 ^ 1 = 2 /\ 2 ^ 4 = 16 /\ 2 ^ 5 = 32
  OBVIOUS
<1>2. DOMAIN Shown(2) = {0, 1, 4, 5} /\ Shown(2)[0] = "Up" /\ Shown(2)[1] = "Down"
      /\ Shown(2)[4] = "A" /\ Shown(2)[5] = "Start"
  BY DEF Shown
<1>3. n = SumOf(x(1, "Up"), x(2, "Down"), 0, 0, x(16, "A"), x(32, "Start"))
  BY <1>1, <1>2 DEF read_pressed_status, SumOf
<1>5. x(1, "Up") \in {0, 1} /\ x(2, "Down") \in {0, 2} /\ x(16, "A") \in {0, 16} /\ x(32, "Start") \in {0, 32}
  OBVIOUS
<1>4. /\ (n \div 2 ^ 0) % 2 = 0 <=> x(1, "Up") = 0
      /\ (n \div 2 ^ 1) % 2 = 0 <=> x(2, "Down") = 0
      /\ (n \div 2 ^ 4) % 2 = 0 <=> x(16, "A") = 0
      /\ (n \div 2 ^ 5) % 2 = 0 <=> x(32, "Start") = 0
  <2> HIDE DEF x
  <2> QED BY <1>3, <1>5, Bits
<1> QED BY <1>4 DEF Zeros

\* Polling the pad in its two steps tells exactly which buttons are held, in
\* every state that writes to the ports can lead to (controller_device.cpp:97-209).
THEOREM PadTells == Spec => []PadTellsButtons
<1>1. IInv => PadTellsButtons
  <2> SUFFICES ASSUME IInv PROVE PadTellsButtons
    OBVIOUS
  <2> DEFINE d == write(dev, \hA10003, <<64>>).dev
             e == write(dev, \hA10003, <<0>>).dev
             m == read_pressed_status(d, buttons, 0)
             n == read_pressed_status(e, buttons, 0)
  <2>1. TypeOK /\ 64 \in Byte /\ 0 \in Byte
    BY DEF IInv, Byte
  <2>2. Poll(64, d) /\ Poll(0, e)
    BY SMT, <2>1, Polls
  <2> HIDE DEF d, e
  <2>3. d.step[0] = 1 /\ Polled(64).bits = Zeros(m) /\ Polled(64).same
    BY <2>2 DEF Poll
  <2>4. e.step[0] = 2 /\ Polled(0).bits = Zeros(n) /\ Polled(0).same
    BY <2>2 DEF Poll
  <2> HIDE DEF m, n
  <2>5. /\ 0 \in Zeros(m) <=> "Up" \in buttons
        /\ 1 \in Zeros(m) <=> "Down" \in buttons
        /\ 2 \in Zeros(m) <=> "Left" \in buttons
        /\ 3 \in Zeros(m) <=> "Right" \in buttons
        /\ 4 \in Zeros(m) <=> "B" \in buttons
        /\ 5 \in Zeros(m) <=> "C" \in buttons
    BY <2>3, FirstStep DEF m
  <2>6. /\ 0 \in Zeros(n) <=> "Up" \in buttons
        /\ 1 \in Zeros(n) <=> "Down" \in buttons
        /\ 4 \in Zeros(n) <=> "A" \in buttons
        /\ 5 \in Zeros(n) <=> "Start" \in buttons
    BY <2>4, SecondStep DEF n
  <2> DEFINE Button == [Up |-> 0, Down |-> 1, Left |-> 2, Right |-> 3, B |-> 4, C |-> 5]
  <2>7. \A b \in DOMAIN Button : b \in buttons <=> Button[b] \in Zeros(m)
    BY <2>5
  <2>8. {0, 1} \cap Zeros(n) = {0, 1} \cap Zeros(m)
    BY <2>5, <2>6
  <2> QED BY <2>3, <2>4, <2>6, <2>7, <2>8 DEF PadTellsButtons
<1> QED BY <1>1, Invariance, PTL
=============================================================================
