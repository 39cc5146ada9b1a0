-------------------------- MODULE InterruptsProofs --------------------------
(***************************************************************************)
(* The frames of the vertical interrupt, for every program, memory and     *)
(* timing: a frame is intact until the RTE that takes it away.             *)
(*                                                                         *)
(* That the handler keeps to its part of the stack is a rule for the       *)
(* program in the cartridge, not a fact about the console, and Orderly     *)
(* states it as the hypothesis.  What the console does is proved:          *)
(* call_vblank pushes a frame that reads back as the status register and   *)
(* program counter of the interrupted machine, on top of the older frames, *)
(* and RTE undoes it.                                                      *)
(*                                                                         *)
(* FramesIntact alone is not inductive.  It says where the stack pointer   *)
(* is now, and not where it was in a handler that was interrupted and is   *)
(* resumed by an RTE; Stacked says it of every pair of frames.             *)
(***************************************************************************)
EXTENDS Interrupts, M68kProofs, SequenceTheorems

(* An address that a few bytes are added to or taken from wraps around     *)
(* once at most.                                                           *)
LEMMA Wraps ==
    ASSUME EightBits, NEW v \in Values(Long), NEW n \in 0 .. 6
    PROVE  /\ Low(v - n, Long) = IF v < n THEN v - n + 4294967296 ELSE v - n
           /\ Low(v + n, Long) = IF v + n < 4294967296 THEN v + n ELSE v + n - 4294967296
<1> DEFINE S == Span(Long)
<1>1. S = 4294967296
  BY SpanValues
<1>2. v \in Int /\ 0 <= v /\ v < S
  BY <1>1, InValues
<1> HIDE DEF S
<1>3. S \in Nat \ {0} /\ 6 < S
  BY <1>1, SMT
<1>4. (v - n) % S = IF v < n THEN v - n + S ELSE v - n
  <2> DEFINE q == IF v < n THEN -1 ELSE 0
             r == IF v < n THEN v - n + S ELSE v - n
  <2>1. q \in Int /\ r \in Int /\ 0 <= r /\ r < S
    BY <1>2, <1>3
  <2>2. v - n = S * q + r
    BY <1>2, <1>3
  <2>3. v - n \in Int
    BY <1>2
  <2> HIDE DEF q, r
  <2>4. (v - n) % S = r
    BY <1>3, <2>1, <2>2, <2>3, Divides
  <2> QED BY <2>4 DEF r
<1>5. (v + n) % S = IF v + n < S THEN v + n ELSE v + n - S
  <2> DEFINE q == IF v + n < S THEN 0 ELSE 1
             r == IF v + n < S THEN v + n ELSE v + n - S
  <2>1. q \in Int /\ r \in Int /\ 0 <= r /\ r < S
    BY <1>2, <1>3
  <2>2. v + n = S * q + r
    BY <1>2, <1>3
  <2>3. v + n \in Int
    BY <1>2
  <2> HIDE DEF q, r
  <2>4. (v + n) % S = r
    BY <1>3, <2>1, <2>2, <2>3, Divides
  <2> QED BY <2>4 DEF r
<1> QED BY <1>1, <1>4, <1>5 DEF Low, S

(* The weights of the condition codes.                                     *)
LEMMA BitOf ==
    /\ 2 ^ 0 = 1 /\ 2 ^ 1 = 2 /\ 2 ^ 2 = 4 /\ 2 ^ 3 = 8 /\ 2 ^ 4 = 16
BY SMT

(* The status register goes through its word in a frame unharmed, whatever *)
(* status register reads it.                                               *)
LEMMA WordTells ==
    ASSUME EightBits, NEW sr \in StatusRegisters, NEW other \in StatusRegisters
    PROVE  /\ SrWord(sr) \in Int /\ Low(SrWord(sr), Word) = SrWord(sr)
           /\ FromSrWord(other, SrWord(sr)) = sr
<1> DEFINE c == sr.c
           v == sr.v
           z == sr.z
           n == sr.n
           x == sr.x
           h == sr.mask + 8 * sr.s
           l == c + 2 * v + 4 * z + 8 * n + 16 * x
           w == SrWord(sr)
<1>1. c \in {0, 1} /\ v \in {0, 1} /\ z \in {0, 1} /\ n \in {0, 1} /\ x \in {0, 1} /\ sr.mask \in 0 .. 7 /\ sr.s \in {0, 1}
  BY DEF StatusRegisters, Bit
<1>2. w = l + 256 * h
  BY SpanValues DEF SrWord, Ccr
<1> HIDE DEF c, v, z, n, x, w
<1>3. h \in 0 .. 15 /\ h % 8 = sr.mask /\ (h \div 8) % 2 = sr.s
  BY <1>1
<1> HIDE DEF h
<1>4. l \in 0 .. 31
  BY <1>1
<1>5. w \in Int /\ w % 65536 = w /\ w \div 256 = h
  <2>1. w \in Int /\ 0 <= w /\ w < 65536 /\ w = 65536 * 0 + w /\ w = 256 * h + l /\ h \in Int
    BY <1>2, <1>3, <1>4
  <2> HIDE DEF l
  <2>2. w % 65536 = w
    BY <2>1, Divides, SMTT(30)
  <2>3. w \div 256 = h
    BY <1>4, <2>1, Divides, SMTT(30)
  <2> QED BY <2>1, <2>2, <2>3
<1>6. /\ (w \div 1) % 2 = c /\ (w \div 2) % 2 = v /\ (w \div 4) % 2 = z /\ (w \div 8) % 2 = n /\ (w \div 16) % 2 = x
  <2>1. (w \div 1) % 2 = c
    BY <1>1, <1>2, <1>3
  <2>2. (w \div 2) % 2 = v
    BY <1>1, <1>2, <1>3
  <2>3. (w \div 4) % 2 = z
    BY <1>1, <1>2, <1>3
  <2>4. (w \div 8) % 2 = n
    BY <1>1, <1>2, <1>3
  <2>5. (w \div 16) % 2 = x
    <3> DEFINE r == c + 2 * v + 4 * z + 8 * n
               q == x + 16 * h
    <3>1. r \in Int /\ 0 <= r /\ r < 16 /\ q \in Int /\ w = 16 * q + r /\ q % 2 = x
      BY <1>1, <1>2, <1>3
    <3> HIDE DEF r, q
    <3>2. w \div 16 = q
      BY <3>1, Divides
    <3> QED BY <3>1, <3>2
  <2> QED BY <2>1, <2>2, <2>3, <2>4, <2>5
<1>7. WithCcr(other, w) = [other EXCEPT !.c = c, !.v = v, !.z = z, !.n = n, !.x = x]
  BY <1>6, BitOf DEF WithCcr
<1>8. FromSrWord(other, w) = [other EXCEPT !.c = c, !.v = v, !.z = z, !.n = n, !.x = x, !.mask = sr.mask, !.s = sr.s]
  <2>1. w \div Span(Byte) = h
    BY <1>5, SpanValues
  <2>2. FromSrWord(other, w) = [WithCcr(other, w) EXCEPT !.mask = sr.mask, !.s = sr.s]
    BY <1>3, <2>1 DEF FromSrWord
  <2> QED BY <1>7, <2>2 DEF StatusRegisters
<1>9. FromSrWord(other, w) = sr
  BY <1>8 DEF StatusRegisters, c, v, z, n, x
<1>10. Low(w, Word) = w
  BY <1>5, SpanValues DEF Low
<1> QED BY <1>5, <1>9, <1>10 DEF w

-----------------------------------------------------------------------------
(***************************************************************************)
(* Pushing, reading back and returning.                                    *)
(***************************************************************************)

(* A push that was not refused: v is in memory at the new stack pointer,   *)
(* and nothing else changed but that pointer.                              *)
Stored(D, m, sp, size, v, p) ==
    /\ p \in Machines(D) /\ p.sr = m.sr /\ p.pc = m.pc /\ p.ssp = sp /\ sp \in Values(Long)
    /\ sp .. sp + size - 1 \subseteq D /\ Fetch(p, sp, size) = Low(v, size)
    /\ \A b \in D \ (sp .. sp + size - 1) : p.mem[b] = m.mem[b]

(* A write that is not refused went to mapped memory, changed only the     *)
(* bytes it covers, and is read back.                                      *)
LEMMA WriteStores ==
    ASSUME EightBits, NEW D, NEW m \in Machines(D), NEW addr \in Int, NEW size \in Sizes, NEW v \in Int,
           Ok(m), NEW p, p = PutOrFail(m, addr, size, v), Ok(p)
    PROVE  /\ p \in Machines(D) /\ p.sr = m.sr /\ p.pc = m.pc /\ p.ssp = m.ssp
           /\ addr .. addr + size - 1 \subseteq D
           /\ SameBut(p, m, D, addr, size) /\ Fetch(p, addr, size) = Low(v, size)
<1>1. Mapped(m, addr, size) /\ p = Put(m, addr, size, v)
  <2>1. Fail(m).status = "error"
    BY DEF Fail, Machines
  <2>2. p # Fail(m)
    BY <2>1 DEF Ok
  <2> QED BY <2>2 DEF PutOrFail
<1>2. m.mem \in [D -> Values(Byte)] /\ addr .. addr + size - 1 \subseteq D
  BY <1>1 DEF Machines, Mapped
<1>3. Pushed(D, p, m) /\ p.ssp = m.ssp
  BY <1>1, PutIn
<1>4. SameBut(p, m, D, addr, size)
  <2>1. DOMAIN m.mem = D
    BY <1>2
  <2>2. p.mem = [b \in D |-> IF b \in addr .. addr + size - 1
                            THEN (v \div 2 ^ (BYTE * (addr + size - 1 - b))) % Span(Byte) ELSE m.mem[b]]
    BY <1>1, <2>1 DEF Put, Machines
  <2> QED BY <2>2 DEF SameBut
<1>5. Fetch(p, addr, size) = Low(v, size)
  BY <1>1, <1>2, FetchPut, SMTT(60)
<1> QED BY <1>2, <1>3, <1>4, <1>5 DEF Pushed

(* A push in supervisor mode moves the stack pointer of that mode down by  *)
(* the size and, when it is not refused, stores its value there.           *)
LEMMA PushStores ==
    ASSUME EightBits, NEW D, NEW m \in Machines(D), Ok(m), m.sr.s = 1, NEW size \in {Word, Long}, NEW v \in Int,
           NEW a, a = SetStackPtr(m, stack_ptr(m) - size), NEW p, p = PutOrFail(a, stack_ptr(a), size, v)
    PROVE  /\ stack_ptr(a) = Low(m.ssp - size, Long)
           /\ Ok(p) => Stored(D, m, Low(m.ssp - size, Long), size, v, p)
<1> DEFINE sp == Low(m.ssp - size, Long)
<1>1. m.ssp \in Values(Long) /\ m.ssp - size \in Int /\ stack_ptr(m) = m.ssp /\ size \in Sizes
  <2>1. m.ssp \in Values(Long)
    BY DEF Machines
  <2>2. m.ssp \in Int
    BY <2>1, ValuesWiden
  <2> QED BY <2>1, <2>2 DEF stack_ptr, Word, Long, Sizes
<1>2. sp \in Values(Long) /\ sp \in Int
  BY <1>1, LowLong, ValuesWiden
<1>3. a = [m EXCEPT !.ssp = sp]
  BY <1>1 DEF SetStackPtr
<1> HIDE DEF sp
<1>4. a \in Machines(D) /\ a.ssp = sp /\ a.sr = m.sr /\ a.pc = m.pc /\ a.mem = m.mem /\ a.status = m.status /\ stack_ptr(a) = sp
  BY <1>2, <1>3 DEF Machines, stack_ptr
<1>5. ASSUME Ok(p) PROVE Stored(D, m, sp, size, v, p)
  <2>1. p = PutOrFail(a, sp, size, v) /\ Ok(p) /\ Ok(a)
    BY <1>4, <1>5 DEF Ok
  <2>2. /\ p \in Machines(D) /\ p.sr = a.sr /\ p.pc = a.pc /\ p.ssp = a.ssp
        /\ sp .. sp + size - 1 \subseteq D
        /\ SameBut(p, a, D, sp, size) /\ Fetch(p, sp, size) = Low(v, size)
    <3>1. a \in Machines(D) /\ sp \in Int /\ size \in Sizes /\ v \in Int
      BY <1>1, <1>2, <1>4
    <3> QED BY <2>1, <3>1, WriteStores
  <2> QED BY <1>2, <1>4, <2>2 DEF Stored, SameBut
<1> QED BY <1>4, <1>5 DEF sp

(* A read gives what it gave before when the bytes it covers were kept.    *)
LEMMA FetchKept ==
    ASSUME EightBits, NEW D, NEW m \in Machines(D), NEW p \in Machines(D), NEW addr \in Int, NEW size \in {Word, Long},
           addr .. addr + size - 1 \subseteq D, \A b \in addr .. addr + size - 1 : p.mem[b] = m.mem[b]
    PROVE  Fetch(p, addr, size) = Fetch(m, addr, size)
<1>1. size \in Sizes /\ size \in {2, 4}
  BY DEF Word, Long, Sizes
<1>2. \A b \in addr .. addr + size - 1 : m.mem[b] \in Int /\ p.mem[b] \in Int
  <2>1. m.mem \in [D -> Values(Byte)] /\ p.mem \in [D -> Values(Byte)]
    BY DEF Machines
  <2>2. Values(Byte) \subseteq Int
    BY ValuesWiden
  <2> QED BY <2>1, <2>2
<1>3. \A k \in 0 .. size - 1 : p.mem[addr + k] = m.mem[addr + k]
  BY <1>1
<1>4. CASE size = Word
  <2>1. Fetch(p, addr, size) = p.mem[addr + 0] * 256 + p.mem[addr + 1]
    BY <1>1, <1>2, <1>4, FetchIs
  <2>2. Fetch(m, addr, size) = m.mem[addr + 0] * 256 + m.mem[addr + 1]
    BY <1>1, <1>2, <1>4, FetchIs
  <2>3. 0 \in 0 .. size - 1 /\ 1 \in 0 .. size - 1
    BY <1>4 DEF Word
  <2>4. p.mem[addr + 0] = m.mem[addr + 0] /\ p.mem[addr + 1] = m.mem[addr + 1]
    BY <1>3, <2>3
  <2> QED BY <2>1, <2>2, <2>4
<1>5. CASE size = Long
  <2>1. Fetch(p, addr, size) = p.mem[addr + 0] * 16777216 + p.mem[addr + 1] * 65536 + p.mem[addr + 2] * 256 + p.mem[addr + 3]
    BY <1>1, <1>2, <1>5, FetchIs
  <2>2. Fetch(m, addr, size) = m.mem[addr + 0] * 16777216 + m.mem[addr + 1] * 65536 + m.mem[addr + 2] * 256 + m.mem[addr + 3]
    BY <1>1, <1>2, <1>5, FetchIs
  <2>3. 0 \in 0 .. size - 1 /\ 1 \in 0 .. size - 1 /\ 2 \in 0 .. size - 1 /\ 3 \in 0 .. size - 1
    BY <1>5 DEF Long
  <2>4. p.mem[addr + 0] = m.mem[addr + 0] /\ p.mem[addr + 1] = m.mem[addr + 1]
        /\ p.mem[addr + 2] = m.mem[addr + 2] /\ p.mem[addr + 3] = m.mem[addr + 3]
    BY <1>3, <2>3
  <2> QED BY <2>1, <2>2, <2>4
<1> QED BY <1>4, <1>5

(* A frame that does not wrap around lies right below the stack pointer of *)
(* the machine that was interrupted, its status word below its program     *)
(* counter.                                                                *)
LEMMA FrameLies ==
    ASSUME EightBits, NEW D, NEW m \in Machines(D), m.sr.s = 1, FrameFits(m)
    PROVE  /\ FrameSp(m) \in Values(Long) /\ FrameSp(m) \in Int /\ m.ssp \in Values(Long) /\ stack_ptr(m) = m.ssp
           /\ FrameSp(m) = IF m.ssp = 0 THEN 4294967290 ELSE m.ssp - 6
           /\ Low(m.ssp - Long, Long) = FrameSp(m) + Word
           /\ Low(FrameSp(m) + Word - Word, Long) = FrameSp(m)
           /\ Low(FrameSp(m) + Word, Long) = FrameSp(m) + Word
           /\ Low(FrameSp(m) + Word + Long, Long) = m.ssp
<1> DEFINE sp == m.ssp
           f == FrameSp(m)
<1>1. sp \in Values(Long) /\ stack_ptr(m) = sp
  BY DEF Machines, stack_ptr
<1>2. sp \in Int /\ 0 <= sp /\ sp < 4294967296 /\ (sp = 0 \/ sp >= 6)
  BY <1>1, InValues DEF FrameFits, Word, Long
<1>3. f = Low(sp - 6, Long)
  <2>1. f = Low(sp - 4 - 2, Long) /\ sp - 4 - 2 = sp - 6
    BY <1>1, <1>2 DEF FrameSp, Word, Long
  <2> QED BY <2>1
<1> HIDE DEF sp, f
<1>4. f = IF sp = 0 THEN 4294967290 ELSE sp - 6
  BY <1>1, <1>2, <1>3, Wraps
<1>5. f \in Int /\ f \in Values(Long)
  BY <1>2, <1>4, InValues
<1>6. Low(sp - 4, Long) = f + 2
  BY <1>1, <1>2, <1>4, Wraps
<1>7. f + 2 \in Values(Long) /\ f + 2 - 2 = f /\ f + 2 < 4294967296
  BY <1>2, <1>4, InValues
<1>8. Low(f + 2, Long) = f + 2 /\ Low(f - 0, Long) = f
  BY <1>5, <1>7, Wraps, InValues
<1>9. Low(f + 6, Long) = sp
  BY <1>2, <1>4, <1>5, Wraps
<1>10. f + 2 + 4 = f + 6 /\ f - 0 = f
  BY <1>5
<1> QED BY <1>1, <1>4, <1>5, <1>6, <1>7, <1>8, <1>9, <1>10 DEF Word, Long, sp, f

(* What an interrupt that met no error leaves.                             *)
FramePut(D, m, r) ==
    /\ r \in Machines(D) /\ r.sr.s = 1 /\ stack_ptr(r) = FrameSp(m)
    /\ FrameBytes(m) \subseteq D /\ FrameKept(r, m)
    /\ \A b \in D \ FrameBytes(m) : r.mem[b] = m.mem[b]

(* An interrupt in supervisor mode that meets no error leaves its frame on *)
(* the stack, all of it in mapped memory, and no other byte changed.       *)
LEMMA FramePushed ==
    ASSUME EightBits, VblankPc \in Values(Long), NEW D, NEW m \in Machines(D), Ok(m), m.sr.s = 1, FrameFits(m),
           NEW r, r = call_vblank(m), Ok(r)
    PROVE  FramePut(D, m, r)
<1> DEFINE a == SetStackPtr(m, stack_ptr(m) - Long)
           p == PutOrFail(a, stack_ptr(a), Long, m.pc)
           b == SetStackPtr(p, stack_ptr(p) - Word)
           q == PutOrFail(b, stack_ptr(b), Word, SrWord(m.sr))
           f == FrameSp(m)
<1>1. r = IF ~Ok(p) THEN p
          ELSE IF ~Ok(q) THEN q
          ELSE [q EXCEPT !.sr.s = 1, !.sr.mask = VBLANK_INTERRUPT_LEVEL, !.pc = VblankPc]
  BY DEF call_vblank
<1>2. a = SetStackPtr(m, stack_ptr(m) - Long) /\ p = PutOrFail(a, stack_ptr(a), Long, m.pc)
      /\ b = SetStackPtr(p, stack_ptr(p) - Word) /\ q = PutOrFail(b, stack_ptr(b), Word, SrWord(m.sr))
  OBVIOUS
<1> HIDE DEF a, p, b, q
<1>3. Ok(p) /\ Ok(q) /\ r = [q EXCEPT !.sr.s = 1, !.sr.mask = VBLANK_INTERRUPT_LEVEL, !.pc = VblankPc]
  BY <1>1
<1>4. m.sr \in StatusRegisters /\ m.pc \in Values(Long) /\ m.pc \in Int
  BY ValuesWiden DEF Machines
<1>5. SrWord(m.sr) \in Int /\ Low(SrWord(m.sr), Word) = SrWord(m.sr)
  BY <1>4, WordTells
<1>6. /\ f \in Values(Long) /\ f \in Int /\ Low(m.ssp - Long, Long) = f + Word /\ Low(f + Word - Word, Long) = f
  BY FrameLies
<1> HIDE DEF f
<1>7. Long \in {Word, Long} /\ Word \in {Word, Long} /\ Word = 2 /\ Long = 4
  BY DEF Word, Long
<1>8. Stored(D, m, f + Word, Long, m.pc, p)
  BY <1>2, <1>3, <1>4, <1>6, <1>7, PushStores
<1>9. p \in Machines(D) /\ p.sr = m.sr /\ p.ssp = f + Word /\ p.sr.s = 1
  BY <1>8 DEF Stored
<1>10. Stored(D, p, f, Word, SrWord(m.sr), q)
  BY <1>2, <1>3, <1>5, <1>6, <1>7, <1>9, PushStores, SMTT(30)
<1>11. q \in Machines(D) /\ q.sr = m.sr /\ q.ssp = f
  BY <1>9, <1>10 DEF Stored
<1>12. r \in Machines(D) /\ r.sr.s = 1 /\ stack_ptr(r) = f /\ r.mem = q.mem
  <2>1. [q.sr EXCEPT !.s = 1, !.mask = VBLANK_INTERRUPT_LEVEL] \in StatusRegisters
    <3> DEFINE sr == q.sr
               level == VBLANK_INTERRUPT_LEVEL
    <3>1. sr \in StatusRegisters /\ level \in 0 .. 7
      BY <1>4, <1>11 DEF VBLANK_INTERRUPT_LEVEL
    <3> HIDE DEF sr, level
    <3> DEFINE super == [sr EXCEPT !.s = 1]
    <3>2. super \in StatusRegisters /\ [sr EXCEPT !.s = 1, !.mask = level] = [super EXCEPT !.mask = level]
      BY <3>1 DEF StatusRegisters, Bit
    <3> HIDE DEF super
    <3>3. [super EXCEPT !.mask = level] \in StatusRegisters
      BY <3>1, <3>2 DEF StatusRegisters
    <3> QED BY <3>2, <3>3 DEF sr, level
  <2>2. r = [q EXCEPT !.sr = [q.sr EXCEPT !.s = 1, !.mask = VBLANK_INTERRUPT_LEVEL], !.pc = VblankPc]
    BY <1>3, <1>11 DEF Machines, StatusRegisters
  <2>3. r.sr = [q.sr EXCEPT !.s = 1, !.mask = VBLANK_INTERRUPT_LEVEL]
    BY <1>11, <2>2 DEF Machines
  <2>4. r.sr.s = 1
    BY <1>4, <1>11, <2>3 DEF StatusRegisters
  <2>5. r \in Machines(D) /\ r.ssp = f /\ r.mem = q.mem
    BY <1>11, <2>1, <2>2 DEF Machines
  <2> QED BY <2>4, <2>5 DEF stack_ptr
<1>13. FrameBytes(m) = f .. f + 5 /\ f + Word .. f + Word + Long - 1 = f + 2 .. f + 5 /\ f .. f + Word - 1 = f .. f + 1
  BY <1>6, <1>7 DEF FrameBytes, f
<1>14. FrameBytes(m) \subseteq D
  <2>1. f + 2 .. f + 5 \subseteq D /\ f .. f + 1 \subseteq D
    BY <1>8, <1>10, <1>13 DEF Stored
  <2> QED BY <1>6, <1>13, <2>1
<1>15. \A c \in D \ FrameBytes(m) : r.mem[c] = m.mem[c]
  <2> TAKE c \in D \ FrameBytes(m)
  <2>1. c \notin f + 2 .. f + 5 /\ c \notin f .. f + 1
    BY <1>6, <1>13
  <2> QED BY <1>8, <1>10, <1>12, <1>13, <2>1 DEF Stored
<1>16. Fetch(q, f, Word) = SrWord(m.sr) /\ Fetch(p, f + Word, Long) = m.pc
  <2>1. Low(m.pc, Long) = m.pc
    <3>1. m.pc + 0 = m.pc /\ m.pc < 4294967296
      BY <1>4, InValues
    <3>2. Low(m.pc + 0, Long) = m.pc + 0
      BY <1>4, <3>1, Wraps
    <3> QED BY <3>1, <3>2
  <2> QED BY <1>5, <1>8, <1>10, <2>1 DEF Stored
<1>17. Fetch(q, f + Word, Long) = Fetch(p, f + Word, Long)
  <2>1. f + Word \in Int /\ f + Word .. f + Word + Long - 1 \subseteq D
    BY <1>6, <1>7, <1>8 DEF Stored
  <2>2. \A c \in f + 2 .. f + 5 : c \notin f .. f + 1
    BY <1>6
  <2>3. \A c \in f + Word .. f + Word + Long - 1 : q.mem[c] = p.mem[c]
    BY <1>10, <1>13, <2>1, <2>2 DEF Stored
  <2> QED BY <1>7, <1>9, <1>11, <2>1, <2>3, FetchKept
<1>18. Fetch(r, f, Word) = Fetch(q, f, Word) /\ Fetch(r, f + Word, Long) = Fetch(q, f + Word, Long)
  BY <1>12 DEF Fetch
<1>19. FrameKept(r, m)
  <2>1. stack_ptr(r) <= f
    BY <1>6, <1>12
  <2> QED BY <1>16, <1>17, <1>18, <2>1 DEF FrameKept, f
<1> QED BY <1>12, <1>14, <1>15, <1>19 DEF FramePut, f

(* RTE is the instruction of execute.cpp:957.                              *)
LEMMA PerformRte ==
    ASSUME NEW m, NEW i, i.kind = "Rte"
    PROVE  Perform(m, i) = ExecReturn(m, i)
BY Zenon DEF Perform, BinaryKinds, AddressKinds, QuickKinds, ExtendKinds, UnaryKinds, ToCcrKinds, ToSrKinds, Shifts, BitKinds

(* RTE on an intact frame at the stack pointer gives back the status       *)
(* register, the program counter and the stack pointer of the machine that *)
(* was interrupted: what FramesIntact is for.                              *)
LEMMA FrameReturned ==
    ASSUME EightBits, NEW D, NEW m \in Machines(D), Ok(m), m.sr.s = 1, NEW f \in Machines(D), f.sr.s = 1, FrameFits(f),
           FrameBytes(f) \subseteq D, FrameKept(m, f), stack_ptr(m) = FrameSp(f),
           NEW i, WellFormed(i), i.kind = "Rte", NEW r, r = Execute(m, i), Ok(r)
    PROVE  r.sr = f.sr /\ r.pc = f.pc /\ stack_ptr(r) = stack_ptr(f) /\ r.mem = m.mem
<1> DEFINE k == Forget(m)
           fs == FrameSp(f)
           word == Popped(k, Word)
           p == DropStack(k, Word)
           pc == Popped(p, Long)
           q == [DropStack(p, Long) EXCEPT !.pc = pc]
           w == [q EXCEPT !.sr = FromSrWord(@, word)]
           done == SetPc(w, q.pc)
<1>1. /\ fs \in Values(Long) /\ fs \in Int /\ f.ssp \in Values(Long) /\ stack_ptr(f) = f.ssp
      /\ Low(fs + Word, Long) = fs + Word /\ Low(fs + Word + Long, Long) = f.ssp
  BY FrameLies
<1>2. k \in Machines(D) /\ k.sr = m.sr /\ k.mem = m.mem /\ k.ssp = fs /\ stack_ptr(k) = fs /\ k.sr.s = 1 /\ Roles = {"src", "dst"}
  BY DEF Forget, Machines, stack_ptr, Roles
<1>3. Word = 2 /\ Long = 4 /\ FrameBytes(f) = fs .. fs + 5
  BY <1>1 DEF Word, Long, FrameBytes
<1>4. /\ Fetch(m, fs, Word) = SrWord(f.sr) /\ Fetch(m, fs + Word, Long) = f.pc
      /\ f.sr \in StatusRegisters /\ m.sr \in StatusRegisters /\ f.pc \in Values(Long)
  BY DEF FrameKept, Machines
<1>5. DOMAIN k.mem = D
  BY <1>2 DEF Machines
<1> HIDE DEF k, fs
<1>6. CanPop(k, Word) /\ word = SrWord(f.sr)
  <2>1. fs .. fs + Word - 1 \subseteq D
    BY <1>1, <1>3
  <2> QED BY <1>2, <1>4, <1>5, <2>1 DEF CanPop, Mapped, Popped, Fetch
<1>7. p = [k EXCEPT !.ssp = fs + Word]
  BY <1>1, <1>2 DEF DropStack, SetStackPtr
<1> HIDE DEF p, word
<1>8. p.sr = m.sr /\ p.mem = m.mem /\ p.ssp = fs + Word /\ stack_ptr(p) = fs + Word /\ p.sr.s = 1
  BY <1>2, <1>7 DEF Machines, stack_ptr
<1>9. CanPop(p, Long) /\ pc = f.pc
  <2>1. fs + Word .. fs + Word + Long - 1 \subseteq D
    BY <1>1, <1>3
  <2>2. DOMAIN p.mem = D
    BY <1>2, <1>5, <1>8
  <2> QED BY <1>4, <1>8, <2>1, <2>2 DEF CanPop, Mapped, Popped, Fetch
<1> HIDE DEF pc
<1>10. q = [k EXCEPT !.ssp = f.ssp, !.pc = f.pc]
  <2>1. DropStack(p, Long) = [p EXCEPT !.ssp = f.ssp]
    BY <1>1, <1>8 DEF DropStack, SetStackPtr
  <2> QED BY <1>2, <1>7, <1>9, <2>1 DEF Machines
<1> HIDE DEF q
<1>11. q.sr = m.sr /\ q.mem = m.mem /\ q.ssp = f.ssp /\ q.pc = f.pc
  BY <1>2, <1>10 DEF Machines
<1>12. w = [q EXCEPT !.sr = f.sr]
  <2>1. FromSrWord(q.sr, word) = f.sr
    BY <1>4, <1>6, <1>11, WordTells
  <2> QED BY <2>1
<1> HIDE DEF w
<1>13. w.sr = f.sr /\ w.mem = m.mem /\ w.ssp = f.ssp /\ w.pc = f.pc
  BY <1>2, <1>10, <1>11, <1>12 DEF Machines
<1>14. Low(f.pc, Long) = f.pc
  <2>1. f.pc + 0 = f.pc /\ f.pc < 4294967296
    BY <1>4, InValues
  <2>2. Low(f.pc + 0, Long) = f.pc + 0
    BY <1>4, <2>1, Wraps
  <2> QED BY <2>1, <2>2
<1>15. Perform(k, i) = done
  <2>1. Perform(k, i) = ExecReturn(k, i)
    BY PerformRte
  <2>2. ExecReturn(k, i) = SetPc(CASE i.kind = "Rte" -> w [] i.kind = "Rtr" -> [q EXCEPT !.sr = WithCcr(@, word)] [] i.kind = "Rts" -> q, q.pc)
    BY <1>6, <1>9, Zenon DEF ExecReturn, word, p, pc, q, w
  <2>3. (CASE i.kind = "Rte" -> w [] i.kind = "Rtr" -> [q EXCEPT !.sr = WithCcr(@, word)] [] i.kind = "Rts" -> q) = w
    OBVIOUS
  <2> QED BY <2>1, <2>2, <2>3, Zenon
<1>16. done.sr = f.sr /\ done.mem = m.mem /\ done.ssp = f.ssp /\ done.pc = f.pc
  BY <1>2, <1>10, <1>11, <1>12, <1>13, <1>14 DEF SetPc, Fail, Machines
<1> HIDE DEF done
<1>17. "src" \notin DOMAIN i /\ "dst" \notin DOMAIN i
  BY <1>2 DEF WellFormed, OperandsUsed, UsesSrc, UsesDst, UsesBoth, Shifts, QuickKinds, BinaryKinds, AddressKinds, ExtendKinds,
                  BitKinds, ToCcrKinds, ToSrKinds, UnaryKinds
<1>18. r = Forget(done)
  BY <1>15, <1>17 DEF Execute, try_increment_address, k
<1> QED BY <1>1, <1>16, <1>18 DEF Forget, stack_ptr

-----------------------------------------------------------------------------
(***************************************************************************)
(* The inductive invariant.                                                *)
(***************************************************************************)

(* A machine that was interrupted in supervisor mode, whose frame is in    *)
(* memory.                                                                 *)
Interrupted(f) == f \in Machines(Bytes) /\ Ok(f) /\ f.sr.s = 1 /\ FrameFits(f) /\ FrameBytes(f) \subseteq Bytes

(* Handlers run in supervisor mode.  The frames are as they were pushed,   *)
(* and each handler that was interrupted had its own stack below every     *)
(* frame that is older: so its stack is below them again when it is        *)
(* resumed.                                                                *)
Stacked(m, fs) ==
    /\ fs # <<>> => Ok(m) /\ m.sr.s = 1
    /\ \A k \in DOMAIN fs : Interrupted(fs[k]) /\ FrameKept(m, fs[k])
    /\ \A j, k \in DOMAIN fs : j < k => stack_ptr(fs[j]) \in Word + Long .. FrameSp(fs[k])

(* The types that the proof needs.                                         *)
Typed ==
    /\ program \in DOMAIN Programs
    /\ machine \in Machines(Bytes)
    /\ frames \in Seq(Machines(Bytes))

(* What Orderly keeps.                                                     *)
Nested == clean => Stacked(machine, frames)

(* The inductive invariant.                                                *)
IInv == Typed /\ Nested

(* There is no frame to keep.                                              *)
LEMMA EmptyStack == ASSUME NEW m PROVE Stacked(m, <<>>)
<1>1. DOMAIN <<>> = {}
  OBVIOUS
<1> QED BY <1>1 DEF Stacked

(* What a reset leaves is a machine.                                       *)
LEMMA ResetIn == ASSUME EightBits PROVE ResetMachine \in Machines(Bytes)
<1>1. 0 \in Values(Long) /\ 0 \in Values(Byte) /\ 0 \in Values(Word)
  BY InValues
<1>2. ResetSp \in Values(Long) /\ ResetPc \in Values(Long)
  BY ConsoleAssumption
<1>3. [b \in Bytes |-> IF b \in Ram THEN 0 ELSE Rom[b]] \in [Bytes -> Values(Byte)]
  BY <1>1, ConsoleAssumption DEF Bytes
<1>4. [c |-> 0, v |-> 0, z |-> 0, n |-> 0, x |-> 0, s |-> 1, mask |-> 7] \in StatusRegisters
  BY DEF StatusRegisters, Bit
<1>5. [n \in 0 .. 7 |-> 0] \in [0 .. 7 -> Values(Long)] /\ [n \in 0 .. 6 |-> 0] \in [0 .. 6 -> Values(Long)]
  BY <1>1
<1> QED BY <1>1, <1>2, <1>3, <1>4, <1>5 DEF ResetMachine, Machines

(* The invariant holds at first.                                           *)
LEMMA Starts == ASSUME EightBits, Init PROVE IInv
<1>1. machine \in Machines(Bytes) /\ frames = <<>> /\ program \in DOMAIN Programs
  BY ResetIn DEF Init
<1>2. frames \in Seq(Machines(Bytes))
  BY <1>1
<1> QED BY <1>1, <1>2, EmptyStack DEF IInv, Typed, Nested

(* A frame lies below every frame that it interrupted, not only below the  *)
(* next.                                                                   *)
LEMMA Unstacks ==
    ASSUME EightBits, NEW m, NEW fs, Stacked(m, fs), NEW j \in DOMAIN fs, NEW k \in DOMAIN fs, j < k
    PROVE  FrameSp(fs[j]) \in Int /\ FrameSp(fs[k]) \in Int /\ FrameSp(fs[j]) < FrameSp(fs[k])
<1>1. Interrupted(fs[j]) /\ Interrupted(fs[k]) /\ stack_ptr(fs[j]) \in Word + Long .. FrameSp(fs[k])
  BY DEF Stacked
<1>2. stack_ptr(fs[j]) = fs[j].ssp /\ FrameSp(fs[j]) = (IF fs[j].ssp = 0 THEN 4294967290 ELSE fs[j].ssp - 6)
      /\ FrameSp(fs[j]) \in Int /\ FrameSp(fs[k]) \in Int /\ fs[j].ssp \in Values(Long)
  BY <1>1, FrameLies DEF Interrupted
<1>3. fs[j].ssp \in Int
  BY <1>2, InValues
<1> QED BY <1>1, <1>2, <1>3 DEF Word, Long

(* The invariant says that the frames are intact.                          *)
LEMMA FramesAreIntact == ASSUME EightBits, IInv PROVE FramesIntact
<1> SUFFICES ASSUME clean, Ok(machine)
             PROVE  /\ frames # <<>> => machine.sr.s = 1
                    /\ \A k \in DOMAIN frames :
                           /\ FrameKept(machine, frames[k])
                           /\ k > 1 => FrameSp(frames[k - 1]) < FrameSp(frames[k])
  BY DEF FramesIntact
<1>1. Stacked(machine, frames) /\ frames \in Seq(Machines(Bytes))
  BY DEF IInv, Typed, Nested
<1>2. ASSUME NEW k \in DOMAIN frames, k > 1 PROVE FrameSp(frames[k - 1]) < FrameSp(frames[k])
  <2>1. k - 1 \in DOMAIN frames /\ k - 1 < k
    BY <1>1, <1>2
  <2> QED BY <1>1, <1>2, <2>1, Unstacks
<1> QED BY <1>1, <1>2 DEF Stacked

-----------------------------------------------------------------------------
(***************************************************************************)
(* The steps: an interrupt, an instruction, and the others.                *)
(***************************************************************************)

(* A frame of which no byte was written is kept while the stack stays      *)
(* below it.                                                               *)
LEMMA KeptBy ==
    ASSUME EightBits, NEW m \in Machines(Bytes), NEW r \in Machines(Bytes), NEW f, Interrupted(f), FrameKept(m, f),
           \A b \in FrameBytes(f) : r.mem[b] = m.mem[b], stack_ptr(r) <= FrameSp(f)
    PROVE  FrameKept(r, f)
<1> DEFINE a == FrameSp(f)
<1>1. a \in Int
  BY FrameLies DEF Interrupted
<1>2. FrameBytes(f) = a .. a + 5 /\ a .. a + 5 \subseteq Bytes /\ Word \in {Word, Long} /\ Long \in {Word, Long} /\ Word = 2 /\ Long = 4
  BY <1>1 DEF FrameBytes, Interrupted, Word, Long
<1> HIDE DEF a
<1>3. /\ a .. a + Word - 1 \subseteq a .. a + 5
      /\ a + Word .. a + Word + Long - 1 \subseteq a .. a + 5 /\ a + Word \in Int
  BY <1>1, <1>2
<1>4. Fetch(r, a, Word) = Fetch(m, a, Word)
  <2>1. a .. a + Word - 1 \subseteq Bytes /\ \A b \in a .. a + Word - 1 : r.mem[b] = m.mem[b]
    BY <1>2, <1>3
  <2> QED BY <1>1, <2>1, FetchKept
<1>5. Fetch(r, a + Word, Long) = Fetch(m, a + Word, Long)
  <2>1. a + Word .. a + Word + Long - 1 \subseteq Bytes /\ \A b \in a + Word .. a + Word + Long - 1 : r.mem[b] = m.mem[b]
    BY <1>2, <1>3
  <2> DEFINE c == a + Word
  <2>2. c \in Int /\ c .. c + Long - 1 \subseteq Bytes /\ \A b \in c .. c + Long - 1 : r.mem[b] = m.mem[b]
    BY <1>3, <2>1
  <2> HIDE DEF c
  <2>3. Fetch(r, c, Long) = Fetch(m, c, Long)
    BY <2>2, FetchKept
  <2> QED BY <2>3 DEF c
<1> QED BY <1>4, <1>5 DEF FrameKept, a

(* Pushing a frame leaves a machine, whether the writes are refused or     *)
(* not.                                                                    *)
LEMMA CallIn ==
    ASSUME EightBits, NEW D, NEW m \in Machines(D)
    PROVE  call_vblank(m) \in Machines(D)
<1> DEFINE a == SetStackPtr(m, stack_ptr(m) - Long)
           p == PutOrFail(a, stack_ptr(a), Long, m.pc)
           b == SetStackPtr(p, stack_ptr(p) - Word)
           q == PutOrFail(b, stack_ptr(b), Word, SrWord(m.sr))
           r == call_vblank(m)
<1>1. r = IF ~Ok(p) THEN p
          ELSE IF ~Ok(q) THEN q
          ELSE [q EXCEPT !.sr.s = 1, !.sr.mask = VBLANK_INTERRUPT_LEVEL, !.pc = VblankPc]
  BY DEF call_vblank
<1>2. ASSUME NEW x \in Machines(D), NEW size \in {Word, Long}, NEW v \in Int
      PROVE  /\ SetStackPtr(x, stack_ptr(x) - size) \in Machines(D)
             /\ LET y == SetStackPtr(x, stack_ptr(x) - size) IN PutOrFail(y, stack_ptr(y), size, v) \in Machines(D)
  <2> DEFINE y == SetStackPtr(x, stack_ptr(x) - size)
             w == PutOrFail(y, stack_ptr(y), size, v)
  <2>1. stack_ptr(x) - size \in Int
    <3>1. stack_ptr(x) \in Int
      BY StackPtrIn, ValuesWiden
    <3> QED BY <3>1 DEF Word, Long
  <2>2. y \in Machines(D)
    BY <2>1, SetStackPtrIn
  <2> HIDE DEF y
  <2>3. stack_ptr(y) \in Int /\ size \in Sizes
    BY <2>2, StackPtrIn, ValuesWiden DEF Sizes
  <2>4. CASE Mapped(y, stack_ptr(y), size)
    <3>1. Pushed(D, Put(y, stack_ptr(y), size, v), y)
      BY <2>2, <2>3, <2>4, PutIn
    <3> QED BY <2>2, <2>4, <3>1 DEF PutOrFail, Pushed, y
  <2>5. CASE ~Mapped(y, stack_ptr(y), size)
    <3>1. w = Fail(y)
      BY <2>5 DEF PutOrFail
    <3>2. Fail(y) \in Machines(D)
      BY <2>2 DEF Fail, Machines
    <3> QED BY <2>2, <3>1, <3>2 DEF y
  <2> QED BY <2>4, <2>5
<1>3. m.sr \in StatusRegisters /\ m.pc \in Int /\ SrWord(m.sr) \in Int /\ Word \in {Word, Long} /\ Long \in {Word, Long}
  BY ValuesWiden, WordTells DEF Machines
<1>4. p \in Machines(D)
  BY <1>2, <1>3
<1> HIDE DEF p
<1>5. q \in Machines(D)
  BY <1>2, <1>3, <1>4
<1> HIDE DEF q
<1>6. [q EXCEPT !.sr.s = 1, !.sr.mask = VBLANK_INTERRUPT_LEVEL, !.pc = VblankPc] \in Machines(D)
  <2> DEFINE super == [q.sr EXCEPT !.s = 1]
             level == [super EXCEPT !.mask = VBLANK_INTERRUPT_LEVEL]
             last == [q EXCEPT !.sr.s = 1, !.sr.mask = VBLANK_INTERRUPT_LEVEL, !.pc = VblankPc]
  <2>1. q.sr \in StatusRegisters /\ VBLANK_INTERRUPT_LEVEL \in 0 .. 7 /\ VblankPc \in Values(Long)
    BY <1>5, ConsoleAssumption DEF Machines, VBLANK_INTERRUPT_LEVEL
  <2>2. super \in StatusRegisters
    BY <2>1 DEF StatusRegisters, Bit
  <2>3. last = [q EXCEPT !.sr = level, !.pc = VblankPc]
    BY <1>5, <2>1 DEF Machines, StatusRegisters
  <2> HIDE DEF super
  <2>4. level \in StatusRegisters
    BY <2>1, <2>2 DEF StatusRegisters
  <2> HIDE DEF level, last
  <2>5. last \in Machines(D)
    BY <1>5, <2>1, <2>3, <2>4 DEF Machines
  <2> QED BY <2>5 DEF last
<1> QED BY <1>1, <1>4, <1>5, <1>6

(* An interrupt puts its frame below those that are there: the mode, the   *)
(* stack pointer of the interrupted handler and the bytes of the older     *)
(* frames are as before.                                                   *)
LEMMA Interrupting ==
    ASSUME EightBits, IInv, TakeVblank, OrderlyStep
    PROVE  IInv'
<1>1. /\ machine \in Machines(Bytes) /\ frames \in Seq(Machines(Bytes)) /\ program \in DOMAIN Programs
      /\ (clean => Stacked(machine, frames))
  BY DEF IInv, Typed, Nested
<1>2. /\ Ok(machine) /\ machine' = call_vblank(machine) /\ program' = program
      /\ frames' = (IF clean' THEN <<machine>> \o frames ELSE <<>>)
      /\ clean' => clean /\ Ok(machine') /\ machine.sr.s = 1
  BY DEF TakeVblank
<1>3. machine' \in Machines(Bytes)
  BY <1>1, <1>2, CallIn
<1>4. frames' \in Seq(Machines(Bytes))
  BY <1>1, <1>2
<1>5. CASE ~clean'
  BY <1>1, <1>2, <1>3, <1>4, <1>5 DEF IInv, Typed, Nested, Bytes
<1>6. CASE clean'
  <2> DEFINE n == Len(frames)
             r == machine'
             sp == machine.ssp
             f == FrameSp(machine)
             fs == frames'
  <2>1. /\ n \in Nat /\ DOMAIN frames = 1 .. n /\ Len(fs) = n + 1 /\ DOMAIN fs = 1 .. n + 1
        /\ fs[1] = machine /\ \A k \in 1 .. n : fs[k + 1] = frames[k]
    BY <1>1, <1>2, <1>6
  <2>2. \A k \in DOMAIN fs : k = 1 \/ (k - 1 \in DOMAIN frames /\ fs[k] = frames[k - 1])
    <3> TAKE k \in DOMAIN fs
    <3>1. k # 1 => k - 1 \in 1 .. n /\ (k - 1) + 1 = k
      BY <2>1
    <3> QED BY <2>1, <3>1
  <2>3. Stacked(machine, frames) /\ machine.sr.s = 1 /\ Ok(r) /\ r = call_vblank(machine)
    BY <1>1, <1>2, <1>6
  <2>4. /\ Len(fs) > n
        /\ IF frames = <<>> THEN FrameFits(machine) ELSE stack_ptr(machine) >= Word + Long
    BY <2>1 DEF OrderlyStep
  <2>5. FrameFits(machine) /\ stack_ptr(machine) = sp /\ sp \in Int
    <3>1. stack_ptr(machine) \in Int
      BY <1>1, StackPtrIn, ValuesWiden
    <3>2. frames # <<>> => stack_ptr(machine) \notin 1 .. Word + Long - 1
      BY <2>4, <3>1 DEF Word, Long
    <3>3. stack_ptr(machine) = sp
      BY <2>3 DEF stack_ptr
    <3> QED BY <2>4, <3>1, <3>2, <3>3 DEF FrameFits
  <2>6. FramePut(Bytes, machine, r)
    BY <1>1, <1>2, <2>3, <2>5, ConsoleAssumption, FramePushed
  <2>7. /\ f \in Int /\ stack_ptr(r) = f /\ r.sr.s = 1 /\ FrameKept(r, machine) /\ FrameBytes(machine) \subseteq Bytes
        /\ FrameBytes(machine) = f .. f + 5 /\ \A b \in Bytes \ FrameBytes(machine) : r.mem[b] = machine.mem[b]
        /\ f = IF sp = 0 THEN 4294967290 ELSE sp - 6
    <3>1. f \in Int /\ f = IF sp = 0 THEN 4294967290 ELSE sp - 6
      BY <1>1, <2>3, <2>5, FrameLies
    <3> QED BY <2>6, <3>1 DEF FramePut, FrameBytes, Word, Long
  <2> HIDE DEF r, fs, f, sp
  <2>8. Interrupted(machine) /\ FrameKept(r, machine)
    BY <1>1, <1>2, <2>3, <2>5, <2>7 DEF Interrupted
  <2>9. ASSUME NEW k \in DOMAIN frames
        PROVE  /\ Interrupted(frames[k]) /\ FrameKept(r, frames[k])
               /\ stack_ptr(machine) \in Word + Long .. FrameSp(frames[k])
    <3>1. Interrupted(frames[k]) /\ FrameKept(machine, frames[k]) /\ frames # <<>>
      BY <1>1, <2>3 DEF Stacked
    <3>2. /\ FrameSp(frames[k]) \in Int /\ FrameBytes(frames[k]) \subseteq Bytes
          /\ FrameBytes(frames[k]) = FrameSp(frames[k]) .. FrameSp(frames[k]) + 5
      BY <3>1, FrameLies DEF Interrupted, FrameBytes, Word, Long
    <3>3. sp >= 6 /\ sp <= FrameSp(frames[k])
      BY <2>4, <2>5, <3>1 DEF FrameKept, Word, Long
    <3>4. \A b \in FrameBytes(frames[k]) : r.mem[b] = machine.mem[b]
      <4> TAKE b \in FrameBytes(frames[k])
      <4>1. b \in Bytes /\ b \in Int /\ b >= sp
        BY <2>5, <3>2, <3>3
      <4>2. b \notin f .. f + 5
        BY <2>5, <2>7, <3>3, <4>1
      <4> QED BY <2>7, <4>1, <4>2
    <3>5. stack_ptr(r) <= FrameSp(frames[k])
      BY <2>5, <2>7, <3>2, <3>3
    <3>6. FrameKept(r, frames[k])
      BY <1>1, <1>3, <3>1, <3>4, <3>5, KeptBy DEF r
    <3> QED BY <2>5, <3>1, <3>2, <3>3, <3>6 DEF Word, Long
  <2>10. \A k \in DOMAIN fs : Interrupted(fs[k]) /\ FrameKept(r, fs[k])
    BY <2>1, <2>2, <2>8, <2>9
  <2>11. ASSUME NEW j \in DOMAIN fs, NEW k \in DOMAIN fs, j < k
         PROVE  stack_ptr(fs[j]) \in Word + Long .. FrameSp(fs[k])
    <3>1. k # 1 /\ k - 1 \in DOMAIN frames /\ fs[k] = frames[k - 1]
      BY <2>1, <2>2, <2>11
    <3>2. CASE j = 1
      BY <2>1, <2>9, <3>1, <3>2
    <3>3. CASE j # 1
      <4>1. j - 1 \in DOMAIN frames /\ fs[j] = frames[j - 1] /\ j - 1 < k - 1
        BY <2>1, <2>2, <2>11, <3>3
      <4> QED BY <2>3, <3>1, <4>1 DEF Stacked
    <3> QED BY <3>2, <3>3
  <2>12. Stacked(r, fs)
    BY <2>3, <2>7, <2>10, <2>11 DEF Stacked
  <2> QED BY <1>1, <1>2, <1>3, <1>4, <2>12 DEF IInv, Typed, Nested, Bytes, r, fs
<1> QED BY <1>5, <1>6

(* The programs hold instructions of the decoder.                          *)
LEMMA NextInst ==
    ASSUME Typed, NEW pc \in DOMAIN code
    PROVE  code[pc].next \in Values(Long) /\ WellFormed(code[pc].inst)
BY ConsoleAssumption DEF Typed, code

(* Where there is an instruction, a call executes it on the machine with   *)
(* the program counter after it.                                           *)
LEMMA Stepping ==
    ASSUME Typed, ExecuteInstruction, machine.pc \in DOMAIN code, NEW at, at = code[machine.pc],
           NEW m, m = [machine EXCEPT !.pc = at.next]
    PROVE  /\ m \in Machines(Bytes) /\ Ok(m) /\ m.mem = machine.mem /\ m.sr = machine.sr /\ stack_ptr(m) = stack_ptr(machine)
           /\ WellFormed(at.inst) /\ machine' = Execute(m, at.inst)
<1>1. at.next \in Values(Long) /\ WellFormed(at.inst)
  BY NextInst
<1>2. machine' = Execute(m, at.inst) /\ Ok(machine)
  BY Zenon DEF ExecuteInstruction, step
<1>3. machine \in Machines(Bytes)
  BY DEF Typed
<1>4. m \in Machines(Bytes) /\ m.status = machine.status /\ m.mem = machine.mem /\ m.sr = machine.sr
      /\ m.ssp = machine.ssp /\ m.usp = machine.usp
  BY <1>1, <1>3 DEF Machines
<1> QED BY <1>1, <1>2, <1>4 DEF Ok, stack_ptr

(* The RTE of a handler gives back what was interrupted, and writes        *)
(* nothing.                                                                *)
LEMMA Returning ==
    ASSUME EightBits, IInv, ExecuteInstruction, clean', Resumes, NEW f, f = frames[1]
    PROVE  /\ machine'.sr = f.sr /\ machine'.pc = f.pc /\ stack_ptr(machine') = stack_ptr(f)
           /\ machine'.mem = machine.mem
<1> DEFINE at == code[machine.pc]
           m == [machine EXCEPT !.pc = at.next]
           r == machine'
<1>1. frames \in Seq(Machines(Bytes)) /\ frames # <<>> /\ Typed /\ Stacked(machine, frames) /\ Ok(r)
  BY DEF IInv, Typed, Nested, ExecuteInstruction, Resumes
<1>2. 1 \in DOMAIN frames /\ Head(frames) = f
  BY <1>1
<1>3. Interrupted(f) /\ FrameKept(machine, f) /\ machine.sr.s = 1
  BY <1>1, <1>2 DEF Stacked
<1>4. machine.pc \in DOMAIN code /\ at.inst.kind = "Rte" /\ stack_ptr(machine) = FrameSp(f)
  BY <1>2 DEF Resumes
<1>5. /\ m \in Machines(Bytes) /\ Ok(m) /\ m.mem = machine.mem /\ m.sr = machine.sr /\ stack_ptr(m) = stack_ptr(machine)
      /\ WellFormed(at.inst) /\ r = Execute(m, at.inst)
  BY <1>1, <1>4, Stepping
<1> HIDE DEF m, r, at
<1>6. FrameKept(m, f)
  BY <1>3, <1>5 DEF FrameKept, Fetch
<1>7. r.sr = f.sr /\ r.pc = f.pc /\ stack_ptr(r) = stack_ptr(f) /\ r.mem = m.mem
  BY <1>1, <1>3, <1>4, <1>5, <1>6, FrameReturned DEF Interrupted
<1> QED BY <1>5, <1>7 DEF r

(* An instruction of a handler keeps the frames, an RTE takes the lowest   *)
(* away, and an instruction of the interrupted program meets no frame.     *)
LEMMA Executing ==
    ASSUME EightBits, IInv, ExecuteInstruction, OrderlyStep
    PROVE  IInv'
<1>1. /\ machine \in Machines(Bytes) /\ frames \in Seq(Machines(Bytes)) /\ program \in DOMAIN Programs
      /\ (clean => Stacked(machine, frames)) /\ Typed
  BY DEF IInv, Typed, Nested
<1>2. /\ Ok(machine) /\ machine' = step(machine) /\ program' = program
      /\ frames' = (IF ~clean' THEN <<>> ELSE IF Resumes THEN Tail(frames) ELSE frames)
      /\ clean' => clean /\ (frames # <<>> => Ok(machine'))
  BY DEF ExecuteInstruction
<1> DEFINE at == code[machine.pc]
           m == [machine EXCEPT !.pc = at.next]
           r == machine'
<1>3. ASSUME machine.pc \in DOMAIN code
      PROVE  m \in Machines(Bytes) /\ Ok(m) /\ WellFormed(at.inst) /\ r = Execute(m, at.inst)
  BY <1>1, <1>3, Stepping
<1>4. r \in Machines(Bytes)
  <2>1. CASE machine.pc \in DOMAIN code
    <3> HIDE DEF m, at, r
    <3> QED BY <1>3, <2>1, Executes
  <2>2. CASE machine.pc \notin DOMAIN code
    <3>1. r = [machine EXCEPT !.status = "crash"]
      BY <1>2, <2>2 DEF step
    <3> HIDE DEF r
    <3> QED BY <1>1, <3>1 DEF Machines
  <2> QED BY <2>1, <2>2
<1>5. frames' \in Seq(Machines(Bytes))
  <2>1. Resumes => frames # <<>>
    BY DEF Resumes
  <2> QED BY <1>1, <1>2, <2>1
<1>6. ASSUME clean' PROVE Stacked(r, frames')
  <2> USE <1>6
  <2>1. CASE frames = <<>>
    <3>1. frames' = <<>>
      BY <1>2, <2>1 DEF Resumes
    <3> QED BY <3>1, EmptyStack
  <2>2. CASE frames # <<>> /\ Resumes
    <3> DEFINE f == frames[1]
               n == Len(frames)
               fs == frames'
    <3>1. /\ n \in Nat \ {0} /\ DOMAIN frames = 1 .. n /\ fs = Tail(frames) /\ Len(fs) = n - 1 /\ DOMAIN fs = 1 .. n - 1
          /\ \A k \in 1 .. n - 1 : fs[k] = frames[k + 1]
      BY <1>1, <1>2, <2>2
    <3>2. Stacked(machine, frames) /\ Ok(r) /\ 1 \in DOMAIN frames
      BY <1>1, <1>2, <2>2, <3>1
    <3>3. Interrupted(f)
      BY <3>2 DEF Stacked
    <3>6. r.sr = f.sr /\ stack_ptr(r) = stack_ptr(f) /\ r.mem = machine.mem
      BY <2>2, Returning
    <3>7. f.sr.s = 1
      BY <3>3 DEF Interrupted
    <3> HIDE DEF f, r, fs, m, at
    <3>8. ASSUME NEW k \in DOMAIN fs PROVE Interrupted(fs[k]) /\ FrameKept(r, fs[k])
      <4>1. k + 1 \in DOMAIN frames /\ fs[k] = frames[k + 1] /\ 1 < k + 1
        BY <3>1
      <4>2. Interrupted(fs[k]) /\ FrameKept(machine, fs[k]) /\ stack_ptr(f) \in Word + Long .. FrameSp(fs[k])
        BY <3>2, <4>1 DEF Stacked, f
      <4>3. stack_ptr(r) <= FrameSp(fs[k])
        BY <3>6, <4>2
      <4> QED BY <1>1, <1>4, <3>6, <4>2, <4>3, KeptBy
    <3>9. ASSUME NEW j \in DOMAIN fs, NEW k \in DOMAIN fs, j < k
          PROVE  stack_ptr(fs[j]) \in Word + Long .. FrameSp(fs[k])
      <4>1. k + 1 \in DOMAIN frames /\ fs[k] = frames[k + 1] /\ j + 1 \in DOMAIN frames /\ fs[j] = frames[j + 1] /\ j + 1 < k + 1
        BY <3>1, <3>9
      <4> QED BY <3>2, <4>1 DEF Stacked
    <3>10. Stacked(r, fs)
      BY <3>2, <3>6, <3>7, <3>8, <3>9 DEF Stacked
    <3> QED BY <3>10 DEF fs
  <2>3. CASE frames # <<>> /\ ~Resumes
    <3>1. frames' = frames /\ Stacked(machine, frames) /\ Ok(r)
      BY <1>1, <1>2, <2>3
    <3>2. HandlerKeepsFrames
      BY <2>3, <3>1 DEF OrderlyStep
    <3>3. 1 \in DOMAIN frames /\ Head(frames) = frames[1] /\ DOMAIN frames \subseteq Nat /\ \A k \in DOMAIN frames : k = 1 \/ 1 < k
      BY <1>1, <2>3
    <3>4. r.sr.s = 1 /\ stack_ptr(r) <= FrameSp(frames[1])
          /\ \A k \in DOMAIN frames : \A b \in FrameBytes(frames[k]) : r.mem[b] = machine.mem[b]
      BY <3>2, <3>3 DEF HandlerKeepsFrames
    <3> HIDE DEF r
    <3>5. ASSUME NEW k \in DOMAIN frames PROVE FrameKept(r, frames[k])
      <4>1. Interrupted(frames[k]) /\ FrameKept(machine, frames[k])
        BY <3>1 DEF Stacked
      <4>2. stack_ptr(r) <= FrameSp(frames[k])
        <5>1. CASE k = 1
          BY <3>4, <5>1
        <5>2. CASE 1 < k
          <6>1. FrameSp(frames[1]) \in Int /\ FrameSp(frames[k]) \in Int /\ FrameSp(frames[1]) < FrameSp(frames[k])
            BY <3>1, <3>3, <5>2, Unstacks
          <6>2. stack_ptr(r) \in Int
            BY <1>4, StackPtrIn, ValuesWiden
          <6> QED BY <3>4, <6>1, <6>2
        <5> QED BY <3>3, <5>1, <5>2
      <4> QED BY <1>1, <1>4, <3>4, <4>1, <4>2, KeptBy
    <3>6. Stacked(r, frames)
      BY <3>1, <3>4, <3>5 DEF Stacked
    <3> QED BY <3>1, <3>6
  <2> QED BY <2>1, <2>2, <2>3
<1> QED BY <1>1, <1>2, <1>4, <1>5, <1>6 DEF IInv, Typed, Nested, Bytes

(* The user continues or restarts nothing but the run.                     *)
LEMMA Running ==
    ASSUME EightBits, IInv, Run
    PROVE  IInv'
<1>1. /\ machine \in Machines(Bytes) /\ machine' = [machine EXCEPT !.status = "ok"]
      /\ program' = program /\ frames' = frames /\ clean' = clean /\ Typed /\ Nested
  BY DEF IInv, Typed, Run
<1>2. /\ machine' \in Machines(Bytes) /\ Ok(machine') /\ machine'.sr = machine.sr /\ machine'.mem = machine.mem
      /\ machine'.ssp = machine.ssp /\ machine'.usp = machine.usp
  BY <1>1 DEF Machines, Ok
<1>3. ASSUME clean PROVE Stacked(machine', frames)
  <2>1. stack_ptr(machine') = stack_ptr(machine)
    BY <1>2 DEF stack_ptr
  <2>2. ASSUME NEW k \in DOMAIN frames PROVE Interrupted(frames[k]) /\ FrameKept(machine', frames[k])
    <3>1. Interrupted(frames[k]) /\ FrameKept(machine, frames[k])
      BY <1>1, <1>3 DEF Nested, Stacked
    <3> QED BY <1>2, <2>1, <3>1 DEF FrameKept, Fetch
  <2> QED BY <1>1, <1>2, <1>3, <2>2 DEF Nested, Stacked
<1> QED BY <1>1, <1>2, <1>3 DEF IInv, Typed, Nested, Bytes

(* A reset forgets the frames.                                             *)
LEMMA Resetting ==
    ASSUME EightBits, IInv, reset
    PROVE  IInv'
<1>1. machine' = ResetMachine /\ frames' = <<>> /\ program' = program /\ program \in DOMAIN Programs
  BY DEF reset, IInv, Typed
<1>2. machine' \in Machines(Bytes) /\ frames' \in Seq(Machines(Bytes))
  BY <1>1, ResetIn
<1>3. Stacked(machine', frames')
  BY <1>1, EmptyStack
<1> QED BY <1>1, <1>2, <1>3 DEF IInv, Typed, Nested, Bytes

(* The clock, the game speed and the VDP touch neither the machine nor the *)
(* frames.                                                                 *)
LEMMA Unchanging ==
    ASSUME IInv, UNCHANGED <<program, machine, frames, clean>>
    PROVE  IInv'
BY DEF IInv, Typed, Nested, Stacked, Interrupted, FrameKept, FrameSp, Bytes, FrameFits, FrameBytes

(* Every step that follows the rules of the handlers keeps the invariant.  *)
LEMMA FramesStep ==
    ASSUME EightBits, IInv, [Next]_vars, [OrderlyStep]_vars
    PROVE  IInv'
<1>1. CASE UNCHANGED vars
  BY <1>1, Unchanging DEF vars
<1>2. CASE Tick \/ set_game_speed \/ SetVblankInterrupt
  BY <1>2, Unchanging DEF Tick, set_game_speed, SetVblankInterrupt, ghosts
<1>3. CASE ~UNCHANGED vars /\ TakeVblank
  BY <1>3, Interrupting
<1>4. CASE ~UNCHANGED vars /\ ExecuteInstruction
  BY <1>4, Executing
<1>5. CASE Run
  BY <1>5, Running
<1>6. CASE reset
  BY <1>6, Resetting
<1> QED BY <1>1, <1>2, <1>3, <1>4, <1>5, <1>6 DEF Next, execute_single_instruction

(* For every program, memory, game speed and number of nested interrupts,  *)
(* whose handlers keep the rules of Orderly: until its RTE the frame of an *)
(* interrupt holds the status register and the program counter that were   *)
(* pushed, below the frames of the interrupts it interrupted, and the      *)
(* handler runs in supervisor mode with its stack below it                 *)
(* (interrupt_handler.cpp:59-79).                                          *)
THEOREM FramesStay == EightBits => (Spec /\ Orderly => []FramesIntact)
<1> SUFFICES ASSUME EightBits PROVE Spec /\ Orderly => []FramesIntact
  OBVIOUS
<1>1. Init => IInv
  BY Starts
<1>2. IInv /\ [Next]_vars /\ [OrderlyStep]_vars => IInv'
  BY FramesStep
<1>3. IInv => FramesIntact
  BY FramesAreIntact
<1> QED BY <1>1, <1>2, <1>3, PTL DEF Spec, Orderly

(* For the same programs: the RTE of a handler resumes the program or the  *)
(* handler that was interrupted, with its status register, program counter *)
(* and stack pointer (execute.cpp:957).                                    *)
THEOREM HandlersResume == EightBits => (Spec /\ Orderly => HandlersReturn)
<1> SUFFICES ASSUME EightBits PROVE Spec /\ Orderly => HandlersReturn
  OBVIOUS
<1> DEFINE Return ==
               clean' /\ calls' # calls /\ Len(frames') < Len(frames) =>
                   /\ machine'.sr = Head(frames).sr /\ machine'.pc = Head(frames).pc
                   /\ stack_ptr(machine') = stack_ptr(Head(frames))
<1>1. Init => IInv
  BY Starts
<1>2. IInv /\ [Next]_vars /\ [OrderlyStep]_vars => IInv'
  BY FramesStep
<1>3. IInv /\ [Next]_vars => [Return]_vars
  <2> SUFFICES ASSUME IInv, Next, clean', calls' # calls, Len(frames') < Len(frames)
               PROVE  /\ machine'.sr = Head(frames).sr /\ machine'.pc = Head(frames).pc
                      /\ stack_ptr(machine') = stack_ptr(Head(frames))
    OBVIOUS
  <2>1. frames \in Seq(Machines(Bytes)) /\ Len(frames) \in Nat
    BY DEF IInv, Typed
  <2>2. CASE TakeVblank
    <3>1. frames' = <<machine>> \o frames /\ machine \in Machines(Bytes)
      BY <2>2 DEF TakeVblank, IInv, Typed
    <3>2. Len(frames') = 1 + Len(frames)
      BY <2>1, <3>1
    <3> QED BY <2>1, <3>2
  <2>3. CASE ExecuteInstruction
    <3>1. Resumes /\ frames # <<>>
      BY <2>1, <2>3 DEF ExecuteInstruction, Resumes
    <3>2. Head(frames) = frames[1]
      BY <2>1, <3>1
    <3> QED BY <2>3, <3>1, <3>2, Returning
  <2>4. execute_single_instruction
    BY DEF Next, Tick, set_game_speed, SetVblankInterrupt, Run, reset, returned
  <2> QED BY <2>2, <2>3, <2>4 DEF execute_single_instruction
<1> QED BY <1>1, <1>2, <1>3, PTL DEF Spec, Orderly, HandlersReturn
=============================================================================
