----------------------------- MODULE M68kProofs -----------------------------
(***************************************************************************)
(* One instruction of the interpreter, whatever its operands and the       *)
(* machine: it leaves a machine (registers of 32 bits, flags that are      *)
(* bits, the same memory), it steps every operand once, and when it fails  *)
(* it has stored nothing, unless its kind may fail half way.               *)
(*                                                                         *)
(* The account of the steps is the idea of the proof.  Along(m, i, x) says *)
(* that between the beginning of instruction i on machine m and machine x  *)
(* every address register that i does not write has moved by what the      *)
(* marks `decremented' and `incremented' say it was stepped; each read,    *)
(* write and increment of the code keeps it.                               *)
(*                                                                         *)
(* The last section is what the proofs about recompiled code need of the   *)
(* interpreter alone.                                                      *)
(***************************************************************************)
EXTENDS M68kTypes, WellFoundedInduction, FiniteSetTheorems, TLAPS

EightBits == BYTE = 8

NatLess == OpToRel(<, Nat)

(* A set of natural numbers has a least element: how the proofs go over    *)
(* sizes, bits and registers from the first one on.                        *)
LEMMA LeastNumber ==
  ASSUME NEW T, T \subseteq Nat, T # {}
  PROVE  \E x \in T : \A y \in T : x <= y
<1>1. IsWellFoundedOn(NatLess, Nat)
  BY NatLessThanWellFounded DEF NatLess
<1>2. PICK x \in T : \A y \in T : ~ (<<y, x>> \in NatLess)
  BY <1>1, WFMin
<1>3. ASSUME NEW y \in T PROVE x <= y
  <2>1. x \in Nat /\ y \in Nat /\ <<y, x>> \in Nat \X Nat
    OBVIOUS
  <2>2. y < x => <<y, x>> \in NatLess
    BY <2>1 DEF NatLess, OpToRel
  <2> QED BY <1>2, <2>1, <2>2
<1> QED BY <1>3

(* A function f on 0 .. n with f[0] = b and f[k] made by G of k and f[k -  *)
(* 1].                                                                     *)
Steps(G, n, S) == G \in [(1 .. n) \X S -> S]
Recurs(f, b, G, n, S) == f \in [0 .. n -> S] /\ f[0] = b /\ \A k \in 1 .. n : f[k] = G[<<k, f[k - 1]>>]

(* A function that is defined from its value before exists.                *)
LEMMA Recursion ==
    ASSUME NEW S, NEW b \in S, NEW n \in Nat, NEW G, Steps(G, n, S)
    PROVE  \E f : Recurs(f, b, G, n, S)
<1> USE DEF Steps, Recurs
<1> DEFINE Upto(j) == \E f \in [0 .. j -> S] : f[0] = b /\ \A k \in 1 .. j : f[k] = G[<<k, f[k - 1]>>]
           Bad == {j \in 0 .. n : ~Upto(j)}
<1>1. SUFFICES Bad = {}
  <2>1. n \in 0 .. n
    OBVIOUS
  <2> QED BY <1>1, <2>1
<1>2. SUFFICES ASSUME Bad # {} PROVE FALSE
  OBVIOUS
<1>3. Bad \subseteq Nat
  OBVIOUS
<1> HIDE DEF Bad
<1>4. PICK j \in Bad : \A k \in Bad : j <= k
  BY <1>2, <1>3, LeastNumber
<1> USE DEF Bad
<1>5. j \in 0 .. n /\ ~Upto(j)
  BY <1>4
<1>6. Upto(0)
  <2> DEFINE f == [k \in 0 .. 0 |-> b]
  <2>1. f \in [0 .. 0 -> S]
    OBVIOUS
  <2>2. 1 .. 0 = {}
    OBVIOUS
  <2>3. f[0] = b /\ \A k \in 1 .. 0 : f[k] = G[<<k, f[k - 1]>>]
    BY <2>2
  <2> QED BY <2>1, <2>3
<1>7. j # 0 /\ j - 1 \in 0 .. n /\ j - 1 \notin Bad
  <2>1. j # 0
    BY <1>5, <1>6
  <2>2. j - 1 \in 0 .. n /\ ~(j <= j - 1)
    BY <1>5, <2>1
  <2> QED BY <2>1, <2>2, <1>4
<1>8. PICK f \in [0 .. j - 1 -> S] : f[0] = b /\ \A k \in 1 .. j - 1 : f[k] = G[<<k, f[k - 1]>>]
  BY <1>7
<1>9. f[j - 1] \in S /\ j \in 1 .. n
  BY <1>5, <1>7
<1> DEFINE g == [k \in 0 .. j |-> IF k = j THEN G[<<j, f[j - 1]>>] ELSE f[k]]
<1>10. G[<<j, f[j - 1]>>] \in S
  BY <1>9
<1>11. g \in [0 .. j -> S]
  <2>1. \A k \in 0 .. j : k # j => k \in 0 .. j - 1
    BY <1>5
  <2> QED BY <2>1, <1>10
<1>12. g[0] = b
  BY <1>8, <1>5, <1>7
<1>13. ASSUME NEW k \in 1 .. j PROVE g[k] = G[<<k, g[k - 1]>>]
  <2>1. k - 1 \in 0 .. j /\ k - 1 # j /\ g[k - 1] = f[k - 1]
    BY <1>5
  <2>2. CASE k = j
    BY <2>1, <2>2
  <2>3. CASE k # j
    <3>1. k \in 1 .. j - 1 /\ g[k] = f[k]
      BY <2>3, <1>5
    <3> QED BY <2>1, <3>1, <1>8
  <2> QED BY <2>2, <2>3
<1> QED
  BY <1>5, <1>11, <1>12, <1>13

(* What holds first and stays holds throughout.                            *)
LEMMA Stays ==
    ASSUME NEW S, NEW n \in Nat, NEW f, f[0] \in S, \A k \in 1 .. n : f[k - 1] \in S => f[k] \in S
    PROVE  \A k \in 0 .. n : f[k] \in S
<1> DEFINE Bad == {k \in 0 .. n : f[k] \notin S}
<1>1. SUFFICES ASSUME Bad # {} PROVE FALSE
  OBVIOUS
<1>2. Bad \subseteq Nat
  OBVIOUS
<1> HIDE DEF Bad
<1>3. PICK j \in Bad : \A k \in Bad : j <= k
  BY <1>1, <1>2, LeastNumber
<1>4. j \in 0 .. n /\ f[j] \notin S /\ j # 0
  BY <1>3 DEF Bad
<1>5. j \in 1 .. n /\ j - 1 \in 0 .. n /\ ~(j <= j - 1)
  BY <1>4
<1>6. f[j - 1] \in S
  BY <1>3, <1>5 DEF Bad
<1> QED BY <1>4, <1>5, <1>6

-----------------------------------------------------------------------------
(***************************************************************************)
(* Numbers.  The theorems are about the widths of the code: BYTE is 8.     *)
(***************************************************************************)

(* The widths of the code's byte, word and long, and how many values each  *)
(* has.                                                                    *)
LEMMA SpanValues ==
    ASSUME EightBits
    PROVE  /\ Span(Byte) = 256 /\ Span(Word) = 65536 /\ Span(Long) = 4294967296
           /\ bit_count(Byte) = 8 /\ bit_count(Word) = 16 /\ bit_count(Long) = 32
BY SMT DEF EightBits, Span, bit_count, Byte, Word, Long

(* The weight of the top bit of each size.                                 *)
LEMMA TopBits ==
    ASSUME EightBits
    PROVE  /\ 2 ^ (bit_count(Byte) - 1) = 128 /\ 2 ^ (bit_count(Word) - 1) = 32768
           /\ 2 ^ (bit_count(Long) - 1) = 2147483648
BY SMT DEF EightBits, bit_count, Byte, Word, Long

(* A remainder is below its divisor.                                       *)
LEMMA Remains ==
    ASSUME NEW v \in Int, NEW n \in Nat \ {0}
    PROVE  v % n \in 0 .. n - 1
BY SMT

(* Truncation to a size gives a value of that size (the casts to uint8_t,  *)
(* uint16_t and uint32_t).                                                 *)
LEMMA LowIn ==
    ASSUME EightBits, NEW v \in Int, NEW size \in Sizes
    PROVE  Low(v, size) \in Values(size)
<1>1. Span(size) \in Nat \ {0}
  BY SpanValues, SMT DEF Sizes
<1> QED
  BY <1>1, Remains DEF Low, Values

(* A value of a size is a value of every wider one.                        *)
LEMMA ValuesWiden ==
    ASSUME EightBits
    PROVE  /\ Values(Byte) \subseteq Values(Word) /\ Values(Word) \subseteq Values(Long)
           /\ Values(Long) \subseteq Nat
BY SpanValues, SMT DEF Values

(* The values of each size as bounds.                                      *)
LEMMA InValues ==
    ASSUME EightBits, NEW v
    PROVE  /\ v \in Values(Byte) <=> v \in Int /\ 0 <= v /\ v < 256
           /\ v \in Values(Word) <=> v \in Int /\ 0 <= v /\ v < 65536
           /\ v \in Values(Long) <=> v \in Int /\ 0 <= v /\ v < 4294967296
BY SpanValues, SMT DEF Values

(* msb() of execute.cpp gives a bit.                                       *)
LEMMA MsbIn ==
    ASSUME EightBits, NEW v \in Int, NEW size \in Sizes
    PROVE  msb(v, size) \in Bit
<1>1. 2 ^ (bit_count(size) - 1) \in Nat \ {0}
  BY TopBits, SMT DEF Sizes
<1> DEFINE n == 2 ^ (bit_count(size) - 1)
<1> HIDE DEF n
<1>2. v \div n \in Int
  BY <1>1, SMT DEF n
<1>3. (v \div n) % 2 \in 0 .. 1
  BY <1>2, SMT
<1> QED
  BY <1>3 DEF msb, n, Bit

(* Sign extension gives a number.                                          *)
LEMMA SignedIn ==
    ASSUME EightBits, NEW v \in Int, NEW size \in Sizes
    PROVE  Signed(v, size) \in Int
<1>1. Span(size) \in Nat \ {0}
  BY SpanValues, SMT DEF Sizes
<1>2. Low(v, size) \in Int
  BY <1>1, SMT DEF Low
<1> QED
  BY <1>1, <1>2, MsbIn, SMT DEF Signed, Bit

-----------------------------------------------------------------------------
(***************************************************************************)
(* Memory.                                                                 *)
(***************************************************************************)

(* The recursive function that Fetch takes its value from exists: it has a *)
(* value for every number of bytes read.                                   *)
LEMMA FetchSteps ==
    ASSUME EightBits, NEW m, NEW addr \in Int, NEW size \in Nat,
           \A b \in addr .. addr + size - 1 : m.mem[b] \in Int
    PROVE  \E u : /\ u[0] = 0 /\ u[size] = Fetch(m, addr, size)
                  /\ \A k \in 1 .. size : u[k] = u[k - 1] * Span(Byte) + m.mem[addr + k - 1]
                  /\ u \in [0 .. size -> Int]
<1> DEFINE Defines(u) ==
             u = [k \in 0 .. size |-> IF k = 0 THEN 0 ELSE u[k - 1] * Span(Byte) + m.mem[addr + k - 1]]
           G == [p \in (1 .. size) \X Int |-> p[2] * Span(Byte) + m.mem[addr + p[1] - 1]]
<1>1. Span(Byte) \in Int
  BY SpanValues, SMT
<1>2. ASSUME NEW k \in 1 .. size PROVE m.mem[addr + k - 1] \in Int
  <2>1. addr + k - 1 \in addr .. addr + size - 1
    OBVIOUS
  <2> QED BY <2>1
<1>3. G \in [(1 .. size) \X Int -> Int]
  <2>1. ASSUME NEW p \in (1 .. size) \X Int PROVE p[2] * Span(Byte) + m.mem[addr + p[1] - 1] \in Int
    BY <1>1, <1>2
  <2> QED BY <2>1
<1> HIDE DEF G
<1>4. PICK f \in [0 .. size -> Int] : f[0] = 0 /\ \A k \in 1 .. size : f[k] = G[<<k, f[k - 1]>>]
  <2>1. size \in Nat /\ 0 \in Int
    OBVIOUS
  <2>2. \E f : Recurs(f, 0, G, size, Int)
    BY <1>3, <2>1, Recursion DEF Steps
  <2> QED BY <2>2 DEF Recurs
<1>5. ASSUME NEW k \in 1 .. size PROVE f[k] = f[k - 1] * Span(Byte) + m.mem[addr + k - 1]
  <2>1. <<k, f[k - 1]>> \in (1 .. size) \X Int
    OBVIOUS
  <2>2. f[k] = G[<<k, f[k - 1]>>]
    BY <1>4
  <2> QED BY <2>1, <2>2 DEF G
<1>6. Defines(f)
  <2>1. ASSUME NEW k \in 0 .. size
        PROVE f[k] = IF k = 0 THEN 0 ELSE f[k - 1] * Span(Byte) + m.mem[addr + k - 1]
    BY <1>4, <1>5
  <2>2. f = [k \in 0 .. size |-> f[k]]
    OBVIOUS
  <2> QED BY <2>1, <2>2
<1> DEFINE u == CHOOSE g : Defines(g)
<1>7. Defines(u)
  BY <1>6
<1> HIDE DEF u
<1>8. Fetch(m, addr, size) = u[size]
  BY DEF Fetch, u
<1>9. u[0] = 0 /\ \A k \in 1 .. size : u[k] = u[k - 1] * Span(Byte) + m.mem[addr + k - 1]
  BY <1>7
<1>10. \A k \in 0 .. size : u[k] \in Int
  <2>1. u[0] \in Int
    BY <1>9
  <2>2. ASSUME NEW k \in 1 .. size, u[k - 1] \in Int PROVE u[k] \in Int
    <3>1. m.mem[addr + k - 1] \in Int /\ u[k] = u[k - 1] * Span(Byte) + m.mem[addr + k - 1]
      BY <1>2, <1>9
    <3>2. u[k - 1] * Span(Byte) \in Int
      BY <1>1, <2>2
    <3> QED BY <3>1, <3>2
  <2> QED BY <2>1, <2>2, Stays
<1>11. u \in [0 .. size -> Int]
  BY <1>7, <1>10
<1> QED BY <1>8, <1>9, <1>11

(* A big-endian read of one, two or four bytes, written out.               *)
LEMMA FetchIs ==
    ASSUME EightBits, NEW m, NEW addr \in Int, NEW size \in Sizes,
           \A b \in addr .. addr + size - 1 : m.mem[b] \in Int
    PROVE  LET b(k) == m.mem[addr + k] IN
           /\ size = Byte => Fetch(m, addr, size) = b(0)
           /\ size = Word => Fetch(m, addr, size) = b(0) * 256 + b(1)
           /\ size = Long => Fetch(m, addr, size) = b(0) * 16777216 + b(1) * 65536 + b(2) * 256 + b(3)
<1>1. size \in Nat /\ size \in {1, 2, 4}
  BY DEF Sizes, Byte, Word, Long
<1>2. PICK u \in [0 .. size -> Int] :
          /\ u[0] = 0 /\ u[size] = Fetch(m, addr, size)
          /\ \A k \in 1 .. size : u[k] = u[k - 1] * Span(Byte) + m.mem[addr + k - 1]
  BY <1>1, FetchSteps
<1> DEFINE b(k) == m.mem[addr + k]
<1>3. ASSUME NEW k \in 1 .. size PROVE u[k] = u[k - 1] * 256 + b(k - 1) /\ b(k - 1) \in Int
  <2>1. addr + k - 1 \in addr .. addr + size - 1 /\ addr + (k - 1) = addr + k - 1
    BY <1>1
  <2> QED BY <1>2, <2>1, SpanValues, SMT
<1> HIDE DEF b
<1>4. u[1] = b(0) /\ b(0) \in Int
  <2>1. 1 \in 1 .. size
    BY <1>1
  <2>2. u[1] = u[0] * 256 + b(0) /\ b(0) \in Int
    BY <1>3, <2>1
  <2> QED BY <2>2, <1>2
<1>5. size >= 2 => u[2] = b(0) * 256 + b(1) /\ b(1) \in Int
  <2> HAVE size >= 2
  <2>1. 2 \in 1 .. size
    BY <1>1
  <2>2. u[2] = u[1] * 256 + b(1) /\ b(1) \in Int
    BY <1>3, <2>1
  <2> QED BY <2>2, <1>4
<1>6. size = 4 => u[4] = b(0) * 16777216 + b(1) * 65536 + b(2) * 256 + b(3)
  <2> HAVE size = 4
  <2>1. 3 \in 1 .. size /\ 4 \in 1 .. size
    BY <1>1
  <2>2. u[3] = u[2] * 256 + b(2) /\ b(2) \in Int
    BY <1>3, <2>1
  <2>3. u[4] = u[3] * 256 + b(3) /\ b(3) \in Int
    BY <1>3, <2>1
  <2>4. u[2] = b(0) * 256 + b(1) /\ b(1) \in Int
    BY <1>5
  <2> QED BY <2>2, <2>3, <2>4, <1>4, SMT
<1>7. size = 1 => Fetch(m, addr, size) = b(0)
  BY <1>2, <1>4
<1>8. size = 2 => Fetch(m, addr, size) = b(0) * 256 + b(1)
  BY <1>2, <1>5
<1>9. size = 4 => Fetch(m, addr, size) = b(0) * 16777216 + b(1) * 65536 + b(2) * 256 + b(3)
  BY <1>2, <1>6, SMT
<1> QED
  BY <1>7, <1>8, <1>9, SMT DEF b, Byte, Word, Long

(* What a device returns for a size is a value of that size.               *)
LEMMA FetchIn ==
    ASSUME EightBits, NEW m, NEW addr \in Int, NEW size \in Sizes,
           \A b \in addr .. addr + size - 1 : m.mem[b] \in Values(Byte)
    PROVE  Fetch(m, addr, size) \in Values(size)
<1>1. ASSUME NEW k \in 0 .. size - 1 PROVE m.mem[addr + k] \in Int /\ 0 <= m.mem[addr + k] /\ m.mem[addr + k] < 256
  <2>1. addr + k \in addr .. addr + size - 1
    BY SMT DEF Sizes, Byte, Word, Long
  <2>2. m.mem[addr + k] \in Values(Byte)
    BY <2>1
  <2> QED BY <2>2, InValues, SMT
<1>2. \A b \in addr .. addr + size - 1 : m.mem[b] \in Int
  <2>1. \A v \in Values(Byte) : v \in Int
    BY ValuesWiden
  <2> QED BY <2>1
<1> DEFINE b(k) == m.mem[addr + k]
<1>3. ASSUME NEW k \in 0 .. size - 1 PROVE b(k) \in Int /\ 0 <= b(k) /\ b(k) < 256
  BY <1>1
<1>4. /\ size = Byte => Fetch(m, addr, size) = b(0)
      /\ size = Word => Fetch(m, addr, size) = b(0) * 256 + b(1)
      /\ size = Long => Fetch(m, addr, size) = b(0) * 16777216 + b(1) * 65536 + b(2) * 256 + b(3)
  BY <1>2, FetchIs, SMT
<1> HIDE DEF b
<1> DEFINE Is(k) == b(k) \in Int /\ 0 <= b(k) /\ b(k) < 256
<1>5. CASE size = Byte
  <2>1. Is(0)
    BY <1>3, <1>5 DEF Byte
  <2> QED BY <2>1, <1>4, <1>5, InValues, SMT
<1>6. CASE size = Word
  <2>1. Is(0) /\ Is(1)
    BY <1>3, <1>6 DEF Word
  <2> QED BY <2>1, <1>4, <1>6, InValues, SMT
<1>7. CASE size = Long
  <2>1. Is(0) /\ Is(1) /\ Is(2) /\ Is(3)
    BY <1>3, <1>7 DEF Long
  <2> QED BY <2>1, <1>4, <1>7, InValues, SMT
<1> QED BY <1>5, <1>6, <1>7, SMT DEF Sizes

(* The weights of the four bytes of a long.                                *)
LEMMA Powers ==
    ASSUME EightBits
    PROVE  2 ^ (BYTE * 0) = 1 /\ 2 ^ (BYTE * 1) = 256 /\ 2 ^ (BYTE * 2) = 65536 /\ 2 ^ (BYTE * 3) = 16777216
BY SMT DEF EightBits

ByteOf(v, j) == (v \div 2 ^ (BYTE * j)) % Span(Byte)

(* The division theorem, for a quotient and a remainder that are given.    *)
LEMMA Divided ==
    ASSUME NEW v \in Int, NEW n \in Nat \ {0}, NEW q, NEW r, q = v \div n, r = v % n
    PROVE  v = n * q + r /\ q \in Int /\ r \in Int /\ 0 <= r /\ r < n
BY SMT

(* A quotient and a remainder with a remainder below the divisor are the   *)
(* quotient and the remainder.                                             *)
LEMMA Divides ==
    ASSUME NEW v, NEW n \in Nat \ {0}, NEW q \in Int, NEW r \in Int, 0 <= r, r < n, v = n * q + r
    PROVE  v % n = r /\ v \div n = q
BY SMT

(* Every byte of a number is a byte.                                       *)
LEMMA ByteOfIn ==
    ASSUME EightBits, NEW v \in Int, NEW j \in 0 .. 3
    PROVE  ByteOf(v, j) \in Values(Byte)
<1>0. v \div 1 = v
  OBVIOUS
<1>1. j = 0 \/ j = 1 \/ j = 2 \/ j = 3
  OBVIOUS
<1>2. ASSUME NEW u \in Int PROVE u % 256 \in Values(Byte)
  <2>1. u % 256 \in Int /\ 0 <= u % 256 /\ u % 256 < 256
    BY SMT
  <2> QED BY <2>1, InValues
<1>3. v \div 256 \in Int /\ v \div 65536 \in Int /\ v \div 16777216 \in Int
  BY SMT
<1>4. /\ ByteOf(v, 0) = v % 256 /\ ByteOf(v, 1) = (v \div 256) % 256
      /\ ByteOf(v, 2) = (v \div 65536) % 256 /\ ByteOf(v, 3) = (v \div 16777216) % 256
  BY <1>0, Powers, SpanValues, SMT DEF ByteOf
<1>5. /\ v % 256 \in Values(Byte) /\ (v \div 256) % 256 \in Values(Byte)
      /\ (v \div 65536) % 256 \in Values(Byte) /\ (v \div 16777216) % 256 \in Values(Byte)
  BY <1>2, <1>3
<1> QED BY <1>1, <1>4, <1>5

(* The two low bytes of a number make its low word.                        *)
LEMMA WordOfBytes ==
    ASSUME NEW v \in Int, NEW b1, NEW b0, b1 = (v \div 256) % 256, b0 = v % 256
    PROVE  b1 * 256 + b0 = v % 65536
<1> DEFINE h == v \div 256
           q == h \div 256
<1>0. 256 \in Nat \ {0} /\ 65536 \in Nat \ {0}
  BY SMT
<1>a. b1 = h % 256
  OBVIOUS
<1> HIDE DEF h, q
<1>1. v = 256 * h + b0 /\ 0 <= b0 /\ b0 < 256 /\ b0 \in Int /\ h \in Int
  BY <1>0, Divided, SMT DEF h
<1>2. h = 256 * q + b1 /\ 0 <= b1 /\ b1 < 256 /\ b1 \in Int /\ q \in Int
  BY <1>0, <1>a, <1>1, Divided, SMT DEF q
<1> DEFINE x == b1 * 256 + b0
<1> HIDE DEF x
<1>3. v = 65536 * q + x /\ 0 <= x /\ x < 65536 /\ x \in Int
  BY <1>1, <1>2, SMT DEF x
<1>4. v % 65536 = x
  BY <1>0, <1>2, <1>3, Divides, SMT
<1> QED BY <1>4, SMT DEF x

(* The four low bytes of a number make its low long.                       *)
LEMMA LongOfBytes ==
    ASSUME NEW v \in Int, NEW b3, NEW b2, NEW b1, NEW b0, b3 = (v \div 16777216) % 256,
           b2 = (v \div 65536) % 256, b1 = (v \div 256) % 256, b0 = v % 256
    PROVE  b3 * 16777216 + b2 * 65536 + b1 * 256 + b0 = v % 4294967296
<1> DEFINE h == v \div 65536
           l == v % 65536
           q == h \div 65536
           k == h % 65536
<1>0. 65536 \in Nat \ {0} /\ 4294967296 \in Nat \ {0}
  BY SMT
<1>5. b1 * 256 + b0 = l
  BY WordOfBytes, SMT
<1>6. v \div 16777216 = h \div 256 /\ h \in Int
  BY SMT
<1>a. b3 = (h \div 256) % 256 /\ b2 = h % 256
  BY <1>6, SMT
<1>8. b3 \in Int /\ b2 \in Int /\ b1 \in Int /\ b0 \in Int
  BY SMT
<1> HIDE DEF h, l, q, k
<1>7. b3 * 256 + b2 = k
  BY <1>6, <1>a, WordOfBytes, SMT DEF k
<1>1. v = 65536 * h + l /\ 0 <= l /\ l < 65536 /\ l \in Int /\ h \in Int
  BY <1>0, Divided, SMT DEF h, l
<1>2. h = 65536 * q + k /\ 0 <= k /\ k < 65536 /\ k \in Int /\ q \in Int
  BY <1>0, <1>1, Divided, SMT DEF q, k
<1> DEFINE x == k * 65536 + l
<1> HIDE DEF x
<1>3. v = 4294967296 * q + x /\ 0 <= x /\ x < 4294967296 /\ x \in Int
  BY <1>1, <1>2, SMT DEF x
<1>4. v % 4294967296 = x
  BY <1>0, <1>2, <1>3, Divides, SMT
<1>11. b3 * 16777216 + b2 * 65536 + b1 * 256 + b0 = x
  BY <1>8, <1>5, <1>7, SMT DEF x
<1> QED BY <1>4, <1>11, SMT

(* The bytes that Put stores make the truncated value again.               *)
LEMMA BytesMake ==
    ASSUME EightBits, NEW v \in Int
    PROVE  /\ ByteOf(v, 0) = Low(v, Byte)
           /\ ByteOf(v, 1) * 256 + ByteOf(v, 0) = Low(v, Word)
           /\ ByteOf(v, 3) * 16777216 + ByteOf(v, 2) * 65536 + ByteOf(v, 1) * 256 + ByteOf(v, 0) = Low(v, Long)
<1> DEFINE b0 == ByteOf(v, 0)
           b1 == ByteOf(v, 1)
           b2 == ByteOf(v, 2)
           b3 == ByteOf(v, 3)
<1>1. v \div 1 = v
  OBVIOUS
<1>2. b0 = v % 256 /\ b1 = (v \div 256) % 256 /\ b2 = (v \div 65536) % 256 /\ b3 = (v \div 16777216) % 256
  BY <1>1, Powers, SpanValues, SMT DEF ByteOf
<1>3. Low(v, Byte) = v % 256 /\ Low(v, Word) = v % 65536 /\ Low(v, Long) = v % 4294967296
  BY SpanValues, SMT DEF Low
<1> HIDE DEF b0, b1, b2, b3
<1>4. b1 * 256 + b0 = v % 65536
  BY <1>2, WordOfBytes, SMT
<1>5. b3 * 16777216 + b2 * 65536 + b1 * 256 + b0 = v % 4294967296
  BY <1>2, LongOfBytes, SMT
<1> QED BY <1>2, <1>3, <1>4, <1>5, SMT DEF b0, b1, b2, b3

(* The bytes of v are at the address, the other bytes as they were.        *)
HasBytes(p, addr, size, v) == \A k \in 0 .. size - 1 : p.mem[addr + k] = ByteOf(v, size - 1 - k)
SameBut(p, m, D, addr, size) == \A b \in D \ (addr .. addr + size - 1) : p.mem[b] = m.mem[b]

(* A write stores the bytes of its value, big-endian, in the bytes it      *)
(* covers and in no other.                                                 *)
LEMMA PutBytes ==
    ASSUME EightBits, NEW D, NEW m, m.mem \in [D -> Values(Byte)], NEW addr \in Int, NEW size \in Sizes,
           NEW v \in Int, addr .. addr + size - 1 \subseteq D, NEW p, p = Put(m, addr, size, v)
    PROVE  /\ p.mem \in [D -> Values(Byte)]
           /\ SameBut(p, m, D, addr, size) /\ HasBytes(p, addr, size, v)
<1> DEFINE new(b) == IF b \in addr .. addr + size - 1 THEN (v \div 2 ^ (BYTE * (addr + size - 1 - b))) % Span(Byte)
                     ELSE m.mem[b]
<1>1. p.mem = [b \in D |-> new(b)]
  <2>1. DOMAIN m.mem = D
    OBVIOUS
  <2> QED BY <2>1 DEF Put, new
<1> HIDE DEF new
<1>2. size \in {1, 2, 4}
  BY DEF Sizes, Byte, Word, Long
<1>3. ASSUME NEW b \in addr .. addr + size - 1
      PROVE  addr + size - 1 - b \in 0 .. 3 /\ new(b) = ByteOf(v, addr + size - 1 - b)
  <2>1. addr + size - 1 - b \in 0 .. 3
    BY <1>2, SMT
  <2> QED BY <2>1 DEF ByteOf, new
<1>4. ASSUME NEW b \in D PROVE new(b) \in Values(Byte)
  BY <1>3, ByteOfIn DEF new
<1>5. p.mem \in [D -> Values(Byte)]
  BY <1>1, <1>4
<1>6. \A b \in D \ (addr .. addr + size - 1) : p.mem[b] = m.mem[b]
  BY <1>1 DEF new
<1>7. ASSUME NEW k \in 0 .. size - 1 PROVE p.mem[addr + k] = ByteOf(v, size - 1 - k)
  <2>1. addr + k \in addr .. addr + size - 1 /\ addr + size - 1 - (addr + k) = size - 1 - k
    BY <1>2, SMT
  <2>2. addr + k \in D /\ p.mem[addr + k] = new(addr + k)
    BY <1>1, <2>1
  <2> QED BY <2>1, <2>2, <1>3
<1> QED BY <1>5, <1>6, <1>7 DEF SameBut, HasBytes

(* What was written is read back, truncated to the size: memory is         *)
(* consistent with itself.                                                 *)
LEMMA FetchPut ==
    ASSUME EightBits, NEW D, NEW m, m.mem \in [D -> Values(Byte)], NEW addr \in Int, NEW size \in Sizes,
           NEW v \in Int, addr .. addr + size - 1 \subseteq D
    PROVE  Fetch(Put(m, addr, size, v), addr, size) = Low(v, size)
<1> DEFINE p == Put(m, addr, size, v)
           b(k) == p.mem[addr + k]
<1>1. /\ p.mem \in [D -> Values(Byte)]
      /\ \A k \in 0 .. size - 1 : b(k) = ByteOf(v, size - 1 - k)
  <2> HIDE DEF p
  <2>1. p.mem \in [D -> Values(Byte)] /\ HasBytes(p, addr, size, v)
    BY PutBytes DEF p
  <2> QED BY <2>1 DEF HasBytes
<1>2. \A c \in addr .. addr + size - 1 : p.mem[c] \in Int
  BY <1>1, ValuesWiden
<1> HIDE DEF p
<1>3. /\ size = Byte => Fetch(p, addr, size) = b(0)
      /\ size = Word => Fetch(p, addr, size) = b(0) * 256 + b(1)
      /\ size = Long => Fetch(p, addr, size) = b(0) * 16777216 + b(1) * 65536 + b(2) * 256 + b(3)
  BY <1>2, FetchIs, SMT
<1> HIDE DEF b
<1>5. CASE size = Byte
  <2>1. b(0) = ByteOf(v, 0)
    BY <1>1, <1>5 DEF Byte
  <2> QED BY <2>1, <1>3, <1>5, BytesMake, SMT DEF p
<1>6. CASE size = Word
  <2>1. b(0) = ByteOf(v, 1) /\ b(1) = ByteOf(v, 0)
    BY <1>1, <1>6 DEF Word
  <2> QED BY <2>1, <1>3, <1>6, BytesMake, SMT DEF p
<1>7. CASE size = Long
  <2>1. b(0) = ByteOf(v, 3) /\ b(1) = ByteOf(v, 2) /\ b(2) = ByteOf(v, 1) /\ b(3) = ByteOf(v, 0)
    BY <1>1, <1>7 DEF Long
  <2> QED BY <2>1, <1>3, <1>7, BytesMake, SMT DEF p
<1> QED BY <1>5, <1>6, <1>7 DEF Sizes, p

-----------------------------------------------------------------------------
(***************************************************************************)
(* Bitwise operations, which the model makes of sums of sets of powers.    *)
(***************************************************************************)

Some(s) == CHOOSE x \in s : TRUE
SumsUpTo(f, S, n) ==
    \A s \in SUBSET S : Cardinality(s) <= n =>
        f[s] \in Int /\ f[s] = IF s = {} THEN 0 ELSE Some(s) + f[s \ {Some(s)}]

(* The table of sums over the sets of up to n elements gives one over the  *)
(* sets of n + 1.                                                          *)
LEMMA SumsFrom ==
    ASSUME NEW S, S \subseteq Int, IsFiniteSet(S), NEW n \in Nat, NEW f, SumsUpTo(f, S, n)
    PROVE  \E g : SumsUpTo(g, S, n + 1)
<1> DEFINE g == [s \in SUBSET S |-> IF s = {} THEN 0 ELSE Some(s) + f[s \ {Some(s)}]]
<1>1. ASSUME NEW s \in SUBSET S, s # {}
      PROVE  /\ IsFiniteSet(s) /\ Some(s) \in s /\ Some(s) \in Int
             /\ s \ {Some(s)} \in SUBSET S /\ Cardinality(s \ {Some(s)}) = Cardinality(s) - 1
             /\ Cardinality(s) \in Nat
  <2>1. IsFiniteSet(s)
    BY FS_Subset
  <2>2. Some(s) \in s
    BY <1>1 DEF Some
  <2> QED BY <2>1, <2>2, FS_RemoveElement, FS_CardinalityType
<1>2. ASSUME NEW s \in SUBSET S, Cardinality(s) <= n PROVE g[s] = f[s]
  BY <1>2 DEF SumsUpTo
<1>3. Cardinality({}) = 0
  BY FS_EmptySet
<1> HIDE DEF g
<1>4. ASSUME NEW s \in SUBSET S, Cardinality(s) <= n + 1
      PROVE  g[s] \in Int /\ g[s] = IF s = {} THEN 0 ELSE Some(s) + g[s \ {Some(s)}]
  <2>1. CASE s = {}
    BY <2>1 DEF g
  <2>2. CASE s # {}
    <3> DEFINE t == s \ {Some(s)}
    <3>1. t \in SUBSET S /\ Cardinality(t) <= n /\ Some(s) \in Int
      <4>1. t \in SUBSET S /\ Cardinality(t) = Cardinality(s) - 1 /\ Some(s) \in Int /\ Cardinality(s) \in Nat
        BY <1>1, <2>2
      <4> HIDE DEF t
      <4> QED BY <4>1, <1>4
    <3> HIDE DEF t
    <3>2. f[t] \in Int /\ g[t] = f[t]
      BY <3>1, <1>2 DEF SumsUpTo
    <3>3. g[s] = Some(s) + f[t]
      BY <2>2 DEF g, t
    <3>4. g[s] = Some(s) + g[t] /\ g[s] \in Int
      BY <3>1, <3>2, <3>3
    <3> QED BY <3>4, <2>2 DEF t
  <2> QED BY <2>1, <2>2
<1>5. SumsUpTo(g, S, n + 1)
  BY <1>4 DEF SumsUpTo
<1> QED BY <1>5

(* SumSet is defined by recursion on a set: the table of sums it stands    *)
(* for exists, whatever the number of elements.                            *)
LEMMA SumsExist ==
    ASSUME NEW S, S \subseteq Int, IsFiniteSet(S), NEW n \in Nat
    PROVE  \E f : SumsUpTo(f, S, n)
<1> DEFINE Bad == {j \in 0 .. n : ~ \E f : SumsUpTo(f, S, j)}
<1>1. SUFFICES ASSUME Bad # {} PROVE FALSE
  <2>1. n \in 0 .. n
    OBVIOUS
  <2> QED BY <1>1, <2>1
<1>2. Bad \subseteq Nat
  OBVIOUS
<1> HIDE DEF Bad
<1>3. PICK j \in Bad : \A k \in Bad : j <= k
  BY <1>1, <1>2, LeastNumber
<1>4. j \in 0 .. n /\ ~ \E f : SumsUpTo(f, S, j)
  BY <1>3 DEF Bad
<1>5. \E f : SumsUpTo(f, S, 0)
  <2> DEFINE f == [s \in SUBSET S |-> 0]
  <2>1. ASSUME NEW s \in SUBSET S, Cardinality(s) <= 0 PROVE s = {}
    <3>1. IsFiniteSet(s)
      BY FS_Subset
    <3>2. Cardinality(s) = 0
      BY <2>1, <3>1, FS_CardinalityType
    <3> QED BY <3>1, <3>2, FS_EmptySet
  <2>2. SumsUpTo(f, S, 0)
    BY <2>1 DEF SumsUpTo
  <2> QED BY <2>2
<1>6. j # 0
  BY <1>4, <1>5
<1>7. j - 1 \in 0 .. n /\ j - 1 \in Nat /\ ~(j <= j - 1) /\ (j - 1) + 1 = j
  BY <1>4, <1>6
<1>8. \E f : SumsUpTo(f, S, j - 1)
  BY <1>3, <1>7 DEF Bad
<1>9. \E f : SumsUpTo(f, S, (j - 1) + 1)
  BY <1>7, <1>8, SumsFrom
<1> QED BY <1>4, <1>7, <1>9

(* The sum of a finite set of integers is an integer.                      *)
LEMMA SumOfInts ==
    ASSUME NEW S, S \subseteq Int, IsFiniteSet(S)
    PROVE  SumSet(S) \in Int
<1> DEFINE Sums(f) == f = [s \in SUBSET S |-> IF s = {} THEN 0 ELSE Some(s) + f[s \ {Some(s)}]]
           iter == CHOOSE f : Sums(f)
           n == Cardinality(S)
<1>1. SumSet(S) = iter[S]
  BY Zenon DEF SumSet, FoldSet, MapThenFoldSet, Some
<1>2. n \in Nat
  BY FS_CardinalityType
<1>3. ASSUME NEW s \in SUBSET S
      PROVE  /\ IsFiniteSet(s) /\ Cardinality(s) \in Nat /\ Cardinality(s) <= n
             /\ s # {} => /\ Some(s) \in s /\ Some(s) \in Int /\ s \ {Some(s)} \in SUBSET S
                          /\ Cardinality(s \ {Some(s)}) = Cardinality(s) - 1
  <2>1. IsFiniteSet(s) /\ Cardinality(s) \in Nat /\ Cardinality(s) <= n
    BY FS_Subset, FS_CardinalityType
  <2>2. s # {} => Some(s) \in s
    BY DEF Some
  <2> QED BY <2>1, <2>2, FS_RemoveElement
<1>4. \E f : SumsUpTo(f, S, n)
  BY <1>2, SumsExist
<1>5. \E f : Sums(f)
  <2>1. PICK f : SumsUpTo(f, S, n)
    BY <1>4
  <2> DEFINE h == [s \in SUBSET S |-> f[s]]
  <2>2. ASSUME NEW s \in SUBSET S PROVE h[s] = IF s = {} THEN 0 ELSE Some(s) + h[s \ {Some(s)}]
    <3>1. f[s] = IF s = {} THEN 0 ELSE Some(s) + f[s \ {Some(s)}]
      BY <2>1, <1>3 DEF SumsUpTo
    <3>2. s # {} => h[s \ {Some(s)}] = f[s \ {Some(s)}]
      BY <1>3
    <3> QED BY <3>1, <3>2
  <2>3. Sums(h)
    BY <2>2
  <2> QED BY <2>3
<1> HIDE DEF n
<1>6. Sums(iter)
  BY <1>5
<1> HIDE DEF iter
<1> DEFINE Bad == {j \in Nat : \E s \in SUBSET S : Cardinality(s) = j /\ iter[s] \notin Int}
<1>7. Bad = {}
  <2>1. SUFFICES ASSUME Bad # {} PROVE FALSE
    OBVIOUS
  <2>2. Bad \subseteq Nat
    OBVIOUS
  <2> HIDE DEF Bad
  <2>3. PICK j \in Bad : \A k \in Bad : j <= k
    BY <2>1, <2>2, LeastNumber
  <2>4. PICK s \in SUBSET S : Cardinality(s) = j /\ iter[s] \notin Int
    BY <2>3 DEF Bad
  <2>5. iter[s] = IF s = {} THEN 0 ELSE Some(s) + iter[s \ {Some(s)}]
    BY <1>6
  <2>6. s # {}
    BY <2>4, <2>5
  <2> DEFINE t == s \ {Some(s)}
  <2>7. t \in SUBSET S /\ Cardinality(t) = j - 1 /\ Some(s) \in Int /\ Cardinality(t) \in Nat /\ j \in Nat
    BY <1>3, <2>4, <2>6
  <2> HIDE DEF t
  <2>8. iter[t] \in Int
    <3>1. j - 1 \in Nat /\ ~(j <= j - 1)
      BY <2>7
    <3>2. j - 1 \notin Bad
      BY <2>3, <3>1
    <3> QED BY <2>7, <3>1, <3>2 DEF Bad
  <2>9. iter[s] = Some(s) + iter[t]
    BY <2>5, <2>6 DEF t
  <2> QED BY <2>4, <2>7, <2>8, <2>9
<1>8. iter[S] \in Int
  BY <1>2, <1>7 DEF n
<1> QED BY <1>1, <1>8

(* A number put together from a finite set of bits is a number.            *)
LEMMA FromBitsIn ==
    ASSUME EightBits, NEW B, B \subseteq Nat, IsFiniteSet(B)
    PROVE  FromBits(B) \in Int
<1> DEFINE S == {2 ^ b : b \in B}
<1>1. S \subseteq Int
  OBVIOUS
<1>2. IsFiniteSet(S)
  <2> DEFINE f == [b \in B |-> 2 ^ b]
  <2>1. f \in [B -> S] /\ \A t \in S : \E b \in B : f[b] = t
    BY Zenon
  <2>2. f \in Surjection(B, S)
    BY <2>1 DEF Surjection
  <2> QED BY <2>2, FS_Surjection
<1> QED BY <1>1, <1>2, SumOfInts DEF FromBits

-----------------------------------------------------------------------------
(***************************************************************************)
(* Registers and the account of their steps.                               *)
(***************************************************************************)

(* Truncation gives a number that fits a register.                         *)
LEMMA LowInt ==
    ASSUME EightBits, NEW v \in Int, NEW size \in Sizes
    PROVE  Low(v, size) \in Int /\ Low(v, size) \in Values(Long)
<1>1. Low(v, size) \in Values(size)
  BY LowIn
<1>2. Values(size) \subseteq Values(Long)
  BY ValuesWiden DEF Sizes
<1> QED BY <1>1, <1>2, ValuesWiden

(* Truncation to a long gives the contents of a register.                  *)
LEMMA LowLong == ASSUME EightBits, NEW v \in Int PROVE Low(v, Long) \in Values(Long)
BY LowInt DEF Sizes

(* The stack pointer of the current mode holds a long.                     *)
LEMMA StackPtrIn ==
    ASSUME NEW D, NEW m \in Machines(D)
    PROVE  stack_ptr(m) \in Values(Long)
BY DEF Machines, stack_ptr

(* Every data and address register, the stack pointer as A7 included,      *)
(* holds a long.                                                           *)
LEMMA RegisterIn ==
    ASSUME NEW D, NEW m \in Machines(D), NEW n \in 0 .. 7
    PROVE  m.d[n] \in Values(Long) /\ a_reg(m, n) \in Values(Long)
BY StackPtrIn DEF Machines, a_reg

(* Setting the stack pointer sets the one of the current mode and nothing  *)
(* else.                                                                   *)
LEMMA SetStackPtrIn ==
    ASSUME EightBits, NEW D, NEW m \in Machines(D), NEW v \in Int
    PROVE  /\ SetStackPtr(m, v) \in Machines(D)
           /\ stack_ptr(SetStackPtr(m, v)) = Low(v, Long)
           /\ \A f \in DOMAIN m \ {"usp", "ssp"} : SetStackPtr(m, v)[f] = m[f]
<1>1. Low(v, Long) \in Values(Long)
  BY LowLong
<1>2. [m EXCEPT !.ssp = Low(v, Long)] \in Machines(D)
  BY <1>1 DEF Machines
<1>3. [m EXCEPT !.usp = Low(v, Long)] \in Machines(D)
  BY <1>1 DEF Machines
<1>4. stack_ptr(SetStackPtr(m, v)) = Low(v, Long)
  BY DEF stack_ptr, SetStackPtr, Machines
<1>5. \A f \in DOMAIN m \ {"usp", "ssp"} : SetStackPtr(m, v)[f] = m[f]
  BY DEF SetStackPtr, Machines
<1> QED BY <1>2, <1>3, <1>4, <1>5 DEF SetStackPtr

(* Everything of p but its address registers is as it was in m.            *)
OnlyAddresses(p, m) ==
    /\ p.d = m.d /\ p.sr = m.sr /\ p.mem = m.mem /\ p.pc = m.pc /\ p.status = m.status
    /\ p.decremented = m.decremented /\ p.incremented = m.incremented

AddressSet(D, p, m, n, v) ==
    /\ p \in Machines(D) /\ OnlyAddresses(p, m)
    /\ a_reg(p, n) = Low(v, Long)
    /\ \A k \in 0 .. 7 : k # n => a_reg(p, k) = a_reg(m, k)

(* Setting an address register sets that one and no other.                 *)
LEMMA SetAIn ==
    ASSUME EightBits, NEW D, NEW m \in Machines(D), NEW n \in 0 .. 7, NEW v \in Int, NEW p, p = SetA(m, n, v)
    PROVE  AddressSet(D, p, m, n, v)
<1> USE DEF AddressSet
<1>1. Low(v, Long) \in Values(Long)
  BY LowLong
<1>2. CASE n < 7
  <2>1. p = [m EXCEPT !.a[n] = Low(v, Long)] /\ n \in 0 .. 6
    BY <1>2 DEF SetA
  <2>2. p \in Machines(D)
    BY <2>1, <1>1 DEF Machines
  <2>3. OnlyAddresses(p, m) /\ stack_ptr(p) = stack_ptr(m)
    BY <2>1 DEF Machines, OnlyAddresses, stack_ptr
  <2>4. p.a = [m.a EXCEPT ![n] = Low(v, Long)] /\ m.a \in [0 .. 6 -> Values(Long)]
    BY <2>1 DEF Machines
  <2>5. a_reg(p, n) = Low(v, Long)
    BY <2>1, <2>4, <1>2 DEF a_reg
  <2>6. ASSUME NEW k \in 0 .. 7, k # n PROVE a_reg(p, k) = a_reg(m, k)
    <3>1. CASE k < 7
      <4>1. k \in 0 .. 6
        BY <3>1
      <4>2. p.a[k] = m.a[k]
        BY <4>1, <2>4, <2>6
      <4> QED BY <4>2, <3>1 DEF a_reg
    <3>2. CASE ~(k < 7)
      BY <3>2, <2>3 DEF a_reg
    <3> QED BY <3>1, <3>2
  <2> QED BY <2>2, <2>3, <2>5, <2>6
<1>3. CASE ~(n < 7)
  <2>1. p = SetStackPtr(m, v) /\ n = 7
    BY <1>3 DEF SetA
  <2>2. p \in Machines(D) /\ stack_ptr(p) = Low(v, Long)
    BY <2>1, SetStackPtrIn
  <2>3. OnlyAddresses(p, m) /\ p.a = m.a
    BY <2>1 DEF Machines, OnlyAddresses, SetStackPtr
  <2>4. a_reg(p, n) = Low(v, Long)
    BY <2>1, <2>2 DEF a_reg
  <2>5. ASSUME NEW k \in 0 .. 7, k # n PROVE a_reg(p, k) = a_reg(m, k)
    <3>1. k < 7
      BY <2>1, <2>5
    <3> QED BY <3>1, <2>3 DEF a_reg
  <2> QED BY <2>2, <2>3, <2>4, <2>5
<1> QED BY <1>2, <1>3

(* Truncation may be left to the end of a sum: address registers wrap.     *)
LEMMA LowSum ==
    ASSUME EightBits, NEW x \in Int, NEW y \in Int
    PROVE  Low(Low(x, Long) + y, Long) = Low(x + y, Long)
<1> DEFINE n == Span(Long)
           q == x \div n
           r == x % n
           s == r + y
           q2 == s \div n
           r2 == s % n
<1>1. n \in Nat \ {0}
  BY SpanValues, SMT
<1> HIDE DEF n, q, r, q2, r2, s
<1>2. x = n * q + r /\ q \in Int /\ r \in Int
  BY <1>1, Divided DEF q, r
<1>3. s \in Int /\ s = r + y
  BY <1>2 DEF s
<1>4. s = n * q2 + r2 /\ q2 \in Int /\ r2 \in Int /\ 0 <= r2 /\ r2 < n
  BY <1>1, <1>3, Divided DEF q2, r2
<1>5. x + y = n * (q + q2) + r2 /\ q + q2 \in Int
  BY <1>1, <1>2, <1>3, <1>4
<1>6. (x + y) % n = r2
  BY <1>1, <1>4, <1>5, Divides
<1> QED BY <1>6 DEF Low, n, r, r2, s

(* The step of a (An)+ or -(An) is a number of bytes.                      *)
LEMMA StepIn ==
    ASSUME NEW t, t.size \in Sizes, NEW count \in Nat
    PROVE  StepBytes(t, count) \in Nat
<1>1. t.size * count \in Nat
  BY DEF Sizes, Byte, Word, Long
<1>2. \A k \in Nat : \E x \in {k, 2} : \A y \in {k, 2} : x >= y
  OBVIOUS
<1>3. Max({t.size * count, 2}) \in {t.size * count, 2}
  BY <1>1, <1>2 DEF Max
<1> QED BY <1>1, <1>3 DEF StepBytes

(* What a role of an instruction steps address register n by, and what the *)
(* roles that are stepped in machine x have moved it.                      *)
Down(i, role, n) ==
    IF role \in DOMAIN i /\ i[role].kind = "AddressDecrement" /\ i[role].index = n
    THEN StepBytes(i[role], DecrementCount(i, role)) ELSE 0
Up(i, role, n) ==
    IF role \in DOMAIN i /\ i[role].kind = "AddressIncrement" /\ i[role].index = n
    THEN StepBytes(i[role], IncrementCount(i)) ELSE 0

Travel(i, x, n) ==
    (IF "src" \in x.incremented THEN Up(i, "src", n) ELSE 0) + (IF "dst" \in x.incremented THEN Up(i, "dst", n) ELSE 0)
    - (IF "src" \in x.decremented THEN Down(i, "src", n) ELSE 0) - (IF "dst" \in x.decremented THEN Down(i, "dst", n) ELSE 0)

(* The address registers of machine x are those of m, moved by the steps   *)
(* so far, but for the ones that the instruction writes.                   *)
Along(m, i, x) ==
    \A n \in 0 .. 7 : ~Writes(i, n) => a_reg(x, n) = Low(a_reg(m, n) + Travel(i, x, n), Long)

(* All but the address registers and their steps.                          *)
Beside(y, x) ==
    y.d = x.d /\ y.sr = x.sr /\ y.mem = x.mem /\ y.pc = x.pc /\ y.status = x.status

(* What the fields of a target hold.                                       *)
LEMMA TargetIn ==
    ASSUME NEW t \in Targets
    PROVE  /\ t.kind \in Stepped => t.index \in 0 .. 7 /\ t.size \in Sizes
           /\ IsRegister(t) => t.index \in 0 .. 7
BY DEF Targets, Stepped, Relative, IsRegister

(* MOVEM's step counts its registers, every other step counts one.         *)
LEMMA CountsIn ==
    ASSUME NEW i, WellFormed(i), NEW role \in Roles
    PROVE  DecrementCount(i, role) \in Nat /\ IncrementCount(i) \in Nat
<1>1. i.kind = "Movem" => RegisterCount(i) \in Nat
  <2> HAVE i.kind = "Movem"
  <2>1. i.list \in SUBSET (0 .. 15)
    BY DEF WellFormed, OperandsFit
  <2>2. IsFiniteSet(0 .. 15)
    <3>1. 0 \in Int /\ 15 \in Int
      OBVIOUS
    <3> QED BY <3>1, FS_Interval
  <2> QED BY <2>1, <2>2, FS_Subset, FS_CardinalityType DEF RegisterCount
<1> QED BY <1>1 DEF DecrementCount, IncrementCount

(* The steps a register is due are numbers.                                *)
LEMMA DownUpIn ==
    ASSUME NEW i, WellFormed(i), NEW role \in Roles, NEW n \in 0 .. 7
    PROVE  Down(i, role, n) \in Int /\ Up(i, role, n) \in Int
<1>1. role \in DOMAIN i => i[role] \in Targets
  BY DEF WellFormed
<1> QED BY <1>1, TargetIn, StepIn, CountsIn DEF Down, Up, Stepped

(* What a register has travelled so far is a number.                       *)
LEMMA TravelIn ==
    ASSUME NEW i, WellFormed(i), NEW x, NEW n \in 0 .. 7
    PROVE  Travel(i, x, n) \in Int
<1>1. /\ Down(i, "src", n) \in Int /\ Up(i, "src", n) \in Int
      /\ Down(i, "dst", n) \in Int /\ Up(i, "dst", n) \in Int
  BY DownUpIn DEF Roles
<1> QED BY <1>1 DEF Travel

(* One step of c bytes of register n0, of which Travel accounts.           *)
LEMMA Moves ==
    ASSUME EightBits, NEW D, NEW m \in Machines(D), NEW i, WellFormed(i), NEW x \in Machines(D), Along(m, i, x),
           NEW n0 \in 0 .. 7, NEW c \in Int, NEW v, v = a_reg(x, n0) + c, NEW z, z = SetA(x, n0, v), NEW y,
           \A n \in 0 .. 7 : a_reg(y, n) = a_reg(z, n), Travel(i, y, n0) = Travel(i, x, n0) + c,
           \A n \in 0 .. 7 : n # n0 => Travel(i, y, n) = Travel(i, x, n)
    PROVE  Along(m, i, y)
<1>1. SUFFICES ASSUME NEW n \in 0 .. 7, ~Writes(i, n)
               PROVE  a_reg(y, n) = Low(a_reg(m, n) + Travel(i, y, n), Long)
  BY DEF Along
<1>2. a_reg(x, n0) \in Int /\ a_reg(m, n) \in Int /\ Travel(i, x, n) \in Int /\ v \in Int
  <2>1. a_reg(x, n0) \in Values(Long) /\ a_reg(m, n) \in Values(Long)
    BY RegisterIn
  <2> QED BY <2>1, ValuesWiden, TravelIn
<1>3. a_reg(z, n0) = Low(v, Long) /\ \A k \in 0 .. 7 : k # n0 => a_reg(z, k) = a_reg(x, k)
  <2>1. AddressSet(D, z, x, n0, v)
    BY <1>2, SetAIn
  <2> QED BY <2>1 DEF AddressSet
<1>4. a_reg(x, n) = Low(a_reg(m, n) + Travel(i, x, n), Long)
  BY <1>1 DEF Along
<1>5. CASE n = n0
  <2>1. a_reg(y, n) = Low(Low(a_reg(m, n) + Travel(i, x, n), Long) + c, Long)
    BY <1>3, <1>4, <1>5
  <2>2. a_reg(y, n) = Low(a_reg(m, n) + Travel(i, x, n) + c, Long)
    <3>1. a_reg(m, n) + Travel(i, x, n) \in Int
      BY <1>2
    <3> QED BY <2>1, <3>1, LowSum
  <2>3. a_reg(m, n) + Travel(i, x, n) + c = a_reg(m, n) + Travel(i, y, n)
    BY <1>2, <1>5
  <2> QED BY <2>2, <2>3
<1>6. CASE n # n0
  BY <1>3, <1>4, <1>6
<1> QED BY <1>5, <1>6

(* Steps that no address register takes.                                   *)
LEMMA Rests ==
    ASSUME NEW m, NEW i, NEW x, Along(m, i, x), NEW y,
           \A n \in 0 .. 7 : ~Writes(i, n) => a_reg(y, n) = a_reg(x, n),
           \A n \in 0 .. 7 : Travel(i, y, n) = Travel(i, x, n)
    PROVE  Along(m, i, y)
BY DEF Along

(* An instruction starts with nothing stepped.                             *)
LEMMA Start ==
    ASSUME EightBits, NEW D, NEW m \in Machines(D), NEW i
    PROVE  /\ Along(m, i, Forget(m)) /\ Forget(m) \in Machines(D)
           /\ Forget(m).incremented = {} /\ Forget(m).decremented = {} /\ Beside(Forget(m), m)
<1>1. Forget(m) \in Machines(D)
  BY DEF Forget, Machines
<1>2. Forget(m).incremented = {} /\ Forget(m).decremented = {}
  BY DEF Forget, Machines
<1>3. \A n \in 0 .. 7 : a_reg(Forget(m), n) = a_reg(m, n)
  BY DEF Forget, Machines, a_reg, stack_ptr
<1>4. \A n \in 0 .. 7 : Travel(i, Forget(m), n) = 0
  BY <1>2 DEF Travel
<1>5. ASSUME NEW n \in 0 .. 7 PROVE a_reg(m, n) = Low(a_reg(m, n) + 0, Long)
  <2>1. a_reg(m, n) \in Values(Long)
    BY RegisterIn
  <2> QED BY <2>1, InValues, SpanValues, SMT DEF Low
<1>6. Along(m, i, Forget(m))
  BY <1>3, <1>4, <1>5 DEF Along
<1>7. Beside(Forget(m), m)
  BY DEF Beside, Forget, Machines
<1> QED BY <1>1, <1>2, <1>6, <1>7

(* try_decrement_address keeps the account of the steps: it moves -(An)    *)
(* the first time it is called for an operand and never again.             *)
LEMMA Decrements ==
    ASSUME EightBits, NEW D, NEW m \in Machines(D), NEW i, WellFormed(i), NEW role \in Roles \cap DOMAIN i,
           NEW x \in Machines(D), Along(m, i, x), NEW y, y = try_decrement_address(x, i, role)
    PROVE  /\ y \in Machines(D) /\ Along(m, i, y) /\ Beside(y, x)
           /\ y.decremented = x.decremented \cup {role} /\ y.incremented = x.incremented
<1> DEFINE t == i[role]
           n0 == t.index
           c == 0 - StepBytes(t, DecrementCount(i, role))
           v == a_reg(x, n0) + c
           z == SetA(x, n0, v)
<1>0. t \in Targets /\ role \in DOMAIN i /\ role \in Roles
  BY DEF WellFormed
<1>1. CASE role \in x.decremented
  BY <1>1 DEF try_decrement_address, Beside
<1>2. CASE role \notin x.decremented /\ t.kind # "AddressDecrement"
  <2>1. y = [x EXCEPT !.decremented = x.decremented \cup {role}]
    BY <1>0, <1>2 DEF try_decrement_address
  <2>2. y \in Machines(D) /\ Beside(y, x)
    BY <2>1, <1>0 DEF Machines, Beside
  <2>3. \A n \in 0 .. 7 : a_reg(y, n) = a_reg(x, n)
    BY <2>1 DEF Machines, a_reg, stack_ptr
  <2>4. y.decremented = x.decremented \cup {role} /\ y.incremented = x.incremented
    BY <2>1 DEF Machines
  <2>5. \A n \in 0 .. 7 : Down(i, role, n) = 0
    BY <1>2 DEF Down
  <2>6. \A n \in 0 .. 7 : Travel(i, y, n) = Travel(i, x, n)
    <3>1. role = "src" \/ role = "dst"
      BY DEF Roles
    <3>2. CASE role = "src"
      BY <2>4, <2>5, <3>2, <1>2 DEF Travel
    <3>3. CASE role = "dst"
      BY <2>4, <2>5, <3>3, <1>2 DEF Travel
    <3> QED BY <3>1, <3>2, <3>3
  <2> QED BY <2>2, <2>3, <2>4, <2>6, Rests
<1>3. CASE role \notin x.decremented /\ t.kind = "AddressDecrement"
  <2>1. n0 \in 0 .. 7 /\ c \in Int /\ a_reg(x, n0) \in Int /\ StepBytes(t, DecrementCount(i, role)) \in Nat
    <3>1. t.index \in 0 .. 7 /\ t.size \in Sizes
      BY <1>0, <1>3, TargetIn DEF Stepped
    <3>2. StepBytes(t, DecrementCount(i, role)) \in Nat
      BY <3>1, CountsIn, StepIn
    <3>3. a_reg(x, n0) \in Values(Long)
      BY <3>1, RegisterIn
    <3> QED BY <3>1, <3>2, <3>3, ValuesWiden
  <2>2. z = SetA(x, n0, v) /\ v = a_reg(x, n0) + c /\ v \in Int
    BY <2>1
  <2>3. y = [z EXCEPT !.decremented = z.decremented \cup {role}]
    <3>1. v = a_reg(x, n0) - StepBytes(t, DecrementCount(i, role))
      BY <2>1
    <3> QED BY <1>0, <1>3, <3>1 DEF try_decrement_address
  <2>4. Down(i, role, n0) = 0 - c /\ \A n \in 0 .. 7 : n # n0 => Down(i, role, n) = 0
    <3>1. 0 - c = StepBytes(t, DecrementCount(i, role))
      BY <2>1
    <3> QED BY <1>0, <1>3, <3>1 DEF Down
  <2> HIDE DEF z, c, v
  <2>5. z \in Machines(D) /\ OnlyAddresses(z, x)
    <3>1. AddressSet(D, z, x, n0, v)
      BY <2>1, <2>2, SetAIn
    <3> QED BY <3>1 DEF AddressSet
  <2>6. y \in Machines(D) /\ Beside(y, x)
    BY <2>3, <2>5 DEF Machines, OnlyAddresses, Beside
  <2>7. \A n \in 0 .. 7 : a_reg(y, n) = a_reg(z, n)
    BY <2>3, <2>5 DEF Machines, a_reg, stack_ptr
  <2>8. y.decremented = x.decremented \cup {role} /\ y.incremented = x.incremented
    BY <2>3, <2>5 DEF Machines, OnlyAddresses
  <2>9. ASSUME NEW n \in 0 .. 7
        PROVE  Travel(i, y, n) = Travel(i, x, n) - Down(i, role, n) /\ Travel(i, x, n) \in Int
    <3>1. role = "src" \/ role = "dst"
      BY DEF Roles
    <3>2. /\ Down(i, "src", n) \in Int /\ Up(i, "src", n) \in Int
          /\ Down(i, "dst", n) \in Int /\ Up(i, "dst", n) \in Int
      BY DownUpIn DEF Roles
    <3>3. CASE role = "src"
      BY <2>8, <3>2, <3>3, <1>3 DEF Travel
    <3>4. CASE role = "dst"
      BY <2>8, <3>2, <3>4, <1>3 DEF Travel
    <3> QED BY <3>1, <3>3, <3>4
  <2>10. /\ Travel(i, y, n0) = Travel(i, x, n0) + c
         /\ \A n \in 0 .. 7 : n # n0 => Travel(i, y, n) = Travel(i, x, n)
    BY <2>1, <2>4, <2>9
  <2>11. Along(m, i, y)
    BY <2>1, <2>2, <2>7, <2>10, Moves
  <2> QED BY <2>6, <2>8, <2>11
<1> QED BY <1>1, <1>2, <1>3

(* try_increment_address keeps the account of the steps: it moves (An)+    *)
(* the first time it is called for an operand and never again.             *)
LEMMA Increments ==
    ASSUME EightBits, NEW D, NEW m \in Machines(D), NEW i, WellFormed(i), NEW role \in Roles \cap DOMAIN i,
           NEW x \in Machines(D), Along(m, i, x), NEW y, y = try_increment_address(x, i, role)
    PROVE  /\ y \in Machines(D) /\ Along(m, i, y) /\ Beside(y, x)
           /\ y.incremented = x.incremented \cup {role} /\ y.decremented = x.decremented
<1> DEFINE t == i[role]
           n0 == t.index
           c == StepBytes(t, IncrementCount(i))
           v == a_reg(x, n0) + c
           z == SetA(x, n0, v)
<1>0. t \in Targets /\ role \in DOMAIN i /\ role \in Roles
  BY DEF WellFormed
<1>1. CASE role \in x.incremented
  BY <1>1 DEF try_increment_address, Beside
<1>2. CASE role \notin x.incremented /\ t.kind # "AddressIncrement"
  <2>1. y = [x EXCEPT !.incremented = x.incremented \cup {role}]
    BY <1>0, <1>2 DEF try_increment_address
  <2>2. y \in Machines(D) /\ Beside(y, x)
    BY <2>1, <1>0 DEF Machines, Beside
  <2>3. \A n \in 0 .. 7 : a_reg(y, n) = a_reg(x, n)
    BY <2>1 DEF Machines, a_reg, stack_ptr
  <2>4. y.incremented = x.incremented \cup {role} /\ y.decremented = x.decremented
    BY <2>1 DEF Machines
  <2>5. \A n \in 0 .. 7 : Up(i, role, n) = 0
    BY <1>2 DEF Up
  <2>6. \A n \in 0 .. 7 : Travel(i, y, n) = Travel(i, x, n)
    <3>1. role = "src" \/ role = "dst"
      BY DEF Roles
    <3>2. CASE role = "src"
      BY <2>4, <2>5, <3>2, <1>2 DEF Travel
    <3>3. CASE role = "dst"
      BY <2>4, <2>5, <3>3, <1>2 DEF Travel
    <3> QED BY <3>1, <3>2, <3>3
  <2> QED BY <2>2, <2>3, <2>4, <2>6, Rests
<1>3. CASE role \notin x.incremented /\ t.kind = "AddressIncrement"
  <2>1. n0 \in 0 .. 7 /\ c \in Int /\ a_reg(x, n0) \in Int /\ StepBytes(t, IncrementCount(i)) \in Nat
    <3>1. t.index \in 0 .. 7 /\ t.size \in Sizes
      BY <1>0, <1>3, TargetIn DEF Stepped
    <3>2. StepBytes(t, IncrementCount(i)) \in Nat
      BY <3>1, CountsIn, StepIn
    <3>3. a_reg(x, n0) \in Values(Long)
      BY <3>1, RegisterIn
    <3> QED BY <3>1, <3>2, <3>3, ValuesWiden
  <2>2. z = SetA(x, n0, v) /\ v = a_reg(x, n0) + c /\ v \in Int
    BY <2>1
  <2>3. y = [z EXCEPT !.incremented = z.incremented \cup {role}]
    <3>1. v = a_reg(x, n0) + StepBytes(t, IncrementCount(i))
      BY <2>1
    <3> QED BY <1>0, <1>3, <3>1 DEF try_increment_address
  <2>4. Up(i, role, n0) = c /\ \A n \in 0 .. 7 : n # n0 => Up(i, role, n) = 0
    <3>1. c = StepBytes(t, IncrementCount(i))
      BY <2>1
    <3> QED BY <1>0, <1>3, <3>1 DEF Up
  <2> HIDE DEF z, c, v
  <2>5. z \in Machines(D) /\ OnlyAddresses(z, x)
    <3>1. AddressSet(D, z, x, n0, v)
      BY <2>1, <2>2, SetAIn
    <3> QED BY <3>1 DEF AddressSet
  <2>6. y \in Machines(D) /\ Beside(y, x)
    BY <2>3, <2>5 DEF Machines, OnlyAddresses, Beside
  <2>7. \A n \in 0 .. 7 : a_reg(y, n) = a_reg(z, n)
    BY <2>3, <2>5 DEF Machines, a_reg, stack_ptr
  <2>8. y.incremented = x.incremented \cup {role} /\ y.decremented = x.decremented
    BY <2>3, <2>5 DEF Machines, OnlyAddresses
  <2>9. ASSUME NEW n \in 0 .. 7
        PROVE  Travel(i, y, n) = Travel(i, x, n) + Up(i, role, n) /\ Travel(i, x, n) \in Int
    <3>1. role = "src" \/ role = "dst"
      BY DEF Roles
    <3>2. /\ Down(i, "src", n) \in Int /\ Up(i, "src", n) \in Int
          /\ Down(i, "dst", n) \in Int /\ Up(i, "dst", n) \in Int
      BY DownUpIn DEF Roles
    <3>3. CASE role = "src"
      BY <2>8, <3>2, <3>3, <1>3 DEF Travel
    <3>4. CASE role = "dst"
      BY <2>8, <3>2, <3>4, <1>3 DEF Travel
    <3> QED BY <3>1, <3>3, <3>4
  <2>10. /\ Travel(i, y, n0) = Travel(i, x, n0) + c
         /\ \A n \in 0 .. 7 : n # n0 => Travel(i, y, n) = Travel(i, x, n)
    BY <2>1, <2>4, <2>9
  <2>11. Along(m, i, y)
    BY <2>1, <2>2, <2>7, <2>10, Moves
  <2> QED BY <2>6, <2>8, <2>11
<1> QED BY <1>1, <1>2, <1>3

-----------------------------------------------------------------------------
(***************************************************************************)
(* Operands.                                                               *)
(***************************************************************************)

(* An effective address fits the address bus.                              *)
LEMMA AddressIn ==
    ASSUME EightBits, NEW D, NEW x \in Machines(D), NEW t \in Targets, IsMemory(t)
    PROVE  effective_address(x, t) \in Values(Long)
<1> DEFINE Indexes(base) == indexed_address(x, t, base)
<1>0. /\ x.pc \in Int /\ Word \in Sizes /\ Long \in Sizes /\ Byte \in Sizes /\ Span(Word) \in Int
      /\ \A n \in 0 .. 7 : x.d[n] \in Int /\ a_reg(x, n) \in Int
      /\ Values(Byte) \subseteq Int /\ Values(Word) \subseteq Int /\ Values(Long) \subseteq Int
  <2>1. Span(Word) \in Int
    BY SpanValues, SMT
  <2>2. \A n \in 0 .. 7 : x.d[n] \in Values(Long) /\ a_reg(x, n) \in Values(Long)
    BY RegisterIn
  <2>3. Values(Byte) \subseteq Int /\ Values(Word) \subseteq Int /\ Values(Long) \subseteq Int
    BY ValuesWiden
  <2>4. x.pc \in Values(Long)
    BY DEF Machines
  <2> QED BY <2>1, <2>2, <2>3, <2>4 DEF Sizes
<1>1. ASSUME t.kind \in {"AddressIndex", "ProgramCounterIndex"}, NEW base \in Int
      PROVE  indexed_address(x, t, base) \in Int
  <2>1. t.disp \in Values(Byte) /\ t.xreg \in [kind : {"DataRegister", "AddressRegister"}, index : 0 .. 7]
    BY <1>1 DEF Targets, Stepped, Relative
  <2> DEFINE reg == IF t.xreg.kind = "AddressRegister" THEN a_reg(x, t.xreg.index) ELSE x.d[t.xreg.index]
             width == IF t.xlong THEN Long ELSE Word
  <2>2. t.xreg.index \in 0 .. 7
    BY <2>1
  <2>3. reg \in Int
    BY <1>0, <2>2
  <2>4. width \in Sizes
    BY <1>0
  <2>5. indexed_address(x, t, base) = base + Signed(t.disp, Byte) + Signed(reg, width)
    BY DEF indexed_address
  <2> HIDE DEF reg, width
  <2>6. Signed(reg, width) \in Int
    BY <2>3, <2>4, SignedIn
  <2>7. Signed(t.disp, Byte) \in Int
    BY <1>0, <2>1, SignedIn
  <2> QED BY <2>5, <2>6, <2>7
<1> DEFINE V == CASE t.kind \in {"Address", "AddressIncrement", "AddressDecrement"} -> a_reg(x, t.index)
          [] t.kind = "AddressDisplacement" -> a_reg(x, t.index) + Signed(t.word, Word)
          [] t.kind = "AddressIndex"        -> indexed_address(x, t, a_reg(x, t.index))
          [] t.kind = "ProgramCounterDisplacement" -> x.pc - 2 + Signed(t.word, Word)
          [] t.kind = "ProgramCounterIndex" -> indexed_address(x, t, x.pc - 2)
          [] t.kind = "AbsoluteShort"       -> Signed(t.word, Word)
          [] t.kind = "AbsoluteLong"        -> t.word * Span(Word) + t.low
          [] t.kind = "Immediate"           -> t.address
<1>2. effective_address(x, t) = Low(V, Long)
  BY DEF effective_address
<1>3. V \in Int
  <2>1. CASE t.kind \in {"Address", "AddressIncrement", "AddressDecrement"}
    <3>1. t.index \in 0 .. 7
      BY <2>1 DEF Targets, Stepped, Relative
    <3>2. V = a_reg(x, t.index)
      BY <2>1
    <3> QED BY <3>1, <3>2, <1>0
  <2>2. CASE t.kind = "AddressDisplacement"
    <3>1. t.index \in 0 .. 7 /\ t.word \in Values(Word)
      BY <2>2 DEF Targets, Stepped, Relative
    <3>2. V = a_reg(x, t.index) + Signed(t.word, Word)
      BY <2>2
    <3>3. Signed(t.word, Word) \in Int
      BY <3>1, <1>0, SignedIn
    <3>4. a_reg(x, t.index) \in Int
      BY <3>1, <1>0
    <3> HIDE DEF V
    <3> QED BY <3>2, <3>3, <3>4
  <2>3. CASE t.kind = "AddressIndex"
    <3>1. t.index \in 0 .. 7
      BY <2>3 DEF Targets, Stepped, Relative
    <3>2. V = indexed_address(x, t, a_reg(x, t.index))
      BY <2>3
    <3> QED BY <3>1, <3>2, <1>0, <1>1, <2>3
  <2>4. CASE t.kind = "ProgramCounterDisplacement"
    <3>1. t.word \in Values(Word)
      BY <2>4 DEF Targets, Stepped, Relative
    <3>2. V = x.pc - 2 + Signed(t.word, Word)
      BY <2>4
    <3>3. Signed(t.word, Word) \in Int
      BY <3>1, <1>0, SignedIn
    <3> HIDE DEF V
    <3> QED BY <3>2, <3>3, <1>0
  <2>5. CASE t.kind = "ProgramCounterIndex"
    <3>2. V = indexed_address(x, t, x.pc - 2)
      BY <2>5
    <3> QED BY <3>2, <1>0, <1>1, <2>5
  <2>6. CASE t.kind = "AbsoluteShort"
    <3>1. t.word \in Values(Word)
      BY <2>6 DEF Targets, Stepped, Relative
    <3>2. V = Signed(t.word, Word)
      BY <2>6
    <3> QED BY <3>1, <3>2, <1>0, SignedIn
  <2>7. CASE t.kind = "AbsoluteLong"
    <3>1. t.word \in Values(Word) /\ t.low \in Values(Word)
      BY <2>7 DEF Targets, Stepped, Relative
    <3>2. V = t.word * Span(Word) + t.low
      BY <2>7
    <3>3. t.word \in Int /\ t.low \in Int /\ Span(Word) \in Int
      BY <3>1, <1>0
    <3> HIDE DEF V
    <3> QED BY <3>2, <3>3
  <2>8. CASE t.kind = "Immediate"
    <3>1. t.address \in Values(Long)
      BY <2>8 DEF Targets, Stepped, Relative
    <3>2. V = t.address
      BY <2>8
    <3> QED BY <3>1, <3>2, <1>0
  <2>9. t.kind \in {"Address", "AddressIncrement", "AddressDecrement", "AddressDisplacement", "AddressIndex",
                    "ProgramCounterDisplacement", "ProgramCounterIndex", "AbsoluteShort", "AbsoluteLong", "Immediate"}
    BY DEF Targets, Stepped, Relative, IsMemory, IsRegister
  <2> HIDE DEF V
  <2> QED BY <2>1, <2>2, <2>3, <2>4, <2>5, <2>6, <2>7, <2>8, <2>9
<1> QED BY <1>2, <1>3, LowLong

(* An operand that can be read is a value of the size.                     *)
LEMMA OperandIn ==
    ASSUME EightBits, NEW D, NEW x \in Machines(D), NEW t \in Targets, NEW size \in Sizes, Accessible(x, t, size)
    PROVE  OperandValue(x, t, size) \in Values(size)
<1>1. CASE IsRegister(t)
  <2>1. t.index \in 0 .. 7
    BY <1>1, TargetIn
  <2>2. x.d[t.index] \in Values(Long) /\ a_reg(x, t.index) \in Values(Long)
    BY <2>1, RegisterIn
  <2>3. RegisterValue(x, t) \in Int
    BY <2>2, ValuesWiden DEF RegisterValue
  <2>4. OperandValue(x, t, size) = Low(RegisterValue(x, t), size)
    BY <1>1 DEF OperandValue
  <2> QED BY <2>3, <2>4, LowIn
<1>2. CASE ~IsRegister(t)
  <2> DEFINE addr == effective_address(x, t)
  <2>1. addr \in Values(Long)
    BY <1>2, AddressIn DEF IsMemory
  <2>2. addr \in Int
    BY <2>1, ValuesWiden
  <2>3. Mapped(x, addr, size) /\ OperandValue(x, t, size) = Fetch(x, addr, size)
    BY <1>2 DEF Accessible, OperandValue
  <2>4. \A b \in addr .. addr + size - 1 : x.mem[b] \in Values(Byte)
    BY <2>3 DEF Mapped, Machines
  <2> QED BY <2>2, <2>3, <2>4, FetchIn
<1> QED BY <1>1, <1>2

(* A register of which the low bytes were replaced holds a long.           *)
LEMMA ReplacedIn ==
    ASSUME EightBits, NEW reg \in Values(Long), NEW v \in Int, NEW size \in Sizes
    PROVE  Replaced(reg, v, size) \in Values(Long)
<1> DEFINE n == Span(size)
           q == reg \div n
           r == reg % n
           l == v % n
<1>1. n \in Nat \ {0} /\ n \in {256, 65536, 4294967296}
  BY SpanValues, SMT DEF Sizes
<1>2. reg \in Int /\ 0 <= reg /\ reg < 4294967296
  BY InValues
<1>3. Replaced(reg, v, size) = reg - r + l
  BY DEF Replaced, Low
<1> HIDE DEF n, q, r, l
<1>4. reg = n * q + r /\ q \in Int /\ r \in Int /\ 0 <= r /\ r < n
  BY <1>1, <1>2, Divided DEF q, r
<1>5. l \in Int /\ 0 <= l /\ l < n
  BY <1>1, Remains DEF l
<1>6. reg - r + l \in Int /\ 0 <= reg - r + l /\ reg - r + l < 4294967296
  <2>1. CASE n = 256
    BY <2>1, <1>2, <1>4, <1>5, SMT
  <2>2. CASE n = 65536
    BY <2>2, <1>2, <1>4, <1>5, SMT
  <2>3. CASE n = 4294967296
    BY <2>3, <1>2, <1>4, <1>5, SMT
  <2> QED BY <1>1, <2>1, <2>2, <2>3
<1> QED BY <1>3, <1>6, InValues

-----------------------------------------------------------------------------
(***************************************************************************)
(* What an instruction may leave behind.                                   *)
(***************************************************************************)

(* What an instruction that fails may have changed all the same.           *)
Unfinished == {"Dbcc", "Trap", "Trapv", "Chk", "Divu", "Divs", "Rte", "Rtr", "Rts"}

MayChange(i) ==
    CASE i.kind \in {"Roxl", "Roxr"} -> {"x", "c"} [] i.kind \in BitKinds -> {"z"} [] OTHER -> {}

KeepsFlags(m, i, x) == \A f \in {"c", "v", "z", "n", "x", "s", "mask"} \ MayChange(i) : x.sr[f] = m.sr[f]

(* A machine on the way from m to the write of instruction i ...           *)
Untouched(m, i, x) ==
    x \in Machines(DOMAIN m.mem) /\ Ok(x) /\ x.d = m.d /\ KeepsFlags(m, i, x) /\ Along(m, i, x)

(* ... and one it may leave, before the increments.                        *)
Predecremented(i, x) ==
    \A role \in Roles \cap DOMAIN i : i[role].kind = "AddressDecrement" => role \in x.decremented

Result(m, i, r) ==
    /\ r \in Machines(DOMAIN m.mem) /\ Along(m, i, r)
    /\ Ok(r) => Predecremented(i, r)
    /\ r.status = "error" /\ i.kind \notin Unfinished => r.d = m.d /\ KeepsFlags(m, i, r)

(* A step that leaves the address registers and the marks alone keeps the  *)
(* account.                                                                *)
LEMMA Quiet ==
    ASSUME NEW m, NEW i, NEW x, Along(m, i, x), NEW y, y.a = x.a, stack_ptr(y) = stack_ptr(x),
           y.decremented = x.decremented, y.incremented = x.incremented
    PROVE  Along(m, i, y)
<1>1. \A n \in 0 .. 7 : a_reg(y, n) = a_reg(x, n)
  BY DEF a_reg
<1>2. \A n \in 0 .. 7 : Travel(i, y, n) = Travel(i, x, n)
  BY DEF Travel
<1> QED BY <1>1, <1>2, Rests

(* An error before anything was stored is a result every instruction may   *)
(* have.                                                                   *)
LEMMA Failed ==
    ASSUME NEW m, NEW i, NEW x, Untouched(m, i, x)
    PROVE  Result(m, i, Fail(x))
<1> DEFINE y == Fail(x)
<1>1. y = [x EXCEPT !.status = "error"] /\ x \in Machines(DOMAIN m.mem)
  BY DEF Fail, Untouched
<1> HIDE DEF y
<1>2. y \in Machines(DOMAIN m.mem)
  BY <1>1 DEF Machines
<1>3. /\ y.a = x.a /\ stack_ptr(y) = stack_ptr(x) /\ y.d = x.d /\ y.sr = x.sr
      /\ y.decremented = x.decremented /\ y.incremented = x.incremented /\ y.status = "error"
  BY <1>1 DEF Machines, stack_ptr
<1>4. Along(m, i, y)
  BY <1>3, Quiet DEF Untouched
<1>5. y.d = m.d /\ KeepsFlags(m, i, y)
  BY <1>3 DEF Untouched, KeepsFlags
<1>6. ~Ok(y)
  BY <1>3 DEF Ok
<1>7. Result(m, i, y)
  BY <1>2, <1>4, <1>5, <1>6 DEF Result
<1> QED BY <1>7 DEF y

(* The first half of an operand's access: y is x after the decrement.      *)
Accesses(m, i, role, x, y) ==
    /\ Untouched(m, i, y) /\ Beside(y, x) /\ Result(m, i, Fail(y))
    /\ y.decremented = x.decremented \cup {role} /\ y.incremented = x.incremented
    /\ \A size \in Sizes : Accessible(y, i[role], size) => OperandValue(y, i[role], size) \in Values(size)

(* Target::read steps the operand and stores nothing.                      *)
LEMMA Access ==
    ASSUME EightBits, NEW D, NEW m \in Machines(D), NEW i, WellFormed(i), NEW role \in Roles \cap DOMAIN i,
           NEW x, Untouched(m, i, x), NEW y, y = try_decrement_address(x, i, role)
    PROVE  Accesses(m, i, role, x, y)
<1>1. x \in Machines(D) /\ Along(m, i, x) /\ DOMAIN m.mem = D
  BY DEF Untouched, Machines
<1>2. y \in Machines(D) /\ Along(m, i, y) /\ Beside(y, x)
  BY <1>1, Decrements
<1>3. y.decremented = x.decremented \cup {role} /\ y.incremented = x.incremented
  BY <1>1, Decrements
<1>4. Untouched(m, i, y)
  BY <1>1, <1>2 DEF Untouched, Beside, Ok, KeepsFlags
<1>5. i[role] \in Targets
  BY DEF WellFormed
<1>6. \A size \in Sizes : Accessible(y, i[role], size) => OperandValue(y, i[role], size) \in Values(size)
  BY <1>2, <1>5, OperandIn
<1> QED BY <1>2, <1>3, <1>4, <1>6, Failed DEF Accesses

(* Stepping past an operand between two reads (the second operand of CMPM  *)
(* and of the binary instructions) stores nothing.                         *)
LEMMA Incremented ==
    ASSUME EightBits, NEW D, NEW m \in Machines(D), NEW i, WellFormed(i), NEW role \in Roles \cap DOMAIN i,
           NEW x, Untouched(m, i, x), NEW y, y = try_increment_address(x, i, role)
    PROVE  /\ Untouched(m, i, y) /\ Beside(y, x)
           /\ y.decremented = x.decremented /\ y.incremented = x.incremented \cup {role}
<1>1. x \in Machines(D) /\ Along(m, i, x) /\ DOMAIN m.mem = D
  BY DEF Untouched, Machines
<1>2. y \in Machines(D) /\ Along(m, i, y) /\ Beside(y, x)
  BY <1>1, Increments
<1>3. y.incremented = x.incremented \cup {role} /\ y.decremented = x.decremented
  BY <1>1, Increments
<1>4. Untouched(m, i, y)
  BY <1>1, <1>2 DEF Untouched, Beside, Ok, KeepsFlags
<1> QED BY <1>2, <1>3, <1>4

(* A write of a value: w is x after it.                                    *)
Wrote(m, i, role, x, w) ==
    /\ w \in Machines(DOMAIN m.mem) /\ Along(m, i, w) /\ w.sr = x.sr /\ w.pc = x.pc
    /\ w.decremented = x.decremented \cup {role} /\ w.incremented = x.incremented
    /\ w.status \in {x.status, "error"} /\ (w.status # x.status => w.d = x.d)
    /\ i[role].kind # "DataRegister" => w.d = x.d
    /\ IsRegister(i[role]) => w.status = x.status

(* Target::write steps no register that the instruction does not write,    *)
(* but for the operand's own.                                              *)
LEMMA Writing ==
    ASSUME EightBits, NEW D, NEW m \in Machines(D), NEW i, WellFormed(i), NEW role \in Roles \cap DOMAIN i,
           role = "dst" \/ i.kind = "Exg", NEW x \in Machines(D), Along(m, i, x), NEW size \in Sizes, NEW v \in Int,
           NEW w, w = Write(x, i, role, size, v)
    PROVE  Wrote(m, i, role, x, w)
<1> DEFINE t == i[role]
           p == try_decrement_address(x, i, role)
           addr == effective_address(p, t)
<1>0. DOMAIN m.mem = D /\ t \in Targets /\ role \in DOMAIN i
  BY DEF Machines, WellFormed
<1>1. p = try_decrement_address(x, i, role)
  OBVIOUS
<1>2. w = CASE t.kind = "DataRegister"    -> [p EXCEPT !.d[t.index] = Replaced(@, v, size)]
            [] t.kind = "AddressRegister" -> SetA(p, t.index, Replaced(a_reg(p, t.index), v, size))
            [] OTHER -> PutOrFail(p, addr, size, v)
  BY DEF Write
<1> HIDE DEF p
<1>3. p \in Machines(D) /\ Along(m, i, p) /\ Beside(p, x)
  BY <1>1, Decrements
<1>4. p.decremented = x.decremented \cup {role} /\ p.incremented = x.incremented
  BY <1>1, Decrements
<1>5. CASE t.kind = "DataRegister"
  <2> DEFINE n == t.index
             u == Replaced(p.d[n], v, size)
  <2>1. n \in 0 .. 7 /\ p.d[n] \in Values(Long)
    BY <1>0, <1>3, <1>5, TargetIn, RegisterIn DEF IsRegister
  <2>2. u \in Values(Long)
    BY <2>1, ReplacedIn
  <2>3. w = [p EXCEPT !.d[n] = u]
    BY <1>2, <1>5
  <2> HIDE DEF u, n
  <2>4. w \in Machines(D)
    BY <1>3, <2>1, <2>2, <2>3 DEF Machines
  <2>5. /\ w.a = p.a /\ stack_ptr(w) = stack_ptr(p) /\ w.sr = p.sr /\ w.pc = p.pc /\ w.status = p.status
        /\ w.decremented = p.decremented /\ w.incremented = p.incremented
    BY <1>3, <2>3 DEF Machines, stack_ptr
  <2>6. Along(m, i, w)
    BY <1>3, <2>5, Quiet
  <2> QED BY <1>0, <1>3, <1>4, <1>5, <2>4, <2>5, <2>6 DEF Wrote, Beside
<1>6. CASE t.kind = "AddressRegister"
  <2> DEFINE n == t.index
             u == Replaced(a_reg(p, n), v, size)
  <2>1. n \in 0 .. 7 /\ t = AddrReg(n) /\ a_reg(p, n) \in Values(Long)
    <3>1. n \in 0 .. 7 /\ t = AddrReg(n)
      BY <1>0, <1>6 DEF Targets, Stepped, Relative, AddrReg
    <3> QED BY <1>3, <3>1, RegisterIn
  <2>2. u \in Int
    <3>1. u \in Values(Long)
      BY <2>1, ReplacedIn
    <3> QED BY <3>1, ValuesWiden
  <2>3. w = SetA(p, n, u)
    BY <1>2, <1>6
  <2> HIDE DEF u, n
  <2>4. AddressSet(D, w, p, n, u)
    BY <1>3, <2>1, <2>2, <2>3, SetAIn
  <2>5. /\ w \in Machines(D) /\ w.d = p.d /\ w.sr = p.sr /\ w.pc = p.pc /\ w.status = p.status
        /\ w.decremented = p.decremented /\ w.incremented = p.incremented
    BY <2>4 DEF AddressSet, OnlyAddresses
  <2>6. Writes(i, n)
    BY <1>0, <2>1 DEF Writes
  <2>7. \A k \in 0 .. 7 : ~Writes(i, k) => a_reg(w, k) = a_reg(p, k)
    BY <2>4, <2>6 DEF AddressSet
  <2>8. \A k \in 0 .. 7 : Travel(i, w, k) = Travel(i, p, k)
    BY <2>5 DEF Travel
  <2>9. Along(m, i, w)
    BY <1>3, <2>7, <2>8, Rests
  <2> QED BY <1>0, <1>3, <1>4, <1>6, <2>5, <2>9 DEF Wrote, Beside
<1>7. CASE ~IsRegister(t)
  <2>1. w = PutOrFail(p, addr, size, v)
    BY <1>2, <1>7 DEF IsRegister
  <2>2. addr \in Int
    <3>1. addr \in Values(Long)
      BY <1>0, <1>3, <1>7, AddressIn DEF IsMemory
    <3> QED BY <3>1, ValuesWiden
  <2> HIDE DEF addr
  <2>3. CASE Mapped(p, addr, size)
    <3>1. w = Put(p, addr, size, v)
      BY <2>1, <2>3 DEF PutOrFail
    <3>2. p.mem \in [D -> Values(Byte)] /\ addr .. addr + size - 1 \subseteq D
      BY <1>3, <2>3 DEF Machines, Mapped
    <3>3. w.mem \in [D -> Values(Byte)]
      BY <2>2, <3>1, <3>2, PutBytes
    <3>4. w = [p EXCEPT !.mem = w.mem]
      BY <1>3, <3>1 DEF Put, Machines
    <3>5. w \in Machines(D)
      BY <1>3, <3>3, <3>4 DEF Machines
    <3>6. /\ w.a = p.a /\ stack_ptr(w) = stack_ptr(p) /\ w.sr = p.sr /\ w.pc = p.pc /\ w.status = p.status
          /\ w.decremented = p.decremented /\ w.incremented = p.incremented /\ w.d = p.d
      BY <1>3, <3>4 DEF Machines, stack_ptr
    <3>7. Along(m, i, w)
      BY <1>3, <3>6, Quiet
    <3> QED BY <1>0, <1>3, <1>4, <1>7, <3>5, <3>6, <3>7 DEF Wrote, Beside, IsRegister
  <2>4. CASE ~Mapped(p, addr, size)
    <3>1. w = [p EXCEPT !.status = "error"]
      BY <2>1, <2>4 DEF PutOrFail, Fail
    <3>2. w \in Machines(D)
      BY <1>3, <3>1 DEF Machines
    <3>3. /\ w.a = p.a /\ stack_ptr(w) = stack_ptr(p) /\ w.sr = p.sr /\ w.pc = p.pc /\ w.status = "error"
          /\ w.decremented = p.decremented /\ w.incremented = p.incremented /\ w.d = p.d
      BY <1>3, <3>1 DEF Machines, stack_ptr
    <3>4. Along(m, i, w)
      BY <1>3, <3>3, Quiet
    <3> QED BY <1>0, <1>3, <1>4, <1>7, <3>2, <3>3, <3>4 DEF Wrote, Beside, IsRegister
  <2> QED BY <2>3, <2>4
<1> QED BY <1>5, <1>6, <1>7 DEF IsRegister

(* The write of the destination and the flags after it.                    *)
LEMMA Finished ==
    ASSUME EightBits, NEW D, NEW m \in Machines(D), NEW i, WellFormed(i), "dst" \in DOMAIN i,
           NEW x, Untouched(m, i, x), NEW size \in Sizes, NEW v \in Int,
           "src" \in DOMAIN i /\ i.src.kind = "AddressDecrement" => "src" \in x.decremented,
           NEW sr \in StatusRegisters, sr.s = x.sr.s, NEW w, w = Write(x, i, "dst", size, v)
    PROVE  Result(m, i, w) /\ Result(m, i, Then(w, sr))
<1>1. "dst" \in Roles \cap DOMAIN i /\ x \in Machines(D) /\ Along(m, i, x) /\ DOMAIN m.mem = D
  BY DEF Roles, Untouched, Machines
<1>2. Wrote(m, i, "dst", x, w)
  BY <1>1, Writing
<1>3. w \in Machines(D) /\ Along(m, i, w) /\ w.sr = x.sr /\ w.status \in {"ok", "error"}
  BY <1>1, <1>2 DEF Wrote, Untouched, Ok
<1>4. Predecremented(i, w)
  BY <1>2 DEF Wrote, Predecremented, Roles
<1>5. w.status = "error" => w.d = m.d
  BY <1>2 DEF Wrote, Untouched, Ok
<1>6. KeepsFlags(m, i, w)
  BY <1>3 DEF Untouched, KeepsFlags
<1>7. Result(m, i, w)
  BY <1>1, <1>3, <1>4, <1>5, <1>6 DEF Result
<1>8. CASE ~Ok(w)
  BY <1>7, <1>8 DEF Then
<1>9. CASE Ok(w)
  <2> DEFINE z == Then(w, sr)
  <2>1. z = [w EXCEPT !.sr = sr]
    BY <1>9 DEF Then
  <2> HIDE DEF z
  <2>2. z \in Machines(D)
    BY <1>3, <2>1 DEF Machines
  <2>3. /\ z.a = w.a /\ z.usp = w.usp /\ z.ssp = w.ssp /\ z.sr = sr /\ z.status = "ok"
        /\ z.decremented = w.decremented /\ z.incremented = w.incremented
    BY <1>3, <1>9, <2>1 DEF Machines, Ok
  <2>4. Along(m, i, z)
    <3>1. stack_ptr(z) = stack_ptr(w)
      BY <1>3, <2>3 DEF stack_ptr
    <3> QED BY <1>3, <2>3, <3>1, Quiet
  <2>5. Predecremented(i, z)
    BY <1>4, <2>3 DEF Predecremented
  <2>6. Result(m, i, z)
    BY <1>1, <2>2, <2>3, <2>4, <2>5 DEF Result
  <2> QED BY <1>7, <2>6 DEF z
<1> QED BY <1>7, <1>8, <1>9

-----------------------------------------------------------------------------
(***************************************************************************)
(* Flags.                                                                  *)
(***************************************************************************)

(* New condition codes, and the rest of the status register as it was.     *)
NewFlags(sr, new) == new \in StatusRegisters /\ new.s = sr.s /\ new.mask = sr.mask

(* A flag is a bit.                                                        *)
LEMMA FlagIn == \A b : Flag(b) \in Bit
BY DEF Flag, Bit

(* Setting four condition codes leaves the supervisor bit and the mask     *)
(* alone.                                                                  *)
LEMMA NewFourFlags ==
    ASSUME NEW sr \in StatusRegisters, NEW n \in Bit, NEW z \in Bit, NEW v \in Bit, NEW c \in Bit, NEW new,
           new = [sr EXCEPT !.n = n, !.z = z, !.v = v, !.c = c]
    PROVE  NewFlags(sr, new)
BY DEF NewFlags, StatusRegisters

(* The condition codes after MOVE, TST and the logical instructions are    *)
(* bits, and the rest of the status register is kept.                      *)
LEMMA SetLogicIn ==
    ASSUME EightBits, NEW sr \in StatusRegisters, NEW v \in Int, NEW size \in Sizes
    PROVE  NewFlags(sr, SetLogic(sr, v, size))
<1>1. msb(v, size) \in Bit /\ is_zero(v, size) \in Bit /\ 0 \in Bit
  BY MsbIn, FlagIn DEF is_zero, Bit
<1> QED BY <1>1, NewFourFlags DEF SetLogic

(* The same of a comparison.                                               *)
LEMMA SetCompareIn ==
    ASSUME EightBits, NEW sr \in StatusRegisters, NEW s \in Int, NEW d \in Int, NEW r \in Int, NEW size \in Sizes,
           NEW op
    PROVE  NewFlags(sr, SetCompare(sr, s, d, r, size, op))
<1>1. msb(r, size) \in Bit /\ is_zero(r, size) \in Bit /\ is_carry(r, size) \in Bit
  BY MsbIn, FlagIn DEF is_zero, is_carry
<1>2. is_overflow(s, d, r, size, op) \in Bit
  BY FlagIn DEF is_overflow
<1>3. SetCompare(sr, s, d, r, size, op) =
        [sr EXCEPT !.n = msb(r, size), !.z = is_zero(r, size), !.v = is_overflow(s, d, r, size, op), !.c = is_carry(r, size)]
  BY DEF SetCompare
<1> QED BY <1>1, <1>2, <1>3, NewFourFlags

(* The same of an addition or a subtraction.                               *)
LEMMA SetArithmeticIn ==
    ASSUME EightBits, NEW sr \in StatusRegisters, NEW s \in Int, NEW d \in Int, NEW r \in Int, NEW size \in Sizes,
           NEW op
    PROVE  NewFlags(sr, SetArithmetic(sr, s, d, r, size, op))
<1> DEFINE new == SetCompare(sr, s, d, r, size, op)
           x == is_carry(r, size)
<1>1. NewFlags(sr, new)
  BY SetCompareIn
<1>2. x \in Bit
  BY FlagIn DEF is_carry
<1>3. SetArithmetic(sr, s, d, r, size, op) = [new EXCEPT !.x = x]
  BY DEF SetArithmetic
<1> HIDE DEF new, x
<1>4. NewFlags(sr, [new EXCEPT !.x = x])
  BY <1>1, <1>2 DEF NewFlags, StatusRegisters
<1> QED BY <1>3, <1>4

(* The same of every two-operand instruction.                              *)
LEMMA SetBinaryIn ==
    ASSUME EightBits, NEW sr \in StatusRegisters, NEW s \in Int, NEW d \in Int, NEW r \in Int, NEW size \in Sizes,
           NEW op
    PROVE  NewFlags(sr, SetBinary(sr, s, d, r, size, op))
<1>1. CASE op \in {"Add", "Sub"}
  <2>1. SetBinary(sr, s, d, r, size, op) = SetArithmetic(sr, s, d, r, size, op)
    BY <1>1 DEF SetBinary
  <2> QED BY <2>1, SetArithmeticIn
<1>2. CASE op = "Cmp"
  <2>1. SetBinary(sr, s, d, r, size, op) = SetCompare(sr, s, d, r, size, op)
    BY <1>2 DEF SetBinary
  <2> QED BY <2>1, SetCompareIn
<1>3. CASE op \notin {"Add", "Sub", "Cmp"}
  <2>1. SetBinary(sr, s, d, r, size, op) = SetLogic(sr, r, size)
    BY <1>3 DEF SetBinary
  <2> QED BY <2>1, SetLogicIn
<1> QED BY <1>1, <1>2, <1>3

(* The same of the instructions that only ever clear Z.                    *)
LEMMA StickyZeroIn ==
    ASSUME NEW sr \in StatusRegisters, NEW new, NewFlags(sr, new)
    PROVE  NewFlags(sr, StickyZero(sr, new))
<1>1. new.z = 1 => sr.z \in Bit
  BY DEF StatusRegisters
<1>2. StickyZero(sr, new) = [new EXCEPT !.z = IF new.z = 1 THEN sr.z ELSE 0]
  BY DEF StickyZero
<1>3. sr.z \in Bit /\ 0 \in Bit
  BY DEF StatusRegisters, Bit
<1>4. NewFlags(sr, [new EXCEPT !.z = IF new.z = 1 THEN sr.z ELSE 0])
  BY <1>3 DEF NewFlags, StatusRegisters
<1> QED BY <1>2, <1>4

(* The same of CLR, NEG, NEGX and NOT.                                     *)
LEMMA SetUnaryIn ==
    ASSUME EightBits, NEW sr \in StatusRegisters, NEW kind, NEW size \in Sizes, NEW r, r.value \in Int, r.v \in Bit
    PROVE  NewFlags(sr, SetUnary(sr, kind, size, r))
<1> DEFINE logic == SetLogic(sr, r.value, size)
           set == [logic EXCEPT !.v = r.v]
           c   == is_carry(r.value, size)
           both == [set EXCEPT !.c = c, !.x = c]
           all == IF kind \in {"Neg", "Negx"} THEN both ELSE set
<1>1. SetUnary(sr, kind, size, r) = IF kind = "Negx" THEN StickyZero(sr, all) ELSE all
  BY DEF SetUnary
<1>2. NewFlags(sr, logic) /\ c \in Bit
  BY SetLogicIn, FlagIn DEF is_carry
<1> HIDE DEF logic, c
<1>3. NewFlags(sr, set)
  BY <1>2 DEF NewFlags, StatusRegisters
<1> HIDE DEF set
<1>4. NewFlags(sr, both)
  BY <1>2, <1>3 DEF NewFlags, StatusRegisters
<1> HIDE DEF both
<1>5. NewFlags(sr, all)
  BY <1>3, <1>4
<1> HIDE DEF all
<1> QED BY <1>1, <1>5, StickyZeroIn

(* The bits of a number that are set are finitely many.                    *)
LEMMA BitsIn == ASSUME EightBits, NEW v PROVE BitsOf(v) \subseteq Nat /\ IsFiniteSet(BitsOf(v))
<1>1. BitsOf(v) \subseteq 0 .. 31
  BY SMT DEF BitsOf, EightBits
<1>2. IsFiniteSet(0 .. 31)
  <2>1. 0 \in Int /\ 31 \in Int
    OBVIOUS
  <2> QED BY <2>1, FS_Interval
<1> QED BY <1>1, <1>2, FS_Subset

(* AND, OR and EOR of two numbers are numbers.                             *)
LEMMA BitwiseIn ==
    ASSUME EightBits, NEW v, NEW w
    PROVE  BitAnd(v, w) \in Int /\ BitOr(v, w) \in Int /\ BitXor(v, w) \in Int
<1> DEFINE V == BitsOf(v)
           W == BitsOf(w)
<1>1. V \subseteq Nat /\ W \subseteq Nat /\ IsFiniteSet(V) /\ IsFiniteSet(W)
  BY BitsIn
<1> HIDE DEF V, W
<1>2. IsFiniteSet(V \cup W)
  BY <1>1, FS_Union
<1>3. V \cap W \subseteq V \cup W /\ SymDiff(V, W) \subseteq V \cup W /\ V \cup W \subseteq Nat
  BY <1>1 DEF SymDiff
<1>4. IsFiniteSet(V \cap W) /\ IsFiniteSet(SymDiff(V, W))
  BY <1>2, <1>3, FS_Subset
<1>5. FromBits(V \cap W) \in Int /\ FromBits(V \cup W) \in Int /\ FromBits(SymDiff(V, W)) \in Int
  BY <1>2, <1>3, <1>4, FromBitsIn
<1> QED BY <1>5 DEF V, W, BitAnd, BitOr, BitXor

Operations == {"Add", "And", "Cmp", "Eor", "Or", "Sub"}

(* do_binary_op gives a number.                                            *)
LEMMA BinaryOpIn ==
    ASSUME EightBits, NEW op \in Operations, NEW s \in Int, NEW d \in Int
    PROVE  do_binary_op(op, s, d) \in Int
<1>1. CASE op = "Add"
  BY <1>1 DEF do_binary_op
<1>2. CASE op = "And"
  BY <1>2, BitwiseIn DEF do_binary_op
<1>3. CASE op = "Eor"
  BY <1>3, BitwiseIn DEF do_binary_op
<1>4. CASE op = "Or"
  BY <1>4, BitwiseIn DEF do_binary_op
<1>5. CASE op \in {"Cmp", "Sub"}
  <2>1. do_binary_op(op, s, d) = d - s
    BY <1>5 DEF do_binary_op, Subtracts
  <2> QED BY <2>1
<1> QED BY <1>1, <1>2, <1>3, <1>4, <1>5 DEF Operations

(* Every instruction that calls do_binary_op has one of its six            *)
(* operations.                                                             *)
LEMMA OpcodeIn ==
    ASSUME NEW kind \in BinaryKinds \cup AddressKinds \cup QuickKinds \cup ExtendKinds \cup ToCcrKinds \cup ToSrKinds
    PROVE  opcode_type(kind) \in Operations
BY DEF opcode_type, Operations, BinaryKinds, AddressKinds, QuickKinds, ExtendKinds, ToCcrKinds, ToSrKinds

-----------------------------------------------------------------------------
(***************************************************************************)
(* Operands and sizes by kind.                                             *)
(***************************************************************************)

(* Which operands an instruction has, by its kind.                         *)
LEMMA Operands ==
    ASSUME NEW i, WellFormed(i)
    PROVE  /\ i.kind \in UsesSrc /\ i.kind \notin {"Movem"} \cup Shifts => "src" \in DOMAIN i /\ i["src"] \in Targets
           /\ i.kind \in UsesDst /\ i.kind \notin {"Movem"} => "dst" \in DOMAIN i /\ i["dst"] \in Targets
           /\ i.kind \notin UsesSrc \cup {"Movem"} \cup Shifts => "src" \notin DOMAIN i
           /\ i.kind \notin UsesDst \cup {"Movem"} => "dst" \notin DOMAIN i
<1> DEFINE used == {role \in Roles : \/ role = "src" /\ i.kind \in UsesSrc
                                     \/ role = "dst" /\ i.kind \in UsesDst}
<1>1. /\ \A role \in Roles \cap DOMAIN i : i[role] \in Targets
      /\ Roles \cap DOMAIN i \in OperandsUsed(i)
  BY DEF WellFormed
<1>2. i.kind \notin {"Movem"} \cup Shifts => OperandsUsed(i) = {used}
  BY DEF OperandsUsed
<1>3. i.kind \in Shifts => OperandsUsed(i) = {{"dst"}, {"src", "dst"}}
  BY DEF OperandsUsed, Shifts
<1>4. Roles = {"src", "dst"}
  BY DEF Roles
<1>5. CASE i.kind \notin {"Movem"} \cup Shifts
  <2>1. Roles \cap DOMAIN i = used
    BY <1>1, <1>2, <1>5
  <2> QED BY <1>1, <1>4, <1>5, <2>1
<1>6. CASE i.kind \in Shifts
  <2>1. Roles \cap DOMAIN i \in {{"dst"}, {"src", "dst"}}
    BY <1>1, <1>3, <1>6
  <2>2. "dst" \in DOMAIN i /\ i["dst"] \in Targets
    BY <1>1, <1>4, <2>1
  <2>3. i.kind \in UsesDst
    BY <1>6 DEF UsesDst
  <2> QED BY <1>6, <2>2, <2>3
<1> QED BY <1>5, <1>6

(* An instruction that has a size has one of the three.                    *)
LEMMA SizeIn ==
    ASSUME NEW i, WellFormed(i), i.kind \in UsesSize
    PROVE  i.size \in Sizes
<1>1. i.size \in SizesOf(i.kind)
  BY DEF WellFormed
<1>2. SizesOf(i.kind) \subseteq Sizes
  BY DEF SizesOf, Sizes
<1> QED BY <1>1, <1>2

(* What an instruction starts from.                                        *)
Fresh(m, i) == Untouched(m, i, m) /\ m.decremented = {} /\ m.incremented = {}

(* One operand and two operands that are read: p and q are m after them.   *)
ReadsOne(m, i, role, p) ==
    /\ Untouched(m, i, p) /\ Beside(p, m) /\ p.decremented = {role} /\ p.incremented = {}
    /\ Result(m, i, Fail(p))
    /\ \A size \in Sizes : Accessible(p, i[role], size) =>
            OperandValue(p, i[role], size) \in Values(size) /\ OperandValue(p, i[role], size) \in Int

ReadsTwo(m, i, p, q) ==
    /\ Untouched(m, i, q) /\ Beside(q, m) /\ q.decremented = {"src", "dst"} /\ q.incremented = {}
    /\ Result(m, i, Fail(p)) /\ Result(m, i, Fail(q))
    /\ \A size \in Sizes : Accessible(p, i["src"], size) =>
            OperandValue(p, i["src"], size) \in Values(size) /\ OperandValue(p, i["src"], size) \in Int
    /\ \A size \in Sizes : Accessible(q, i["dst"], size) =>
            OperandValue(q, i["dst"], size) \in Values(size) /\ OperandValue(q, i["dst"], size) \in Int

(* The values of a size are numbers.                                       *)
LEMMA ValuesAreInts == ASSUME EightBits, NEW size \in Sizes PROVE Values(size) \subseteq Int
<1>1. Values(size) \subseteq Nat
  BY ValuesWiden DEF Sizes
<1> QED BY <1>1

(* An instruction of one operand has stored nothing when it has read it,   *)
(* and an error of the read is a result it may have.                       *)
LEMMA ReadOne ==
    ASSUME EightBits, NEW D, NEW m \in Machines(D), NEW i, WellFormed(i), Fresh(m, i), NEW role \in Roles \cap DOMAIN i,
           NEW p, p = try_decrement_address(m, i, role)
    PROVE  ReadsOne(m, i, role, p)
<1>1. Accesses(m, i, role, m, p)
  BY Access DEF Fresh
<1>2. \A size \in Sizes : Accessible(p, i[role], size) => OperandValue(p, i[role], size) \in Values(size)
  BY <1>1 DEF Accesses
<1>3. \A size \in Sizes : Accessible(p, i[role], size) => OperandValue(p, i[role], size) \in Int
  BY <1>2, ValuesAreInts
<1> QED BY <1>1, <1>2, <1>3 DEF Accesses, ReadsOne, Fresh

(* An instruction of two operands has stored nothing when it has read      *)
(* both, and an error of either read is a result it may have.              *)
LEMMA ReadTwo ==
    ASSUME EightBits, NEW D, NEW m \in Machines(D), NEW i, WellFormed(i), Fresh(m, i), Roles \subseteq DOMAIN i,
           NEW p, p = try_decrement_address(m, i, "src"), NEW q, q = try_decrement_address(p, i, "dst")
    PROVE  ReadsTwo(m, i, p, q)
<1>0. "src" \in Roles \cap DOMAIN i /\ "dst" \in Roles \cap DOMAIN i
  BY DEF Roles
<1>1. ReadsOne(m, i, "src", p)
  BY <1>0, ReadOne
<1>2. Untouched(m, i, p)
  BY <1>1 DEF ReadsOne
<1>3. Accesses(m, i, "dst", p, q)
  BY <1>0, <1>2, Access
<1>4. \A size \in Sizes : Accessible(q, i["dst"], size) => OperandValue(q, i["dst"], size) \in Values(size)
  BY <1>3 DEF Accesses
<1>5. \A size \in Sizes : Accessible(q, i["dst"], size) => OperandValue(q, i["dst"], size) \in Int
  BY <1>4, ValuesAreInts
<1>6. q.decremented = {"src", "dst"} /\ q.incremented = {} /\ Beside(q, m) /\ Untouched(m, i, q)
  BY <1>1, <1>3 DEF Accesses, ReadsOne, Beside
<1> QED BY <1>1, <1>3, <1>4, <1>5, <1>6 DEF Accesses, ReadsOne, ReadsTwo

(* The write that follows the reads.                                       *)
LEMMA FinishesOne ==
    ASSUME EightBits, NEW D, NEW m \in Machines(D), NEW i, WellFormed(i), "dst" \in DOMAIN i, "src" \notin DOMAIN i,
           NEW q, Untouched(m, i, q), NEW size \in Sizes, NEW v \in Int,
           NEW w, w = Write(q, i, "dst", size, v), NEW sr, NewFlags(q.sr, sr)
    PROVE  Result(m, i, w) /\ Result(m, i, Then(w, sr))
BY Finished DEF NewFlags

(* The same after two reads.                                               *)
LEMMA FinishesTwo ==
    ASSUME EightBits, NEW D, NEW m \in Machines(D), NEW i, WellFormed(i), "dst" \in DOMAIN i,
           NEW q, Untouched(m, i, q), "src" \in q.decremented, NEW size \in Sizes, NEW v \in Int,
           NEW w, w = Write(q, i, "dst", size, v), NEW sr, NewFlags(q.sr, sr)
    PROVE  Result(m, i, w) /\ Result(m, i, Then(w, sr))
BY Finished DEF NewFlags

(* No write, and flags or none.                                            *)
LEMMA FlagsOnly ==
    ASSUME NEW m, NEW i, NEW q, Untouched(m, i, q), Predecremented(i, q), NEW sr, NewFlags(q.sr, sr), NEW r,
           r = [q EXCEPT !.sr = sr]
    PROVE  Result(m, i, r)
<1>1. q \in Machines(DOMAIN m.mem)
  BY DEF Untouched
<1>2. r \in Machines(DOMAIN m.mem)
  BY <1>1 DEF Machines, NewFlags
<1>3. /\ r.a = q.a /\ r.usp = q.usp /\ r.ssp = q.ssp /\ r.sr = sr /\ r.status = q.status
      /\ r.decremented = q.decremented /\ r.incremented = q.incremented
  BY <1>1 DEF Machines
<1>4. stack_ptr(r) = stack_ptr(q)
  BY <1>3 DEF stack_ptr, NewFlags
<1>5. Along(m, i, r)
  BY <1>3, <1>4, Quiet DEF Untouched
<1>6. Predecremented(i, r) /\ r.status = "ok"
  BY <1>3 DEF Predecremented, Untouched, Ok
<1> QED BY <1>2, <1>5, <1>6 DEF Result

(* An instruction that has read its operands may stop there.               *)
LEMMA Unchanged ==
    ASSUME NEW m, NEW i, NEW q, Untouched(m, i, q), Predecremented(i, q)
    PROVE  Result(m, i, q)
BY DEF Untouched, Result

(* The fields of the status register of a machine that nothing was stored  *)
(* in.                                                                     *)
LEMMA StatusIn ==
    ASSUME NEW m, NEW i, NEW q, Untouched(m, i, q)
    PROVE  /\ q.sr \in StatusRegisters /\ q.sr.c \in Bit /\ q.sr.v \in Bit /\ q.sr.z \in Bit /\ q.sr.n \in Bit
           /\ q.sr.x \in Bit /\ q.sr.s \in Bit /\ q.sr.mask \in 0 .. 7 /\ q.sr.x \in Int
<1>1. q.sr \in StatusRegisters
  BY DEF Untouched, Machines
<1> QED BY <1>1 DEF StatusRegisters, Bit

(* A decimal digit takes four bits.                                        *)
LEMMA NibbleIs == ASSUME EightBits PROVE Nibble = 16
BY SMT DEF EightBits, Nibble

(* The condition codes after a decimal instruction are bits, and the rest  *)
(* of the status register is kept.                                         *)
LEMMA SetDecimalIn ==
    ASSUME EightBits, NEW sr \in StatusRegisters, NEW r \in Int, NEW c \in Bit, NEW v \in Bit
    PROVE  NewFlags(sr, SetDecimal(sr, r, c, v))
<1> DEFINE new == [sr EXCEPT !.n = msb(r, Byte), !.z = is_zero(r, Byte), !.v = v, !.c = c, !.x = c]
<1>1. msb(r, Byte) \in Bit /\ is_zero(r, Byte) \in Bit
  BY MsbIn, FlagIn DEF is_zero, Sizes
<1>2. SetDecimal(sr, r, c, v) = StickyZero(sr, new)
  BY DEF SetDecimal
<1>3. NewFlags(sr, new)
  BY <1>1 DEF NewFlags, StatusRegisters
<1> HIDE DEF new
<1> QED BY <1>2, <1>3, StickyZeroIn

(* The radix of the decimal digits is a number.                            *)
LEMMA RadixIn == RADIX \in Int
<1>1. RADIX \in Nat
  BY RadixAssumption
<1> QED BY <1>1

(* A bit is a number.                                                      *)
LEMMA BitIsInt == Bit \subseteq Int
BY DEF Bit

(* ABCD's sum and flags are a number and flags.                            *)
LEMMA AbcdIn ==
    ASSUME EightBits, NEW sr \in StatusRegisters, NEW src \in Int, NEW dst \in Int
    PROVE  Abcd(sr, src, dst).value \in Int /\ NewFlags(sr, Abcd(sr, src, dst).sr)
<1> DEFINE low    == (src % Nibble) + (dst % Nibble) + sr.x
           carry  == Flag(low >= RADIX)
           digit  == low - RADIX * carry
           spill  == Flag(digit >= Nibble)
           high   == (src \div Nibble) + (dst \div Nibble) + carry + spill
           out    == Flag(high >= RADIX)
           result == Low((high - RADIX * out) * Nibble + digit - Nibble * spill, Byte)
           binary == src + dst + sr.x
           over   == Flag(msb(binary, Byte) = 0 /\ msb(result, Byte) = 1)
<1>1. Abcd(sr, src, dst) = [value |-> result, sr |-> SetDecimal(sr, result, out, over)]
  BY DEF Abcd
<1>2. out \in Bit /\ over \in Bit /\ carry \in Bit /\ spill \in Bit
  BY FlagIn
<1>3. carry \in Int /\ spill \in Int /\ out \in Int /\ sr.x \in Int /\ RADIX \in Int
  BY <1>2, BitIsInt, RadixIn DEF StatusRegisters
<1>4. Nibble \in Nat \ {0}
  BY NibbleIs
<1> HIDE DEF carry, spill, out, over
<1>5. low \in Int
  BY <1>3, <1>4
<1> HIDE DEF low
<1>6. digit \in Int /\ high \in Int
  BY <1>3, <1>4, <1>5
<1> HIDE DEF digit, high
<1>7. (high - RADIX * out) * Nibble + digit - Nibble * spill \in Int
  BY <1>3, <1>4, <1>6
<1>8. result \in Int
  BY <1>7, LowInt DEF Sizes
<1> HIDE DEF result
<1> QED BY <1>1, <1>2, <1>8, SetDecimalIn

(* SBCD's and NBCD's difference and flags are a number and flags.          *)
LEMMA SbcdIn ==
    ASSUME EightBits, NEW sr \in StatusRegisters, NEW minuend \in Int, NEW subtrahend \in Int
    PROVE  Sbcd(sr, minuend, subtrahend).value \in Int /\ NewFlags(sr, Sbcd(sr, minuend, subtrahend).sr)
<1> DEFINE low    == (minuend % Nibble) - (subtrahend % Nibble) - sr.x
           borrow == Flag(low < 0)
           digit  == low + RADIX * borrow
           high   == (minuend \div Nibble) - (subtrahend \div Nibble) - borrow
           out    == Flag(high < 0)
           upper  == high + RADIX * out
           result == Low(upper * Nibble + digit, Byte)
           binary == minuend - subtrahend - sr.x
           carry  == Flag(out = 1 \/ (upper = 0 /\ digit < 0))
           over   == Flag(msb(binary, Byte) = 1 /\ msb(result, Byte) = 0)
<1>1. Sbcd(sr, minuend, subtrahend) = [value |-> result, sr |-> SetDecimal(sr, result, carry, over)]
  BY DEF Sbcd
<1>2. out \in Bit /\ over \in Bit /\ carry \in Bit /\ borrow \in Bit
  BY FlagIn
<1>3. borrow \in Int /\ out \in Int /\ sr.x \in Int /\ RADIX \in Int
  BY <1>2, BitIsInt, RadixIn DEF StatusRegisters
<1>4. Nibble \in Nat \ {0}
  BY NibbleIs
<1> HIDE DEF carry, borrow, out, over
<1>5. low \in Int
  BY <1>3, <1>4
<1> HIDE DEF low
<1>6. digit \in Int /\ high \in Int
  BY <1>3, <1>4, <1>5
<1> HIDE DEF digit, high
<1>7. upper * Nibble + digit \in Int
  BY <1>3, <1>4, <1>6
<1>8. result \in Int
  BY <1>7, LowInt DEF Sizes
<1> HIDE DEF result
<1> QED BY <1>1, <1>2, <1>8, SetDecimalIn

-----------------------------------------------------------------------------
(***************************************************************************)
(* The instructions.  Each has a lemma that its branch of                  *)
(* Instruction::execute, run on a machine with nothing stepped yet, ends   *)
(* in a Result.                                                            *)
(***************************************************************************)

(* ABCD has a result an instruction may have.                              *)
LEMMA AbcdDone ==
    ASSUME EightBits, NEW D, NEW m \in Machines(D), NEW i, WellFormed(i), Fresh(m, i), i.kind = "Abcd",
           NEW r, r = ExecAbcd(m, i)
    PROVE  Result(m, i, r)
<1> DEFINE p == try_decrement_address(m, i, "src")
           q == try_decrement_address(p, i, "dst")
           s == OperandValue(p, i["src"], Byte)
           d == OperandValue(q, i["dst"], Byte)
           v == Abcd(q.sr, s, d)
           w == Write(q, i, "dst", Byte, v.value)
<1>0. Roles \subseteq DOMAIN i /\ Byte \in Sizes
  BY Operands DEF UsesSrc, UsesDst, UsesBoth, Roles, Shifts, Sizes
<1>1. r = IF Accessible(p, i["src"], Byte)
          THEN IF Accessible(q, i["dst"], Byte) THEN Then(w, v.sr) ELSE Fail(q)
          ELSE Fail(p)
  BY Zenon DEF ExecAbcd, Read
<1>2. ReadsTwo(m, i, p, q)
  BY <1>0, ReadTwo
<1>3. w = Write(q, i, "dst", Byte, v.value)
  OBVIOUS
<1> HIDE DEF p, q, w
<1>4. CASE Accessible(p, i["src"], Byte) /\ Accessible(q, i["dst"], Byte)
  <2>1. s \in Int /\ d \in Int /\ Untouched(m, i, q) /\ "src" \in q.decremented
    BY <1>0, <1>2, <1>4 DEF ReadsTwo
  <2>2. v.value \in Int /\ NewFlags(q.sr, v.sr)
    BY <2>1, StatusIn, AbcdIn
  <2> HIDE DEF v
  <2>3. Result(m, i, Then(w, v.sr))
    BY <1>0, <1>3, <2>1, <2>2, FinishesTwo DEF Roles
  <2> QED BY <1>1, <1>4, <2>3
<1> QED BY <1>1, <1>2, <1>4 DEF ReadsTwo

(* SBCD has a result an instruction may have.                              *)
LEMMA SbcdDone ==
    ASSUME EightBits, NEW D, NEW m \in Machines(D), NEW i, WellFormed(i), Fresh(m, i), i.kind = "Sbcd",
           NEW r, r = ExecSbcd(m, i)
    PROVE  Result(m, i, r)
<1> DEFINE p == try_decrement_address(m, i, "src")
           q == try_decrement_address(p, i, "dst")
           s == OperandValue(p, i["src"], Byte)
           d == OperandValue(q, i["dst"], Byte)
           v == Sbcd(q.sr, d, s)
           w == Write(q, i, "dst", Byte, v.value)
<1>0. Roles \subseteq DOMAIN i /\ Byte \in Sizes /\ i.kind # "Nbcd"
  BY Operands DEF UsesSrc, UsesDst, UsesBoth, Roles, Shifts, Sizes
<1>1. r = IF Accessible(p, i["src"], Byte)
          THEN IF Accessible(q, i["dst"], Byte) THEN Then(w, v.sr) ELSE Fail(q)
          ELSE Fail(p)
  BY <1>0, Zenon DEF ExecSbcd, Read
<1>2. ReadsTwo(m, i, p, q)
  BY <1>0, ReadTwo
<1>3. w = Write(q, i, "dst", Byte, v.value)
  OBVIOUS
<1> HIDE DEF p, q, w
<1>4. CASE Accessible(p, i["src"], Byte) /\ Accessible(q, i["dst"], Byte)
  <2>1. s \in Int /\ d \in Int /\ Untouched(m, i, q) /\ "src" \in q.decremented
    BY <1>0, <1>2, <1>4 DEF ReadsTwo
  <2>2. v.value \in Int /\ NewFlags(q.sr, v.sr)
    BY <2>1, StatusIn, SbcdIn
  <2> HIDE DEF v
  <2>3. Result(m, i, Then(w, v.sr))
    BY <1>0, <1>3, <2>1, <2>2, FinishesTwo DEF Roles
  <2> QED BY <1>1, <1>4, <2>3
<1> QED BY <1>1, <1>2, <1>4 DEF ReadsTwo

(* NBCD has a result an instruction may have.                              *)
LEMMA NbcdDone ==
    ASSUME EightBits, NEW D, NEW m \in Machines(D), NEW i, WellFormed(i), Fresh(m, i), i.kind = "Nbcd",
           NEW r, r = ExecSbcd(m, i)
    PROVE  Result(m, i, r)
<1> DEFINE q == try_decrement_address(m, i, "dst")
           d == OperandValue(q, i["dst"], Byte)
           v == Sbcd(q.sr, 0, d)
           w == Write(q, i, "dst", Byte, v.value)
<1>0. "dst" \in DOMAIN i /\ "dst" \in Roles /\ "src" \notin DOMAIN i /\ Byte \in Sizes
  BY Operands DEF UsesSrc, UsesDst, UsesBoth, Roles, Shifts, Sizes, BinaryKinds, AddressKinds, ExtendKinds, BitKinds, ToCcrKinds, ToSrKinds
<1>1. r = IF Accessible(q, i["dst"], Byte) THEN Then(w, v.sr) ELSE Fail(q)
  BY Zenon DEF ExecSbcd, Read
<1>2. ReadsOne(m, i, "dst", q)
  BY <1>0, ReadOne
<1>3. w = Write(q, i, "dst", Byte, v.value)
  OBVIOUS
<1> HIDE DEF q, w
<1>4. CASE Accessible(q, i["dst"], Byte)
  <2>1. d \in Int /\ Untouched(m, i, q) /\ 0 \in Int
    BY <1>0, <1>2, <1>4 DEF ReadsOne
  <2>2. v.value \in Int /\ NewFlags(q.sr, v.sr)
    BY <2>1, StatusIn, SbcdIn
  <2> HIDE DEF v
  <2>3. Result(m, i, Then(w, v.sr))
    BY <1>0, <1>3, <2>1, <2>2, FinishesOne
  <2> QED BY <1>1, <1>4, <2>3
<1> QED BY <1>1, <1>2, <1>4 DEF ReadsOne

(* The two-operand instructions have a result an instruction may have.     *)
LEMMA BinaryDone ==
    ASSUME EightBits, NEW D, NEW m \in Machines(D), NEW i, WellFormed(i), Fresh(m, i), i.kind \in BinaryKinds,
           NEW r, r = ExecBinary(m, i)
    PROVE  Result(m, i, r)
<1> DEFINE size == i.size
           op == opcode_type(i.kind)
           p == try_decrement_address(m, i, "src")
           s == OperandValue(p, i["src"], size)
           k == try_increment_address(p, i, "src")
           q == try_decrement_address(k, i, "dst")
           d == OperandValue(q, i["dst"], size)
           v == do_binary_op(op, s, d)
           sr == SetBinary(q.sr, s, d, v, size, op)
           w == Write(q, i, "dst", size, v)
<1>0. "src" \in DOMAIN i /\ "dst" \in DOMAIN i /\ "src" \in Roles /\ "dst" \in Roles
  BY Operands DEF UsesSrc, UsesDst, UsesBoth, Roles, Shifts, BinaryKinds
<1>1. size \in Sizes /\ op \in Operations
  BY SizeIn, OpcodeIn DEF UsesSize
<1>2. r = IF Accessible(p, i["src"], size)
          THEN IF Accessible(q, i["dst"], size)
               THEN Then(IF op = "Cmp" THEN q ELSE w, sr) ELSE Fail(q)
          ELSE Fail(p)
  BY Zenon DEF ExecBinary, Read
<1>3. p = try_decrement_address(m, i, "src") /\ k = try_increment_address(p, i, "src")
      /\ q = try_decrement_address(k, i, "dst") /\ w = Write(q, i, "dst", size, v)
  OBVIOUS
<1> HIDE DEF p, k, q, w, op, size
<1>4. ReadsOne(m, i, "src", p)
  BY <1>0, <1>3, ReadOne
<1>5. Untouched(m, i, k) /\ k.decremented = p.decremented
  BY <1>0, <1>3, <1>4, Incremented DEF ReadsOne
<1>6. Accesses(m, i, "dst", k, q)
  BY <1>0, <1>3, <1>5, Access
<1>7. Untouched(m, i, q) /\ q.decremented = {"src", "dst"} /\ Result(m, i, Fail(p)) /\ Result(m, i, Fail(q))
  BY <1>4, <1>5, <1>6 DEF ReadsOne, Accesses
<1>8. CASE Accessible(p, i["src"], size) /\ Accessible(q, i["dst"], size)
  <2>1. s \in Int
    BY <1>1, <1>4, <1>8 DEF ReadsOne
  <2>2. d \in Values(size)
    BY <1>1, <1>6, <1>8 DEF Accesses
  <2>3. d \in Int
    BY <1>1, <2>2, ValuesAreInts
  <2> HIDE DEF s, d
  <2>4. v \in Int
    BY <1>1, <2>1, <2>3, BinaryOpIn
  <2> HIDE DEF v
  <2>5. NewFlags(q.sr, sr)
    BY <1>1, <1>7, <2>1, <2>3, <2>4, StatusIn, SetBinaryIn
  <2> HIDE DEF sr
  <2>6. CASE op = "Cmp"
    <3>1. r = [q EXCEPT !.sr = sr]
      BY <1>2, <1>7, <1>8, <2>6 DEF Then, Untouched
    <3>2. Predecremented(i, q)
      BY <1>7 DEF Predecremented, Roles
    <3> QED BY <1>7, <2>5, <3>1, <3>2, FlagsOnly
  <2>7. CASE op # "Cmp"
    <3>1. r = Then(w, sr)
      BY <1>2, <1>8, <2>7
    <3>2. Result(m, i, Then(w, sr))
      BY <1>0, <1>1, <1>3, <1>7, <2>4, <2>5, FinishesTwo
    <3> QED BY <3>1, <3>2
  <2> QED BY <2>6, <2>7
<1> QED BY <1>2, <1>7, <1>8

(* ADDA, SUBA and CMPA have a result an instruction may have.              *)
LEMMA AddressDone ==
    ASSUME EightBits, NEW D, NEW m \in Machines(D), NEW i, WellFormed(i), Fresh(m, i), i.kind \in AddressKinds,
           NEW r, r = ExecAddress(m, i)
    PROVE  Result(m, i, r)
<1> DEFINE size == i.size
           op == opcode_type(i.kind)
           p == try_decrement_address(m, i, "src")
           q == try_decrement_address(p, i, "dst")
           u == OperandValue(p, i["src"], size)
           d == OperandValue(q, i["dst"], Long)
           s == IF size = Word THEN Signed(u, Word) ELSE u
           v == do_binary_op(op, s, d)
           cmp == SetCompare(q.sr, s, d, v, Long, op)
           c == Flag(v \div Span(Long) # s \div Span(Long))
           sr == [cmp EXCEPT !.c = c]
           w == Write(q, i, "dst", Long, v)
<1>0. Roles \subseteq DOMAIN i /\ Word \in Sizes /\ Long \in Sizes
  BY Operands DEF UsesSrc, UsesDst, UsesBoth, Roles, Shifts, AddressKinds, Sizes
<1>1. size \in Sizes /\ op \in Operations
  BY SizeIn, OpcodeIn DEF UsesSize
<1>2. r = IF Accessible(p, i["src"], size)
          THEN IF Accessible(q, i["dst"], Long)
               THEN IF op = "Cmp" THEN [q EXCEPT !.sr = sr] ELSE w
               ELSE Fail(q)
          ELSE Fail(p)
  BY Zenon DEF ExecAddress, Read
<1>3. ReadsTwo(m, i, p, q)
  BY <1>0, ReadTwo
<1>4. w = Write(q, i, "dst", Long, v)
  OBVIOUS
<1> HIDE DEF p, q, w, op, size
<1>5. CASE Accessible(p, i["src"], size) /\ Accessible(q, i["dst"], Long)
  <2>1. u \in Int /\ d \in Int /\ Untouched(m, i, q) /\ q.decremented = {"src", "dst"}
    BY <1>0, <1>1, <1>3, <1>5 DEF ReadsTwo
  <2> HIDE DEF u, d
  <2>2. s \in Int
    BY <1>0, <2>1, SignedIn
  <2> HIDE DEF s
  <2>3. v \in Int
    BY <1>1, <2>1, <2>2, BinaryOpIn
  <2> HIDE DEF v
  <2>4. NewFlags(q.sr, cmp) /\ c \in Bit
    BY <1>0, <2>1, <2>2, <2>3, StatusIn, SetCompareIn, FlagIn
  <2> HIDE DEF cmp, c
  <2>5. NewFlags(q.sr, sr)
    BY <2>4 DEF NewFlags, StatusRegisters
  <2> HIDE DEF sr
  <2>6. CASE op = "Cmp"
    <3>1. r = [q EXCEPT !.sr = sr]
      BY <1>2, <1>5, <2>6
    <3>2. Predecremented(i, q)
      BY <2>1 DEF Predecremented, Roles
    <3> QED BY <2>1, <2>5, <3>1, <3>2, FlagsOnly
  <2>7. CASE op # "Cmp"
    <3>1. r = w
      BY <1>2, <1>5, <2>7
    <3>2. Result(m, i, w)
      BY <1>0, <1>4, <2>1, <2>3, <2>5, FinishesTwo DEF Roles
    <3> QED BY <3>1, <3>2
  <2> QED BY <2>6, <2>7
<1> QED BY <1>2, <1>3, <1>5 DEF ReadsTwo

(* The immediate data of an instruction is a long.                         *)
LEMMA DataIn ==
    ASSUME EightBits, NEW i, WellFormed(i), i.kind \in UsesData \/ (i.kind \in Shifts /\ "src" \notin DOMAIN i)
    PROVE  i.data \in Values(Long) /\ i.data \in Int /\ QuickValue(i.data) \in Int /\ QuickValue(i.data) \in Nat
<1>1. i.data \in Values(Long)
  BY DEF WellFormed
<1>2. i.data \in Nat
  BY <1>1, ValuesWiden
<1> QED BY <1>1, <1>2 DEF QuickValue

(* ADDQ and SUBQ have a result an instruction may have.                    *)
LEMMA QuickDone ==
    ASSUME EightBits, NEW D, NEW m \in Machines(D), NEW i, WellFormed(i), Fresh(m, i), i.kind \in QuickKinds,
           NEW r, r = ExecQuick(m, i)
    PROVE  Result(m, i, r)
<1> DEFINE size == i.size
           op == opcode_type(i.kind)
           q == try_decrement_address(m, i, "dst")
           d == OperandValue(q, i["dst"], size)
           s == QuickValue(i.data)
           v == do_binary_op(op, s, d)
           sr == SetArithmetic(q.sr, s, d, v, size, op)
           w == Write(q, i, "dst", size, v)
<1>0. "dst" \in DOMAIN i /\ "src" \notin DOMAIN i /\ "dst" \in Roles
  BY Operands DEF UsesSrc, UsesDst, UsesBoth, Roles, Shifts, QuickKinds, BinaryKinds, AddressKinds, ExtendKinds,
                  BitKinds, ToCcrKinds, ToSrKinds
<1>1. size \in Sizes /\ op \in Operations
  BY SizeIn, OpcodeIn DEF UsesSize
<1>2. r = IF Accessible(q, i["dst"], size)
          THEN IF i.dst.kind = "AddressRegister" THEN w ELSE Then(w, sr)
          ELSE Fail(q)
  BY Zenon DEF ExecQuick, Read
<1>3. ReadsOne(m, i, "dst", q)
  BY <1>0, ReadOne
<1>4. w = Write(q, i, "dst", size, v)
  OBVIOUS
<1>5. s \in Int
  BY DataIn DEF UsesData
<1> HIDE DEF q, w, op, size, s
<1>6. CASE Accessible(q, i["dst"], size)
  <2>1. d \in Int /\ Untouched(m, i, q)
    BY <1>1, <1>3, <1>6 DEF ReadsOne
  <2> HIDE DEF d
  <2>2. v \in Int
    BY <1>1, <1>5, <2>1, BinaryOpIn
  <2> HIDE DEF v
  <2>3. NewFlags(q.sr, sr)
    BY <1>1, <1>5, <2>1, <2>2, StatusIn, SetArithmeticIn
  <2> HIDE DEF sr
  <2>4. Result(m, i, w) /\ Result(m, i, Then(w, sr))
    BY <1>0, <1>1, <1>4, <2>1, <2>2, <2>3, FinishesOne
  <2> QED BY <1>2, <1>6, <2>4
<1> QED BY <1>2, <1>3, <1>6 DEF ReadsOne

(* ADDX and SUBX have a result an instruction may have.                    *)
LEMMA ExtendDone ==
    ASSUME EightBits, NEW D, NEW m \in Machines(D), NEW i, WellFormed(i), Fresh(m, i), i.kind \in ExtendKinds,
           NEW r, r = ExecExtend(m, i)
    PROVE  Result(m, i, r)
<1> DEFINE size == i.size
           op == opcode_type(i.kind)
           p == try_decrement_address(m, i, "src")
           q == try_decrement_address(p, i, "dst")
           s == OperandValue(p, i["src"], size)
           d == OperandValue(q, i["dst"], size)
           v == do_binary_op(op, s + q.sr.x, d)
           set == SetArithmetic(q.sr, s, d, v, size, op)
           sr == StickyZero(q.sr, set)
           w == Write(q, i, "dst", size, v)
<1>0. Roles \subseteq DOMAIN i
  BY Operands DEF UsesSrc, UsesDst, UsesBoth, Roles, Shifts, ExtendKinds
<1>1. size \in Sizes /\ op \in Operations
  BY SizeIn, OpcodeIn DEF UsesSize
<1>2. r = IF Accessible(p, i["src"], size)
          THEN IF Accessible(q, i["dst"], size) THEN Then(w, sr) ELSE Fail(q)
          ELSE Fail(p)
  BY Zenon DEF ExecExtend, Read
<1>3. ReadsTwo(m, i, p, q)
  BY <1>0, ReadTwo
<1>4. w = Write(q, i, "dst", size, v)
  OBVIOUS
<1> HIDE DEF p, q, w, op, size
<1>5. CASE Accessible(p, i["src"], size) /\ Accessible(q, i["dst"], size)
  <2>1. s \in Int /\ d \in Int /\ Untouched(m, i, q) /\ q.decremented = {"src", "dst"}
    BY <1>0, <1>1, <1>3, <1>5 DEF ReadsTwo
  <2> HIDE DEF s, d
  <2>2. s + q.sr.x \in Int
    BY <2>1, StatusIn
  <2>3. v \in Int
    BY <1>1, <2>1, <2>2, BinaryOpIn
  <2> HIDE DEF v
  <2>4. NewFlags(q.sr, set)
    BY <1>1, <2>1, <2>3, StatusIn, SetArithmeticIn
  <2> HIDE DEF set
  <2>5. NewFlags(q.sr, sr)
    BY <2>1, <2>4, StatusIn, StickyZeroIn
  <2> HIDE DEF sr
  <2>6. Result(m, i, Then(w, sr))
    BY <1>0, <1>1, <1>4, <2>1, <2>3, <2>5, FinishesTwo DEF Roles
  <2> QED BY <1>2, <1>5, <2>6
<1> QED BY <1>2, <1>3, <1>5 DEF ReadsTwo

(* CLR, NEG, NEGX and NOT give a number and an overflow bit.               *)
LEMMA UnaryIn ==
    ASSUME NEW kind \in UnaryKinds, NEW size, NEW v \in Int, NEW sr
    PROVE  Unary(kind, size, v, sr).value \in Int /\ Unary(kind, size, v, sr).v \in Bit
<1> DEFINE adds == kind = "Neg" \/ sr.x = 0
           f == Flag(adds)
           o == Flag(adds /\ Low(-v - 1, size) = Span(size) \div 2 - 1)
<1>1. f \in Bit /\ o \in Bit /\ 0 \in Bit
  BY FlagIn DEF Bit
<1>2. f \in Int
  BY <1>1, BitIsInt
<1>3. Unary(kind, size, v, sr) = CASE kind = "Clr" -> [value |-> 0, v |-> 0]
          [] kind = "Not" -> [value |-> -v - 1, v |-> 0]
          [] kind \in {"Neg", "Negx"} -> [value |-> -v - 1 + f, v |-> o]
  BY DEF Unary
<1> HIDE DEF f, o
<1>4. -v - 1 + f \in Int /\ -v - 1 \in Int
  BY <1>2
<1> QED BY <1>1, <1>3, <1>4 DEF UnaryKinds

(* CLR, NEG, NEGX and NOT have a result an instruction may have.           *)
LEMMA UnaryDone ==
    ASSUME EightBits, NEW D, NEW m \in Machines(D), NEW i, WellFormed(i), Fresh(m, i), i.kind \in UnaryKinds,
           NEW r, r = ExecUnary(m, i)
    PROVE  Result(m, i, r)
<1> DEFINE size == i.size
           q == try_decrement_address(m, i, "dst")
           d == OperandValue(q, i["dst"], size)
           u == Unary(i.kind, size, d, q.sr)
           sr == SetUnary(q.sr, i.kind, size, u)
           w == Write(q, i, "dst", size, u.value)
<1>0. "dst" \in DOMAIN i /\ "src" \notin DOMAIN i /\ "dst" \in Roles
  BY Operands DEF UsesSrc, UsesDst, UsesBoth, Roles, Shifts, UnaryKinds, BinaryKinds, AddressKinds, ExtendKinds,
                  BitKinds, ToCcrKinds, ToSrKinds
<1>1. size \in Sizes
  BY SizeIn DEF UsesSize
<1>2. r = IF Accessible(q, i["dst"], size) THEN Then(w, sr) ELSE Fail(q)
  BY Zenon DEF ExecUnary, Read
<1>3. ReadsOne(m, i, "dst", q)
  BY <1>0, ReadOne
<1>4. w = Write(q, i, "dst", size, u.value)
  OBVIOUS
<1> HIDE DEF q, w, size
<1>6. CASE Accessible(q, i["dst"], size)
  <2>1. d \in Int /\ Untouched(m, i, q)
    BY <1>1, <1>3, <1>6 DEF ReadsOne
  <2> HIDE DEF d
  <2>2. u.value \in Int /\ u.v \in Bit
    BY <2>1, UnaryIn
  <2> HIDE DEF u
  <2>3. NewFlags(q.sr, sr)
    BY <1>1, <2>1, <2>2, StatusIn, SetUnaryIn
  <2> HIDE DEF sr
  <2>4. Result(m, i, Then(w, sr))
    BY <1>0, <1>1, <1>4, <2>1, <2>2, <2>3, FinishesOne
  <2> QED BY <1>2, <1>6, <2>4
<1> QED BY <1>2, <1>3, <1>6 DEF ReadsOne

(* MULU and MULS have a result an instruction may have.                    *)
LEMMA MulDone ==
    ASSUME EightBits, NEW D, NEW m \in Machines(D), NEW i, WellFormed(i), Fresh(m, i), i.kind \in {"Mulu", "Muls"},
           NEW r, r = ExecMul(m, i)
    PROVE  Result(m, i, r)
<1> DEFINE p == try_decrement_address(m, i, "src")
           q == try_decrement_address(p, i, "dst")
           s == OperandValue(p, i["src"], Word)
           d == OperandValue(q, i["dst"], Word)
           v == IF i.kind = "Mulu" THEN s * d ELSE Signed(s, Word) * Signed(d, Word)
           sr == SetLogic(q.sr, v, Long)
           w == Write(q, i, "dst", Long, v)
<1>0. Roles \subseteq DOMAIN i /\ Word \in Sizes /\ Long \in Sizes
  BY Operands DEF UsesSrc, UsesDst, UsesBoth, Roles, Shifts, Sizes
<1>2. r = IF Accessible(p, i["src"], Word)
          THEN IF Accessible(q, i["dst"], Word) THEN Then(w, sr) ELSE Fail(q)
          ELSE Fail(p)
  BY Zenon DEF ExecMul, Read
<1>3. ReadsTwo(m, i, p, q)
  BY <1>0, ReadTwo
<1>4. w = Write(q, i, "dst", Long, v)
  OBVIOUS
<1> HIDE DEF p, q, w
<1>5. CASE Accessible(p, i["src"], Word) /\ Accessible(q, i["dst"], Word)
  <2>1. s \in Int /\ d \in Int /\ Untouched(m, i, q) /\ q.decremented = {"src", "dst"}
    BY <1>0, <1>3, <1>5 DEF ReadsTwo
  <2> HIDE DEF s, d
  <2>2. Signed(s, Word) \in Int /\ Signed(d, Word) \in Int
    BY <1>0, <2>1, SignedIn
  <2>3. v \in Int
    BY <2>1, <2>2
  <2> HIDE DEF v
  <2>4. NewFlags(q.sr, sr)
    BY <1>0, <2>1, <2>3, StatusIn, SetLogicIn
  <2> HIDE DEF sr
  <2>5. Result(m, i, Then(w, sr))
    BY <1>0, <1>4, <2>1, <2>3, <2>4, FinishesTwo DEF Roles
  <2> QED BY <1>2, <1>5, <2>5
<1> QED BY <1>2, <1>3, <1>5 DEF ReadsTwo

-----------------------------------------------------------------------------
(***************************************************************************)
(* The stack and the exceptions.                                           *)
(***************************************************************************)

(* A push moves the stack pointer and may write memory: p is m after it.   *)
Pushed(D, p, m) ==
    /\ p \in Machines(D) /\ p.d = m.d /\ p.a = m.a /\ p.sr = m.sr /\ p.pc = m.pc /\ p.status = m.status
    /\ p.decremented = m.decremented /\ p.incremented = m.incremented

(* A write to mapped memory changes memory only.                           *)
LEMMA PutIn ==
    ASSUME EightBits, NEW D, NEW m \in Machines(D), NEW addr \in Int, NEW size \in Sizes, NEW v \in Int,
           Mapped(m, addr, size), NEW p, p = Put(m, addr, size, v)
    PROVE  Pushed(D, p, m) /\ p.usp = m.usp /\ p.ssp = m.ssp
<1>1. m.mem \in [D -> Values(Byte)] /\ addr .. addr + size - 1 \subseteq D
  BY DEF Machines, Mapped
<1>2. p.mem \in [D -> Values(Byte)]
  BY <1>1, PutBytes
<1>3. p = [m EXCEPT !.mem = p.mem]
  BY DEF Put, Machines
<1>4. p \in Machines(D)
  BY <1>2, <1>3 DEF Machines
<1> QED BY <1>3, <1>4 DEF Pushed, Machines

(* push_stack moves the stack pointer and writes memory, whether the write *)
(* is refused or not.                                                      *)
LEMMA PushIn ==
    ASSUME EightBits, NEW D, NEW m \in Machines(D), NEW size \in Sizes, NEW v \in Int,
           NEW p, p = push_stack(m, size, v)
    PROVE  Pushed(D, p, m)
<1> DEFINE sp == Low(stack_ptr(m) - size, Long)
           k == SetStackPtr(m, sp)
<1>1. p = IF Mapped(k, sp, size) THEN Put(k, sp, size, v) ELSE k
  BY DEF push_stack
<1>2. sp \in Int
  <2>1. stack_ptr(m) \in Values(Long)
    BY StackPtrIn
  <2>2. stack_ptr(m) - size \in Int
    BY <2>1, ValuesWiden DEF Sizes, Byte, Word, Long
  <2> QED BY <2>2, LowInt DEF Sizes
<1>3. k = SetStackPtr(m, sp)
  OBVIOUS
<1> HIDE DEF sp, k
<1>4. k \in Machines(D)
  BY <1>2, <1>3, SetStackPtrIn
<1>5. Pushed(D, k, m)
  BY <1>3, <1>4 DEF Pushed, SetStackPtr, Machines
<1>6. CASE Mapped(k, sp, size)
  <2>1. p = Put(k, sp, size, v)
    BY <1>1, <1>6
  <2>2. Pushed(D, p, k)
    BY <1>2, <1>4, <1>6, <2>1, PutIn
  <2> QED BY <1>5, <2>2 DEF Pushed
<1> QED BY <1>1, <1>5, <1>6

(* The address registers below the stack pointer, when an instruction      *)
(* writes the stack pointer.                                               *)
LEMMA QuietBelow ==
    ASSUME NEW m, NEW i, Writes(i, 7), NEW x, Along(m, i, x), NEW y, y.a = x.a,
           y.decremented = x.decremented, y.incremented = x.incremented
    PROVE  Along(m, i, y)
<1>1. \A n \in 0 .. 7 : ~Writes(i, n) => n < 7
  OBVIOUS
<1>2. \A n \in 0 .. 7 : ~Writes(i, n) => a_reg(y, n) = a_reg(x, n)
  BY <1>1 DEF a_reg
<1>3. \A n \in 0 .. 7 : Travel(i, y, n) = Travel(i, x, n)
  BY DEF Travel
<1> QED BY <1>2, <1>3, Rests

(* The condition codes as a byte are a number.                             *)
LEMMA CcrIn ==
    ASSUME NEW sr \in StatusRegisters
    PROVE  Ccr(sr) \in Int
BY DEF Ccr, StatusRegisters, Bit

(* The status register as a word is a number.                              *)
LEMMA SrWordIn ==
    ASSUME EightBits, NEW sr \in StatusRegisters
    PROVE  SrWord(sr) \in Int
<1>1. Ccr(sr) \in Int /\ sr.mask \in Int /\ sr.s \in Int /\ Span(Byte) \in Int
  BY CcrIn, SpanValues DEF StatusRegisters, Bit
<1> QED BY <1>1 DEF SrWord

(* A bit taken out of a number is a bit.                                   *)
LEMMA BitsOfWord ==
    ASSUME NEW w \in Int
    PROVE  \A b \in 0 .. 4 : (w \div 2 ^ b) % 2 \in Bit
<1> SUFFICES ASSUME NEW b \in 0 .. 4 PROVE (w \div 2 ^ b) % 2 \in Bit
  OBVIOUS
<1>1. 2 ^ 0 = 1 /\ 2 ^ 1 = 2 /\ 2 ^ 2 = 4 /\ 2 ^ 3 = 8 /\ 2 ^ 4 = 16
  BY SMT
<1>2. 2 ^ b \in Nat \ {0}
  <2>1. b = 0 \/ b = 1 \/ b = 2 \/ b = 3 \/ b = 4
    OBVIOUS
  <2>2. 2 ^ b \in {1, 2, 4, 8, 16}
    BY <1>1, <2>1, Zenon
  <2> QED BY <2>2
<1>3. w \div 2 ^ b \in Int
  BY <1>2
<1> QED BY <1>3 DEF Bit

(* Loading the condition codes from a byte leaves the supervisor bit and   *)
(* the mask alone.                                                         *)
LEMMA WithCcrIn ==
    ASSUME NEW sr \in StatusRegisters, NEW w \in Int
    PROVE  NewFlags(sr, WithCcr(sr, w))
<1> DEFINE bit(b) == (w \div 2 ^ b) % 2
<1>1. bit(0) \in Bit /\ bit(1) \in Bit /\ bit(2) \in Bit /\ bit(3) \in Bit /\ bit(4) \in Bit
  BY BitsOfWord
<1>2. WithCcr(sr, w) = [sr EXCEPT !.c = bit(0), !.v = bit(1), !.z = bit(2), !.n = bit(3), !.x = bit(4)]
  BY Zenon DEF WithCcr
<1> HIDE DEF bit
<1>3. NewFlags(sr, [sr EXCEPT !.c = bit(0), !.v = bit(1), !.z = bit(2), !.n = bit(3), !.x = bit(4)])
  BY <1>1 DEF NewFlags, StatusRegisters
<1> QED BY <1>2, <1>3

(* Loading the status register from a word gives a status register.        *)
LEMMA FromSrWordIn ==
    ASSUME EightBits, NEW sr \in StatusRegisters, NEW w \in Int
    PROVE  FromSrWord(sr, w) \in StatusRegisters
<1> DEFINE high == w \div Span(Byte)
           mask == high % 8
           s == (high \div 8) % 2
           c == WithCcr(sr, w)
<1>1. high \in Int
  BY SpanValues
<1>2. FromSrWord(sr, w) = [c EXCEPT !.mask = mask, !.s = s]
  BY DEF FromSrWord
<1> HIDE DEF high
<1>3. mask \in 0 .. 7 /\ s \in Bit
  BY <1>1 DEF Bit
<1> HIDE DEF mask, s
<1>4. NewFlags(sr, c)
  BY WithCcrIn
<1> HIDE DEF c
<1>5. [c EXCEPT !.mask = mask, !.s = s] \in StatusRegisters
  BY <1>3, <1>4 DEF NewFlags, StatusRegisters
<1> QED BY <1>2, <1>5

(* A machine an instruction may leave that writes the stack pointer, and   *)
(* whose failure may leave anything.                                       *)
Leaves(m, i, x) == x \in Machines(DOMAIN m.mem) /\ Along(m, i, x) /\ Predecremented(i, x)

(* Taking an exception: e is x with its frame pushed and the vector read.  *)
LEMMA Taken ==
    ASSUME EightBits, NEW D, NEW m \in Machines(D), NEW i, Writes(i, 7), NEW x, Leaves(m, i, x), NEW vector \in Int,
           NEW super, super = [x EXCEPT !.sr.s = 1],
           NEW framed, framed = push_stack(push_stack(super, Long, x.pc), Word, SrWord(super.sr)),
           NEW e, e = [framed EXCEPT !.pc = Fetch(framed, 4 * vector, Long)]
    PROVE  /\ Leaves(m, i, framed) /\ Leaves(m, i, Fail(framed))
           /\ Mapped(framed, 4 * vector, Long) => Leaves(m, i, e) /\ e.d = x.d
<1> DEFINE k == push_stack(super, Long, x.pc)
<1>0. x \in Machines(D) /\ DOMAIN m.mem = D /\ Long \in Sizes /\ Word \in Sizes /\ 4 * vector \in Int
  BY DEF Leaves, Machines, Sizes
<1>1. super = [x EXCEPT !.sr = [x.sr EXCEPT !.s = 1]]
  BY <1>0 DEF Machines, StatusRegisters
<1>2. super \in Machines(D)
  BY <1>0, <1>1 DEF Machines, StatusRegisters, Bit
<1>3. super.a = x.a /\ super.decremented = x.decremented /\ super.incremented = x.incremented /\ super.d = x.d
  BY <1>0, <1>1 DEF Machines
<1>4. k = push_stack(super, Long, x.pc) /\ framed = push_stack(k, Word, SrWord(super.sr))
  OBVIOUS
<1> HIDE DEF k
<1>5. x.pc \in Int /\ SrWord(super.sr) \in Int
  <2>1. x.pc \in Values(Long) /\ super.sr \in StatusRegisters
    BY <1>0, <1>2 DEF Machines
  <2> QED BY <2>1, ValuesWiden, SrWordIn
<1>6. Pushed(D, k, super)
  BY <1>0, <1>2, <1>4, <1>5, PushIn
<1>7. Pushed(D, framed, k)
  <2>1. k \in Machines(D)
    BY <1>6 DEF Pushed
  <2> QED BY <1>0, <1>4, <1>5, <2>1, PushIn
<1>8. /\ framed \in Machines(D) /\ framed.a = x.a /\ framed.d = x.d
      /\ framed.decremented = x.decremented /\ framed.incremented = x.incremented
  BY <1>3, <1>6, <1>7 DEF Pushed
<1>9. Leaves(m, i, framed)
  BY <1>0, <1>8, QuietBelow DEF Leaves, Predecremented
<1>10. Leaves(m, i, Fail(framed))
  <2> DEFINE z == Fail(framed)
  <2>1. z = [framed EXCEPT !.status = "error"]
    BY DEF Fail
  <2> HIDE DEF z
  <2>2. z \in Machines(D)
    BY <1>8, <2>1 DEF Machines
  <2>3. z.a = framed.a /\ z.decremented = framed.decremented /\ z.incremented = framed.incremented
    BY <1>8, <2>1 DEF Machines
  <2>4. Leaves(m, i, z)
    BY <1>0, <1>9, <2>2, <2>3, QuietBelow DEF Leaves, Predecremented
  <2> QED BY <2>4 DEF z
<1>11. ASSUME Mapped(framed, 4 * vector, Long) PROVE Leaves(m, i, e) /\ e.d = x.d
  <2> DEFINE pc == Fetch(framed, 4 * vector, Long)
  <2>1. \A b \in 4 * vector .. 4 * vector + Long - 1 : framed.mem[b] \in Values(Byte)
    BY <1>8, <1>11 DEF Mapped, Machines
  <2>2. pc \in Values(Long)
    BY <1>0, <2>1, FetchIn
  <2>3. e = [framed EXCEPT !.pc = pc]
    OBVIOUS
  <2> HIDE DEF pc
  <2>4. e \in Machines(D)
    BY <1>8, <2>2, <2>3 DEF Machines
  <2>5. e.a = framed.a /\ e.decremented = framed.decremented /\ e.incremented = framed.incremented /\ e.d = framed.d
    BY <1>8, <2>3 DEF Machines
  <2> QED BY <1>0, <1>8, <1>9, <2>4, <2>5, QuietBelow DEF Leaves, Predecremented
<1> QED BY <1>9, <1>10, <1>11

(* New flags on a machine that an instruction leaves.                      *)
LEMMA LeftFlags ==
    ASSUME NEW D, NEW m \in Machines(D), NEW i, Writes(i, 7), NEW x, Leaves(m, i, x), NEW sr \in StatusRegisters, NEW r,
           r = [x EXCEPT !.sr = sr]
    PROVE  Leaves(m, i, r)
<1>0. x \in Machines(D) /\ DOMAIN m.mem = D
  BY DEF Leaves, Machines
<1>1. r \in Machines(D)
  BY <1>0 DEF Machines
<1>2. r.a = x.a /\ r.decremented = x.decremented /\ r.incremented = x.incremented
  BY <1>0 DEF Machines
<1> QED BY <1>0, <1>1, <1>2, QuietBelow DEF Leaves, Predecremented

(* For the instructions that may fail half way any machine that keeps the  *)
(* account is a result.                                                    *)
LEMMA UnfinishedDone ==
    ASSUME NEW m, NEW i, i.kind \in Unfinished, NEW x, Leaves(m, i, x)
    PROVE  Result(m, i, x)
BY DEF Leaves, Result

(* A machine that keeps the account and has not failed is a result of any  *)
(* instruction.                                                            *)
LEMMA LeavesWell ==
    ASSUME NEW m, NEW i, NEW x, Leaves(m, i, x), x.status # "error"
    PROVE  Result(m, i, x)
BY DEF Leaves, Result

(* The quotient of C is a number.                                          *)
LEMMA QuotientIn ==
    ASSUME NEW n \in Int, NEW d \in Int, d # 0
    PROVE  Quotient(n, d) \in Int
<1>1. Abs(n) \in Nat /\ Abs(d) \in Nat \ {0}
  BY DEF Abs
<1> DEFINE q == Abs(n) \div Abs(d)
<1>2. q \in Int
  BY <1>1
<1>3. Quotient(n, d) = IF (n < 0) = (d < 0) THEN q ELSE -q
  BY Zenon DEF Quotient
<1> HIDE DEF q
<1> QED BY <1>2, <1>3

(* A word is 0 when it is 0 as a signed number: the test for a zero        *)
(* divisor may come before the extension.                                  *)
LEMMA SignedZero ==
    ASSUME EightBits, NEW v \in Values(Word), v # 0
    PROVE  Signed(v, Word) # 0
<1>1. v \in Int /\ 0 <= v /\ v < 65536
  BY InValues
<1>2. Low(v, Word) = v
  BY <1>1, SpanValues, SMT DEF Low
<1>3. msb(v, Word) \in {0, 1}
  BY <1>1, MsbIn DEF Sizes, Bit
<1>4. Signed(v, Word) = v - msb(v, Word) * 65536
  BY <1>2, SpanValues DEF Signed
<1> QED BY <1>1, <1>3, <1>4

(* The division of the code gives a number and flags.                      *)
LEMMA DivideIn ==
    ASSUME EightBits, NEW kind, NEW sr \in StatusRegisters, NEW divisor \in Values(Word), divisor # 0, NEW dividend \in Int
    PROVE  /\ Divide(kind, sr, divisor, dividend).value \in Int
           /\ NewFlags(sr, Divide(kind, sr, divisor, dividend).sr)
<1> DEFINE unsigned == kind = "Divu"
           s == IF unsigned THEN divisor ELSE Signed(divisor, Word)
           d == IF unsigned THEN dividend ELSE Signed(dividend, Long)
           quotient == Quotient(d, s)
           fits == quotient = IF unsigned THEN Low(quotient, Word) ELSE Signed(quotient, Word)
           value == Low(Remainder(d, s), Word) * Span(Word) + Low(quotient, Word)
           n == msb(quotient, Word)
           z == Flag(quotient = 0)
           yes == [sr EXCEPT !.v = 0, !.c = 0, !.n = n, !.z = z]
           no == [sr EXCEPT !.v = 1, !.c = 0]
<1>1. Divide(kind, sr, divisor, dividend) = [fits |-> fits, value |-> value, sr |-> IF fits THEN yes ELSE no]
  BY Zenon DEF Divide
<1>2. Word \in Sizes /\ Long \in Sizes /\ divisor \in Int /\ Span(Word) \in Int
  BY ValuesWiden, SpanValues DEF Sizes
<1>3. s \in Int /\ s # 0 /\ d \in Int
  BY <1>2, SignedIn, SignedZero
<1> HIDE DEF s, d
<1>4. quotient \in Int
  BY <1>3, QuotientIn
<1>5. Remainder(d, s) \in Int
  BY <1>3, <1>4 DEF Remainder
<1> HIDE DEF quotient
<1>6. value \in Int
  <2>1. Low(Remainder(d, s), Word) \in Int /\ Low(quotient, Word) \in Int
    BY <1>2, <1>4, <1>5, LowInt
  <2> QED BY <1>2, <2>1
<1>7. n \in Bit /\ z \in Bit /\ 0 \in Bit /\ 1 \in Bit
  BY <1>2, <1>4, MsbIn, FlagIn DEF Bit
<1> HIDE DEF value, n, z
<1>8. NewFlags(sr, yes) /\ NewFlags(sr, no)
  BY <1>7 DEF NewFlags, StatusRegisters
<1> QED BY <1>1, <1>6, <1>8

(* DIVU and DIVS have a result an instruction may have, the trap on a zero *)
(* divisor and the crash included.                                         *)
LEMMA DivDone ==
    ASSUME EightBits, NEW D, NEW m \in Machines(D), NEW i, WellFormed(i), Fresh(m, i), i.kind \in {"Divu", "Divs"},
           NEW r, r = ExecDiv(m, i)
    PROVE  Result(m, i, r)
<1> DEFINE p == try_decrement_address(m, i, "src")
           q == try_decrement_address(p, i, "dst")
           s == OperandValue(p, i["src"], Word)
           d == OperandValue(q, i["dst"], Long)
           super == [q EXCEPT !.sr.s = 1]
           framed == push_stack(push_stack(super, Long, q.pc), Word, SrWord(super.sr))
           e == [framed EXCEPT !.pc = Fetch(framed, 4 * DivisionByZeroVector, Long)]
           v == Divide(i.kind, q.sr, s, d)
           w == Write(q, i, "dst", Long, v.value)
<1>0. Roles \subseteq DOMAIN i /\ Word \in Sizes /\ Long \in Sizes /\ Writes(i, 7) /\ i.kind \in Unfinished
  BY Operands DEF UsesSrc, UsesDst, UsesBoth, Roles, Shifts, Sizes, Writes, Unfinished
<1>1. r = IF Accessible(p, i["src"], Word)
          THEN IF Accessible(q, i["dst"], Long)
               THEN IF s = 0
                    THEN IF Mapped(framed, 4 * DivisionByZeroVector, Long)
                         THEN [e EXCEPT !.sr.n = 0, !.sr.z = 0, !.sr.v = 0, !.sr.c = 0] ELSE Fail(framed)
                    ELSE IF i.kind = "Divs" /\ Signed(s, Word) = -1 /\ d = Span(Long) \div 2
                         THEN [q EXCEPT !.status = "crash"]
                         ELSE IF v.fits THEN Then(w, v.sr) ELSE [q EXCEPT !.sr = v.sr]
               ELSE Fail(q)
          ELSE Fail(p)
  BY Zenon DEF ExecDiv, Read, Exception
<1>2. ReadsTwo(m, i, p, q)
  BY <1>0, ReadTwo
<1>3. w = Write(q, i, "dst", Long, v.value) /\ super = [q EXCEPT !.sr.s = 1]
      /\ framed = push_stack(push_stack(super, Long, q.pc), Word, SrWord(super.sr))
      /\ e = [framed EXCEPT !.pc = Fetch(framed, 4 * DivisionByZeroVector, Long)]
  OBVIOUS
<1> HIDE DEF p, q, w, super, framed, e
<1>4. Untouched(m, i, q) /\ q.decremented = {"src", "dst"} /\ Result(m, i, Fail(p)) /\ Result(m, i, Fail(q))
  BY <1>2 DEF ReadsTwo
<1>5. Predecremented(i, q) /\ Leaves(m, i, q)
  BY <1>4 DEF Predecremented, Roles, Leaves, Untouched
<1>6. CASE Accessible(p, i["src"], Word) /\ Accessible(q, i["dst"], Long)
  <2>1. s \in Values(Word) /\ d \in Int
    BY <1>0, <1>2, <1>6 DEF ReadsTwo
  <2> HIDE DEF s, d
  <2>2. CASE s = 0
    <3>1. DivisionByZeroVector \in Int
      BY DEF DivisionByZeroVector
    <3>2. /\ Leaves(m, i, Fail(framed))
          /\ Mapped(framed, 4 * DivisionByZeroVector, Long) => Leaves(m, i, e)
      BY <1>0, <1>3, <1>5, <3>1, Taken
    <3>3. CASE ~Mapped(framed, 4 * DivisionByZeroVector, Long)
      BY <1>0, <1>1, <1>6, <2>2, <3>2, <3>3, UnfinishedDone
    <3>4. CASE Mapped(framed, 4 * DivisionByZeroVector, Long)
      <4>1. Leaves(m, i, e) /\ r = [e EXCEPT !.sr.n = 0, !.sr.z = 0, !.sr.v = 0, !.sr.c = 0]
        BY <1>1, <1>6, <2>2, <3>2, <3>4
      <4>2. e \in Machines(DOMAIN m.mem)
        BY <4>1 DEF Leaves
      <4> DEFINE sr == [e.sr EXCEPT !.n = 0, !.z = 0, !.v = 0, !.c = 0]
      <4>3. r = [e EXCEPT !.sr = sr]
        BY <4>1, <4>2 DEF Machines, StatusRegisters
      <4>5. sr \in StatusRegisters
        <5>1. e.sr \in StatusRegisters
          BY <4>2 DEF Machines
        <5>2. 0 \in Bit
          BY DEF Bit
        <5> QED BY <5>1, <5>2 DEF StatusRegisters
      <4> HIDE DEF sr
      <4>4. Leaves(m, i, r)
        BY <1>0, <4>1, <4>3, <4>5, LeftFlags
      <4> QED BY <1>0, <4>4, UnfinishedDone
    <3> QED BY <3>3, <3>4
  <2>3. CASE s # 0
    <3>1. v.value \in Int /\ NewFlags(q.sr, v.sr)
      BY <1>4, <2>1, <2>3, StatusIn, DivideIn
    <3> HIDE DEF v
    <3>2. CASE r = [q EXCEPT !.status = "crash"]
      <4>1. q \in Machines(DOMAIN m.mem)
        BY <1>5 DEF Leaves
      <4>2. r \in Machines(DOMAIN m.mem)
        BY <4>1, <3>2 DEF Machines
      <4>3. r.a = q.a /\ r.decremented = q.decremented /\ r.incremented = q.incremented
        BY <4>1, <3>2 DEF Machines
      <4>4. Leaves(m, i, r)
        BY <1>0, <1>5, <4>2, <4>3, QuietBelow DEF Leaves, Predecremented
      <4> QED BY <1>0, <4>4, UnfinishedDone
    <3>3. Result(m, i, Then(w, v.sr))
      BY <1>0, <1>3, <1>4, <3>1, FinishesTwo DEF Roles
    <3>4. CASE r = [q EXCEPT !.sr = v.sr]
      BY <1>4, <1>5, <3>1, <3>4, FlagsOnly
    <3> QED BY <1>1, <1>6, <2>3, <3>2, <3>3, <3>4
  <2> QED BY <2>2, <2>3
<1> QED BY <1>1, <1>4, <1>6

(* CHK has a result an instruction may have, the trap included.            *)
LEMMA ChkDone ==
    ASSUME EightBits, NEW D, NEW m \in Machines(D), NEW i, WellFormed(i), Fresh(m, i), i.kind = "Chk",
           NEW r, r = ExecChk(m, i)
    PROVE  Result(m, i, r)
<1> DEFINE p == try_decrement_address(m, i, "src")
           q == try_decrement_address(p, i, "dst")
           s == OperandValue(p, i["src"], Word)
           d == OperandValue(q, i["dst"], Word)
           super == [q EXCEPT !.sr.s = 1]
           framed == push_stack(push_stack(super, Long, q.pc), Word, SrWord(super.sr))
           e == [framed EXCEPT !.pc = Fetch(framed, 4 * ChkVector, Long)]
           value == Signed(d, Word)
           n == Flag(value < 0)
           g == [e EXCEPT !.sr.n = n]
           traps == [g EXCEPT !.sr.z = 0, !.sr.v = 0, !.sr.c = 0]
           passes == [q EXCEPT !.sr.z = 0, !.sr.v = 0, !.sr.c = 0]
<1>0. Roles \subseteq DOMAIN i /\ Word \in Sizes /\ Long \in Sizes /\ Writes(i, 7) /\ i.kind \in Unfinished
  BY Operands DEF UsesSrc, UsesDst, UsesBoth, Roles, Shifts, Sizes, Writes, Unfinished
<1>1. r = IF Accessible(p, i["src"], Word)
          THEN IF Accessible(q, i["dst"], Word)
               THEN IF value < 0 \/ value > Signed(s, Word)
                    THEN IF Mapped(framed, 4 * ChkVector, Long)
                         THEN traps ELSE Fail(framed)
                    ELSE passes
               ELSE Fail(q)
          ELSE Fail(p)
  BY Zenon DEF ExecChk, Read, Exception
<1>2. ReadsTwo(m, i, p, q)
  BY <1>0, ReadTwo
<1>3. super = [q EXCEPT !.sr.s = 1]
      /\ framed = push_stack(push_stack(super, Long, q.pc), Word, SrWord(super.sr))
      /\ e = [framed EXCEPT !.pc = Fetch(framed, 4 * ChkVector, Long)]
  OBVIOUS
<1>4. n \in Bit
  BY FlagIn
<1> HIDE DEF p, q, super, framed, e, n
<1>5. Untouched(m, i, q) /\ q.decremented = {"src", "dst"} /\ Result(m, i, Fail(p)) /\ Result(m, i, Fail(q))
  BY <1>2 DEF ReadsTwo
<1>6. Predecremented(i, q) /\ Leaves(m, i, q)
  BY <1>5 DEF Predecremented, Roles, Leaves, Untouched
<1>7. ASSUME NEW x, Leaves(m, i, x), NEW z, z = [x EXCEPT !.sr.z = 0, !.sr.v = 0, !.sr.c = 0]
      PROVE  Result(m, i, z)
  <2> DEFINE sr == [x.sr EXCEPT !.z = 0, !.v = 0, !.c = 0]
  <2>1. x \in Machines(DOMAIN m.mem)
    BY <1>7 DEF Leaves
  <2>2. z = [x EXCEPT !.sr = sr]
    BY <1>7, <2>1 DEF Machines, StatusRegisters
  <2>4. sr \in StatusRegisters
    <3>1. x.sr \in StatusRegisters
      BY <2>1 DEF Machines
    <3>2. 0 \in Bit
      BY DEF Bit
    <3> QED BY <3>1, <3>2 DEF StatusRegisters
  <2> HIDE DEF sr
  <2>3. Leaves(m, i, z)
    BY <1>0, <1>7, <2>2, <2>4, LeftFlags
  <2> QED BY <1>0, <2>3, UnfinishedDone
<1>8. CASE r = Fail(framed) \/ (Mapped(framed, 4 * ChkVector, Long) /\ r = traps)
  <2>1. ChkVector \in Int
    BY DEF ChkVector
  <2>2. /\ Leaves(m, i, Fail(framed))
        /\ Mapped(framed, 4 * ChkVector, Long) => Leaves(m, i, e)
    BY <1>0, <1>3, <1>6, <2>1, Taken
  <2>3. CASE r = Fail(framed)
    BY <1>0, <2>2, <2>3, UnfinishedDone
  <2>4. CASE Mapped(framed, 4 * ChkVector, Long) /\ r = traps
    <3> DEFINE sr == [e.sr EXCEPT !.n = n]
    <3>1. e \in Machines(DOMAIN m.mem)
      BY <2>2, <2>4 DEF Leaves
    <3>2. g = [e EXCEPT !.sr = sr]
      BY <3>1 DEF Machines, StatusRegisters
    <3>3. sr \in StatusRegisters
      BY <1>4, <3>1 DEF Machines, StatusRegisters
    <3> HIDE DEF sr, g
    <3>4. Leaves(m, i, g)
      BY <1>0, <2>2, <2>4, <3>2, <3>3, LeftFlags
    <3> QED BY <1>7, <2>4, <3>4
  <2> QED BY <1>8, <2>3, <2>4
<1>9. CASE r = passes
  BY <1>6, <1>7, <1>9
<1> HIDE DEF g, value, traps, passes
<1>10. \/ r = Fail(p) \/ r = Fail(q) \/ r = passes
       \/ r = Fail(framed) \/ (Mapped(framed, 4 * ChkVector, Long) /\ r = traps)
  BY <1>1
<1> QED BY <1>5, <1>8, <1>9, <1>10

(* TRAP and TRAPV have a result an instruction may have.                   *)
LEMMA TrapDone ==
    ASSUME EightBits, NEW D, NEW m \in Machines(D), NEW i, WellFormed(i), Fresh(m, i), i.kind \in {"Trap", "Trapv"},
           NEW r, r = ExecTrap(m, i)
    PROVE  Result(m, i, r)
<1> DEFINE super == [m EXCEPT !.sr.s = 1]
           framed == push_stack(push_stack(super, Long, m.pc), Word, SrWord(super.sr))
           e == [framed EXCEPT !.pc = Fetch(framed, 4 * i.data, Long)]
<1>0. Roles \cap DOMAIN i = {} /\ Writes(i, 7) /\ i.kind \in Unfinished
  BY Operands DEF UsesSrc, UsesDst, UsesBoth, Roles, Shifts, Writes, Unfinished, BinaryKinds, AddressKinds, QuickKinds,
                  ExtendKinds, UnaryKinds, BitKinds, ToCcrKinds, ToSrKinds
<1>1. r = IF i.kind = "Trapv" /\ m.sr.v = 0 THEN m
          ELSE IF Mapped(framed, 4 * i.data, Long) THEN e ELSE Fail(framed)
  BY Zenon DEF ExecTrap, Exception
<1>2. super = [m EXCEPT !.sr.s = 1]
      /\ framed = push_stack(push_stack(super, Long, m.pc), Word, SrWord(super.sr))
      /\ e = [framed EXCEPT !.pc = Fetch(framed, 4 * i.data, Long)]
  OBVIOUS
<1> HIDE DEF super, framed, e
<1>3. Leaves(m, i, m)
  BY <1>0 DEF Leaves, Fresh, Untouched, Predecremented
<1>4. i.data \in Int
  BY DataIn DEF UsesData
<1>5. /\ Leaves(m, i, Fail(framed))
      /\ Mapped(framed, 4 * i.data, Long) => Leaves(m, i, e)
  <2> DEFINE vector == i.data
             x == m
  <2>1. x = m /\ vector = i.data
    OBVIOUS
  <2> HIDE DEF vector, x
  <2>2. super = [x EXCEPT !.sr.s = 1] /\ framed = push_stack(push_stack(super, Long, x.pc), Word, SrWord(super.sr))
        /\ e = [framed EXCEPT !.pc = Fetch(framed, 4 * vector, Long)] /\ Leaves(m, i, x) /\ vector \in Int
    BY <1>2, <1>3, <1>4, <2>1
  <2>3. /\ Leaves(m, i, Fail(framed))
        /\ Mapped(framed, 4 * vector, Long) => Leaves(m, i, e)
    BY <1>0, <2>2, Taken
  <2> QED BY <2>1, <2>3
<1>6. Leaves(m, i, r)
  BY <1>1, <1>3, <1>5
<1> QED BY <1>0, <1>6, UnfinishedDone

(* The instructions on the condition codes have a result an instruction    *)
(* may have.                                                               *)
LEMMA ToCcrDone ==
    ASSUME EightBits, NEW D, NEW m \in Machines(D), NEW i, WellFormed(i), Fresh(m, i),
           i.kind \in ToCcrKinds \cup {"MoveToCcr"},
           NEW r, r = IF i.kind = "MoveToCcr" THEN ExecMoveToCcr(m, i) ELSE ExecToCcr(m, i)
    PROVE  Result(m, i, r)
<1> DEFINE size == IF i.kind = "MoveToCcr" THEN Word ELSE Byte
           p == try_decrement_address(m, i, "src")
           s == OperandValue(p, i["src"], size)
           v == IF i.kind = "MoveToCcr" THEN s ELSE do_binary_op(opcode_type(i.kind), Ccr(p.sr), s)
           sr == WithCcr(p.sr, v)
<1>0. "src" \in DOMAIN i /\ "src" \in Roles /\ "dst" \notin DOMAIN i /\ size \in Sizes
  BY Operands DEF UsesSrc, UsesDst, UsesBoth, Roles, Shifts, QuickKinds, BinaryKinds, AddressKinds, ExtendKinds,
                  BitKinds, ToCcrKinds, ToSrKinds, UnaryKinds, Sizes
<1>1. r = IF Accessible(p, i["src"], size) THEN [p EXCEPT !.sr = sr] ELSE Fail(p)
  <2>1. CASE i.kind = "MoveToCcr"
    BY <2>1, Zenon DEF ExecMoveToCcr, Read
  <2>2. CASE i.kind # "MoveToCcr"
    BY <2>2, Zenon DEF ExecToCcr, Read
  <2> QED BY <2>1, <2>2
<1>2. ReadsOne(m, i, "src", p)
  BY <1>0, ReadOne
<1> HIDE DEF p, size
<1>3. CASE Accessible(p, i["src"], size)
  <2>1. s \in Int /\ Untouched(m, i, p) /\ p.decremented = {"src"}
    BY <1>0, <1>2, <1>3 DEF ReadsOne
  <2>2. v \in Int
    <3>1. Ccr(p.sr) \in Int
      BY <2>1, StatusIn, CcrIn
    <3>2. i.kind # "MoveToCcr" => opcode_type(i.kind) \in Operations
      BY OpcodeIn
    <3> HIDE DEF s
    <3> QED BY <2>1, <3>1, <3>2, BinaryOpIn
  <2> HIDE DEF v, s
  <2>3. NewFlags(p.sr, sr)
    BY <2>1, <2>2, StatusIn, WithCcrIn
  <2> HIDE DEF sr
  <2>4. Predecremented(i, p)
    BY <1>0, <2>1 DEF Predecremented, Roles
  <2>5. r = [p EXCEPT !.sr = sr]
    BY <1>1, <1>3
  <2> QED BY <2>1, <2>3, <2>4, <2>5, FlagsOnly
<1> QED BY <1>1, <1>2, <1>3 DEF ReadsOne

(* The instructions on the status register have a result an instruction    *)
(* may have.                                                               *)
LEMMA ToSrDone ==
    ASSUME EightBits, NEW D, NEW m \in Machines(D), NEW i, WellFormed(i), Fresh(m, i),
           i.kind \in ToSrKinds \cup {"MoveToSr"},
           NEW r, r = IF i.kind = "MoveToSr" THEN ExecMoveToSr(m, i) ELSE ExecToSr(m, i)
    PROVE  Result(m, i, r)
<1> DEFINE p == try_decrement_address(m, i, "src")
           s == OperandValue(p, i["src"], Word)
           q == IF i.kind = "MoveToSr" THEN try_increment_address(p, i, "src") ELSE p
           v == IF i.kind = "MoveToSr" THEN s ELSE do_binary_op(opcode_type(i.kind), SrWord(q.sr), s)
           sr == FromSrWord(q.sr, v)
<1>0. "src" \in DOMAIN i /\ "src" \in Roles /\ "dst" \notin DOMAIN i /\ Word \in Sizes /\ Writes(i, 7)
  BY Operands DEF UsesSrc, UsesDst, UsesBoth, Roles, Shifts, QuickKinds, BinaryKinds, AddressKinds, ExtendKinds,
                  BitKinds, ToCcrKinds, ToSrKinds, UnaryKinds, Sizes, Writes
<1>1. r = IF Accessible(p, i["src"], Word) THEN [q EXCEPT !.sr = sr] ELSE Fail(p)
  <2>1. CASE i.kind = "MoveToSr"
    BY <2>1, Zenon DEF ExecMoveToSr, Read
  <2>2. CASE i.kind # "MoveToSr"
    BY <2>2, Zenon DEF ExecToSr, Read
  <2> QED BY <2>1, <2>2
<1>2. ReadsOne(m, i, "src", p)
  BY <1>0, ReadOne
<1> DEFINE k == try_increment_address(p, i, "src")
<1>3. k = try_increment_address(p, i, "src") /\ q = IF i.kind = "MoveToSr" THEN k ELSE p
  OBVIOUS
<1> HIDE DEF p, k, q
<1>4. Untouched(m, i, p) /\ p.decremented = {"src"} /\ Result(m, i, Fail(p))
  BY <1>2 DEF ReadsOne
<1>5. Untouched(m, i, k) /\ k.decremented = p.decremented
  BY <1>0, <1>3, <1>4, Incremented
<1>6. Untouched(m, i, q) /\ q.decremented = {"src"}
  BY <1>3, <1>4, <1>5
<1>7. CASE Accessible(p, i["src"], Word)
  <2>1. s \in Int
    BY <1>0, <1>2, <1>7 DEF ReadsOne
  <2>2. v \in Int
    <3>1. SrWord(q.sr) \in Int
      BY <1>6, StatusIn, SrWordIn
    <3>2. i.kind # "MoveToSr" => opcode_type(i.kind) \in Operations
      BY OpcodeIn
    <3> HIDE DEF s
    <3> QED BY <2>1, <3>1, <3>2, BinaryOpIn
  <2> HIDE DEF v, s
  <2>3. sr \in StatusRegisters
    BY <1>6, <2>2, StatusIn, FromSrWordIn
  <2> HIDE DEF sr
  <2>4. Leaves(m, i, q)
    BY <1>0, <1>6 DEF Predecremented, Roles, Leaves, Untouched
  <2>5. r = [q EXCEPT !.sr = sr]
    BY <1>1, <1>7
  <2>6. Leaves(m, i, r)
    BY <1>0, <2>3, <2>4, <2>5, LeftFlags
  <2>7. r.status # "error"
    BY <1>6, <2>5 DEF Untouched, Ok, Machines
  <2> QED BY <2>6, <2>7, LeavesWell
<1> QED BY <1>1, <1>4, <1>7

(* MOVE from the status register has a result an instruction may have.     *)
LEMMA MoveFromSrDone ==
    ASSUME EightBits, NEW D, NEW m \in Machines(D), NEW i, WellFormed(i), Fresh(m, i), i.kind = "MoveFromSr",
           NEW r, r = ExecMoveFromSr(m, i)
    PROVE  Result(m, i, r)
<1>0. "dst" \in DOMAIN i /\ "src" \notin DOMAIN i /\ Word \in Sizes
  BY Operands DEF UsesSrc, UsesDst, UsesBoth, Roles, Shifts, QuickKinds, BinaryKinds, AddressKinds, ExtendKinds,
                  BitKinds, ToCcrKinds, ToSrKinds, UnaryKinds, Sizes
<1>1. SrWord(m.sr) \in Int /\ NewFlags(m.sr, m.sr)
  BY SrWordIn, StatusIn DEF NewFlags, Fresh
<1>2. r = Write(m, i, "dst", Word, SrWord(m.sr))
  BY DEF ExecMoveFromSr
<1> DEFINE v == SrWord(m.sr)
<1> HIDE DEF v
<1>3. r = Write(m, i, "dst", Word, v) /\ v \in Int /\ Untouched(m, i, m)
  BY <1>1, <1>2 DEF v, Fresh
<1> QED BY <1>0, <1>1, <1>3, FinishesOne

(* MOVE to and from the user stack pointer has a result an instruction may *)
(* have.                                                                   *)
LEMMA UspDone ==
    ASSUME EightBits, NEW D, NEW m \in Machines(D), NEW i, WellFormed(i), Fresh(m, i),
           i.kind \in {"MoveToUsp", "MoveFromUsp"}, NEW r, r = ExecUsp(m, i)
    PROVE  Result(m, i, r)
<1>0. Long \in Sizes
  BY DEF Sizes
<1>1. CASE i.kind = "MoveToUsp"
  <2> DEFINE p == try_decrement_address(m, i, "src")
             s == OperandValue(p, i["src"], Long)
  <2>0. "src" \in DOMAIN i /\ "src" \in Roles /\ "dst" \notin DOMAIN i /\ Writes(i, 7)
    BY <1>1, Operands DEF UsesSrc, UsesDst, UsesBoth, Roles, Shifts, QuickKinds, BinaryKinds, AddressKinds, ExtendKinds,
                    BitKinds, ToCcrKinds, ToSrKinds, UnaryKinds, Writes
  <2>1. r = IF Accessible(p, i["src"], Long) THEN [p EXCEPT !.usp = s] ELSE Fail(p)
    BY <1>1, Zenon DEF ExecUsp, Read
  <2>2. ReadsOne(m, i, "src", p)
    BY <2>0, ReadOne
  <2> HIDE DEF p
  <2>3. CASE Accessible(p, i["src"], Long)
    <3>1. s \in Values(Long) /\ Untouched(m, i, p) /\ p.decremented = {"src"}
      BY <1>0, <2>2, <2>3 DEF ReadsOne
    <3>2. r = [p EXCEPT !.usp = s]
      BY <2>1, <2>3
    <3> HIDE DEF s
    <3>3. p \in Machines(DOMAIN m.mem) /\ Ok(p)
      BY <3>1 DEF Untouched
    <3>4. r \in Machines(DOMAIN m.mem)
      BY <3>1, <3>2, <3>3 DEF Machines
    <3>5. r.a = p.a /\ r.decremented = p.decremented /\ r.incremented = p.incremented /\ r.status = "ok"
      BY <3>2, <3>3 DEF Machines, Ok
    <3>6. Along(m, i, r)
      BY <2>0, <3>1, <3>5, QuietBelow DEF Untouched
    <3>7. Leaves(m, i, r)
      BY <2>0, <3>1, <3>4, <3>5, <3>6 DEF Leaves, Predecremented, Roles
    <3> QED BY <3>5, <3>7, LeavesWell
  <2> QED BY <2>1, <2>2, <2>3 DEF ReadsOne
<1>2. CASE i.kind = "MoveFromUsp"
  <2>0. "dst" \in DOMAIN i /\ "src" \notin DOMAIN i
    BY <1>2, Operands DEF UsesSrc, UsesDst, UsesBoth, Roles, Shifts, QuickKinds, BinaryKinds, AddressKinds, ExtendKinds,
                    BitKinds, ToCcrKinds, ToSrKinds, UnaryKinds
  <2>1. r = Write(m, i, "dst", Long, m.usp)
    BY <1>2 DEF ExecUsp
  <2> DEFINE v == m.usp
  <2>2. v \in Values(Long)
    BY DEF Machines
  <2>3. v \in Int
    BY <2>2, ValuesWiden
  <2>4. NewFlags(m.sr, m.sr) /\ Untouched(m, i, m) /\ r = Write(m, i, "dst", Long, v)
    BY <2>1, StatusIn DEF NewFlags, Fresh
  <2> HIDE DEF v
  <2> QED BY <1>0, <2>0, <2>3, <2>4, FinishesOne
<1> QED BY <1>1, <1>2

(* TST has a result an instruction may have.                               *)
LEMMA TstDone ==
    ASSUME EightBits, NEW D, NEW m \in Machines(D), NEW i, WellFormed(i), Fresh(m, i), i.kind = "Tst",
           NEW r, r = ExecTst(m, i)
    PROVE  Result(m, i, r)
<1> DEFINE p == try_decrement_address(m, i, "src")
           s == OperandValue(p, i["src"], i.size)
           sr == SetLogic(p.sr, s, i.size)
<1>0. "src" \in DOMAIN i /\ "src" \in Roles /\ "dst" \notin DOMAIN i /\ i.size \in Sizes
  BY Operands, SizeIn DEF UsesSize, UsesSrc, UsesDst, UsesBoth, Roles, Shifts, QuickKinds, BinaryKinds, AddressKinds,
                  ExtendKinds, BitKinds, ToCcrKinds, ToSrKinds, UnaryKinds
<1>1. r = IF Accessible(p, i["src"], i.size) THEN [p EXCEPT !.sr = sr] ELSE Fail(p)
  BY Zenon DEF ExecTst, Read
<1>2. ReadsOne(m, i, "src", p)
  BY <1>0, ReadOne
<1> HIDE DEF p
<1>3. CASE Accessible(p, i["src"], i.size)
  <2>1. s \in Int /\ Untouched(m, i, p) /\ p.decremented = {"src"}
    BY <1>0, <1>2, <1>3 DEF ReadsOne
  <2> HIDE DEF s
  <2>3. NewFlags(p.sr, sr)
    BY <1>0, <2>1, StatusIn, SetLogicIn
  <2> HIDE DEF sr
  <2>4. Predecremented(i, p)
    BY <1>0, <2>1 DEF Predecremented, Roles
  <2>5. r = [p EXCEPT !.sr = sr]
    BY <1>1, <1>3
  <2> QED BY <2>1, <2>3, <2>4, <2>5, FlagsOnly
<1> QED BY <1>1, <1>2, <1>3 DEF ReadsOne

(* TAS has a result an instruction may have.                               *)
LEMMA TasDone ==
    ASSUME EightBits, NEW D, NEW m \in Machines(D), NEW i, WellFormed(i), Fresh(m, i), i.kind = "Tas",
           NEW r, r = ExecTas(m, i)
    PROVE  Result(m, i, r)
<1> DEFINE p == try_decrement_address(m, i, "dst")
           d == OperandValue(p, i["dst"], Byte)
           v == BitOr(d, Span(Byte) \div 2)
           sr == SetLogic(p.sr, d, Byte)
           w == Write(p, i, "dst", Byte, v)
<1>0. "dst" \in DOMAIN i /\ "dst" \in Roles /\ "src" \notin DOMAIN i /\ Byte \in Sizes
  BY Operands DEF UsesSrc, UsesDst, UsesBoth, Roles, Shifts, QuickKinds, BinaryKinds, AddressKinds,
                  ExtendKinds, BitKinds, ToCcrKinds, ToSrKinds, UnaryKinds, Sizes
<1>1. r = IF Accessible(p, i["dst"], Byte) THEN Then(w, sr) ELSE Fail(p)
  BY Zenon DEF ExecTas, Read
<1>2. ReadsOne(m, i, "dst", p)
  BY <1>0, ReadOne
<1>3. w = Write(p, i, "dst", Byte, v) /\ v \in Int
  BY BitwiseIn
<1> HIDE DEF p, w, v
<1>4. CASE Accessible(p, i["dst"], Byte)
  <2>1. d \in Int /\ Untouched(m, i, p)
    BY <1>0, <1>2, <1>4 DEF ReadsOne
  <2> HIDE DEF d
  <2>2. NewFlags(p.sr, sr)
    BY <1>0, <2>1, StatusIn, SetLogicIn
  <2> HIDE DEF sr
  <2>3. Result(m, i, Then(w, sr))
    BY <1>0, <1>3, <2>1, <2>2, FinishesOne
  <2> QED BY <1>1, <1>4, <2>3
<1> QED BY <1>1, <1>2, <1>4 DEF ReadsOne

(* Flags a failing instruction may leave changed.                          *)
Within(i, sr, new) == \A f \in {"c", "v", "z", "n", "x", "s", "mask"} \ MayChange(i) : new[f] = sr[f]

(* Setting the flags an instruction may leave behind on an error stores    *)
(* nothing else.                                                           *)
LEMMA StillUntouched ==
    ASSUME NEW m, NEW i, NEW q, Untouched(m, i, q), NEW sr \in StatusRegisters,
           Within(i, q.sr, sr), sr.s = q.sr.s, NEW r, r = [q EXCEPT !.sr = sr]
    PROVE  Untouched(m, i, r) /\ r.sr = sr /\ r.decremented = q.decremented
<1>1. q \in Machines(DOMAIN m.mem)
  BY DEF Untouched
<1>2. r \in Machines(DOMAIN m.mem)
  BY <1>1 DEF Machines
<1>3. /\ r.a = q.a /\ r.usp = q.usp /\ r.ssp = q.ssp /\ r.sr = sr /\ r.status = q.status /\ r.d = q.d
      /\ r.decremented = q.decremented /\ r.incremented = q.incremented
  BY <1>1 DEF Machines
<1>4. stack_ptr(r) = stack_ptr(q)
  BY <1>3 DEF stack_ptr
<1>5. Along(m, i, r)
  BY <1>3, <1>4, Quiet DEF Untouched
<1>6. KeepsFlags(m, i, r)
  BY <1>3 DEF KeepsFlags, Untouched, Within
<1> QED BY <1>2, <1>3, <1>5, <1>6 DEF Untouched, Ok

(* BTST, BSET, BCLR and BCHG have a result an instruction may have.        *)
LEMMA BitDone ==
    ASSUME EightBits, NEW D, NEW m \in Machines(D), NEW i, WellFormed(i), Fresh(m, i), i.kind \in BitKinds,
           NEW r, r = ExecBit(m, i)
    PROVE  Result(m, i, r)
<1> DEFINE size == IF i.dst.kind = "DataRegister" THEN Long ELSE Byte
           p == try_decrement_address(m, i, "src")
           q == try_decrement_address(p, i, "dst")
           s == OperandValue(p, i["src"], Byte)
           d == OperandValue(q, i["dst"], size)
           bit  == {s % bit_count(size)}
           is   == BitsOf(d)
           bits == CASE i.kind = "Bchg" -> SymDiff(is, bit)
                     [] i.kind = "Bclr" -> is \ bit
                     [] i.kind = "Bset" -> is \cup bit
           new  == IF i.kind = "Btst" THEN d ELSE FromBits(bits)
           z    == Flag(bit \cap is = {})
           seen == [q EXCEPT !.sr.z = z]
           w    == Write(seen, i, "dst", size, new)
<1>0. Roles \subseteq DOMAIN i /\ size \in Sizes /\ Byte \in Sizes
  BY Operands DEF UsesSrc, UsesDst, UsesBoth, Roles, Shifts, Sizes, BitKinds
<1>1. r = IF Accessible(p, i["src"], Byte)
          THEN IF Accessible(q, i["dst"], size) THEN IF new = d THEN seen ELSE w ELSE Fail(q)
          ELSE Fail(p)
  BY Zenon DEF ExecBit, Read
<1>2. ReadsTwo(m, i, p, q)
  BY <1>0, ReadTwo
<1>3. w = Write(seen, i, "dst", size, new)
  OBVIOUS
<1> HIDE DEF p, q, w, size
<1>4. CASE Accessible(p, i["src"], Byte) /\ Accessible(q, i["dst"], size)
  <2>1. s \in Int /\ d \in Int /\ Untouched(m, i, q) /\ q.decremented = {"src", "dst"}
    BY <1>0, <1>2, <1>4 DEF ReadsTwo
  <2> HIDE DEF s, d
  <2>2. new \in Int
    <3>0. SUFFICES ASSUME i.kind # "Btst" PROVE FromBits(bits) \in Int
      BY <2>1
    <3>1. bit_count(size) \in Nat \ {0}
      BY <1>0, SpanValues DEF Sizes
    <3>2. s % bit_count(size) \in Nat
      BY <2>1, <3>1
    <3>3. bit \subseteq Nat /\ IsFiniteSet(bit)
      BY <3>2, FS_Singleton
    <3>4. is \subseteq Nat /\ IsFiniteSet(is)
      BY BitsIn
    <3> HIDE DEF bit, is
    <3>5. IsFiniteSet(is \cup bit)
      BY <3>3, <3>4, FS_Union
    <3>6. bits \subseteq is \cup bit
      BY <3>0 DEF SymDiff, BitKinds
    <3> HIDE DEF bits
    <3>7. bits \subseteq Nat /\ IsFiniteSet(bits)
      BY <3>3, <3>4, <3>5, <3>6, FS_Subset
    <3> QED BY <3>7, FromBitsIn
  <2>3. z \in Bit
    BY FlagIn
  <2> HIDE DEF new, z
  <2>4. Untouched(m, i, seen) /\ seen.decremented = {"src", "dst"} /\ seen.sr \in StatusRegisters
    <3> DEFINE sr == [q.sr EXCEPT !.z = z]
    <3>1. q \in Machines(DOMAIN m.mem)
      BY <2>1 DEF Untouched
    <3>2. q.sr \in StatusRegisters
      BY <3>1 DEF Machines
    <3>3. seen = [q EXCEPT !.sr = sr]
      BY <3>1 DEF Machines, StatusRegisters
    <3>4. sr \in StatusRegisters /\ sr.s = q.sr.s
      BY <2>3, <3>2 DEF StatusRegisters
    <3>5. \A f \in {"c", "v", "z", "n", "x", "s", "mask"} \ {"z"} : sr[f] = q.sr[f]
      BY <3>2 DEF StatusRegisters
    <3>6. MayChange(i) = {"z"}
      BY DEF MayChange, BitKinds
    <3>7. Within(i, q.sr, sr)
      BY <3>5, <3>6 DEF Within
    <3> HIDE DEF sr, seen
    <3> QED BY <2>1, <3>3, <3>4, <3>7, StillUntouched
  <2> HIDE DEF seen
  <2>5. CASE new = d
    <3>1. Predecremented(i, seen)
      BY <2>4 DEF Predecremented, Roles
    <3> QED BY <1>1, <1>4, <2>4, <2>5, <3>1, Unchanged
  <2>6. CASE new # d
    <3>1. NewFlags(seen.sr, seen.sr)
      BY <2>4 DEF NewFlags
    <3>2. Result(m, i, w)
      BY <1>0, <1>3, <2>2, <2>4, <3>1, FinishesTwo DEF Roles
    <3> QED BY <1>1, <1>4, <2>6, <3>2
  <2> QED BY <2>5, <2>6
<1> HIDE DEF new, seen
<1> QED BY <1>1, <1>2, <1>4 DEF ReadsTwo

-----------------------------------------------------------------------------
Shifted == [value : Int, last : Bit, x : Bit, changed : BOOLEAN]

(* One turn of the loop of the shifts keeps its variables in their types.  *)
LEMMA ShiftOnceIn ==
    ASSUME EightBits, NEW kind, NEW size \in Sizes, NEW j, NEW s \in Shifted
    PROVE  ShiftOnce(kind, size, j, s) \in Shifted
<1> DEFINE top  == 2 ^ (bit_count(size) - 1)
           out  == IF kind \in LeftShifts THEN msb(s.value, size)
                   ELSE IF kind = "Asr" /\ j >= bit_count(size) THEN 0 ELSE s.value % 2
           enters == CASE kind \in {"Rol", "Ror"}   -> out
                       [] kind \in {"Roxl", "Roxr"} -> s.x
                       [] kind = "Asr"              -> msb(s.value, size)
                       [] OTHER                     -> 0
           next == IF kind \in LeftShifts THEN Low(2 * s.value + enters, size) ELSE s.value \div 2 + enters * top
           x == IF kind \in {"Roxl", "Roxr"} THEN out ELSE s.x
           changed == s.changed \/ msb(next, size) # msb(s.value, size)
<1>1. ShiftOnce(kind, size, j, s) = [value |-> next, last |-> out, x |-> x, changed |-> changed]
  BY Zenon DEF ShiftOnce
<1>2. s.value \in Int /\ s.x \in Bit /\ s.changed \in BOOLEAN
  BY DEF Shifted
<1>3. msb(s.value, size) \in Bit /\ s.value % 2 \in Bit /\ 0 \in Bit /\ top \in Int
  <2>1. msb(s.value, size) \in Bit
    BY <1>2, MsbIn
  <2>2. s.value % 2 \in Bit /\ 0 \in Bit
    BY <1>2 DEF Bit
  <2>3. top \in Int
    BY TopBits, SMT DEF Sizes
  <2> QED BY <2>1, <2>2, <2>3
<1> HIDE DEF top
<1>4. out \in Bit
  BY <1>3
<1> HIDE DEF out
<1>5. enters \in Bit
  BY <1>2, <1>3, <1>4
<1> HIDE DEF enters
<1>6. next \in Int
  <2>1. enters \in Int
    BY <1>5, BitIsInt
  <2>2. 2 * s.value + enters \in Int /\ s.value \div 2 + enters * top \in Int
    BY <1>2, <1>3, <2>1
  <2>3. Low(2 * s.value + enters, size) \in Int
    BY <2>2, LowInt
  <2> QED BY <2>2, <2>3
<1> HIDE DEF next
<1>7. x \in Bit /\ changed \in BOOLEAN
  BY <1>2, <1>4
<1> HIDE DEF x, changed
<1> QED BY <1>1, <1>4, <1>6, <1>7 DEF Shifted

(* The loop of the shifts: its variables before the first turn and after   *)
(* each.                                                                   *)
Turns(u, kind, size, count, value, sr) ==
    /\ u[0] = [value |-> value, last |-> 0, x |-> sr.x, changed |-> FALSE]
    /\ \A k \in 1 .. count : u[k] = ShiftOnce(kind, size, k - 1, u[k - 1])
    /\ \A k \in 0 .. count : u[k] \in Shifted

(* A shift is the last of its turns: the loop of the code, as a sequence   *)
(* of the loop's variables that starts with the operand.                   *)
LEMMA ShiftTurns ==
    ASSUME EightBits, NEW kind, NEW size \in Sizes, NEW count \in Nat, NEW value \in Int, NEW sr \in StatusRegisters
    PROVE  \E u : Turns(u, kind, size, count, value, sr) /\ Shift(kind, size, count, value, sr) = u[count]
<1> DEFINE base == [value |-> value, last |-> 0, x |-> sr.x, changed |-> FALSE]
           Defines(f) == f = [j \in 0 .. count |-> IF j = 0 THEN base ELSE ShiftOnce(kind, size, j - 1, f[j - 1])]
           G == [p \in (1 .. count) \X Shifted |-> ShiftOnce(kind, size, p[1] - 1, p[2])]
<1>1. base \in Shifted
  BY DEF Shifted, StatusRegisters, Bit
<1>2. G \in [(1 .. count) \X Shifted -> Shifted]
  <2>1. ASSUME NEW p \in (1 .. count) \X Shifted PROVE ShiftOnce(kind, size, p[1] - 1, p[2]) \in Shifted
    <3>1. p[2] \in Shifted
      OBVIOUS
    <3> QED BY <3>1, ShiftOnceIn
  <2> QED BY <2>1
<1>3. ASSUME NEW k \in 1 .. count, NEW s \in Shifted PROVE G[<<k, s>>] = ShiftOnce(kind, size, k - 1, s)
  <2>1. <<k, s>> \in (1 .. count) \X Shifted
    OBVIOUS
  <2> QED BY <2>1
<1> HIDE DEF G, base
<1>4. PICK f \in [0 .. count -> Shifted] : f[0] = base /\ \A k \in 1 .. count : f[k] = G[<<k, f[k - 1]>>]
  <2>1. \E f : Recurs(f, base, G, count, Shifted)
    BY <1>1, <1>2, Recursion DEF Steps
  <2> QED BY <2>1 DEF Recurs
<1>5. ASSUME NEW k \in 1 .. count PROVE f[k] = ShiftOnce(kind, size, k - 1, f[k - 1])
  <2>1. f[k - 1] \in Shifted
    OBVIOUS
  <2> QED BY <1>3, <1>4, <2>1
<1>6. Defines(f)
  <2>1. ASSUME NEW k \in 0 .. count
        PROVE f[k] = IF k = 0 THEN base ELSE ShiftOnce(kind, size, k - 1, f[k - 1])
    BY <1>4, <1>5
  <2>2. f = [k \in 0 .. count |-> f[k]]
    OBVIOUS
  <2> QED BY <2>1, <2>2
<1> DEFINE u == CHOOSE g : Defines(g)
<1>7. Defines(u)
  BY <1>6
<1>8. Shift(kind, size, count, value, sr) = u[count]
  BY Zenon DEF Shift, base
<1> HIDE DEF u
<1>9. u[0] = base
  BY <1>7
<1>10. ASSUME NEW k \in 1 .. count, u[k - 1] \in Shifted PROVE u[k] \in Shifted
  <2>1. u[k] = ShiftOnce(kind, size, k - 1, u[k - 1])
    BY <1>7
  <2> QED BY <1>10, <2>1, ShiftOnceIn
<1>11. \A k \in 0 .. count : u[k] \in Shifted
  BY <1>1, <1>9, <1>10, Stays
<1>12. \A k \in 1 .. count : u[k] = ShiftOnce(kind, size, k - 1, u[k - 1])
  BY <1>7
<1>13. Turns(u, kind, size, count, value, sr)
  BY <1>9, <1>11, <1>12, Zenon DEF Turns, base
<1> QED BY <1>8, <1>13

(* The loop of the shifts ends with its variables in their types, whatever *)
(* the count: by the recursion lemma.                                      *)
LEMMA ShiftIn ==
    ASSUME EightBits, NEW kind, NEW size \in Sizes, NEW count \in Nat, NEW value \in Int, NEW sr \in StatusRegisters
    PROVE  Shift(kind, size, count, value, sr) \in Shifted
<1>1. PICK u : Turns(u, kind, size, count, value, sr) /\ Shift(kind, size, count, value, sr) = u[count]
  BY ShiftTurns
<1>2. count \in 0 .. count
  OBVIOUS
<1> QED BY <1>1, <1>2, Zenon DEF Turns

(* The condition codes after a shift are bits, and the rest of the status  *)
(* register is kept.                                                       *)
LEMMA ShiftFlagsIn ==
    ASSUME EightBits, NEW kind, NEW size \in Sizes, NEW count, NEW done \in Shifted, NEW sr \in StatusRegisters
    PROVE  NewFlags(sr, ShiftFlags(kind, size, count, done, sr))
<1> DEFINE extends == kind \in {"Roxl", "Roxr"}
           rotates == kind \in {"Rol", "Ror"}
           n == msb(done.value, size)
           z == is_zero(done.value, size)
           v == Flag(kind \in {"Asl", "Asr"} /\ done.changed)
           c == IF count # 0 THEN done.last ELSE IF extends THEN sr.x ELSE 0
           x == IF extends THEN done.x ELSE IF count = 0 \/ rotates THEN sr.x ELSE done.last
<1>1. ShiftFlags(kind, size, count, done, sr) = [sr EXCEPT !.n = n, !.z = z, !.v = v, !.c = c, !.x = x]
  BY Zenon DEF ShiftFlags
<1>2. done.value \in Int /\ done.last \in Bit /\ done.x \in Bit /\ sr.x \in Bit /\ 0 \in Bit
  BY DEF Shifted, StatusRegisters, Bit
<1>3. n \in Bit /\ z \in Bit /\ v \in Bit
  BY <1>2, MsbIn, FlagIn DEF is_zero
<1>4. c \in Bit /\ x \in Bit
  BY <1>2
<1> HIDE DEF n, z, v, c, x
<1>5. NewFlags(sr, [sr EXCEPT !.n = n, !.z = z, !.v = v, !.c = c, !.x = x])
  BY <1>3, <1>4 DEF NewFlags, StatusRegisters
<1> QED BY <1>1, <1>5

(* A rotation through X that then fails has changed X and no other flag.   *)
LEMMA RotatingIn ==
    ASSUME NEW i, NEW count, NEW done \in Shifted, NEW sr \in StatusRegisters, NEW new,
           new = Rotating(sr, i.kind, count, done)
    PROVE  new \in StatusRegisters /\ new.s = sr.s /\ new.mask = sr.mask /\ Within(i, sr, new)
<1> USE DEF Within
<1>1. done.x \in Bit
  BY DEF Shifted
<1>2. CASE i.kind = "Roxl" /\ count > 0
  <2>1. new = [sr EXCEPT !.x = done.x, !.c = done.x]
    BY <1>2 DEF Rotating
  <2>2. MayChange(i) = {"x", "c"}
    BY <1>2 DEF MayChange, BitKinds
  <2> QED BY <1>1, <2>1, <2>2 DEF StatusRegisters
<1>3. CASE i.kind = "Roxr"
  <2>1. new = [sr EXCEPT !.x = done.x]
    BY <1>3 DEF Rotating
  <2>2. MayChange(i) = {"x", "c"}
    BY <1>3 DEF MayChange, BitKinds
  <2> QED BY <1>1, <2>1, <2>2 DEF StatusRegisters
<1>4. CASE ~(i.kind = "Roxl" /\ count > 0) /\ i.kind # "Roxr"
  <2>1. new = sr
    BY <1>4 DEF Rotating
  <2> QED BY <2>1
<1> QED BY <1>2, <1>3, <1>4

(* The write and the flags that end a shift are a result an instruction    *)
(* may have.                                                               *)
LEMMA ShiftEnds ==
    ASSUME EightBits, NEW D, NEW m \in Machines(D), NEW i, WellFormed(i), i.kind \in Shifts,
           NEW x, Untouched(m, i, x), "src" \in DOMAIN i => "src" \in x.decremented, NEW d \in Int, NEW count \in Nat,
           NEW done, done = Shift(i.kind, i.size, count, d, x.sr),
           NEW busy, busy = [x EXCEPT !.sr = Rotating(x.sr, i.kind, count, done)]
    PROVE  Result(m, i, Then(Write(busy, i, "dst", i.size, done.value), ShiftFlags(i.kind, i.size, count, done, x.sr)))
<1> DEFINE new == Rotating(x.sr, i.kind, count, done)
           sr == ShiftFlags(i.kind, i.size, count, done, x.sr)
           w == Write(busy, i, "dst", i.size, done.value)
<1>0. "dst" \in DOMAIN i /\ i.size \in Sizes /\ x.sr \in StatusRegisters
  BY Operands, SizeIn, StatusIn DEF UsesSize, UsesDst, Shifts
<1>1. done \in Shifted
  BY <1>0, ShiftIn
<1>2. new \in StatusRegisters /\ new.s = x.sr.s /\ new.mask = x.sr.mask /\ Within(i, x.sr, new)
  BY <1>0, <1>1, RotatingIn
<1>3. NewFlags(x.sr, sr) /\ done.value \in Int
  BY <1>0, <1>1, ShiftFlagsIn DEF Shifted
<1>4. w = Write(busy, i, "dst", i.size, done.value) /\ busy = [x EXCEPT !.sr = new]
  OBVIOUS
<1> HIDE DEF new, sr, w
<1>5. Untouched(m, i, busy) /\ busy.sr = new /\ busy.decremented = x.decremented
  <2> DEFINE y == busy
  <2>1. y = [x EXCEPT !.sr = new] /\ y = busy
    BY <1>4
  <2> HIDE DEF y
  <2>2. Untouched(m, i, y)
    BY <1>2, <2>1, StillUntouched
  <2>3. y.sr = new /\ y.decremented = x.decremented
    BY <1>2, <2>1, StillUntouched
  <2> QED BY <2>1, <2>2, <2>3
<1>6. NewFlags(busy.sr, sr)
  BY <1>2, <1>3, <1>5 DEF NewFlags
<1>7. Result(m, i, Then(w, sr))
  <2>1. CASE "src" \in DOMAIN i
    <3>1. "src" \in busy.decremented
      BY <1>5, <2>1
    <3> QED BY <1>0, <1>3, <1>4, <1>5, <1>6, <3>1, FinishesTwo
  <2>2. CASE "src" \notin DOMAIN i
    BY <1>0, <1>3, <1>4, <1>5, <1>6, <2>2, FinishesOne
  <2> QED BY <2>1, <2>2
<1> QED BY <1>7 DEF w, sr

(* The eight shifts and rotations have a result an instruction may have.   *)
LEMMA ShiftDone ==
    ASSUME EightBits, NEW D, NEW m \in Machines(D), NEW i, WellFormed(i), Fresh(m, i), i.kind \in Shifts,
           NEW r, r = ExecShift(m, i)
    PROVE  Result(m, i, r)
<1> DEFINE size == i.size
           p == try_decrement_address(m, i, "dst")
           d == OperandValue(p, i["dst"], size)
           q == try_decrement_address(p, i, "src")
           s == OperandValue(q, i["src"], size)
           Ends(x, count) ==
             LET done == Shift(i.kind, i.size, count, d, x.sr)
                 busy == [x EXCEPT !.sr = Rotating(x.sr, i.kind, count, done)]
             IN  Then(Write(busy, i, "dst", i.size, done.value), ShiftFlags(i.kind, i.size, count, done, x.sr))
           count == s % (2 * bit_count(Long))
<1>0. "dst" \in DOMAIN i /\ size \in Sizes /\ "dst" \in Roles /\ "src" \in Roles
  BY Operands, SizeIn DEF UsesSize, UsesDst, Shifts, Roles
<1>1. r = IF Accessible(p, i["dst"], size)
          THEN IF "src" \in DOMAIN i
               THEN IF Accessible(q, i["src"], size) THEN Ends(q, count) ELSE Fail(q)
               ELSE Ends(p, QuickValue(i.data))
          ELSE Fail(p)
  BY Zenon DEF ExecShift, Read
<1>2. ReadsOne(m, i, "dst", p)
  BY <1>0, ReadOne
<1>3. q = try_decrement_address(p, i, "src")
  OBVIOUS
<1> HIDE DEF p, q
<1>4. CASE Accessible(p, i["dst"], size)
  <2>1. d \in Int /\ Untouched(m, i, p)
    BY <1>0, <1>2, <1>4 DEF ReadsOne
  <2> HIDE DEF d
  <2>2. CASE "src" \in DOMAIN i
    <3>1. Accesses(m, i, "src", p, q)
      BY <1>0, <1>3, <2>1, <2>2, Access
    <3>2. CASE Accessible(q, i["src"], size)
      <4>1. s \in Values(size) /\ Untouched(m, i, q) /\ "src" \in q.decremented
        BY <1>0, <3>1, <3>2 DEF Accesses
      <4>2. s \in Int
        BY <1>0, <4>1, ValuesAreInts
      <4> HIDE DEF s
      <4>3. count \in Nat
        <5>1. 2 * bit_count(Long) = 64
          BY SpanValues
        <5> QED BY <4>2, <5>1
      <4> HIDE DEF count
      <4>4. Result(m, i, Ends(q, count))
        BY <2>1, <4>1, <4>3, ShiftEnds
      <4> HIDE DEF Ends
      <4> QED BY <1>1, <1>4, <2>2, <3>2, <4>4
    <3>3. CASE ~Accessible(q, i["src"], size)
      BY <1>1, <1>4, <2>2, <3>1, <3>3 DEF Accesses
    <3> QED BY <3>2, <3>3
  <2>3. CASE "src" \notin DOMAIN i
    <3>1. QuickValue(i.data) \in Nat
      BY <2>3, DataIn
    <3>2. Result(m, i, Ends(p, QuickValue(i.data)))
      BY <2>1, <2>3, <3>1, ShiftEnds
    <3> HIDE DEF Ends
    <3> QED BY <1>1, <1>4, <2>3, <3>2
  <2> QED BY <2>2, <2>3
<1>5. CASE ~Accessible(p, i["dst"], size)
  BY <1>1, <1>2, <1>5 DEF ReadsOne
<1> QED BY <1>4, <1>5

(* Setting the program counter stores nothing else.                        *)
LEMMA PcUntouched ==
    ASSUME NEW m, NEW i, NEW x, Untouched(m, i, x), NEW pc \in Values(Long), NEW r, r = [x EXCEPT !.pc = pc]
    PROVE  Untouched(m, i, r) /\ r.sr = x.sr /\ r.decremented = x.decremented /\ r.incremented = x.incremented
<1>1. x \in Machines(DOMAIN m.mem)
  BY DEF Untouched
<1>2. r \in Machines(DOMAIN m.mem)
  BY <1>1 DEF Machines
<1>3. /\ r.a = x.a /\ stack_ptr(r) = stack_ptr(x) /\ r.sr = x.sr /\ r.status = x.status /\ r.d = x.d
      /\ r.decremented = x.decremented /\ r.incremented = x.incremented
  BY <1>1 DEF Machines, stack_ptr
<1>4. Along(m, i, r)
  BY <1>3, Quiet DEF Untouched
<1> QED BY <1>2, <1>3, <1>4 DEF Untouched, Ok, KeepsFlags

(* MOVE and MOVEA have a result an instruction may have.                   *)
LEMMA MoveDone ==
    ASSUME EightBits, NEW D, NEW m \in Machines(D), NEW i, WellFormed(i), Fresh(m, i), i.kind \in {"Move", "Movea"},
           NEW r, r = IF i.kind = "Move" THEN ExecMove(m, i) ELSE ExecMovea(m, i)
    PROVE  Result(m, i, r)
<1> DEFINE size == i.size
           x == [m EXCEPT !.pc = i.data]
           p == try_decrement_address(x, i, "src")
           s == OperandValue(p, i["src"], size)
           k == try_increment_address(p, i, "src")
           q == [k EXCEPT !.pc = m.pc]
           v == IF i.kind = "Movea" /\ size = Word THEN Signed(s, Word) ELSE s
           wide == IF i.kind = "Movea" THEN Long ELSE size
           sr == SetLogic(q.sr, s, size)
           w == Write(q, i, "dst", wide, v)
<1>0. "src" \in DOMAIN i /\ "dst" \in DOMAIN i /\ "src" \in Roles /\ "dst" \in Roles /\ size \in Sizes /\ wide \in Sizes
      /\ Word \in Sizes
  BY Operands, SizeIn DEF UsesSize, UsesSrc, UsesDst, UsesBoth, Roles, Shifts, Sizes
<1>1. r = IF Accessible(p, i["src"], size) THEN IF i.kind = "Move" THEN Then(w, sr) ELSE w ELSE Fail(p)
  <2>1. CASE i.kind = "Move"
    <3>1. r = IF Accessible(p, i["src"], size) THEN Then(Write(q, i, "dst", size, s), sr) ELSE Fail(p)
      BY <2>1, Zenon DEF ExecMove, ReadAtSource, Read
    <3>2. wide = size /\ v = s
      BY <2>1
    <3> HIDE DEF p, s, k, q, sr, v, wide, size
    <3>3. w = Write(q, i, "dst", size, s)
      BY <3>2
    <3> HIDE DEF w
    <3> QED BY <2>1, <3>1, <3>3
  <2>2. CASE i.kind = "Movea"
    BY <2>2, Zenon DEF ExecMovea, ReadAtSource, Read
  <2> QED BY <2>1, <2>2
<1>2. Untouched(m, i, x)
  <2>1. i.data \in Values(Long)
    BY DataIn DEF UsesData
  <2> QED BY <2>1, PcUntouched DEF Fresh
<1>3. p = try_decrement_address(x, i, "src") /\ k = try_increment_address(p, i, "src")
      /\ q = [k EXCEPT !.pc = m.pc] /\ w = Write(q, i, "dst", wide, v)
  OBVIOUS
<1> HIDE DEF x, p, k, q, w, wide
<1>4. Accesses(m, i, "src", x, p)
  BY <1>0, <1>2, <1>3, Access
<1>5. Untouched(m, i, p) /\ "src" \in p.decremented /\ Result(m, i, Fail(p))
  BY <1>4 DEF Accesses
<1>6. Untouched(m, i, k) /\ k.decremented = p.decremented
  BY <1>0, <1>3, <1>5, Incremented
<1>7. Untouched(m, i, q) /\ "src" \in q.decremented
  <2>1. m.pc \in Values(Long)
    BY DEF Machines
  <2> QED BY <1>3, <1>5, <1>6, <2>1, PcUntouched
<1>8. CASE Accessible(p, i["src"], size)
  <2>1. s \in Values(size)
    BY <1>0, <1>4, <1>8 DEF Accesses
  <2>2. s \in Int
    BY <1>0, <2>1, ValuesAreInts
  <2> HIDE DEF s
  <2>3. v \in Int
    BY <1>0, <2>2, SignedIn
  <2>4. NewFlags(q.sr, sr)
    BY <1>0, <1>7, <2>2, StatusIn, SetLogicIn
  <2> HIDE DEF v, sr
  <2>5. Result(m, i, w) /\ Result(m, i, Then(w, sr))
    BY <1>0, <1>3, <1>7, <2>3, <2>4, FinishesTwo
  <2> QED BY <1>1, <1>8, <2>5
<1> QED BY <1>1, <1>5, <1>8

(* MOVEQ has a result an instruction may have.                             *)
LEMMA MoveqDone ==
    ASSUME EightBits, NEW D, NEW m \in Machines(D), NEW i, WellFormed(i), Fresh(m, i), i.kind = "Moveq",
           NEW r, r = ExecMoveq(m, i)
    PROVE  Result(m, i, r)
<1> DEFINE v == Signed(i.data, Byte)
           sr == SetLogic(m.sr, v, Long)
           w == Write(m, i, "dst", Long, v)
<1>0. "dst" \in DOMAIN i /\ "src" \notin DOMAIN i /\ Long \in Sizes /\ Byte \in Sizes
  BY Operands DEF UsesSrc, UsesDst, UsesBoth, Roles, Shifts, QuickKinds, BinaryKinds, AddressKinds, ExtendKinds,
                  BitKinds, ToCcrKinds, ToSrKinds, UnaryKinds, Sizes
<1>1. r = Then(w, sr)
  BY Zenon DEF ExecMoveq
<1>2. v \in Int
  <2>1. i.data \in Int
    BY DataIn DEF UsesData
  <2> QED BY <1>0, <2>1, SignedIn
<1>3. Untouched(m, i, m)
  BY DEF Fresh
<1> HIDE DEF v
<1>4. NewFlags(m.sr, sr)
  BY <1>0, <1>2, <1>3, StatusIn, SetLogicIn
<1>5. w = Write(m, i, "dst", Long, v)
  OBVIOUS
<1> HIDE DEF w, sr
<1> QED BY <1>0, <1>1, <1>2, <1>3, <1>4, <1>5, FinishesOne

(* SWAP and EXT have a result an instruction may have.                     *)
LEMMA SwapExtDone ==
    ASSUME EightBits, NEW D, NEW m \in Machines(D), NEW i, WellFormed(i), Fresh(m, i), i.kind \in {"Swap", "Ext"},
           NEW r, r = IF i.kind = "Swap" THEN ExecSwap(m, i) ELSE ExecExt(m, i)
    PROVE  Result(m, i, r)
<1> DEFINE size == IF i.kind = "Swap" THEN Long ELSE i.size
           p == try_decrement_address(m, i, "dst")
           d == OperandValue(p, i["dst"], size)
           v == IF i.kind = "Swap" THEN (d % Span(Word)) * Span(Word) + (d \div Span(Word))
                                   ELSE Signed(d, i.size \div 2)
           sr == SetLogic(p.sr, v, size)
           w == Write(p, i, "dst", size, v)
<1>0. /\ "dst" \in DOMAIN i /\ "dst" \in Roles /\ "src" \notin DOMAIN i /\ size \in Sizes
      /\ i.kind = "Ext" => i.size \div 2 \in Sizes
  <2>1. "dst" \in DOMAIN i /\ "dst" \in Roles /\ "src" \notin DOMAIN i
    BY Operands DEF UsesSrc, UsesDst, UsesBoth, Roles, Shifts, QuickKinds, BinaryKinds, AddressKinds, ExtendKinds,
                    BitKinds, ToCcrKinds, ToSrKinds, UnaryKinds
  <2>2. i.kind = "Ext" => i.size \in {Word, Long}
    BY DEF WellFormed, UsesSize, SizesOf, AddressKinds
  <2> QED BY <2>1, <2>2 DEF Sizes, Byte, Word, Long
<1>1. r = IF Accessible(p, i["dst"], size) THEN Then(w, sr) ELSE Fail(p)
  <2>1. CASE i.kind = "Swap"
    BY <2>1, Zenon DEF ExecSwap, Read
  <2>2. CASE i.kind # "Swap"
    BY <2>2, Zenon DEF ExecExt, Read
  <2> QED BY <2>1, <2>2
<1>2. ReadsOne(m, i, "dst", p)
  BY <1>0, ReadOne
<1>3. w = Write(p, i, "dst", size, v)
  OBVIOUS
<1> HIDE DEF p, w, size
<1>4. CASE Accessible(p, i["dst"], size)
  <2>1. d \in Int /\ Untouched(m, i, p)
    BY <1>0, <1>2, <1>4 DEF ReadsOne
  <2> HIDE DEF d
  <2>2. v \in Int
    <3>1. CASE i.kind = "Swap"
      <4>1. Span(Word) \in Nat \ {0}
        BY SpanValues
      <4>2. d % Span(Word) \in Int /\ d \div Span(Word) \in Int
        BY <2>1, <4>1
      <4>3. (d % Span(Word)) * Span(Word) + (d \div Span(Word)) \in Int
        BY <4>1, <4>2
      <4> QED BY <3>1, <4>3
    <3>2. CASE i.kind # "Swap"
      BY <1>0, <2>1, <3>2, SignedIn
    <3> QED BY <3>1, <3>2
  <2> HIDE DEF v
  <2>3. NewFlags(p.sr, sr)
    BY <1>0, <2>1, <2>2, StatusIn, SetLogicIn
  <2> HIDE DEF sr
  <2>4. Result(m, i, Then(w, sr))
    BY <1>0, <1>3, <2>1, <2>2, <2>3, FinishesOne
  <2> QED BY <1>1, <1>4, <2>4
<1> QED BY <1>1, <1>2, <1>4 DEF ReadsOne

(* Scc has a result an instruction may have.                               *)
LEMMA SccDone ==
    ASSUME EightBits, NEW D, NEW m \in Machines(D), NEW i, WellFormed(i), Fresh(m, i), i.kind = "Scc",
           NEW r, r = ExecScc(m, i)
    PROVE  Result(m, i, r)
<1>0. "dst" \in DOMAIN i /\ "src" \notin DOMAIN i /\ Byte \in Sizes
  BY Operands DEF UsesSrc, UsesDst, UsesBoth, Roles, Shifts, QuickKinds, BinaryKinds, AddressKinds, ExtendKinds,
                  BitKinds, ToCcrKinds, ToSrKinds, UnaryKinds, Sizes
<1> DEFINE v == IF calculate_condition(m.sr, i.cond) THEN Span(Byte) - 1 ELSE 0
<1>1. r = Write(m, i, "dst", Byte, v)
  BY Zenon DEF ExecScc
<1>2. Span(Byte) - 1 \in Int /\ 0 \in Int
  BY SpanValues
<1>3. v \in Int
  BY <1>2
<1> HIDE DEF v
<1>4. Untouched(m, i, m) /\ NewFlags(m.sr, m.sr)
  BY StatusIn DEF Fresh, NewFlags
<1> QED BY <1>0, <1>1, <1>3, <1>4, FinishesOne

(* LEA has a result an instruction may have.                               *)
LEMMA LeaDone ==
    ASSUME EightBits, NEW D, NEW m \in Machines(D), NEW i, WellFormed(i), Fresh(m, i), i.kind = "Lea",
           NEW r, r = ExecLea(m, i)
    PROVE  Result(m, i, r)
<1>0. "dst" \in DOMAIN i /\ "src" \in DOMAIN i /\ i["src"] \in Targets /\ Long \in Sizes
  BY Operands DEF UsesSrc, UsesDst, UsesBoth, Shifts, Sizes
<1>1. HasFixedAddress(i["src"])
  BY DEF WellFormed, OperandsFit
<1> DEFINE v == effective_address(m, i["src"])
<1>2. r = Write(m, i, "dst", Long, v)
  BY DEF ExecLea
<1>3. v \in Int
  <2>1. v \in Values(Long)
    BY <1>0, <1>1, AddressIn DEF HasFixedAddress
  <2> QED BY <2>1, ValuesWiden
<1> HIDE DEF v
<1>4. Untouched(m, i, m) /\ m.sr \in StatusRegisters /\ m.sr.s = m.sr.s
  BY StatusIn DEF Fresh
<1>5. i["src"].kind # "AddressDecrement"
  BY <1>1 DEF HasFixedAddress, Stepped
<1> QED BY <1>0, <1>2, <1>3, <1>4, <1>5, Finished

Moved(m, i, x, r) == Leaves(m, i, r) /\ r.d = x.d /\ r.sr = x.sr

(* Setting the program counter keeps the account.                          *)
LEMMA PcLeaves ==
    ASSUME NEW m, NEW i, NEW x, Leaves(m, i, x), NEW pc \in Values(Long), NEW r, r = [x EXCEPT !.pc = pc]
    PROVE  Moved(m, i, x, r) /\ r.pc = pc
<1>1. x \in Machines(DOMAIN m.mem)
  BY DEF Leaves
<1>2. r \in Machines(DOMAIN m.mem)
  BY <1>1 DEF Machines
<1>3. /\ r.a = x.a /\ stack_ptr(r) = stack_ptr(x) /\ r.sr = x.sr /\ r.d = x.d
      /\ r.decremented = x.decremented /\ r.incremented = x.incremented /\ r.pc = pc
  BY <1>1 DEF Machines, stack_ptr
<1>4. Along(m, i, r)
  BY <1>3, Quiet DEF Leaves
<1> QED BY <1>2, <1>3, <1>4 DEF Leaves, Moved, Predecremented

(* An error keeps the account.                                             *)
LEMMA FailLeaves ==
    ASSUME NEW m, NEW i, NEW x, Leaves(m, i, x)
    PROVE  Moved(m, i, x, Fail(x))
<1>1. x \in Machines(DOMAIN m.mem)
  BY DEF Leaves
<1>2. Fail(x) \in Machines(DOMAIN m.mem)
  BY <1>1 DEF Machines, Fail
<1>3. /\ Fail(x).a = x.a /\ stack_ptr(Fail(x)) = stack_ptr(x) /\ Fail(x).sr = x.sr /\ Fail(x).d = x.d
      /\ Fail(x).decremented = x.decremented /\ Fail(x).incremented = x.incremented
  BY <1>1 DEF Machines, stack_ptr, Fail
<1>4. Along(m, i, Fail(x))
  BY <1>3, Quiet DEF Leaves
<1> QED BY <1>2, <1>3, <1>4 DEF Leaves, Moved, Predecremented

(* A jump keeps the account, the error of an odd address included.         *)
LEMMA SetPcLeaves ==
    ASSUME EightBits, NEW m, NEW i, NEW x, Leaves(m, i, x), NEW addr \in Int, NEW r, r = SetPc(x, addr)
    PROVE  Moved(m, i, x, r)
<1> DEFINE pc == Low(addr, Long)
           p == [x EXCEPT !.pc = pc]
<1>1. r = IF p.pc % 2 = 1 THEN Fail(p) ELSE p
  BY DEF SetPc
<1>2. pc \in Values(Long) /\ p = [x EXCEPT !.pc = pc]
  BY LowLong
<1> HIDE DEF pc, p
<1>3. Moved(m, i, x, p)
  BY <1>2, PcLeaves
<1>4. Moved(m, i, p, Fail(p))
  BY <1>3, FailLeaves DEF Moved
<1> QED BY <1>1, <1>3, <1>4 DEF Moved

(* A branch keeps the account.                                             *)
LEMMA DisplaceLeaves ==
    ASSUME EightBits, NEW m, NEW i, i.data \in Int, i.size \in Sizes, NEW x, Leaves(m, i, x), NEW always,
           NEW r, r = displace_pc(x, i, always)
    PROVE  Moved(m, i, x, r)
<1> DEFINE offset == Signed(i.data, i.size)
           back == i.size # Byte /\ (offset < 0 \/ always)
           addr == x.pc + offset - IF back THEN 2 ELSE 0
<1>1. r = SetPc(x, addr)
  BY DEF displace_pc
<1>2. offset \in Int
  BY SignedIn
<1>3. x.pc \in Int
  <2>1. x.pc \in Values(Long)
    BY DEF Leaves, Machines
  <2> QED BY <2>1, ValuesWiden
<1> HIDE DEF offset, back
<1>4. addr \in Int
  BY <1>2, <1>3
<1> HIDE DEF addr
<1> QED BY <1>1, <1>4, SetPcLeaves

(* A machine with the data registers and flags of the start is a result of *)
(* any instruction.                                                        *)
LEMMA Alike ==
    ASSUME NEW m, NEW i, NEW r, Leaves(m, i, r), r.d = m.d, r.sr = m.sr
    PROVE  Result(m, i, r)
BY DEF Leaves, Result, KeepsFlags

(* The account is kept at the start.                                       *)
LEMMA BeginsWell ==
    ASSUME NEW m, NEW i, Fresh(m, i), Predecremented(i, m)
    PROVE  Leaves(m, i, m)
BY DEF Fresh, Untouched, Leaves

(* Bcc and BSR have a result an instruction may have.                      *)
LEMMA BranchDone ==
    ASSUME EightBits, NEW D, NEW m \in Machines(D), NEW i, WellFormed(i), Fresh(m, i), i.kind \in {"Bcc", "Bsr"},
           NEW r, r = IF i.kind = "Bcc" THEN ExecBcc(m, i) ELSE ExecBsr(m, i)
    PROVE  Result(m, i, r)
<1> DEFINE p == push_stack(m, Long, m.pc)
<1>0. Roles \cap DOMAIN i = {} /\ (i.kind = "Bsr" => Writes(i, 7)) /\ Long \in Sizes
  BY Operands DEF UsesSrc, UsesDst, UsesBoth, Roles, Shifts, Writes, BinaryKinds, AddressKinds, QuickKinds,
                  ExtendKinds, UnaryKinds, BitKinds, ToCcrKinds, ToSrKinds, Sizes
<1>1. i.data \in Int /\ i.size \in Sizes
  BY DataIn, SizeIn DEF UsesData, UsesSize
<1>2. Leaves(m, i, m)
  BY <1>0, BeginsWell DEF Predecremented
<1>3. m.pc \in Int
  <2>1. m.pc \in Values(Long)
    BY DEF Machines
  <2> QED BY <2>1, ValuesWiden
<1>4. CASE i.kind = "Bcc"
  <2> DEFINE q == displace_pc(m, i, TRUE)
  <2>1. r = q \/ r = m
    BY <1>4 DEF ExecBcc
  <2>2. q = displace_pc(m, i, TRUE)
    OBVIOUS
  <2> HIDE DEF q
  <2>3. Moved(m, i, m, q)
    <3> DEFINE x == m
    <3>1. x = m
      OBVIOUS
    <3> HIDE DEF x
    <3>2. Leaves(m, i, x) /\ q = displace_pc(x, i, TRUE)
      BY <1>2, <2>2, <3>1
    <3>3. Moved(m, i, x, q)
      BY <1>1, <3>2, DisplaceLeaves
    <3> QED BY <3>1, <3>3
  <2> QED BY <1>2, <2>1, <2>3, Alike DEF Moved
<1>5. CASE i.kind = "Bsr"
  <2>1. r = displace_pc(p, i, TRUE)
    BY <1>5 DEF ExecBsr
  <2>2. p = push_stack(m, Long, m.pc) /\ D = DOMAIN m.mem
    BY DEF Machines
  <2> HIDE DEF p
  <2>3. Pushed(D, p, m)
    BY <1>0, <1>3, <2>2, PushIn
  <2>4. Along(m, i, p)
    BY <1>0, <1>2, <1>5, <2>3, QuietBelow DEF Pushed, Leaves
  <2>5. Leaves(m, i, p)
    BY <1>0, <2>2, <2>3, <2>4 DEF Leaves, Pushed, Predecremented
  <2>6. Moved(m, i, p, r)
    BY <1>1, <2>1, <2>5, DisplaceLeaves
  <2> QED BY <2>3, <2>6, Alike DEF Moved, Pushed
<1> QED BY <1>4, <1>5

(* JMP and JSR have a result an instruction may have.                      *)
LEMMA JumpDone ==
    ASSUME EightBits, NEW D, NEW m \in Machines(D), NEW i, WellFormed(i), Fresh(m, i), i.kind \in {"Jmp", "Jsr"},
           NEW r, r = ExecJump(m, i)
    PROVE  Result(m, i, r)
<1> DEFINE target == effective_address(m, i["dst"])
           p == IF i.kind = "Jsr" THEN push_stack(m, Long, m.pc) ELSE m
<1>0. /\ "dst" \in DOMAIN i /\ "src" \notin DOMAIN i /\ i["dst"] \in Targets
      /\ (i.kind = "Jsr" => Writes(i, 7)) /\ Long \in Sizes
  BY Operands DEF UsesSrc, UsesDst, UsesBoth, Roles, Shifts, Writes, BinaryKinds, AddressKinds, QuickKinds,
                  ExtendKinds, UnaryKinds, BitKinds, ToCcrKinds, ToSrKinds, Sizes
<1>1. HasFixedAddress(i["dst"])
  BY DEF WellFormed, OperandsFit
<1>2. r = SetPc(p, target)
  BY DEF ExecJump
<1>3. target \in Int
  <2>1. target \in Values(Long)
    BY <1>0, <1>1, AddressIn DEF HasFixedAddress
  <2> QED BY <2>1, ValuesWiden
<1>4. Leaves(m, i, m)
  BY <1>0, <1>1, BeginsWell DEF Predecremented, HasFixedAddress, Stepped, Roles
<1>5. m.pc \in Int
  <2>1. m.pc \in Values(Long)
    BY DEF Machines
  <2> QED BY <2>1, ValuesWiden
<1> HIDE DEF target
<1>6. Moved(m, i, m, p)
  <2>1. CASE i.kind = "Jsr"
    <3>1. p = push_stack(m, Long, m.pc) /\ D = DOMAIN m.mem
      BY <2>1 DEF Machines
    <3> HIDE DEF p
    <3>2. Pushed(D, p, m)
      BY <1>0, <1>5, <3>1, PushIn
    <3>3. Along(m, i, p)
      BY <1>0, <1>4, <2>1, <3>2, QuietBelow DEF Pushed, Leaves
    <3> QED BY <1>4, <3>1, <3>2, <3>3 DEF Leaves, Pushed, Predecremented, Moved
  <2>2. CASE i.kind # "Jsr"
    BY <1>4, <2>2 DEF Moved
  <2> QED BY <2>1, <2>2
<1> HIDE DEF p
<1>7. Moved(m, i, p, r)
  BY <1>2, <1>3, <1>6, SetPcLeaves DEF Moved
<1> QED BY <1>6, <1>7, Alike DEF Moved

(* PEA has a result an instruction may have.                               *)
LEMMA PeaDone ==
    ASSUME EightBits, NEW D, NEW m \in Machines(D), NEW i, WellFormed(i), Fresh(m, i), i.kind = "Pea",
           NEW r, r = ExecPea(m, i)
    PROVE  Result(m, i, r)
<1> DEFINE v == effective_address(m, i["src"])
<1>0. "src" \in DOMAIN i /\ "dst" \notin DOMAIN i /\ i["src"] \in Targets /\ Writes(i, 7) /\ Long \in Sizes
  BY Operands DEF UsesSrc, UsesDst, UsesBoth, Roles, Shifts, Writes, BinaryKinds, AddressKinds, QuickKinds,
                  ExtendKinds, UnaryKinds, BitKinds, ToCcrKinds, ToSrKinds, Sizes
<1>1. HasFixedAddress(i["src"])
  BY DEF WellFormed, OperandsFit
<1>2. r = push_stack(m, Long, v) /\ D = DOMAIN m.mem
  BY DEF ExecPea, Machines
<1>3. v \in Int
  <2>1. v \in Values(Long)
    BY <1>0, <1>1, AddressIn DEF HasFixedAddress
  <2> QED BY <2>1, ValuesWiden
<1> HIDE DEF v
<1>4. Leaves(m, i, m)
  BY <1>0, <1>1, BeginsWell DEF Predecremented, HasFixedAddress, Stepped, Roles
<1>5. Pushed(D, r, m)
  BY <1>0, <1>2, <1>3, PushIn
<1>6. Along(m, i, r)
  BY <1>0, <1>4, <1>5, QuietBelow DEF Pushed, Leaves
<1>7. Leaves(m, i, r)
  BY <1>2, <1>4, <1>5, <1>6 DEF Leaves, Pushed, Predecremented
<1> QED BY <1>5, <1>7, Alike DEF Pushed

(* NOP and RESET have a result an instruction may have.                    *)
LEMMA NothingDone ==
    ASSUME NEW m, NEW i, WellFormed(i), Fresh(m, i), i.kind \in {"Nop", "Reset"}
    PROVE  Result(m, i, m)
<1>0. Roles \cap DOMAIN i = {}
  BY Operands DEF UsesSrc, UsesDst, UsesBoth, Roles, Shifts, BinaryKinds, AddressKinds, QuickKinds,
                  ExtendKinds, UnaryKinds, BitKinds, ToCcrKinds, ToSrKinds
<1> QED BY <1>0, BeginsWell, Alike DEF Predecremented

(* DBcc has a result an instruction may have.                              *)
LEMMA DbccDone ==
    ASSUME EightBits, NEW D, NEW m \in Machines(D), NEW i, WellFormed(i), Fresh(m, i), i.kind = "Dbcc",
           NEW r, r = ExecDbcc(m, i)
    PROVE  Result(m, i, r)
<1> DEFINE p == try_decrement_address(m, i, "dst")
           d == OperandValue(p, i["dst"], Word)
           w == Write(p, i, "dst", Word, d - 1)
           back == IF Signed(i.data, Word) >= 0 THEN 2 ELSE 0
           k == [w EXCEPT !.pc = @ - back]
           q == displace_pc(k, i, FALSE)
<1>0. "dst" \in DOMAIN i /\ "dst" \in Roles /\ "src" \notin DOMAIN i /\ Word \in Sizes /\ i.kind \in Unfinished
  BY Operands DEF UsesSrc, UsesDst, UsesBoth, Roles, Shifts, BinaryKinds, AddressKinds, QuickKinds,
                  ExtendKinds, UnaryKinds, BitKinds, ToCcrKinds, ToSrKinds, Sizes, Unfinished
<1>1. r = IF calculate_condition(m.sr, i.cond) THEN m
          ELSE IF ~Accessible(p, i["dst"], Word) THEN Fail(p)
          ELSE IF ~Ok(w) \/ Signed(d - 1, Word) = -1 THEN w ELSE q
  BY Zenon DEF ExecDbcc, Read
<1>2. i.data \in Int /\ i.size \in Sizes
  BY DataIn, SizeIn DEF UsesData, UsesSize
<1>3. i["dst"].kind = "DataRegister"
  BY DEF WellFormed, OperandsFit
<1>4. p = try_decrement_address(m, i, "dst") /\ w = Write(p, i, "dst", Word, d - 1)
      /\ k = [w EXCEPT !.pc = w.pc - back] /\ q = displace_pc(k, i, FALSE)
  OBVIOUS
<1>5. back \in Int
  OBVIOUS
<1> HIDE DEF p, w, back, k, q
<1>6. ReadsOne(m, i, "dst", p)
  BY <1>0, <1>4, ReadOne
<1>7. Leaves(m, i, m)
  BY <1>0, <1>3, BeginsWell DEF Predecremented, Roles
<1>8. CASE Accessible(p, i["dst"], Word)
  <2>1. d \in Int /\ Untouched(m, i, p)
    BY <1>0, <1>6, <1>8 DEF ReadsOne
  <2> HIDE DEF d
  <2>2. d - 1 \in Int /\ p \in Machines(D) /\ Along(m, i, p) /\ D = DOMAIN m.mem
    BY <2>1 DEF Untouched, Machines
  <2>3. Wrote(m, i, "dst", p, w)
    <3> DEFINE v == d - 1
    <3>1. v \in Int /\ w = Write(p, i, "dst", Word, v)
      BY <1>4, <2>2
    <3> HIDE DEF v
    <3> QED BY <1>0, <2>2, <3>1, Writing
  <2>4. Leaves(m, i, w)
    BY <1>0, <1>3, <2>2, <2>3 DEF Wrote, Leaves, Predecremented, Roles
  <2>5. Leaves(m, i, q)
    <3> DEFINE offset == Signed(i.data, i.size)
               late == i.size # Byte /\ offset < 0
               addr == k.pc + offset - IF late THEN 2 ELSE 0
               pc == Low(addr, Long)
               x == [k EXCEPT !.pc = pc]
               y == [w EXCEPT !.pc = pc]
    <3>1. q = SetPc(k, addr)
      BY <1>4 DEF displace_pc
    <3>2. offset \in Int
      BY <1>2, SignedIn
    <3>3. w \in Machines(D)
      BY <2>2, <2>4 DEF Leaves
    <3>4. w.pc \in Int
      <4>1. w.pc \in Values(Long)
        BY <3>3 DEF Machines
      <4> QED BY <4>1, ValuesWiden
    <3>5. k.pc = w.pc - back
      BY <1>4, <3>3 DEF Machines
    <3> HIDE DEF offset, late
    <3>6. addr \in Int
      BY <1>5, <3>2, <3>4, <3>5
    <3>7. x = y
      BY <1>4, <3>3 DEF Machines
    <3> HIDE DEF addr
    <3>8. SetPc(k, addr) = SetPc(w, addr)
      BY <3>7, Zenon DEF SetPc
    <3> DEFINE z == SetPc(w, addr)
    <3>9. z = SetPc(w, addr) /\ q = z
      BY <3>1, <3>8
    <3> HIDE DEF z
    <3>10. Moved(m, i, w, z)
      BY <2>4, <3>6, <3>9, SetPcLeaves
    <3> QED BY <3>9, <3>10 DEF Moved
  <2>6. Leaves(m, i, r) \/ r = m
    BY <1>1, <1>8, <2>4, <2>5
  <2> QED BY <1>0, <1>7, <2>6, UnfinishedDone
<1>9. CASE ~Accessible(p, i["dst"], Word)
  <2>1. r = m \/ r = Fail(p)
    BY <1>1, <1>9
  <2> QED BY <1>0, <1>6, <1>7, <2>1, UnfinishedDone DEF ReadsOne
<1> QED BY <1>8, <1>9

(* EXG, LINK and UNLK write any address register: the account asks nothing *)
(* of them.                                                                *)
LEMMA AllWritten ==
    ASSUME NEW m, NEW i, i.kind \in {"Exg", "Link", "Unlink"}, NEW x
    PROVE  Along(m, i, x)
BY DEF Along, Writes

(* What is popped off the stack is a value of the size.                    *)
LEMMA PoppedIn ==
    ASSUME EightBits, NEW D, NEW x \in Machines(D), NEW size \in Sizes, CanPop(x, size)
    PROVE  Popped(x, size) \in Values(size) /\ Popped(x, size) \in Int
<1> DEFINE sp == stack_ptr(x)
<1>1. sp \in Int
  BY StackPtrIn, ValuesWiden
<1>2. \A b \in sp .. sp + size - 1 : b \in DOMAIN x.mem
  BY DEF CanPop, Mapped
<1>3. \A b \in DOMAIN x.mem : x.mem[b] \in Values(Byte)
  BY DEF Machines
<1>4. Popped(x, size) = Fetch(x, sp, size)
  BY DEF Popped
<1> HIDE DEF sp
<1>5. Popped(x, size) \in Values(size)
  BY <1>1, <1>2, <1>3, <1>4, FetchIn
<1> QED BY <1>5, ValuesAreInts

(* Moving the stack pointer keeps the account of an instruction that       *)
(* writes it.                                                              *)
LEMMA StackLeaves ==
    ASSUME EightBits, NEW m, NEW i, Writes(i, 7), NEW x, Leaves(m, i, x), NEW v \in Int, NEW r, r = SetStackPtr(x, v)
    PROVE  Moved(m, i, x, r) /\ r.pc = x.pc /\ r.garbage = x.garbage
<1>1. x \in Machines(DOMAIN m.mem)
  BY DEF Leaves
<1>2. r \in Machines(DOMAIN m.mem)
  BY <1>1, SetStackPtrIn
<1>3. /\ r.a = x.a /\ r.sr = x.sr /\ r.d = x.d /\ r.pc = x.pc /\ r.garbage = x.garbage
      /\ r.decremented = x.decremented /\ r.incremented = x.incremented
  BY <1>1 DEF Machines, SetStackPtr
<1>4. Along(m, i, r)
  BY <1>3, QuietBelow DEF Leaves
<1> QED BY <1>2, <1>3, <1>4 DEF Leaves, Moved, Predecremented

(* LINK has a result an instruction may have.                              *)
LEMMA LinkDone ==
    ASSUME EightBits, NEW D, NEW m \in Machines(D), NEW i, WellFormed(i), Fresh(m, i), i.kind = "Link",
           NEW r, r = ExecLink(m, i)
    PROVE  Result(m, i, r)
<1> DEFINE p == try_decrement_address(m, i, "dst")
           d == OperandValue(p, i["dst"], Long)
           v == IF i["dst"].index = 7 THEN d - 4 ELSE d
           pushed == push_stack(p, Long, v)
           framed == Write(pushed, i, "dst", Long, stack_ptr(pushed))
           sp == stack_ptr(framed) + Signed(i.data, Word)
<1>0. "dst" \in DOMAIN i /\ "dst" \in Roles /\ "src" \notin DOMAIN i /\ Long \in Sizes /\ Word \in Sizes /\ Writes(i, 7)
  BY Operands DEF UsesSrc, UsesDst, UsesBoth, Roles, Shifts, BinaryKinds, AddressKinds, QuickKinds,
                  ExtendKinds, UnaryKinds, BitKinds, ToCcrKinds, ToSrKinds, Sizes, Writes
<1>1. r = IF Accessible(p, i["dst"], Long) THEN SetStackPtr(framed, sp) ELSE Fail(p)
  BY Zenon DEF ExecLink, Read
<1>2. i["dst"].kind = "AddressRegister"
  BY DEF WellFormed, OperandsFit
<1>3. p = try_decrement_address(m, i, "dst") /\ pushed = push_stack(p, Long, v)
      /\ framed = Write(pushed, i, "dst", Long, stack_ptr(pushed))
  OBVIOUS
<1> HIDE DEF p, pushed, framed
<1>4. ReadsOne(m, i, "dst", p)
  BY <1>0, <1>3, ReadOne
<1>5. CASE Accessible(p, i["dst"], Long)
  <2>1. d \in Int /\ p \in Machines(D) /\ D = DOMAIN m.mem /\ p.d = m.d /\ p.sr = m.sr
    BY <1>0, <1>4, <1>5 DEF ReadsOne, Untouched, Beside, Machines
  <2> HIDE DEF d
  <2>2. v \in Int
    BY <2>1
  <2> HIDE DEF v
  <2>3. Pushed(D, pushed, p)
    BY <1>0, <1>3, <2>1, <2>2, PushIn
  <2>4. pushed \in Machines(D) /\ Along(m, i, pushed)
    BY <2>3, AllWritten DEF Pushed
  <2>5. stack_ptr(pushed) \in Int
    BY <2>4, StackPtrIn, ValuesWiden
  <2>6. Wrote(m, i, "dst", pushed, framed)
    <3> DEFINE z == stack_ptr(pushed)
    <3>1. z \in Int /\ framed = Write(pushed, i, "dst", Long, z)
      BY <1>3, <2>5
    <3> HIDE DEF z
    <3> QED BY <1>0, <2>4, <3>1, Writing
  <2>7. Leaves(m, i, framed) /\ framed.d = m.d /\ framed.sr = m.sr
    BY <1>0, <1>2, <2>1, <2>3, <2>6 DEF Wrote, Leaves, Predecremented, Roles, Pushed
  <2>8. sp \in Int
    <3>1. framed \in Machines(D)
      BY <2>1, <2>7 DEF Leaves
    <3>2. stack_ptr(framed) \in Int
      BY <3>1, StackPtrIn, ValuesWiden
    <3>3. i.data \in Int
      BY DataIn DEF UsesData
    <3>4. Signed(i.data, Word) \in Int
      BY <1>0, <3>3, SignedIn
    <3> QED BY <3>2, <3>4
  <2> HIDE DEF sp
  <2>9. r = SetStackPtr(framed, sp)
    BY <1>1, <1>5
  <2>10. Moved(m, i, framed, r)
    BY <1>0, <2>7, <2>8, <2>9, StackLeaves
  <2> QED BY <2>7, <2>10, Alike DEF Moved
<1> QED BY <1>1, <1>4, <1>5 DEF ReadsOne

(* UNLK has a result an instruction may have.                              *)
LEMMA UnlinkDone ==
    ASSUME EightBits, NEW D, NEW m \in Machines(D), NEW i, WellFormed(i), Fresh(m, i), i.kind = "Unlink",
           NEW r, r = ExecUnlink(m, i)
    PROVE  Result(m, i, r)
<1> DEFINE p == try_decrement_address(m, i, "dst")
           d == OperandValue(p, i["dst"], Long)
           q == SetStackPtr(p, d)
           k == DropStack(q, Long)
           v == Popped(q, Long)
           w == Write(k, i, "dst", Long, v)
<1>0. "dst" \in DOMAIN i /\ "dst" \in Roles /\ "src" \notin DOMAIN i /\ Long \in Sizes /\ Writes(i, 7)
  BY Operands DEF UsesSrc, UsesDst, UsesBoth, Roles, Shifts, BinaryKinds, AddressKinds, QuickKinds,
                  ExtendKinds, UnaryKinds, BitKinds, ToCcrKinds, ToSrKinds, Sizes, Writes
<1>1. r = IF Accessible(p, i["dst"], Long) THEN IF CanPop(q, Long) THEN w ELSE Fail(q) ELSE Fail(p)
  BY Zenon DEF ExecUnlink, Read
<1>2. i["dst"].kind = "AddressRegister"
  BY DEF WellFormed, OperandsFit
<1>3. /\ p = try_decrement_address(m, i, "dst") /\ q = SetStackPtr(p, d)
      /\ k = SetStackPtr(q, stack_ptr(q) + Long) /\ w = Write(k, i, "dst", Long, v)
  BY DEF DropStack
<1> HIDE DEF p, q, k, w
<1>4. ReadsOne(m, i, "dst", p)
  BY <1>0, <1>3, ReadOne
<1>5. CASE Accessible(p, i["dst"], Long)
  <2>1. d \in Int /\ p \in Machines(D) /\ D = DOMAIN m.mem /\ p.d = m.d /\ p.sr = m.sr
    BY <1>0, <1>4, <1>5 DEF ReadsOne, Untouched, Beside, Machines
  <2> HIDE DEF d
  <2>2. Leaves(m, i, p)
    BY <1>0, <1>2, <2>1, AllWritten DEF Leaves, Predecremented, Roles
  <2>3. Moved(m, i, p, q)
    BY <1>0, <1>3, <2>1, <2>2, StackLeaves
  <2>4. q \in Machines(D) /\ Leaves(m, i, q)
    BY <2>1, <2>3 DEF Moved, Leaves
  <2>5. Moved(m, i, q, Fail(q))
    BY <2>4, FailLeaves
  <2>6. CASE CanPop(q, Long)
    <3>1. v \in Int
      BY <1>0, <2>4, <2>6, PoppedIn
    <3> HIDE DEF v
    <3>2. stack_ptr(q) + Long \in Int
      <4>1. stack_ptr(q) \in Int
        BY <2>4, StackPtrIn, ValuesWiden
      <4> QED BY <4>1 DEF Long
    <3>3. Moved(m, i, q, k)
      <4> DEFINE z == stack_ptr(q) + Long
      <4>1. z \in Int /\ k = SetStackPtr(q, z)
        BY <1>3, <3>2
      <4> HIDE DEF z
      <4> QED BY <1>0, <2>4, <4>1, StackLeaves
    <3>4. k \in Machines(D) /\ Along(m, i, k)
      BY <2>1, <3>3 DEF Moved, Leaves
    <3>5. Wrote(m, i, "dst", k, w)
      BY <1>0, <1>3, <3>1, <3>4, Writing
    <3>6. Leaves(m, i, w) /\ w.d = m.d /\ w.sr = m.sr
      BY <1>0, <1>2, <2>1, <2>3, <3>3, <3>5 DEF Wrote, Leaves, Predecremented, Roles, Moved
    <3> QED BY <1>1, <1>5, <2>6, <3>6, Alike
  <2>7. CASE ~CanPop(q, Long)
    <3>1. r = Fail(q)
      BY <1>1, <1>5, <2>7
    <3> QED BY <2>1, <2>3, <2>5, <3>1, Alike DEF Moved
  <2> QED BY <2>6, <2>7
<1> QED BY <1>1, <1>4, <1>5 DEF ReadsOne

(* EXG has a result an instruction may have.                               *)
LEMMA ExgDone ==
    ASSUME EightBits, NEW D, NEW m \in Machines(D), NEW i, WellFormed(i), Fresh(m, i), i.kind = "Exg",
           NEW r, r = ExecExg(m, i)
    PROVE  Result(m, i, r)
<1> DEFINE p == try_decrement_address(m, i, "src")
           s == OperandValue(p, i["src"], Long)
           q == try_decrement_address(p, i, "dst")
           d == OperandValue(q, i["dst"], Long)
           w == Write(q, i, "dst", Long, s)
<1>0. Roles \subseteq DOMAIN i /\ "src" \in Roles \cap DOMAIN i /\ "dst" \in Roles \cap DOMAIN i /\ Long \in Sizes
  BY Operands DEF UsesSrc, UsesDst, UsesBoth, Roles, Shifts, Sizes
<1>1. r = IF ~Accessible(p, i["src"], Long) THEN Fail(p)
          ELSE IF ~Accessible(q, i["dst"], Long) THEN Fail(q) ELSE Write(w, i, "src", Long, d)
  BY Zenon DEF ExecExg, Read
<1>2. IsRegister(i["src"]) /\ IsRegister(i["dst"])
  BY DEF WellFormed, OperandsFit
<1>3. p = try_decrement_address(m, i, "src") /\ q = try_decrement_address(p, i, "dst") /\ w = Write(q, i, "dst", Long, s)
  OBVIOUS
<1> HIDE DEF p, q, w
<1>4. ReadsTwo(m, i, p, q)
  BY <1>0, <1>3, ReadTwo
<1>5. CASE Accessible(p, i["src"], Long) /\ Accessible(q, i["dst"], Long)
  <2>1. s \in Int /\ d \in Int
    BY <1>0, <1>4, <1>5 DEF ReadsTwo
  <2>2. q \in Machines(D) /\ D = DOMAIN m.mem /\ Ok(q) /\ Along(m, i, q)
    BY <1>4 DEF ReadsTwo, Untouched, Machines
  <2> HIDE DEF s, d
  <2>3. Wrote(m, i, "dst", q, w)
    BY <1>0, <1>3, <2>1, <2>2, Writing
  <2>4. w \in Machines(D) /\ Along(m, i, w) /\ Ok(w)
    BY <1>2, <2>2, <2>3 DEF Wrote, Ok
  <2>5. r = Write(w, i, "src", Long, d)
    BY <1>1, <1>5
  <2>6. Wrote(m, i, "src", w, r)
    BY <1>0, <2>1, <2>4, <2>5, Writing
  <2>7. Leaves(m, i, r) /\ r.status # "error"
    <3>1. r.status = w.status
      BY <1>2, <2>6 DEF Wrote
    <3> QED BY <1>2, <2>4, <2>6, <3>1 DEF Wrote, Leaves, Predecremented, Roles, IsRegister, Ok
  <2> QED BY <2>7, LeavesWell
<1> QED BY <1>1, <1>4, <1>5 DEF ReadsTwo

(* RTE, RTR and RTS have a result an instruction may have, whatever of the *)
(* frame can be popped.                                                    *)
LEMMA ReturnDone ==
    ASSUME EightBits, NEW D, NEW m \in Machines(D), NEW i, WellFormed(i), Fresh(m, i), i.kind \in {"Rte", "Rtr", "Rts"},
           NEW r, r = ExecReturn(m, i)
    PROVE  Result(m, i, r)
<1> DEFINE word == IF CanPop(m, Word) THEN Popped(m, Word) ELSE m.garbage
           spWord == stack_ptr(m) + Word
           dropped == SetStackPtr(m, spWord)
           p == IF i.kind # "Rts" /\ CanPop(m, Word) THEN dropped ELSE m
           spLong == stack_ptr(p) + Long
           k == SetStackPtr(p, spLong)
           pc == Popped(p, Long)
           j == [k EXCEPT !.pc = pc]
           q == IF CanPop(p, Long) THEN j ELSE p
           sr == CASE i.kind = "Rte" -> FromSrWord(q.sr, word)
                   [] i.kind = "Rtr" -> WithCcr(q.sr, word)
                   [] i.kind = "Rts" -> q.sr
           z == [q EXCEPT !.sr = sr]
           x == IF i.kind = "Rts" THEN q ELSE z
<1>0. Roles \cap DOMAIN i = {} /\ Writes(i, 7) /\ Long \in Sizes /\ Word \in Sizes /\ i.kind \in Unfinished
  BY Operands DEF UsesSrc, UsesDst, UsesBoth, Roles, Shifts, BinaryKinds, AddressKinds, QuickKinds, Unfinished,
                  ExtendKinds, UnaryKinds, BitKinds, ToCcrKinds, ToSrKinds, Sizes, Writes
<1>1. r = SetPc(x, q.pc)
  <2>1. CASE i.kind = "Rte"
    BY <2>1, Zenon DEF ExecReturn, DropStack
  <2>2. CASE i.kind = "Rtr"
    BY <2>2, Zenon DEF ExecReturn, DropStack
  <2>3. CASE i.kind = "Rts"
    BY <2>3, Zenon DEF ExecReturn, DropStack
  <2> QED BY <2>1, <2>2, <2>3
<1>2. Leaves(m, i, m) /\ D = DOMAIN m.mem
  BY <1>0, BeginsWell DEF Predecremented, Machines
<1>3. spWord \in Int
  <2>1. stack_ptr(m) \in Int
    BY StackPtrIn, ValuesWiden
  <2> QED BY <2>1 DEF Word
<1>4. word \in Int
  <2>1. CASE CanPop(m, Word)
    BY <1>0, <2>1, PoppedIn
  <2>2. CASE ~CanPop(m, Word)
    <3>1. m.garbage \in Values(Word)
      BY DEF Machines
    <3> QED BY <2>2, <3>1, ValuesWiden
  <2> QED BY <2>1, <2>2
<1>5. dropped = SetStackPtr(m, spWord)
  OBVIOUS
<1> HIDE DEF word, spWord, dropped
<1>6. Moved(m, i, m, dropped)
  <2> DEFINE y == m
  <2>1. y = m
    OBVIOUS
  <2> HIDE DEF y
  <2>2. Leaves(m, i, y) /\ dropped = SetStackPtr(y, spWord)
    BY <1>2, <1>5, <2>1
  <2>3. Moved(m, i, y, dropped)
    BY <1>0, <1>3, <2>2, StackLeaves
  <2> QED BY <2>1, <2>3
<1>7. Leaves(m, i, p)
  BY <1>2, <1>6 DEF Moved
<1>8. p \in Machines(D)
  BY <1>2, <1>7 DEF Leaves
<1>9. k = SetStackPtr(p, spLong) /\ j = [k EXCEPT !.pc = pc]
  OBVIOUS
<1> HIDE DEF p
<1>10. spLong \in Int
  <2>1. stack_ptr(p) \in Int
    BY <1>8, StackPtrIn, ValuesWiden
  <2> QED BY <2>1 DEF Long
<1> HIDE DEF spLong, k, j
<1>11. Leaves(m, i, k)
  BY <1>0, <1>7, <1>9, <1>10, StackLeaves DEF Moved
<1>12. Leaves(m, i, q)
  <2>1. CASE CanPop(p, Long)
    <3>1. pc \in Values(Long)
      BY <1>0, <1>8, <2>1, PoppedIn
    <3> HIDE DEF pc
    <3>2. Leaves(m, i, j)
      BY <1>9, <1>11, <3>1, PcLeaves DEF Moved
    <3> QED BY <2>1, <3>2
  <2>2. CASE ~CanPop(p, Long)
    BY <1>7, <2>2
  <2> QED BY <2>1, <2>2
<1> HIDE DEF q
<1>13. q \in Machines(D) /\ q.sr \in StatusRegisters
  BY <1>2, <1>12 DEF Leaves, Machines
<1>14. sr \in StatusRegisters
  <2>1. FromSrWord(q.sr, word) \in StatusRegisters
    BY <1>4, <1>13, FromSrWordIn
  <2>2. WithCcr(q.sr, word) \in StatusRegisters
    BY <1>4, <1>13, WithCcrIn DEF NewFlags
  <2> QED BY <1>13, <2>1, <2>2
<1>15. z = [q EXCEPT !.sr = sr]
  OBVIOUS
<1> HIDE DEF sr, z
<1>16. Leaves(m, i, z)
  BY <1>0, <1>12, <1>14, <1>15, LeftFlags
<1>17. Leaves(m, i, x)
  BY <1>12, <1>16
<1>18. q.pc \in Int
  <2>1. q.pc \in Values(Long)
    BY <1>13 DEF Machines
  <2> QED BY <2>1, ValuesWiden
<1> HIDE DEF x
<1>19. Leaves(m, i, r)
  <2> DEFINE addr == q.pc
  <2>1. addr \in Int /\ r = SetPc(x, addr)
    BY <1>1, <1>18
  <2> HIDE DEF addr
  <2> QED BY <1>17, <2>1, SetPcLeaves DEF Moved
<1> QED BY <1>0, <1>19, UnfinishedDone

(* MOVEM's list is a finite set.                                           *)
LEMMA Registers16 ==
    ASSUME NEW list, list \subseteq 0 .. 15
    PROVE  IsFiniteSet(list) /\ Cardinality(list) \in Nat
<1>1. IsFiniteSet(0 .. 15)
  <2>1. 0 \in Int /\ 15 \in Int
    OBVIOUS
  <2> QED BY <2>1, FS_Interval
<1> QED BY <1>1, FS_Subset, FS_CardinalityType

(* The place of a register in MOVEM's list is below the length of the      *)
(* list.                                                                   *)
LEMMA RankBelow ==
    ASSUME NEW list, list \subseteq 0 .. 15, NEW r \in list
    PROVE  Rank(r, list) \in 0 .. Cardinality(list) - 1
<1> DEFINE below == {q \in list : q < r}
           rest == list \ {r}
<1>1. IsFiniteSet(list) /\ Cardinality(list) \in Nat
  BY Registers16
<1>2. below \subseteq 0 .. 15 /\ rest \subseteq 0 .. 15 /\ below \subseteq rest
  <2>1. \A q \in list : q < r => q # r
    OBVIOUS
  <2> QED BY <2>1
<1>3. Cardinality(below) \in Nat /\ IsFiniteSet(rest)
  BY <1>2, Registers16
<1>4. Cardinality(rest) = Cardinality(list) - 1
  BY <1>1, FS_RemoveElement
<1>5. Cardinality(below) <= Cardinality(rest)
  BY <1>2, <1>3, FS_Subset
<1>6. Rank(r, list) = Cardinality(below)
  BY DEF Rank
<1> HIDE DEF below, rest
<1> QED BY <1>1, <1>3, <1>4, <1>5, <1>6

(* Every place below the length of MOVEM's list is a register's.           *)
LEMMA RankTaken ==
    ASSUME NEW list, list \subseteq 0 .. 15, NEW k \in Nat, k < Cardinality(list)
    PROVE  \E q \in list : Rank(q, list) = k
<1> DEFINE Under(a) == {q \in list : q < a}
           F(a) == Cardinality(Under(a))
           More == {a \in 0 .. 16 : F(a) > k}
<1>0. \A q \in list : q \in Int /\ 0 <= q /\ q <= 15
  OBVIOUS
<1>1. ASSUME NEW a \in 0 .. 16 PROVE F(a) \in Nat /\ IsFiniteSet(Under(a))
  <2>1. Under(a) \subseteq 0 .. 15
    OBVIOUS
  <2> QED BY <2>1, Registers16
<1>2. F(0) = 0
  <2>1. ASSUME NEW q \in list PROVE ~(q < 0)
    BY <1>0
  <2>2. Under(0) = {}
    BY <2>1, Zenon
  <2> QED BY <2>2, FS_EmptySet
<1>3. F(16) = Cardinality(list)
  <2>1. ASSUME NEW q \in list PROVE q < 16
    BY <1>0
  <2>2. Under(16) = list
    BY <2>1, Zenon
  <2> QED BY <2>2
<1>4. More # {} /\ More \subseteq Nat
  <2>1. 16 \in 0 .. 16 /\ F(16) > k
    BY <1>3
  <2> HIDE DEF F
  <2>2. 16 \in More
    BY <2>1
  <2> QED BY <2>2
<1> HIDE DEF More
<1>5. PICK a \in More : \A b \in More : a <= b
  BY <1>4, LeastNumber
<1> USE DEF More
<1>6. a \in 0 .. 16 /\ F(a) > k /\ a # 0
  <2>1. a \in 0 .. 16 /\ F(a) > k
    BY <1>5
  <2>2. ~(0 > k)
    OBVIOUS
  <2> QED BY <1>2, <2>1, <2>2
<1>7. a - 1 \in 0 .. 15 /\ a - 1 \in 0 .. 16 /\ ~(F(a - 1) > k)
  <2>1. a - 1 \in 0 .. 15 /\ a - 1 \in 0 .. 16 /\ ~(a <= a - 1)
    BY <1>6
  <2> HIDE DEF F
  <2> QED BY <1>5, <2>1
<1>8. F(a - 1) \in Nat /\ F(a - 1) <= k /\ F(a) \in Nat
  <2>1. F(a - 1) \in Nat /\ F(a) \in Nat
    BY <1>1, <1>6, <1>7
  <2> HIDE DEF F
  <2> QED BY <1>7, <2>1
<1>9. a - 1 \in list
  <2> SUFFICES ASSUME a - 1 \notin list PROVE FALSE
    OBVIOUS
  <2>1. ASSUME NEW q \in list PROVE q < a <=> q < a - 1
    <3>1. q \in Int /\ q # a - 1 /\ a \in Int
      BY <1>0, <1>6
    <3> QED BY <3>1
  <2>2. Under(a) = Under(a - 1)
    BY <2>1
  <2>3. F(a) = F(a - 1)
    BY <2>2
  <2> HIDE DEF F
  <2> QED BY <1>6, <1>7, <2>3
<1>10. F(a) = F(a - 1) + 1
  <2>1. ASSUME NEW q \in list PROVE q < a <=> q < a - 1 \/ q = a - 1
    <3>1. q \in Int /\ a \in Int
      BY <1>0, <1>6
    <3> QED BY <3>1
  <2>2. Under(a) = Under(a - 1) \cup {a - 1}
    BY <1>9, <2>1
  <2>3. a - 1 \notin Under(a - 1)
    BY <1>7
  <2>4. IsFiniteSet(Under(a - 1))
    BY <1>1, <1>7
  <2> HIDE DEF Under
  <2> QED BY <2>2, <2>3, <2>4, FS_AddElement
<1>11. Rank(a - 1, list) = F(a - 1)
  BY DEF Rank
<1> HIDE DEF F
<1>12. F(a - 1) = k
  BY <1>6, <1>8, <1>10
<1> QED BY <1>9, <1>11, <1>12

(* The reversed list of a predecrementing MOVEM is as long as the list.    *)
LEMMA Reversed ==
    ASSUME NEW list, list \subseteq 0 .. 15, NEW back, back = {15 - b : b \in list}
    PROVE  back \subseteq 0 .. 15 /\ Cardinality(back) = Cardinality(list)
<1> DEFINE f == [b \in list |-> 15 - b]
<1>1. f \in [list -> back]
  OBVIOUS
<1>2. \A b, c \in list : f[b] = f[c] => b = c
  OBVIOUS
<1>3. \A r \in back : \E b \in list : f[b] = r
  OBVIOUS
<1>4. f \in Injection(list, back)
  BY <1>1, <1>2 DEF Injection, IsInjective
<1>5. f \in Surjection(list, back)
  BY <1>1, <1>3 DEF Surjection
<1>6. IsFiniteSet(list)
  BY Registers16
<1>7. Cardinality(back) = Cardinality(list)
  BY <1>4, <1>5, <1>6, FS_Surjection
<1> QED BY <1>7

(* A store into memory disturbs nothing else.                              *)
LEMMA StoreLeaves ==
    ASSUME EightBits, NEW m, NEW i, NEW x, Leaves(m, i, x), NEW addr \in Int, NEW size \in Sizes, NEW v \in Int,
           Mapped(x, addr, size), NEW r, r = Put(x, addr, size, v)
    PROVE  Moved(m, i, x, r) /\ r.status = x.status
<1>1. x \in Machines(DOMAIN m.mem)
  BY DEF Leaves
<1>2. Pushed(DOMAIN m.mem, r, x) /\ r.usp = x.usp /\ r.ssp = x.ssp
  BY <1>1, PutIn
<1>3. r.a = x.a /\ stack_ptr(r) = stack_ptr(x) /\ r.decremented = x.decremented /\ r.incremented = x.incremented
  BY <1>2 DEF Pushed, stack_ptr
<1>4. Along(m, i, r)
  BY <1>3, Quiet DEF Leaves
<1> QED BY <1>2, <1>4 DEF Leaves, Moved, Pushed, Predecremented

(* The same of a write that may be refused.                                *)
LEMMA StoreOrFailLeaves ==
    ASSUME EightBits, NEW m, NEW i, NEW x, Leaves(m, i, x), NEW addr \in Int, NEW size \in Sizes, NEW v \in Int,
           NEW r, r = PutOrFail(x, addr, size, v)
    PROVE  Moved(m, i, x, r)
<1>1. CASE Mapped(x, addr, size)
  <2>1. r = Put(x, addr, size, v)
    BY <1>1 DEF PutOrFail
  <2> QED BY <1>1, <2>1, StoreLeaves
<1>2. CASE ~Mapped(x, addr, size)
  <2>1. r = Fail(x)
    BY <1>2 DEF PutOrFail
  <2> QED BY <2>1, FailLeaves
<1> QED BY <1>1, <1>2

(* What a MOVEM has: a list, a word or long size and one memory operand.   *)
LEMMA MovemIs ==
    ASSUME EightBits, NEW i, WellFormed(i), i.kind = "Movem"
    PROVE  /\ i.list \subseteq 0 .. 15 /\ i.size \in {Word, Long} /\ i.size \in Sizes /\ RegisterCount(i) \in Nat
           /\ "src" \in DOMAIN i => /\ "dst" \notin DOMAIN i /\ i["src"] \in Targets
                                    /\ IsMemory(i["src"]) /\ i["src"].kind # "AddressDecrement"
           /\ "src" \notin DOMAIN i => /\ "dst" \in DOMAIN i /\ i["dst"] \in Targets
                                       /\ IsMemory(i["dst"]) /\ i["dst"].kind # "AddressIncrement"
<1>1. i.list \subseteq 0 .. 15
  BY DEF WellFormed, OperandsFit
<1>2. i.size \in {Word, Long} /\ i.size \in Sizes
  BY DEF WellFormed, UsesSize, SizesOf, AddressKinds, Sizes
<1>3. RegisterCount(i) \in Nat
  BY <1>1, Registers16 DEF RegisterCount
<1>4. Roles \cap DOMAIN i \in {{"src"}, {"dst"}}
  BY DEF WellFormed, OperandsUsed
<1>5. "src" \in DOMAIN i => "dst" \notin DOMAIN i /\ i["src"] \in Targets
  BY <1>4 DEF Roles, WellFormed
<1>6. "src" \notin DOMAIN i => "dst" \in DOMAIN i /\ i["dst"] \in Targets
  BY <1>4 DEF Roles, WellFormed
<1>7. "src" \in DOMAIN i => IsMemory(i["src"]) /\ i["src"].kind # "AddressDecrement"
  BY DEF WellFormed, OperandsFit
<1>8. "dst" \in DOMAIN i => IsMemory(i["dst"]) /\ i["dst"].kind # "AddressIncrement"
  BY DEF WellFormed, OperandsFit
<1> QED BY <1>1, <1>2, <1>3, <1>5, <1>6, <1>7, <1>8

(* Every register's piece of MOVEM's memory is mapped when the whole is.   *)
LEMMA PieceMapped ==
    ASSUME NEW addr \in Int, NEW size \in {Word, Long}, NEW n \in Nat, NEW k \in 0 .. n - 1, NEW x, NEW p,
           DOMAIN x.mem = DOMAIN p.mem, Mapped(p, addr, size * n)
    PROVE  addr + size * k \in Int /\ Mapped(x, addr + size * k, size)
<1>1. CASE size = Word
  BY <1>1 DEF Mapped, Word
<1>2. CASE size = Long
  BY <1>2 DEF Mapped, Long
<1> QED BY <1>1, <1>2

(* A storing MOVEM has a result an instruction may have.                   *)
LEMMA MovemStoreDone ==
    ASSUME EightBits, NEW D, NEW m \in Machines(D), NEW i, WellFormed(i), Fresh(m, i), i.kind = "Movem",
           "src" \notin DOMAIN i, NEW r, r = MovemStore(m, i)
    PROVE  Result(m, i, r)
<1> DEFINE list == IF i["dst"].kind = "AddressDecrement" THEN {15 - b : b \in i.list} ELSE i.list
           n == RegisterCount(i)
           size == i.size
           p == try_decrement_address(m, i, "dst")
           addr == effective_address(p, i["dst"])
           value(k) == get_reg(m, CHOOSE q \in list : Rank(q, list) = k - 1)
           Defines(f) == f = [k \in 0 .. n |-> IF k = 0 THEN p ELSE Put(f[k - 1], addr + size * (k - 1), size, value(k))]
           u == CHOOSE f : Defines(f)
           S == {x \in Machines(D) : Leaves(m, i, x) /\ x.d = m.d /\ x.sr = m.sr}
           G == [z \in (1 .. n) \X S |-> Put(z[2], addr + size * (z[1] - 1), size, value(z[1]))]
<1>1. r = IF Mapped(p, addr, size * n) THEN u[n] ELSE Fail(p)
  BY Zenon DEF MovemStore
<1>2. /\ i.list \subseteq 0 .. 15 /\ size \in {Word, Long} /\ size \in Sizes /\ n \in Nat
      /\ "dst" \in DOMAIN i /\ i["dst"] \in Targets /\ IsMemory(i["dst"])
  BY MovemIs
<1>3. list \subseteq 0 .. 15 /\ Cardinality(list) = n
  <2> DEFINE back == {15 - b : b \in i.list}
  <2>1. back = {15 - b : b \in i.list}
    OBVIOUS
  <2> HIDE DEF back
  <2>2. back \subseteq 0 .. 15 /\ Cardinality(back) = Cardinality(i.list)
    BY <1>2, <2>1, Reversed
  <2>3. list = IF i["dst"].kind = "AddressDecrement" THEN back ELSE i.list
    BY <2>1
  <2> HIDE DEF list
  <2> QED BY <1>2, <2>2, <2>3 DEF RegisterCount
<1>4. ASSUME NEW k \in 1 .. n PROVE value(k) \in Int
  <2>1. k - 1 \in Nat /\ k - 1 < Cardinality(list)
    BY <1>2, <1>3
  <2> DEFINE q == CHOOSE q \in list : Rank(q, list) = k - 1
  <2>2. q \in list
    BY <1>3, <2>1, RankTaken
  <2>3. q \in 0 .. 15
    BY <1>3, <2>2
  <2> HIDE DEF q
  <2>4. get_reg(m, q) \in Values(Long)
    <3>1. CASE q < 8
      BY <2>3, <3>1, RegisterIn DEF get_reg
    <3>2. CASE ~(q < 8)
      <4>1. q - 8 \in 0 .. 7
        BY <2>3, <3>2
      <4> QED BY <3>2, <4>1, RegisterIn DEF get_reg
    <3> QED BY <3>1, <3>2
  <2>5. get_reg(m, q) \in Int
    BY <2>4, ValuesWiden
  <2> QED BY <2>5 DEF q
<1>5. p = try_decrement_address(m, i, "dst") /\ "dst" \in Roles /\ D = DOMAIN m.mem
  BY DEF Roles, Machines
<1> HIDE DEF list, value, p, u, n, size
<1>6. ReadsOne(m, i, "dst", p)
  BY <1>2, <1>5, ReadOne
<1>7. Leaves(m, i, p) /\ p.d = m.d /\ p.sr = m.sr /\ p \in Machines(D)
  BY <1>2, <1>5, <1>6, MovemIs DEF ReadsOne, Untouched, Beside, Leaves, Predecremented, Roles
<1>8. addr \in Int
  BY <1>2, <1>7, AddressIn, ValuesWiden
<1> HIDE DEF addr
<1>9. CASE Mapped(p, addr, size * n)
  <2>1. p \in S
    BY <1>7
  <2>2. ASSUME NEW k \in 1 .. n, NEW x \in S, NEW y, y = Put(x, addr + size * (k - 1), size, value(k))
        PROVE  y \in S
    <3> DEFINE v == value(k)
               at == addr + size * (k - 1)
    <3>1. k - 1 \in 0 .. n - 1 /\ DOMAIN x.mem = DOMAIN p.mem
      BY <1>2, <1>7 DEF Machines
    <3>2. at \in Int /\ Mapped(x, at, size)
      BY <1>2, <1>8, <1>9, <3>1, PieceMapped
    <3>3. v \in Int /\ y = Put(x, at, size, v)
      BY <1>4, <2>2
    <3>4. Leaves(m, i, x) /\ x.d = m.d /\ x.sr = m.sr
      OBVIOUS
    <3> HIDE DEF v, at
    <3>5. Moved(m, i, x, y)
      BY <1>2, <3>2, <3>3, <3>4, StoreLeaves
    <3>6. y \in Machines(D)
      BY <1>5, <3>5 DEF Moved, Leaves
    <3> QED BY <3>4, <3>5, <3>6 DEF Moved
  <2>3. Steps(G, n, S)
    <3>1. ASSUME NEW z \in (1 .. n) \X S PROVE Put(z[2], addr + size * (z[1] - 1), size, value(z[1])) \in S
      <4>1. z[1] \in 1 .. n /\ z[2] \in S
        OBVIOUS
      <4> HIDE DEF S
      <4> QED BY <2>2, <4>1
    <3> HIDE DEF S
    <3> QED BY <3>1 DEF Steps
  <2> HIDE DEF S
  <2>4. ASSUME NEW k \in 1 .. n, NEW x \in S PROVE G[<<k, x>>] = Put(x, addr + size * (k - 1), size, value(k))
    <3>1. <<k, x>> \in (1 .. n) \X S
      OBVIOUS
    <3> QED BY <3>1
  <2> HIDE DEF G
  <2>5. PICK f \in [0 .. n -> S] : f[0] = p /\ \A k \in 1 .. n : f[k] = G[<<k, f[k - 1]>>]
    <3>1. \E f : Recurs(f, p, G, n, S)
      BY <1>2, <2>1, <2>3, Recursion
    <3> QED BY <3>1 DEF Recurs
  <2>6. ASSUME NEW k \in 1 .. n PROVE f[k] = Put(f[k - 1], addr + size * (k - 1), size, value(k))
    <3>1. f[k - 1] \in S
      BY <1>2
    <3> QED BY <2>4, <2>5, <3>1
  <2>7. Defines(f)
    <3>1. ASSUME NEW k \in 0 .. n
          PROVE f[k] = IF k = 0 THEN p ELSE Put(f[k - 1], addr + size * (k - 1), size, value(k))
      BY <1>2, <2>5, <2>6
    <3>2. f = [k \in 0 .. n |-> f[k]]
      OBVIOUS
    <3> QED BY <3>1, <3>2
  <2>8. Defines(u)
    BY <2>7 DEF u
  <2>9. u[0] = p
    BY <1>2, <2>8
  <2>10. ASSUME NEW k \in 1 .. n, u[k - 1] \in S PROVE u[k] \in S
    <3>1. u[k] = Put(u[k - 1], addr + size * (k - 1), size, value(k))
      BY <1>2, <2>8
    <3> QED BY <2>2, <2>10, <3>1
  <2>11. \A k \in 0 .. n : u[k] \in S
    BY <1>2, <2>1, <2>9, <2>10, Stays
  <2>12. r \in S
    BY <1>1, <1>2, <1>9, <2>11
  <2> QED BY <2>12, Alike DEF S
<1> QED BY <1>1, <1>6, <1>9 DEF ReadsOne

(* A read of mapped memory gives a value of the size.                      *)
LEMMA MappedFetch ==
    ASSUME EightBits, NEW D, NEW x \in Machines(D), NEW addr \in Int, NEW size \in Sizes, Mapped(x, addr, size)
    PROVE  Fetch(x, addr, size) \in Values(size) /\ Fetch(x, addr, size) \in Int
<1>1. \A b \in addr .. addr + size - 1 : b \in DOMAIN x.mem
  BY DEF Mapped
<1>2. \A b \in DOMAIN x.mem : x.mem[b] \in Values(Byte)
  BY DEF Machines
<1>3. Fetch(x, addr, size) \in Values(size)
  BY <1>1, <1>2, FetchIn
<1> QED BY <1>3, ValuesAreInts

(* Every register MOVEM can name holds a long.                             *)
LEMMA GetRegIn ==
    ASSUME NEW D, NEW x \in Machines(D), NEW q \in 0 .. 15
    PROVE  get_reg(x, q) \in Values(Long)
<1>1. CASE q < 8
  BY <1>1, RegisterIn DEF get_reg
<1>2. CASE ~(q < 8)
  <2>1. q - 8 \in 0 .. 7
    BY <1>2
  <2> QED BY <1>2, <2>1, RegisterIn DEF get_reg
<1> QED BY <1>1, <1>2

(* Truncation to a long leaves a long alone.                               *)
LEMMA LowKeeps ==
    ASSUME EightBits, NEW v \in Values(Long)
    PROVE  Low(v, Long) = v
<1>1. v \in Int /\ 0 <= v /\ v < 4294967296
  BY InValues, SMT
<1> QED BY <1>1, SpanValues, SMT DEF Low

(* A loading MOVEM has a result an instruction may have.                   *)
LEMMA MovemLoadDone ==
    ASSUME EightBits, NEW D, NEW m \in Machines(D), NEW i, WellFormed(i), Fresh(m, i), i.kind = "Movem",
           "src" \in DOMAIN i, NEW r, r = MovemLoad(m, i)
    PROVE  Result(m, i, r)
<1> DEFINE list == i.list
           n == RegisterCount(i)
           size == i.size
           p == try_decrement_address(m, i, "src")
           addr == effective_address(p, i["src"])
           value(q) == Fetch(p, addr + size * Rank(q, list), size)
           word(q) == IF size = Word THEN Low(Signed(value(q), Word), Long) ELSE value(q)
           kept == IF i["src"].kind = "AddressIncrement" THEN {8 + i["src"].index} ELSE {}
           new(q) == IF q \in list \ kept THEN word(q) ELSE get_reg(p, q)
           k == SetStackPtr(p, new(15))
           d == [q \in 0 .. 7 |-> new(q)]
           a == [q \in 0 .. 6 |-> new(q + 8)]
           y == [k EXCEPT !.d = d, !.a = a]
<1>1. r = IF Mapped(p, addr, size * n) THEN y ELSE Fail(p)
  BY Zenon DEF MovemLoad
<1>2. /\ list \subseteq 0 .. 15 /\ size \in {Word, Long} /\ size \in Sizes /\ n \in Nat /\ n = Cardinality(list)
      /\ "dst" \notin DOMAIN i /\ i["src"] \in Targets /\ IsMemory(i["src"]) /\ i["src"].kind # "AddressDecrement"
  BY MovemIs DEF RegisterCount
<1>3. p = try_decrement_address(m, i, "src") /\ "src" \in Roles /\ D = DOMAIN m.mem
  BY DEF Roles, Machines
<1> HIDE DEF p
<1>4. ReadsOne(m, i, "src", p)
  BY <1>2, <1>3, ReadOne
<1>5. p \in Machines(D) /\ Along(m, i, p) /\ Ok(p) /\ p.decremented = {"src"}
  BY <1>3, <1>4 DEF ReadsOne, Untouched
<1>6. addr \in Int
  BY <1>2, <1>5, AddressIn, ValuesWiden
<1>7. k = SetStackPtr(p, new(15)) /\ y = [k EXCEPT !.d = d, !.a = a]
  OBVIOUS
<1> HIDE DEF addr, n, list, size, kept, k, y
<1>8. CASE Mapped(p, addr, size * n)
  <2>1. ASSUME NEW q \in 0 .. 15 PROVE new(q) \in Values(Long)
    <3>1. CASE q \in list \ kept
      <4> DEFINE e == Rank(q, list)
                 at == addr + size * e
      <4>1. e \in 0 .. n - 1
        BY <1>2, <3>1, RankBelow
      <4> HIDE DEF e
      <4>2. at \in Int /\ Mapped(p, at, size)
        BY <1>2, <1>6, <1>8, <4>1, PieceMapped
      <4>3. value(q) = Fetch(p, at, size)
        BY DEF e
      <4> HIDE DEF at, value
      <4>4. value(q) \in Values(size) /\ value(q) \in Int
        BY <1>2, <1>5, <4>2, <4>3, MappedFetch
      <4>5. Word \in Sizes
        BY DEF Sizes
      <4>6. Signed(value(q), Word) \in Int
        BY <4>4, <4>5, SignedIn
      <4>7. Low(Signed(value(q), Word), Long) \in Values(Long)
        BY <4>6, LowLong
      <4>8. size # Word => value(q) \in Values(Long)
        BY <1>2, <4>4
      <4> QED BY <3>1, <4>7, <4>8
    <3>2. CASE q \notin list \ kept
      <4>1. get_reg(p, q) \in Values(Long)
        BY <1>5, GetRegIn
      <4> QED BY <3>2, <4>1
    <3> QED BY <3>1, <3>2
  <2>2. ASSUME NEW e \in 0 .. 7, ~Writes(i, e) PROVE new(e + 8) = a_reg(p, e)
    <3>1. e + 8 \notin list \ kept
      <4> SUFFICES ASSUME e + 8 \in list PROVE e + 8 \in kept
        OBVIOUS
      <4>1. i["src"] = PostInc(e, i.size)
        BY <2>2, Zenon DEF Writes, list
      <4>2. i["src"].kind = "AddressIncrement" /\ i["src"].index = e
        BY <4>1 DEF PostInc
      <4>3. e + 8 = 8 + e
        OBVIOUS
      <4> QED BY <4>2, <4>3 DEF kept
    <3>2. get_reg(p, e + 8) = a_reg(p, e)
      <4>1. ~(e + 8 < 8) /\ (e + 8) - 8 = e
        OBVIOUS
      <4> QED BY <4>1 DEF get_reg
    <3> QED BY <3>1, <3>2
  <2> HIDE DEF new
  <2> DEFINE top == new(15)
  <2>3. 15 \in 0 .. 15 /\ top \in Values(Long) /\ top \in Int
    <3>1. top \in Values(Long)
      BY <2>1
    <3> QED BY <3>1, ValuesWiden
  <2>4. k = SetStackPtr(p, top)
    BY <1>7
  <2> HIDE DEF top
  <2>5. /\ k \in Machines(D) /\ stack_ptr(k) = Low(top, Long) /\ k.status = p.status
        /\ k.decremented = p.decremented /\ k.incremented = p.incremented
    <3>1. /\ k \in Machines(D) /\ stack_ptr(k) = Low(top, Long)
          /\ \A f \in DOMAIN p \ {"usp", "ssp"} : k[f] = p[f]
      BY <1>5, <2>3, <2>4, SetStackPtrIn
    <3>2. {"status", "decremented", "incremented"} \subseteq DOMAIN p \ {"usp", "ssp"}
      BY <1>5 DEF Machines
    <3> QED BY <3>1, <3>2
  <2>6. d \in [0 .. 7 -> Values(Long)]
    BY <2>1
  <2>7. a \in [0 .. 6 -> Values(Long)]
    <3>1. ASSUME NEW q \in 0 .. 6 PROVE new(q + 8) \in Values(Long)
      BY <2>1
    <3> QED BY <3>1
  <2>8. ASSUME NEW q \in 0 .. 6 PROVE a[q] = new(q + 8)
    OBVIOUS
  <2> HIDE DEF d, a
  <2>9. y \in Machines(D)
    BY <1>7, <2>5, <2>6, <2>7 DEF Machines
  <2>10. /\ y.a = a /\ stack_ptr(y) = top /\ y.status = p.status
         /\ y.decremented = p.decremented /\ y.incremented = p.incremented
    <3>1. stack_ptr(y) = stack_ptr(k)
      BY <1>7, <2>5 DEF Machines, stack_ptr
    <3>2. Low(top, Long) = top
      BY <2>3, LowKeeps
    <3> QED BY <1>7, <2>5, <3>1, <3>2 DEF Machines
  <2>11. ASSUME NEW e \in 0 .. 7, ~Writes(i, e) PROVE a_reg(y, e) = a_reg(p, e)
    <3>1. new(e + 8) = a_reg(p, e)
      BY <2>2, <2>11
    <3>2. CASE e < 7
      <4>1. e \in 0 .. 6
        BY <3>2
      <4>2. a_reg(y, e) = a[e]
        BY <2>10, <3>2 DEF a_reg
      <4> QED BY <2>8, <3>1, <4>1, <4>2
    <3>3. CASE ~(e < 7)
      <4>1. e = 7 /\ e + 8 = 15
        BY <3>3
      <4>2. a_reg(y, e) = top
        BY <2>10, <3>3 DEF a_reg
      <4> QED BY <3>1, <4>1, <4>2 DEF top
    <3> QED BY <3>2, <3>3
  <2>12. \A e \in 0 .. 7 : Travel(i, y, e) = Travel(i, p, e)
    BY <2>10 DEF Travel
  <2>13. Along(m, i, y)
    BY <1>5, <2>11, <2>12, Rests
  <2>14. Leaves(m, i, y) /\ y.status # "error"
    BY <1>2, <1>3, <1>5, <2>9, <2>10, <2>13 DEF Leaves, Predecremented, Roles, Ok
  <2> QED BY <1>1, <1>8, <2>14, LeavesWell
<1> QED BY <1>1, <1>4, <1>8 DEF ReadsOne

(* What a MOVEP has: a word or long size, a data register and a displaced  *)
(* operand.                                                                *)
LEMMA MovepIs ==
    ASSUME EightBits, NEW i, WellFormed(i), i.kind = "Movep"
    PROVE  /\ i.size \in {Word, Long} /\ i.size \in Sizes /\ i.size \in 1 .. 4
           /\ Roles \subseteq DOMAIN i /\ i["src"] \in Targets /\ i["dst"] \in Targets
           /\ \/ i["src"].kind = "DataRegister" /\ i["dst"].kind = "AddressDisplacement"
              \/ i["src"].kind = "AddressDisplacement" /\ i["dst"].kind = "DataRegister"
<1>1. i.size \in {Word, Long}
  BY DEF WellFormed, UsesSize, SizesOf, AddressKinds
<1>2. Roles \subseteq DOMAIN i /\ i["src"] \in Targets /\ i["dst"] \in Targets
  BY Operands DEF UsesSrc, UsesDst, UsesBoth, Roles, Shifts
<1>3. \/ i["src"].kind = "DataRegister" /\ i["dst"].kind = "AddressDisplacement"
      \/ i["src"].kind = "AddressDisplacement" /\ i["dst"].kind = "DataRegister"
  BY DEF WellFormed, OperandsFit
<1> QED BY <1>1, <1>2, <1>3 DEF Sizes, Word, Long

(* A loading MOVEP has a result an instruction may have.                   *)
LEMMA MovepLoads ==
    ASSUME EightBits, NEW D, NEW m \in Machines(D), NEW i, WellFormed(i), Fresh(m, i), i.kind = "Movep",
           i["dst"].kind = "DataRegister", NEW r, r = ExecMovep(m, i)
    PROVE  Result(m, i, r)
<1> DEFINE size == i.size
           t == IF i["dst"].kind = "DataRegister" THEN i["src"] ELSE i["dst"]
           addr == effective_address(m, t)
           even == addr - (addr % 2)
           Defines(f) == f = [k \in 0 .. size |->
                                 IF k = 0 THEN 0 ELSE f[k - 1] * Span(Byte) + m.mem[addr + 2 * (k - 1)]]
           u == CHOOSE f : Defines(f)
           G == [z \in (1 .. size) \X Int |-> z[2] * Span(Byte) + m.mem[addr + 2 * (z[1] - 1)]]
<1>1. r = IF \A k \in 0 .. size - 1 : Mapped(m, even + 2 * k, Word)
          THEN Write(m, i, "dst", size, u[size]) ELSE Fail(m)
  BY Zenon DEF ExecMovep
<1>2. /\ size \in Sizes /\ size \in 1 .. 4 /\ size \in Nat /\ "dst" \in DOMAIN i /\ "src" \in DOMAIN i
      /\ i["src"] \in Targets /\ i["src"].kind = "AddressDisplacement"
  BY MovepIs DEF Roles
<1>3. Untouched(m, i, m)
  BY DEF Fresh
<1>4. addr \in Int
  <2>1. t = i["src"]
    OBVIOUS
  <2> HIDE DEF t
  <2> QED BY <1>2, <2>1, AddressIn, ValuesWiden DEF IsMemory, IsRegister
<1> HIDE DEF addr, size, u
<1>5. CASE \A k \in 0 .. size - 1 : Mapped(m, even + 2 * k, Word)
  <2>1. ASSUME NEW k \in 1 .. size PROVE m.mem[addr + 2 * (k - 1)] \in Int
    <3>1. k - 1 \in 0 .. size - 1
      BY <1>2
    <3>2. Mapped(m, even + 2 * (k - 1), Word)
      BY <1>5, <3>1
    <3>3. addr + 2 * (k - 1) \in even + 2 * (k - 1) .. even + 2 * (k - 1) + Word - 1
      BY <1>4, <3>1 DEF Word
    <3>4. addr + 2 * (k - 1) \in DOMAIN m.mem
      BY <3>2, <3>3 DEF Mapped
    <3>5. m.mem[addr + 2 * (k - 1)] \in Values(Byte)
      BY <3>4 DEF Machines
    <3> QED BY <3>5, ValuesWiden
  <2>2. Span(Byte) \in Int
    BY SpanValues
  <2>3. Steps(G, size, Int)
    <3>1. ASSUME NEW z \in (1 .. size) \X Int
          PROVE  z[2] * Span(Byte) + m.mem[addr + 2 * (z[1] - 1)] \in Int
      <4>1. z[1] \in 1 .. size /\ z[2] \in Int
        OBVIOUS
      <4>2. m.mem[addr + 2 * (z[1] - 1)] \in Int
        BY <2>1, <4>1
      <4>3. z[2] * Span(Byte) \in Int
        BY <2>2, <4>1
      <4> QED BY <4>2, <4>3
    <3> QED BY <3>1 DEF Steps
  <2>4. ASSUME NEW k \in 1 .. size, NEW x \in Int PROVE G[<<k, x>>] = x * Span(Byte) + m.mem[addr + 2 * (k - 1)]
    <3>1. <<k, x>> \in (1 .. size) \X Int
      OBVIOUS
    <3> QED BY <3>1
  <2> HIDE DEF G
  <2>5. PICK f \in [0 .. size -> Int] : f[0] = 0 /\ \A k \in 1 .. size : f[k] = G[<<k, f[k - 1]>>]
    <3>1. \E f : Recurs(f, 0, G, size, Int)
      BY <1>2, <2>3, Recursion
    <3> QED BY <3>1 DEF Recurs
  <2>6. ASSUME NEW k \in 1 .. size PROVE f[k] = f[k - 1] * Span(Byte) + m.mem[addr + 2 * (k - 1)]
    <3>1. f[k - 1] \in Int
      BY <1>2
    <3> QED BY <2>4, <2>5, <3>1
  <2>7. Defines(f)
    <3>1. ASSUME NEW k \in 0 .. size
          PROVE f[k] = IF k = 0 THEN 0 ELSE f[k - 1] * Span(Byte) + m.mem[addr + 2 * (k - 1)]
      BY <1>2, <2>5, <2>6
    <3>2. f = [k \in 0 .. size |-> f[k]]
      OBVIOUS
    <3> QED BY <3>1, <3>2
  <2>8. Defines(u)
    BY <2>7 DEF u
  <2>9. u[0] = 0
    BY <1>2, <2>8
  <2>10. ASSUME NEW k \in 1 .. size, u[k - 1] \in Int PROVE u[k] \in Int
    <3>1. u[k] = u[k - 1] * Span(Byte) + m.mem[addr + 2 * (k - 1)]
      BY <1>2, <2>8
    <3> HIDE DEF Defines
    <3>2. u[k - 1] * Span(Byte) \in Int
      BY <2>2, <2>10
    <3> QED BY <2>1, <3>1, <3>2
  <2>11. \A k \in 0 .. size : u[k] \in Int
    BY <1>2, <2>9, <2>10, Stays
  <2> DEFINE v == u[size]
  <2>12. v \in Int
    BY <1>2, <2>11
  <2>13. r = Write(m, i, "dst", size, v)
    BY <1>1, <1>5
  <2> HIDE DEF v
  <2>14. m.sr \in StatusRegisters
    BY <1>3, StatusIn
  <2> QED BY <1>2, <1>3, <2>12, <2>13, <2>14, Finished
<1>6. CASE ~(\A k \in 0 .. size - 1 : Mapped(m, even + 2 * k, Word))
  <2>1. r = Fail(m)
    BY <1>1, <1>6
  <2> QED BY <1>3, <2>1, Failed
<1> QED BY <1>5, <1>6

(* A storing MOVEP has a result an instruction may have, a refused byte    *)
(* included.                                                               *)
LEMMA MovepStores ==
    ASSUME EightBits, NEW D, NEW m \in Machines(D), NEW i, WellFormed(i), Fresh(m, i), i.kind = "Movep",
           i["dst"].kind # "DataRegister", NEW r, r = ExecMovep(m, i)
    PROVE  Result(m, i, r)
<1> DEFINE size == i.size
           t == IF i["dst"].kind = "DataRegister" THEN i["src"] ELSE i["dst"]
           addr == effective_address(m, t)
           even == addr - (addr % 2)
           scale == IF addr % 2 = 1 THEN 1 ELSE Span(Byte)
           reg == m.d[i["src"].index]
           half(k) == (reg \div 2 ^ (BYTE * (size - k))) % Span(Byte)
           value(k) == half(k) * scale
           next(k, x) == PutOrFail(x, even + 2 * (k - 1), Word, value(k))
           Defines(f) == f = [k \in 0 .. size |->
                                 IF k = 0 \/ ~Ok(f[k - 1]) THEN IF k = 0 THEN m ELSE f[k - 1] ELSE next(k, f[k - 1])]
           u == CHOOSE f : Defines(f)
           S == {x \in Machines(D) : Leaves(m, i, x) /\ x.d = m.d /\ x.sr = m.sr}
           G == [z \in (1 .. size) \X S |-> IF ~Ok(z[2]) THEN z[2] ELSE next(z[1], z[2])]
<1>1. r = u[size]
  BY Zenon DEF ExecMovep
<1>2. /\ size \in 1 .. 4 /\ size \in Nat /\ "src" \in DOMAIN i /\ i["src"] \in Targets /\ i["dst"] \in Targets
      /\ i["src"].kind = "DataRegister" /\ i["dst"].kind = "AddressDisplacement" /\ Word \in Sizes /\ D = DOMAIN m.mem
  BY MovepIs DEF Roles, Sizes, Machines
<1>3. Leaves(m, i, m)
  BY <1>2, BeginsWell DEF Predecremented, Roles
<1>4. addr \in Int /\ even \in Int
  <2>1. addr \in Int
    <3>1. t = i["dst"]
      OBVIOUS
    <3> HIDE DEF t
    <3> QED BY <1>2, <3>1, AddressIn, ValuesWiden DEF IsMemory, IsRegister
  <2> HIDE DEF addr
  <2> QED BY <2>1
<1>5. scale \in Int
  BY SpanValues
<1> HIDE DEF addr, even, scale, size, u
<1>6. ASSUME NEW k \in 1 .. size PROVE value(k) \in Int
  <2>1. reg \in Int
    <3>1. i["src"].index \in 0 .. 7
      BY <1>2, TargetIn DEF IsRegister
    <3>2. reg \in Values(Long)
      BY <3>1, RegisterIn
    <3> QED BY <3>2, ValuesWiden
  <2> HIDE DEF reg
  <2>2. size - k \in 0 .. 3
    BY <1>2
  <2>3. half(k) \in Values(Byte)
    BY <2>1, <2>2, ByteOfIn DEF ByteOf
  <2>4. half(k) \in Int
    BY <2>3, ValuesWiden
  <2> HIDE DEF half
  <2> QED BY <1>5, <2>4
<1> HIDE DEF value
<1>7. ASSUME NEW k \in 1 .. size, NEW x \in S, NEW y, y = next(k, x) PROVE y \in S
  <2> DEFINE v == value(k)
             at == even + 2 * (k - 1)
  <2>1. at \in Int /\ v \in Int /\ y = PutOrFail(x, at, Word, v)
    BY <1>2, <1>4, <1>6, <1>7
  <2> HIDE DEF v, at
  <2>2. Moved(m, i, x, y)
    BY <1>2, <2>1, StoreOrFailLeaves
  <2>3. y \in Machines(D)
    BY <1>2, <2>2 DEF Moved, Leaves
  <2> QED BY <2>2, <2>3 DEF Moved
<1>8. m \in S
  BY <1>3
<1>9. Steps(G, size, S)
  <2>1. ASSUME NEW z \in (1 .. size) \X S PROVE (IF ~Ok(z[2]) THEN z[2] ELSE next(z[1], z[2])) \in S
    <3>1. z[1] \in 1 .. size /\ z[2] \in S
      OBVIOUS
    <3> HIDE DEF S
    <3>2. next(z[1], z[2]) \in S
      BY <1>7, <3>1
    <3> HIDE DEF next
    <3> QED BY <3>1, <3>2
  <2> HIDE DEF S, next
  <2> QED BY <2>1 DEF Steps
<1> HIDE DEF S, next
<1>10. ASSUME NEW k \in 1 .. size, NEW x \in S PROVE G[<<k, x>>] = IF ~Ok(x) THEN x ELSE next(k, x)
  <2>1. <<k, x>> \in (1 .. size) \X S
    OBVIOUS
  <2> QED BY <2>1
<1> HIDE DEF G
<1>11. PICK f \in [0 .. size -> S] : f[0] = m /\ \A k \in 1 .. size : f[k] = G[<<k, f[k - 1]>>]
  <2>1. \E f : Recurs(f, m, G, size, S)
    BY <1>2, <1>8, <1>9, Recursion
  <2> QED BY <2>1 DEF Recurs
<1>12. ASSUME NEW k \in 1 .. size PROVE f[k] = IF ~Ok(f[k - 1]) THEN f[k - 1] ELSE next(k, f[k - 1])
  <2>1. f[k - 1] \in S
    BY <1>2
  <2> QED BY <1>10, <1>11, <2>1
<1>13. Defines(f)
  <2>1. ASSUME NEW k \in 0 .. size
        PROVE f[k] = IF k = 0 \/ ~Ok(f[k - 1]) THEN IF k = 0 THEN m ELSE f[k - 1] ELSE next(k, f[k - 1])
    <3>1. CASE k = 0
      BY <1>11, <3>1
    <3>2. CASE k # 0
      <4>1. k \in 1 .. size
        BY <3>2
      <4> QED BY <1>12, <3>2, <4>1
    <3> QED BY <3>1, <3>2
  <2>2. f = [k \in 0 .. size |-> f[k]]
    OBVIOUS
  <2> QED BY <2>1, <2>2, Zenon
<1>14. Defines(u)
  BY <1>13, Zenon DEF u
<1>15. u[0] = m
  BY <1>2, <1>14
<1>16. ASSUME NEW k \in 1 .. size, u[k - 1] \in S PROVE u[k] \in S
  <2>1. k \in 0 .. size /\ k # 0
    BY <1>2
  <2>2. u[k] = IF k = 0 \/ ~Ok(u[k - 1]) THEN IF k = 0 THEN m ELSE u[k - 1] ELSE next(k, u[k - 1])
    BY <1>14, <2>1
  <2>3. u[k] = u[k - 1] \/ u[k] = next(k, u[k - 1])
    BY <2>1, <2>2
  <2> HIDE DEF Defines
  <2> QED BY <1>7, <1>16, <2>3
<1>17. \A k \in 0 .. size : u[k] \in S
  <2> HIDE DEF Defines
  <2> QED BY <1>2, <1>8, <1>15, <1>16, Stays
<1>18. r \in S
  BY <1>1, <1>2, <1>17
<1> QED BY <1>18, Alike DEF S

-----------------------------------------------------------------------------
(***************************************************************************)
(* The whole of Instruction::execute.                                      *)
(***************************************************************************)

(* Whatever the instruction, what execute.cpp does before the increments   *)
(* ends in a Result.                                                       *)
LEMMA Performs ==
    ASSUME EightBits, NEW D, NEW m \in Machines(D), NEW i, WellFormed(i), Fresh(m, i), NEW r, r = Perform(m, i)
    PROVE  Result(m, i, r)
<1>1. CASE i.kind = "Abcd"
  <2>1. r = ExecAbcd(m, i)
    BY <1>1, Zenon DEF Perform, BinaryKinds, AddressKinds, QuickKinds, ExtendKinds, UnaryKinds, ToCcrKinds, ToSrKinds, Shifts, BitKinds
  <2> QED BY <1>1, <2>1, AbcdDone
<1>2. CASE i.kind = "Sbcd"
  <2>1. r = ExecSbcd(m, i)
    BY <1>2, Zenon DEF Perform, BinaryKinds, AddressKinds, QuickKinds, ExtendKinds, UnaryKinds, ToCcrKinds, ToSrKinds, Shifts, BitKinds
  <2> QED BY <1>2, <2>1, SbcdDone
<1>3. CASE i.kind = "Nbcd"
  <2>1. r = ExecSbcd(m, i)
    BY <1>3, Zenon DEF Perform, BinaryKinds, AddressKinds, QuickKinds, ExtendKinds, UnaryKinds, ToCcrKinds, ToSrKinds, Shifts, BitKinds
  <2> QED BY <1>3, <2>1, NbcdDone
<1>4. CASE i.kind \in BinaryKinds
  <2>1. r = ExecBinary(m, i)
    BY <1>4, Zenon DEF Perform, BinaryKinds, AddressKinds, QuickKinds, ExtendKinds, UnaryKinds, ToCcrKinds, ToSrKinds, Shifts, BitKinds
  <2> QED BY <1>4, <2>1, BinaryDone
<1>5. CASE i.kind \in AddressKinds
  <2>1. r = ExecAddress(m, i)
    BY <1>5, Zenon DEF Perform, BinaryKinds, AddressKinds, QuickKinds, ExtendKinds, UnaryKinds, ToCcrKinds, ToSrKinds, Shifts, BitKinds
  <2> QED BY <1>5, <2>1, AddressDone
<1>6. CASE i.kind \in QuickKinds
  <2>1. r = ExecQuick(m, i)
    BY <1>6, Zenon DEF Perform, BinaryKinds, AddressKinds, QuickKinds, ExtendKinds, UnaryKinds, ToCcrKinds, ToSrKinds, Shifts, BitKinds
  <2> QED BY <1>6, <2>1, QuickDone
<1>7. CASE i.kind \in ExtendKinds
  <2>1. r = ExecExtend(m, i)
    BY <1>7, Zenon DEF Perform, BinaryKinds, AddressKinds, QuickKinds, ExtendKinds, UnaryKinds, ToCcrKinds, ToSrKinds, Shifts, BitKinds
  <2> QED BY <1>7, <2>1, ExtendDone
<1>8. CASE i.kind \in UnaryKinds
  <2>1. r = ExecUnary(m, i)
    BY <1>8, Zenon DEF Perform, BinaryKinds, AddressKinds, QuickKinds, ExtendKinds, UnaryKinds, ToCcrKinds, ToSrKinds, Shifts, BitKinds
  <2> QED BY <1>8, <2>1, UnaryDone
<1>9. CASE i.kind \in {"Mulu", "Muls"}
  <2>1. r = ExecMul(m, i)
    BY <1>9, Zenon DEF Perform, BinaryKinds, AddressKinds, QuickKinds, ExtendKinds, UnaryKinds, ToCcrKinds, ToSrKinds, Shifts, BitKinds
  <2> QED BY <1>9, <2>1, MulDone
<1>10. CASE i.kind \in {"Divu", "Divs"}
  <2>1. r = ExecDiv(m, i)
    BY <1>10, Zenon DEF Perform, BinaryKinds, AddressKinds, QuickKinds, ExtendKinds, UnaryKinds, ToCcrKinds, ToSrKinds, Shifts, BitKinds
  <2> QED BY <1>10, <2>1, DivDone
<1>11. CASE i.kind = "Chk"
  <2>1. r = ExecChk(m, i)
    BY <1>11, Zenon DEF Perform, BinaryKinds, AddressKinds, QuickKinds, ExtendKinds, UnaryKinds, ToCcrKinds, ToSrKinds, Shifts, BitKinds
  <2> QED BY <1>11, <2>1, ChkDone
<1>12. CASE i.kind \in ToCcrKinds \cup {"MoveToCcr"}
  <2>1. r = IF i.kind = "MoveToCcr" THEN ExecMoveToCcr(m, i) ELSE ExecToCcr(m, i)
    BY <1>12, Zenon DEF Perform, BinaryKinds, AddressKinds, QuickKinds, ExtendKinds, UnaryKinds, ToCcrKinds, ToSrKinds, Shifts, BitKinds
  <2> QED BY <1>12, <2>1, ToCcrDone
<1>13. CASE i.kind \in ToSrKinds \cup {"MoveToSr"}
  <2>1. r = IF i.kind = "MoveToSr" THEN ExecMoveToSr(m, i) ELSE ExecToSr(m, i)
    BY <1>13, Zenon DEF Perform, BinaryKinds, AddressKinds, QuickKinds, ExtendKinds, UnaryKinds, ToCcrKinds, ToSrKinds, Shifts, BitKinds
  <2> QED BY <1>13, <2>1, ToSrDone
<1>14. CASE i.kind = "MoveFromSr"
  <2>1. r = ExecMoveFromSr(m, i)
    BY <1>14, Zenon DEF Perform, BinaryKinds, AddressKinds, QuickKinds, ExtendKinds, UnaryKinds, ToCcrKinds, ToSrKinds, Shifts, BitKinds
  <2> QED BY <1>14, <2>1, MoveFromSrDone
<1>15. CASE i.kind \in {"MoveToUsp", "MoveFromUsp"}
  <2>1. r = ExecUsp(m, i)
    BY <1>15, Zenon DEF Perform, BinaryKinds, AddressKinds, QuickKinds, ExtendKinds, UnaryKinds, ToCcrKinds, ToSrKinds, Shifts, BitKinds
  <2> QED BY <1>15, <2>1, UspDone
<1>16. CASE i.kind \in Shifts
  <2>1. r = ExecShift(m, i)
    BY <1>16, Zenon DEF Perform, BinaryKinds, AddressKinds, QuickKinds, ExtendKinds, UnaryKinds, ToCcrKinds, ToSrKinds, Shifts, BitKinds
  <2> QED BY <1>16, <2>1, ShiftDone
<1>17. CASE i.kind \in BitKinds
  <2>1. r = ExecBit(m, i)
    BY <1>17, Zenon DEF Perform, BinaryKinds, AddressKinds, QuickKinds, ExtendKinds, UnaryKinds, ToCcrKinds, ToSrKinds, Shifts, BitKinds
  <2> QED BY <1>17, <2>1, BitDone
<1>18. CASE i.kind = "Tst"
  <2>1. r = ExecTst(m, i)
    BY <1>18, Zenon DEF Perform, BinaryKinds, AddressKinds, QuickKinds, ExtendKinds, UnaryKinds, ToCcrKinds, ToSrKinds, Shifts, BitKinds
  <2> QED BY <1>18, <2>1, TstDone
<1>19. CASE i.kind = "Tas"
  <2>1. r = ExecTas(m, i)
    BY <1>19, Zenon DEF Perform, BinaryKinds, AddressKinds, QuickKinds, ExtendKinds, UnaryKinds, ToCcrKinds, ToSrKinds, Shifts, BitKinds
  <2> QED BY <1>19, <2>1, TasDone
<1>20. CASE i.kind \in {"Move", "Movea"}
  <2>1. r = IF i.kind = "Move" THEN ExecMove(m, i) ELSE ExecMovea(m, i)
    BY <1>20, Zenon DEF Perform, BinaryKinds, AddressKinds, QuickKinds, ExtendKinds, UnaryKinds, ToCcrKinds, ToSrKinds, Shifts, BitKinds
  <2> QED BY <1>20, <2>1, MoveDone
<1>21. CASE i.kind = "Movep"
  <2>1. r = ExecMovep(m, i)
    BY <1>21, Zenon DEF Perform, BinaryKinds, AddressKinds, QuickKinds, ExtendKinds, UnaryKinds, ToCcrKinds, ToSrKinds, Shifts, BitKinds
  <2> QED BY <1>21, <2>1, MovepLoads, MovepStores
<1>22. CASE i.kind = "Movem"
  <2>1. r = IF "src" \in DOMAIN i THEN MovemLoad(m, i) ELSE MovemStore(m, i)
    BY <1>22, Zenon DEF Perform, BinaryKinds, AddressKinds, QuickKinds, ExtendKinds, UnaryKinds, ToCcrKinds, ToSrKinds, Shifts, BitKinds, ExecMovem
  <2> QED BY <1>22, <2>1, MovemLoadDone, MovemStoreDone
<1>23. CASE i.kind = "Moveq"
  <2>1. r = ExecMoveq(m, i)
    BY <1>23, Zenon DEF Perform, BinaryKinds, AddressKinds, QuickKinds, ExtendKinds, UnaryKinds, ToCcrKinds, ToSrKinds, Shifts, BitKinds
  <2> QED BY <1>23, <2>1, MoveqDone
<1>24. CASE i.kind \in {"Swap", "Ext"}
  <2>1. r = IF i.kind = "Swap" THEN ExecSwap(m, i) ELSE ExecExt(m, i)
    BY <1>24, Zenon DEF Perform, BinaryKinds, AddressKinds, QuickKinds, ExtendKinds, UnaryKinds, ToCcrKinds, ToSrKinds, Shifts, BitKinds
  <2> QED BY <1>24, <2>1, SwapExtDone
<1>25. CASE i.kind = "Exg"
  <2>1. r = ExecExg(m, i)
    BY <1>25, Zenon DEF Perform, BinaryKinds, AddressKinds, QuickKinds, ExtendKinds, UnaryKinds, ToCcrKinds, ToSrKinds, Shifts, BitKinds
  <2> QED BY <1>25, <2>1, ExgDone
<1>26. CASE i.kind \in {"Bcc", "Bsr"}
  <2>1. r = IF i.kind = "Bcc" THEN ExecBcc(m, i) ELSE ExecBsr(m, i)
    BY <1>26, Zenon DEF Perform, BinaryKinds, AddressKinds, QuickKinds, ExtendKinds, UnaryKinds, ToCcrKinds, ToSrKinds, Shifts, BitKinds
  <2> QED BY <1>26, <2>1, BranchDone
<1>27. CASE i.kind = "Dbcc"
  <2>1. r = ExecDbcc(m, i)
    BY <1>27, Zenon DEF Perform, BinaryKinds, AddressKinds, QuickKinds, ExtendKinds, UnaryKinds, ToCcrKinds, ToSrKinds, Shifts, BitKinds
  <2> QED BY <1>27, <2>1, DbccDone
<1>28. CASE i.kind = "Scc"
  <2>1. r = ExecScc(m, i)
    BY <1>28, Zenon DEF Perform, BinaryKinds, AddressKinds, QuickKinds, ExtendKinds, UnaryKinds, ToCcrKinds, ToSrKinds, Shifts, BitKinds
  <2> QED BY <1>28, <2>1, SccDone
<1>29. CASE i.kind \in {"Jmp", "Jsr"}
  <2>1. r = ExecJump(m, i)
    BY <1>29, Zenon DEF Perform, BinaryKinds, AddressKinds, QuickKinds, ExtendKinds, UnaryKinds, ToCcrKinds, ToSrKinds, Shifts, BitKinds
  <2> QED BY <1>29, <2>1, JumpDone
<1>30. CASE i.kind = "Lea"
  <2>1. r = ExecLea(m, i)
    BY <1>30, Zenon DEF Perform, BinaryKinds, AddressKinds, QuickKinds, ExtendKinds, UnaryKinds, ToCcrKinds, ToSrKinds, Shifts, BitKinds
  <2> QED BY <1>30, <2>1, LeaDone
<1>31. CASE i.kind = "Pea"
  <2>1. r = ExecPea(m, i)
    BY <1>31, Zenon DEF Perform, BinaryKinds, AddressKinds, QuickKinds, ExtendKinds, UnaryKinds, ToCcrKinds, ToSrKinds, Shifts, BitKinds
  <2> QED BY <1>31, <2>1, PeaDone
<1>32. CASE i.kind = "Link"
  <2>1. r = ExecLink(m, i)
    BY <1>32, Zenon DEF Perform, BinaryKinds, AddressKinds, QuickKinds, ExtendKinds, UnaryKinds, ToCcrKinds, ToSrKinds, Shifts, BitKinds
  <2> QED BY <1>32, <2>1, LinkDone
<1>33. CASE i.kind = "Unlink"
  <2>1. r = ExecUnlink(m, i)
    BY <1>33, Zenon DEF Perform, BinaryKinds, AddressKinds, QuickKinds, ExtendKinds, UnaryKinds, ToCcrKinds, ToSrKinds, Shifts, BitKinds
  <2> QED BY <1>33, <2>1, UnlinkDone
<1>34. CASE i.kind \in {"Trap", "Trapv"}
  <2>1. r = ExecTrap(m, i)
    BY <1>34, Zenon DEF Perform, BinaryKinds, AddressKinds, QuickKinds, ExtendKinds, UnaryKinds, ToCcrKinds, ToSrKinds, Shifts, BitKinds
  <2> QED BY <1>34, <2>1, TrapDone
<1>35. CASE i.kind \in {"Rte", "Rtr", "Rts"}
  <2>1. r = ExecReturn(m, i)
    BY <1>35, Zenon DEF Perform, BinaryKinds, AddressKinds, QuickKinds, ExtendKinds, UnaryKinds, ToCcrKinds, ToSrKinds, Shifts, BitKinds
  <2> QED BY <1>35, <2>1, ReturnDone
<1>36. CASE i.kind \in {"Nop", "Reset"}
  <2>1. r = m
    BY <1>36, Zenon DEF Perform, BinaryKinds, AddressKinds, QuickKinds, ExtendKinds, UnaryKinds, ToCcrKinds, ToSrKinds, Shifts, BitKinds
  <2> QED BY <1>36, <2>1, NothingDone
<1> QED
  <2>1. i.kind \in Kinds
    BY DEF WellFormed
  <2> QED BY <2>1, <1>1, <1>2, <1>3, <1>4, <1>5, <1>6, <1>7, <1>8, <1>9, <1>10, <1>11, <1>12, <1>13, <1>14, <1>15, <1>16, <1>17, <1>18, <1>19, <1>20, <1>21, <1>22, <1>23, <1>24, <1>25, <1>26, <1>27, <1>28, <1>29, <1>30, <1>31, <1>32, <1>33, <1>34, <1>35, <1>36
       DEF Kinds, UsesSize, UsesSrc, UsesDst, UsesBoth, UsesData, UsesNothing, BinaryKinds, AddressKinds, QuickKinds, ExtendKinds, UnaryKinds, ToCcrKinds, ToSrKinds, Shifts, BitKinds

(* Instruction::execute begins with fresh targets: the account is empty,   *)
(* and the registers are the caller's.                                     *)
LEMMA BeginsFresh ==
    ASSUME EightBits, NEW D, NEW m \in Machines(D), Ok(m), NEW i, NEW f, f = Forget(m)
    PROVE  /\ Fresh(f, i) /\ f \in Machines(D) /\ f.d = m.d /\ f.sr = m.sr
           /\ \A n \in 0 .. 7 : a_reg(f, n) = a_reg(m, n)
<1>1. f \in Machines(D) /\ f.decremented = {} /\ f.incremented = {} /\ Beside(f, m)
  BY Start
<1>2. f.a = m.a /\ stack_ptr(f) = stack_ptr(m) /\ D = DOMAIN f.mem
  BY DEF Forget, Machines, stack_ptr
<1>3. \A n \in 0 .. 7 : a_reg(f, n) = a_reg(m, n)
  BY <1>2 DEF a_reg
<1>4. ASSUME NEW n \in 0 .. 7 PROVE a_reg(f, n) = Low(a_reg(f, n) + Travel(i, f, n), Long)
  <2>1. Travel(i, f, n) = 0
    BY <1>1 DEF Travel
  <2>2. a_reg(f, n) \in Values(Long) /\ a_reg(f, n) \in Int
    <3>1. a_reg(f, n) \in Values(Long)
      BY <1>1, RegisterIn
    <3> QED BY <3>1, ValuesWiden
  <2>3. a_reg(f, n) + Travel(i, f, n) = a_reg(f, n)
    BY <2>1, <2>2
  <2> QED BY <2>2, <2>3, LowKeeps
<1>5. Along(f, i, f)
  BY <1>4 DEF Along
<1> QED BY <1>1, <1>2, <1>3, <1>5 DEF Fresh, Untouched, KeepsFlags, Beside, Ok

(* How far the address register n goes, by both operands.                  *)
Total(i, n) == Up(i, "src", n) + Up(i, "dst", n) - Down(i, "src", n) - Down(i, "dst", n)

(* When every operand has been stepped past, a register has travelled its  *)
(* total.                                                                  *)
LEMMA AllAlong ==
    ASSUME NEW i, WellFormed(i), NEW x, Roles \cap DOMAIN i \subseteq x.incremented, Predecremented(i, x), NEW n \in 0 .. 7
    PROVE  Travel(i, x, n) = Total(i, n)
<1>1. ASSUME NEW role \in Roles
      PROVE /\ Up(i, role, n) \in Int /\ Down(i, role, n) \in Int
            /\ role \notin x.incremented => Up(i, role, n) = 0
            /\ role \notin x.decremented => Down(i, role, n) = 0
  <2>1. Up(i, role, n) \in Int /\ Down(i, role, n) \in Int
    BY DownUpIn
  <2>2. role \notin x.incremented => Up(i, role, n) = 0
    BY DEF Up
  <2>3. role \notin x.decremented => Down(i, role, n) = 0
    BY DEF Down, Predecremented
  <2> QED BY <2>1, <2>2, <2>3
<1>2. "src" \in Roles /\ "dst" \in Roles
  BY DEF Roles
<1> QED BY <1>1, <1>2 DEF Travel, Total

(* The increment that ends an instruction, for an operand it may not have. *)
LEMMA IncrementsIfThere ==
    ASSUME EightBits, NEW D, NEW m \in Machines(D), NEW i, WellFormed(i), NEW role \in Roles,
           NEW x \in Machines(D), Along(m, i, x), NEW y, y = try_increment_address(x, i, role)
    PROVE  /\ y \in Machines(D) /\ Along(m, i, y) /\ Beside(y, x) /\ y.decremented = x.decremented
           /\ x.incremented \subseteq y.incremented /\ (role \in DOMAIN i => role \in y.incremented)
<1>1. CASE role \in DOMAIN i
  BY <1>1, Increments
<1>2. CASE role \notin DOMAIN i
  <2>1. y = x
    BY <1>2 DEF try_increment_address
  <2> QED BY <1>2, <2>1 DEF Beside
<1> QED BY <1>1, <1>2

(* The marks of the targets are no part of the registers.                  *)
LEMMA ForgetKeeps ==
    ASSUME NEW D, NEW x \in Machines(D), NEW r, r = Forget(x)
    PROVE  r \in Machines(D) /\ r.d = x.d /\ r.sr = x.sr /\ r.status = x.status
           /\ \A n \in 0 .. 7 : a_reg(r, n) = a_reg(x, n)
<1>1. r \in Machines(D) /\ r.d = x.d /\ r.sr = x.sr /\ r.status = x.status /\ r.a = x.a /\ stack_ptr(r) = stack_ptr(x)
  BY DEF Machines, Forget, stack_ptr
<1> QED BY <1>1 DEF a_reg

(* The address registers move by the steps of the operands, when execute   *)
(* returns no error and the instruction does not write the register.       *)
Steady(m, i, r) == \A n \in 0 .. 7 : ~Writes(i, n) => a_reg(r, n) = Low(a_reg(m, n) + Total(i, n), Long)

(* Instruction::execute gives a machine; when it succeeds every address    *)
(* register the instruction does not write has moved by the total of its   *)
(* steps; when it fails, unless its kind may fail half way, the data       *)
(* registers are as before, and so are the flags but for those that may    *)
(* change before the error.                                                *)
LEMMA Executes ==
    ASSUME EightBits, NEW D, NEW m \in Machines(D), Ok(m), NEW i, WellFormed(i), NEW r, r = Execute(m, i)
    PROVE  /\ r \in Machines(D)
           /\ Ok(r) => Steady(m, i, r)
           /\ r.status = "error" /\ i.kind \notin Unfinished => r.d = m.d /\ KeepsFlags(m, i, r)
<1> DEFINE f == Forget(m)
           done == Perform(f, i)
           y == try_increment_address(done, i, "src")
           z == try_increment_address(y, i, "dst")
           last == IF Ok(done) THEN z ELSE done
<1>1. r = Forget(last)
  BY DEF Execute
<1>2. f = Forget(m) /\ done = Perform(f, i) /\ y = try_increment_address(done, i, "src")
      /\ z = try_increment_address(y, i, "dst") /\ "src" \in Roles /\ "dst" \in Roles
  BY DEF Roles
<1> HIDE DEF f, done, y, z
<1>3. /\ Fresh(f, i) /\ f \in Machines(D) /\ f.d = m.d /\ f.sr = m.sr
      /\ \A n \in 0 .. 7 : a_reg(f, n) = a_reg(m, n)
  BY <1>2, BeginsFresh
<1>4. D = DOMAIN f.mem
  BY <1>3 DEF Machines
<1>5. Result(f, i, done)
  BY <1>2, <1>3, Performs
<1>6. done \in Machines(D) /\ Along(f, i, done)
  BY <1>4, <1>5 DEF Result
<1>7. CASE Ok(done)
  <2>1. /\ y \in Machines(D) /\ Along(f, i, y) /\ Beside(y, done) /\ y.decremented = done.decremented
        /\ done.incremented \subseteq y.incremented /\ ("src" \in DOMAIN i => "src" \in y.incremented)
    BY <1>2, <1>3, <1>6, IncrementsIfThere
  <2>2. /\ z \in Machines(D) /\ Along(f, i, z) /\ Beside(z, y) /\ z.decremented = y.decremented
        /\ y.incremented \subseteq z.incremented /\ ("dst" \in DOMAIN i => "dst" \in z.incremented)
    BY <1>2, <1>3, <2>1, IncrementsIfThere
  <2>3. /\ r \in Machines(D) /\ r.status = z.status /\ \A n \in 0 .. 7 : a_reg(r, n) = a_reg(z, n)
    BY <1>1, <1>7, <2>2, ForgetKeeps
  <2>4. Ok(r) /\ r.status # "error"
    BY <1>7, <2>1, <2>2, <2>3 DEF Ok, Beside
  <2>5. Predecremented(i, z)
    BY <1>5, <1>7, <2>1, <2>2 DEF Result, Predecremented
  <2>6. Roles \cap DOMAIN i \subseteq z.incremented
    BY <2>1, <2>2 DEF Roles
  <2>7. \A n \in 0 .. 7 : Travel(i, z, n) = Total(i, n)
    BY <2>5, <2>6, AllAlong
  <2>8. Steady(m, i, r)
    BY <1>3, <2>2, <2>3, <2>7 DEF Along, Steady
  <2> QED BY <2>3, <2>4, <2>8
<1>8. CASE ~Ok(done)
  <2>1. r \in Machines(D) /\ r.d = done.d /\ r.sr = done.sr /\ r.status = done.status
    BY <1>1, <1>6, <1>8, ForgetKeeps
  <2>2. done.status = "error" /\ i.kind \notin Unfinished => r.d = m.d /\ KeepsFlags(m, i, r)
    BY <1>3, <1>5, <2>1 DEF Result, KeepsFlags
  <2> QED BY <1>8, <2>1, <2>2 DEF Ok
<1> QED BY <1>7, <1>8

-----------------------------------------------------------------------------
(***************************************************************************)
(* Machines without the notes of the interpreter, and what the comparison  *)
(* with the recompiled code needs of instructions, numbers and lists of    *)
(* registers: see M68kLiftProofs.                                          *)
(***************************************************************************)

(* All that the emitted code keeps.                                        *)
Same(x, y) ==
    /\ y.d = x.d /\ y.a = x.a /\ y.ssp = x.ssp /\ y.usp = x.usp
    /\ y.mem = x.mem /\ y.sr = x.sr /\ y.pc = x.pc

(* Machine y of the emitted code stands where machine x of the interpreter *)
(* does: they differ in nothing but what only the interpreter keeps.       *)
Twin(D, x, y) == x \in Machines(D) /\ y \in Machines(D) /\ Same(x, y)

(* The emitted code reads the registers that the interpreter reads.        *)
LEMMA TwinRegisters ==
    ASSUME NEW D, NEW x, NEW y, Twin(D, x, y)
    PROVE  /\ stack_ptr(y) = stack_ptr(x) /\ y.d = x.d /\ y.mem = x.mem /\ y.sr = x.sr /\ y.pc = x.pc
           /\ \A n : a_reg(y, n) = a_reg(x, n)
BY DEF Twin, Same, stack_ptr, a_reg

(* An effective address is the same on both sides, and so is what is in    *)
(* memory there.                                                           *)
LEMMA TwinAddress ==
    ASSUME NEW D, NEW x, NEW y, Twin(D, x, y), NEW t
    PROVE  /\ effective_address(y, t) = effective_address(x, t)
           /\ \A base : indexed_address(y, t, base) = indexed_address(x, t, base)
           /\ \A addr, size : Mapped(y, addr, size) = Mapped(x, addr, size)
           /\ \A addr, size : Fetch(y, addr, size) = Fetch(x, addr, size)
<1>1. y.d = x.d /\ y.pc = x.pc /\ y.mem = x.mem /\ \A n : a_reg(y, n) = a_reg(x, n)
  BY TwinRegisters
<1>2. \A base : indexed_address(y, t, base) = indexed_address(x, t, base)
  BY <1>1, Zenon DEF indexed_address
<1>3. \A addr, size : Mapped(y, addr, size) = Mapped(x, addr, size)
  BY <1>1, Zenon DEF Mapped
<1>4. \A addr, size : Fetch(y, addr, size) = Fetch(x, addr, size)
  BY <1>1, Zenon DEF Fetch
<1>5. effective_address(y, t) = effective_address(x, t)
  BY <1>1, <1>2, Zenon DEF effective_address
<1> QED BY <1>2, <1>3, <1>4, <1>5

(* Both sides set the stack pointer of the current mode.                   *)
LEMMA TwinStackPtr ==
    ASSUME EightBits, NEW D, NEW x, NEW y, Twin(D, x, y), NEW v \in Int
    PROVE  Twin(D, SetStackPtr(x, v), SetStackPtr(y, v))
<1>1. SetStackPtr(x, v) \in Machines(D) /\ SetStackPtr(y, v) \in Machines(D)
  BY SetStackPtrIn DEF Twin
<1>2. x \in Machines(D) /\ y \in Machines(D) /\ Same(x, y)
  BY DEF Twin
<1>3. Same(SetStackPtr(x, v), SetStackPtr(y, v))
  BY <1>2 DEF Same, SetStackPtr, Machines
<1> QED BY <1>1, <1>3 DEF Twin

(* Both sides set an address register.                                     *)
LEMMA TwinSetA ==
    ASSUME EightBits, NEW D, NEW x, NEW y, Twin(D, x, y), NEW n \in 0 .. 7, NEW v \in Int
    PROVE  Twin(D, SetA(x, n, v), SetA(y, n, v))
<1>1. CASE n < 7
  <2>1. x \in Machines(D) /\ y \in Machines(D) /\ Same(x, y)
    BY DEF Twin
  <2>2. SetA(x, n, v) = [x EXCEPT !.a[n] = Low(v, Long)] /\ SetA(y, n, v) = [y EXCEPT !.a[n] = Low(v, Long)]
    BY <1>1 DEF SetA
  <2>3. Same(SetA(x, n, v), SetA(y, n, v))
    BY <2>1, <2>2 DEF Same, Machines
  <2>4. AddressSet(D, SetA(x, n, v), x, n, v) /\ AddressSet(D, SetA(y, n, v), y, n, v)
    BY <2>1, SetAIn
  <2> QED BY <2>3, <2>4 DEF Twin, AddressSet
<1>2. CASE ~(n < 7)
  BY <1>2, TwinStackPtr DEF SetA
<1> QED BY <1>1, <1>2

(* Both sides set a data register.                                         *)
LEMMA TwinSetD ==
    ASSUME NEW D, NEW x, NEW y, Twin(D, x, y), NEW n \in 0 .. 7, NEW v \in Values(Long)
    PROVE  Twin(D, [x EXCEPT !.d[n] = v], [y EXCEPT !.d[n] = v])
<1>1. x \in Machines(D) /\ y \in Machines(D) /\ Same(x, y)
  BY DEF Twin
<1>2. [x EXCEPT !.d[n] = v] \in Machines(D) /\ [y EXCEPT !.d[n] = v] \in Machines(D)
  BY <1>1 DEF Machines
<1>3. Same([x EXCEPT !.d[n] = v], [y EXCEPT !.d[n] = v])
  BY <1>1 DEF Same, Machines
<1> QED BY <1>2, <1>3 DEF Twin

(* Both sides set the status register.                                     *)
LEMMA TwinSetSr ==
    ASSUME NEW D, NEW x, NEW y, Twin(D, x, y), NEW sr \in StatusRegisters
    PROVE  Twin(D, [x EXCEPT !.sr = sr], [y EXCEPT !.sr = sr])
<1>1. x \in Machines(D) /\ y \in Machines(D) /\ Same(x, y)
  BY DEF Twin
<1>2. [x EXCEPT !.sr = sr] \in Machines(D) /\ [y EXCEPT !.sr = sr] \in Machines(D)
  BY <1>1 DEF Machines
<1>3. Same([x EXCEPT !.sr = sr], [y EXCEPT !.sr = sr])
  BY <1>1 DEF Same, Machines
<1> QED BY <1>2, <1>3 DEF Twin

(* Both sides set the program counter.                                     *)
LEMMA TwinSetPc ==
    ASSUME NEW D, NEW x, NEW y, Twin(D, x, y), NEW v \in Values(Long)
    PROVE  Twin(D, [x EXCEPT !.pc = v], [y EXCEPT !.pc = v])
<1>1. x \in Machines(D) /\ y \in Machines(D) /\ Same(x, y)
  BY DEF Twin
<1>2. [x EXCEPT !.pc = v] \in Machines(D) /\ [y EXCEPT !.pc = v] \in Machines(D)
  BY <1>1 DEF Machines
<1>3. Same([x EXCEPT !.pc = v], [y EXCEPT !.pc = v])
  BY <1>1 DEF Same, Machines
<1> QED BY <1>2, <1>3 DEF Twin

(* Both sides write to mapped memory.                                      *)
LEMMA TwinPut ==
    ASSUME EightBits, NEW D, NEW x, NEW y, Twin(D, x, y), NEW addr \in Int, NEW size \in Sizes, NEW v \in Int,
           Mapped(x, addr, size)
    PROVE  /\ Twin(D, Put(x, addr, size, v), Put(y, addr, size, v))
           /\ Mapped(y, addr, size)
<1>1. x \in Machines(D) /\ y \in Machines(D) /\ Same(x, y) /\ Mapped(y, addr, size)
  BY TwinAddress DEF Twin
<1>2. Pushed(D, Put(x, addr, size, v), x) /\ Pushed(D, Put(y, addr, size, v), y)
  BY <1>1, PutIn
<1>3. Same(Put(x, addr, size, v), Put(y, addr, size, v))
  BY <1>1 DEF Same, Put, Machines
<1> QED BY <1>1, <1>2, <1>3 DEF Twin, Pushed

(* Remembering that an operand was stepped is nothing to the emitted code. *)
LEMMA TwinMarks ==
    ASSUME NEW D, NEW x, NEW y, Twin(D, x, y), NEW marks, marks \in SUBSET Roles, NEW p,
           p = [x EXCEPT !.decremented = marks] \/ p = [x EXCEPT !.incremented = marks]
    PROVE  Twin(D, p, y)
<1>1. x \in Machines(D) /\ y \in Machines(D) /\ Same(x, y)
  BY DEF Twin
<1>2. p \in Machines(D)
  BY <1>1 DEF Machines
<1>3. Same(p, y)
  BY <1>1 DEF Same, Machines
<1> QED BY <1>1, <1>2, <1>3 DEF Twin

(* A machine of the interpreter is one the emitted code may start from.    *)
LEMMA TwinSelf == ASSUME NEW D, NEW x \in Machines(D) PROVE Twin(D, x, x)
BY DEF Twin, Same

(* What the interpreter remembers of an instruction is nothing to the      *)
(* emitted code.                                                           *)
LEMMA TwinForget ==
    ASSUME NEW D, NEW x, NEW y, Twin(D, x, y)
    PROVE  Twin(D, Forget(x), y)
<1>1. x \in Machines(D) /\ y \in Machines(D) /\ Same(x, y)
  BY DEF Twin
<1>2. Forget(x) \in Machines(D)
  BY <1>1 DEF Machines, Forget
<1>3. Same(Forget(x), y)
  BY <1>1 DEF Same, Machines, Forget
<1> QED BY <1>1, <1>2, <1>3 DEF Twin

(* The interpreter steps an operand once.                                  *)
LEMMA DecrementedTwice ==
    ASSUME NEW x, NEW i, NEW role, role \in x.decremented
    PROVE  try_decrement_address(x, i, role) = x
BY DEF try_decrement_address

(* An increment that moves no register, or none again, has nothing to      *)
(* match.                                                                  *)
LEMMA IncrementNothing ==
    ASSUME NEW D, NEW x, NEW y, Twin(D, x, y), NEW i, NEW role \in Roles,
           role \in DOMAIN i => i[role].kind # "AddressIncrement" \/ role \in x.incremented,
           NEW p, p = try_increment_address(x, i, role)
    PROVE  /\ Twin(D, p, y) /\ p.status = x.status
           /\ p.incremented \subseteq x.incremented \cup {role} /\ x.incremented \subseteq p.incremented
           /\ p.decremented = x.decremented
           /\ p.pc = x.pc /\ p.sr = x.sr /\ p.d = x.d /\ p.mem = x.mem
<1> DEFINE marks == x.incremented \cup {role}
<1>1. marks \in SUBSET Roles
  BY DEF Twin, Machines
<1>2. CASE role \notin DOMAIN i \/ role \in x.incremented
  <2>1. p = x
    BY <1>2 DEF try_increment_address
  <2> QED BY <1>2, <2>1
<1>3. CASE role \in DOMAIN i /\ role \notin x.incremented
  <2>1. p = [x EXCEPT !.incremented = marks]
    <3>1. i[role].kind # "AddressIncrement"
      BY <1>3
    <3> QED BY <1>3, <3>1 DEF try_increment_address, Twin, Machines
  <2>2. Twin(D, p, y)
    <3> HIDE DEF marks
    <3> QED BY <1>1, <2>1, TwinMarks
  <2> QED BY <1>3, <2>1, <2>2 DEF Twin, Machines
<1> QED BY <1>2, <1>3

(* Truncation is done once.                                                *)
LEMMA LowLow ==
    ASSUME EightBits, NEW v \in Int, NEW size \in Sizes
    PROVE  Low(Low(v, size), size) = Low(v, size)
<1>1. Span(size) \in Nat \ {0}
  BY SpanValues, SMT DEF Sizes
<1> DEFINE n == Span(size)
<1> HIDE DEF n
<1>2. v % n \in 0 .. n - 1
  BY <1>1, Remains DEF n
<1>3. (v % n) % n = v % n
  BY <1>1, <1>2, SMT DEF n
<1> QED BY <1>3 DEF Low, n

(* A value of a size is not truncated.                                     *)
LEMMA LowSame ==
    ASSUME EightBits, NEW size \in Sizes, NEW v \in Values(size)
    PROVE  Low(v, size) = v
<1>1. Span(size) \in Nat \ {0}
  BY SpanValues, SMT DEF Sizes
<1>2. v \in 0 .. Span(size) - 1
  BY DEF Values
<1> DEFINE n == Span(size)
<1> HIDE DEF n
<1>3. v % n = v
  BY <1>1, <1>2, SMT DEF n
<1> QED BY <1>3 DEF Low, n

(* The bytes of a value are those of its low bytes.                        *)
LEMMA ByteOfLow ==
    ASSUME EightBits, NEW v \in Int, NEW size \in Sizes, NEW j \in 0 .. size - 1
    PROVE  ByteOf(v, j) = ByteOf(Low(v, size), j)
<1>1. \A w : /\ ByteOf(w, 0) = (w \div 1) % 256 /\ ByteOf(w, 1) = (w \div 256) % 256
             /\ ByteOf(w, 2) = (w \div 65536) % 256 /\ ByteOf(w, 3) = (w \div 16777216) % 256
  BY Powers, SpanValues, SMT DEF ByteOf
<1>2. size \in {1, 2, 4}
  BY DEF Sizes, Byte, Word, Long
<1>3. CASE size = 1
  <2>1. Low(v, size) = v % 256 /\ j = 0
    BY <1>3, SpanValues DEF Low, Byte
  <2>2. (v \div 1) % 256 = ((v % 256) \div 1) % 256
    BY SMT
  <2> QED BY <1>1, <2>1, <2>2
<1>4. CASE size = 2
  <2>1. Low(v, size) = v % 65536 /\ j \in 0 .. 1
    BY <1>4, SpanValues DEF Low, Word
  <2>2. (v \div 1) % 256 = ((v % 65536) \div 1) % 256
    BY SMT
  <2>3. (v \div 256) % 256 = ((v % 65536) \div 256) % 256
    BY SMT
  <2> QED BY <1>1, <2>1, <2>2, <2>3
<1>5. CASE size = 4
  <2>1. Low(v, size) = v % 4294967296 /\ j \in 0 .. 3
    BY <1>5, SpanValues, SMT DEF Low, Long
  <2>2. (v \div 1) % 256 = ((v % 4294967296) \div 1) % 256
    BY SMT
  <2>3. (v \div 256) % 256 = ((v % 4294967296) \div 256) % 256
    BY SMT
  <2>4. (v \div 65536) % 256 = ((v % 4294967296) \div 65536) % 256
    BY SMT
  <2>5. (v \div 16777216) % 256 = ((v % 4294967296) \div 16777216) % 256
    BY SMT
  <2> QED BY <1>1, <2>1, <2>2, <2>3, <2>4, <2>5, SMT
<1> QED BY <1>2, <1>3, <1>4, <1>5

(* A write stores no more than the low bytes.                              *)
LEMMA PutLow ==
    ASSUME EightBits, NEW m, NEW addr \in Int, NEW size \in Sizes, NEW v \in Int, NEW w \in Int,
           Low(v, size) = Low(w, size)
    PROVE  Put(m, addr, size, v) = Put(m, addr, size, w)
<1>1. ASSUME NEW b \in addr .. addr + size - 1
      PROVE  (v \div 2 ^ (BYTE * (addr + size - 1 - b))) % Span(Byte) = (w \div 2 ^ (BYTE * (addr + size - 1 - b))) % Span(Byte)
  <2> DEFINE j == addr + size - 1 - b
  <2>1. j \in 0 .. size - 1
    BY SMT DEF Sizes, Byte, Word, Long
  <2>2. ByteOf(v, j) = ByteOf(w, j)
    <3> HIDE DEF j
    <3> QED BY <2>1, ByteOfLow
  <2> QED BY <2>2 DEF ByteOf
<1>2. \A b : (IF b \in addr .. addr + size - 1
              THEN (v \div 2 ^ (BYTE * (addr + size - 1 - b))) % Span(Byte) ELSE m.mem[b])
             = (IF b \in addr .. addr + size - 1
                THEN (w \div 2 ^ (BYTE * (addr + size - 1 - b))) % Span(Byte) ELSE m.mem[b])
  BY <1>1
<1>3. [b \in DOMAIN m.mem |-> IF b \in addr .. addr + size - 1
              THEN (v \div 2 ^ (BYTE * (addr + size - 1 - b))) % Span(Byte) ELSE m.mem[b]]
      = [b \in DOMAIN m.mem |-> IF b \in addr .. addr + size - 1
                THEN (w \div 2 ^ (BYTE * (addr + size - 1 - b))) % Span(Byte) ELSE m.mem[b]]
  BY <1>2, Zenon
<1> QED BY <1>3, Zenon DEF Put

(* A register takes no more than the low bytes.                            *)
LEMMA LowReplaced ==
    ASSUME NEW reg, NEW v, NEW w, NEW size, Low(v, size) = Low(w, size)
    PROVE  Replaced(reg, v, size) = Replaced(reg, w, size)
BY DEF Replaced

(* What was read: a value of the size, and the same with anything above    *)
(* it.                                                                     *)
Reads(v, w, size) ==
    v \in Values(size) /\ v \in Int /\ w \in Int /\ w \in Values(Long) /\ Low(w, size) = v /\ Low(v, size) = v

(* A write after the step of its operand, or doing that step, is one       *)
(* write.                                                                  *)
LEMMA WriteAfter ==
    ASSUME NEW D, NEW m \in Machines(D), NEW i, NEW role, NEW p, p = try_decrement_address(m, i, role),
               role \in p.decremented,
           NEW size, NEW v
    PROVE  Write(m, i, role, size, v) = Write(p, i, role, size, v)
<1>1. try_decrement_address(p, i, role) = p
  BY DecrementedTwice
<1> QED BY <1>1, Zenon DEF Write

(* The condition codes that follow a write follow a write that was         *)
(* completed.                                                              *)
LEMMA ThenOk ==
    ASSUME NEW w, NEW sr, Ok(Then(w, sr))
    PROVE  Ok(w) /\ Then(w, sr) = [w EXCEPT !.sr = sr]
BY DEF Then

(* A failed instruction was not completed.                                 *)
LEMMA FailIsNotOk == ASSUME NEW D, NEW x \in Machines(D) PROVE ~Ok(Fail(x))
BY DEF Fail, Ok, Machines

(* Both sides have the status register of a machine.                       *)
LEMMA TwinStatus ==
    ASSUME NEW D, NEW x, NEW y, Twin(D, x, y)
    PROVE  y.sr = x.sr /\ x.sr \in StatusRegisters /\ x.sr.x \in Int /\ y.sr.x \in Int
BY DEF Twin, Same, Machines, StatusRegisters, Bit

(* Condition codes and registers are set in either order.                  *)
LEMMA FlagsApart ==
    ASSUME NEW D, NEW z \in Machines(D), NEW e \in StatusRegisters, e.s = z.sr.s, NEW f, f = [z EXCEPT !.sr = e]
    PROVE  /\ f \in Machines(D) /\ stack_ptr(f) = stack_ptr(z) /\ \A n : a_reg(f, n) = a_reg(z, n)
           /\ \A n, v : SetA(f, n, v) = [SetA(z, n, v) EXCEPT !.sr = e]
           /\ \A v : SetStackPtr(f, v) = [SetStackPtr(z, v) EXCEPT !.sr = e]
<1>1. f \in Machines(D) /\ f.sr = e /\ f.ssp = z.ssp /\ f.usp = z.usp /\ f.a = z.a
  BY DEF Machines
<1>2. stack_ptr(f) = stack_ptr(z)
  BY <1>1 DEF stack_ptr
<1>3. \A n : a_reg(f, n) = a_reg(z, n)
  BY <1>1, <1>2 DEF a_reg
<1>4. \A v : SetStackPtr(f, v) = [SetStackPtr(z, v) EXCEPT !.sr = e]
  <2> TAKE v
  <2> DEFINE l == Low(v, Long)
  <2>1. [f EXCEPT !.ssp = l] = [[z EXCEPT !.ssp = l] EXCEPT !.sr = e] /\ [f EXCEPT !.usp = l]
            = [[z EXCEPT !.usp = l] EXCEPT !.sr = e]
    <3> HIDE DEF l
    <3> QED BY DEF Machines
  <2> QED BY <1>1, <2>1 DEF SetStackPtr
<1>5. \A n, v : SetA(f, n, v) = [SetA(z, n, v) EXCEPT !.sr = e]
  <2> TAKE n, v
  <2> DEFINE l == Low(v, Long)
  <2>1. [f EXCEPT !.a[n] = l] = [[z EXCEPT !.a[n] = l] EXCEPT !.sr = e]
    <3> HIDE DEF l
    <3> QED BY DEF Machines
  <2> QED BY <1>4, <2>1 DEF SetA
<1> QED BY <1>1, <1>2, <1>3, <1>4, <1>5

(* What agrees with one of two equal machines agrees with the other.       *)
LEMMA TwinTrans ==
    ASSUME NEW D, NEW x, NEW y, Twin(D, x, y), NEW z \in Machines(D), Same(y, z)
    PROVE  Twin(D, x, z)
BY DEF Twin, Same

(* The top bit of a value is that of its low bytes.                        *)
LEMMA MsbLow ==
    ASSUME EightBits, NEW v \in Int, NEW size \in Sizes
    PROVE  msb(Low(v, size), size) = msb(v, size)
<1>1. CASE size = Byte
  <2> DEFINE q == v \div 256  r == v % 256
  <2>1. v = 256 * q + r /\ q \in Int /\ r \in Int /\ 0 <= r /\ r < 256
    BY Divided
  <2> HIDE DEF q, r
  <2>2. v \div 128 = 2 * q + (r \div 128)
    BY <2>1, SMT
  <2>3. (v \div 128) % 2 = (r \div 128) % 2
    BY <2>1, <2>2, SMT
  <2> QED BY <1>1, <2>3, SpanValues, TopBits DEF msb, Low, r
<1>2. CASE size = Word
  <2> DEFINE q == v \div 65536  r == v % 65536
  <2>1. v = 65536 * q + r /\ q \in Int /\ r \in Int /\ 0 <= r /\ r < 65536
    BY Divided
  <2> HIDE DEF q, r
  <2>2. v \div 32768 = 2 * q + (r \div 32768)
    BY <2>1, SMT
  <2>3. (v \div 32768) % 2 = (r \div 32768) % 2
    BY <2>1, <2>2, SMT
  <2> QED BY <1>2, <2>3, SpanValues, TopBits DEF msb, Low, r
<1>3. CASE size = Long
  <2> DEFINE q == v \div 4294967296  r == v % 4294967296
  <2>1. v = 4294967296 * q + r /\ q \in Int /\ r \in Int /\ 0 <= r /\ r < 4294967296
    BY Divided
  <2> HIDE DEF q, r
  <2>2. v \div 2147483648 = 2 * q + (r \div 2147483648)
    BY <2>1, SMT
  <2>3. (v \div 2147483648) % 2 = (r \div 2147483648) % 2
    BY <2>1, <2>2, SMT
  <2> QED BY <1>3, <2>3, SpanValues, TopBits DEF msb, Low, r
<1> QED BY <1>1, <1>2, <1>3 DEF Sizes

(* Sign, zero and the logical condition codes are those of the low bytes.  *)
LEMMA SameLow ==
    ASSUME EightBits, NEW size \in Sizes, NEW v \in Int, NEW w \in Int, Low(v, size) = Low(w, size)
    PROVE  /\ msb(v, size) = msb(w, size) /\ Signed(v, size) = Signed(w, size)
                  /\ is_zero(v, size) = is_zero(w, size)
           /\ \A sr : SetLogic(sr, v, size) = SetLogic(sr, w, size)
<1>1. msb(v, size) = msb(w, size)
  <2>1. msb(Low(v, size), size) = msb(v, size) /\ msb(Low(w, size), size) = msb(w, size)
    BY MsbLow
  <2> QED BY <2>1
<1>2. Signed(v, size) = Signed(w, size)
  BY <1>1 DEF Signed
<1>3. is_zero(v, size) = is_zero(w, size)
  BY DEF is_zero
<1> QED BY <1>1, <1>2, <1>3 DEF SetLogic

(* The same of a register that the emitted code reads whole.               *)
LEMMA ReadsSame ==
    ASSUME EightBits, NEW size \in Sizes, NEW v, NEW w, Reads(v, w, size)
    PROVE  /\ msb(w, size) = msb(v, size) /\ Signed(w, size) = Signed(v, size)
           /\ \A sr : SetLogic(sr, w, size) = SetLogic(sr, v, size)
<1>1. v \in Int /\ w \in Int /\ Low(w, size) = Low(v, size)
  BY DEF Reads
<1> QED BY <1>1, SameLow

(* A long replaces the register.                                           *)
LEMMA ReplacedLong ==
    ASSUME EightBits, NEW reg \in Values(Long), NEW v \in Int
    PROVE  Replaced(reg, v, Long) = Low(v, Long)
<1>1. Low(reg, Long) = reg /\ reg \in Int /\ Low(v, Long) \in Int
  BY LowKeeps, LowInt, ValuesWiden DEF Sizes
<1> QED BY <1>1 DEF Replaced

(* A register takes the low long of a sum.                                 *)
LEMMA SetALow ==
    ASSUME EightBits, NEW m, NEW n, NEW v \in Int
    PROVE  SetA(m, n, Low(v, Long)) = SetA(m, n, v)
<1>1. Low(Low(v, Long), Long) = Low(v, Long)
  BY LowLow DEF Sizes
<1> QED BY <1>1 DEF SetA, SetStackPtr

(* Of two settings of the status register the last counts.                 *)
LEMMA TwiceSet ==
    ASSUME NEW D, NEW z \in Machines(D), NEW e, NEW f
    PROVE  [[z EXCEPT !.sr = e] EXCEPT !.sr = f] = [z EXCEPT !.sr = f]
BY DEF Machines

(* A rotation leaves the mode.                                             *)
LEMMA RotatingFlags ==
    ASSUME NEW sr \in StatusRegisters, NEW kind, NEW count, NEW done \in Shifted
    PROVE  Rotating(sr, kind, count, done) \in StatusRegisters /\ Rotating(sr, kind, count, done).s = sr.s
<1>1. done.x \in Bit
  BY DEF Shifted
<1> QED BY <1>1 DEF Rotating, StatusRegisters

(* An operand may be truncated before it is subtracted.                    *)
LEMMA LowDifference ==
    ASSUME EightBits, NEW x \in Int, NEW y \in Int
    PROVE  Low(y - Low(x, Long), Long) = Low(y - x, Long) /\ y - Low(x, Long) \in Int
<1>1. Span(Long) = 4294967296 /\ Long \in Sizes
  BY SpanValues DEF Sizes
<1> QED BY <1>1, SMT DEF Low

(* What the operations on address registers compute.                       *)
LEMMA SumIs ==
    ASSUME NEW l, NEW r
    PROVE  do_binary_op("Add", l, r) = l + r /\ do_binary_op("Sub", l, r) = r - l
               /\ do_binary_op("Cmp", l, r) = r - l
BY Zenon DEF do_binary_op, Subtracts

(* A word is extended alike on both sides, whatever is above it in the     *)
(* register.                                                               *)
LEMMA Extended ==
    ASSUME EightBits, NEW size \in {Word, Long}, NEW s, NEW t, Reads(s, t, size),
           NEW v, v = IF size = Word THEN Signed(s, Word) ELSE s, NEW w, w = IF size = Word
                   THEN Signed(t, Word) ELSE t
    PROVE  v \in Int /\ w \in Int /\ Low(w, Long) = Low(v, Long)
<1>1. s \in Int /\ t \in Int /\ Low(t, size) = s /\ size \in Sizes
  BY DEF Reads, Sizes
<1>2. CASE size = Word
  BY <1>1, <1>2, ReadsSame, SignedIn
<1>3. CASE size = Long
  BY <1>1, <1>3, LowLow DEF Word, Long
<1> QED BY <1>2, <1>3

(* The condition codes are in the low word.                                *)
LEMMA WithCcrLow ==
    ASSUME EightBits, NEW sr, NEW v \in Int, NEW w \in Int, Low(v, Word) = w
    PROVE  WithCcr(sr, v) = WithCcr(sr, w)
<1>1. v % 65536 = w
  BY SpanValues DEF Low
<1>2. 2 ^ 0 = 1 /\ 2 ^ 1 = 2 /\ 2 ^ 2 = 4 /\ 2 ^ 3 = 8 /\ 2 ^ 4 = 16
  BY SMT
<1>3. /\ (v \div 1) % 2 = (w \div 1) % 2 /\ (v \div 2) % 2 = (w \div 2) % 2 /\ (v \div 4) % 2 = (w \div 4) % 2
      /\ (v \div 8) % 2 = (w \div 8) % 2 /\ (v \div 16) % 2 = (w \div 16) % 2
  BY <1>1, SMT
<1> QED BY <1>2, <1>3 DEF WithCcr

(* Both sides set the user stack pointer.                                  *)
LEMMA TwinSetUsp ==
    ASSUME NEW D, NEW x, NEW y, Twin(D, x, y), NEW v \in Values(Long)
    PROVE  Twin(D, [x EXCEPT !.usp = v], [y EXCEPT !.usp = v])
BY DEF Twin, Same, Machines

(* CMPA.L borrows when the runtime's comparison does.                      *)
LEMMA CompareCarry ==
    ASSUME EightBits, NEW s \in Values(Long), NEW d \in Values(Long)
    PROVE  Flag((d - s) \div Span(Long) # s \div Span(Long)) = is_carry(d - s, Long)
<1> DEFINE r == d - s
<1>1. s \in Int /\ 0 <= s /\ s < 4294967296 /\ d \in Int /\ 0 <= d /\ d < 4294967296
  BY InValues
<1>2. s \div 4294967296 = 0 /\ (r \div 4294967296 # 0 <=> r # r % 4294967296)
  BY <1>1, SMT
<1> HIDE DEF r
<1>3. r \div Span(Long) # s \div Span(Long) <=> r # Low(r, Long)
  BY <1>2, SpanValues, SMT DEF Low
<1> QED BY <1>3 DEF is_carry, Flag, r

(* What a write to a data register leaves.                                 *)
DataSet(D, w, x, y, role, n, r) ==
    /\ Twin(D, w, [y EXCEPT !.d[n] = r])
    /\ w.incremented = x.incremented /\ w.sr = x.sr /\ w.pc = x.pc /\ w.status = x.status
    /\ w.decremented = x.decremented \cup {role} /\ n \in 0 .. 7 /\ y.d[n] \in Values(Long)

(* A write to a data register.                                             *)
LEMMA SetsData ==
    ASSUME EightBits, NEW D, NEW x, NEW y, Twin(D, x, y), NEW i, NEW role \in Roles, NEW t \in Targets,
               t = i[role],
           t.kind = "DataRegister", i.kind # "Movem", NEW size \in Sizes, NEW v \in Int, NEW w,
               w = Write(x, i, role, size, v),
           NEW n, n = t.index
    PROVE  DataSet(D, w, x, y, role, n, Replaced(y.d[n], v, size))
<1> DEFINE p == try_decrement_address(x, i, role)
           r == Replaced(y.d[n], v, size)
<1>1. n \in 0 .. 7
  BY TargetIn DEF IsRegister
<1>2. y.d[n] \in Values(Long) /\ y.d = x.d
  BY <1>1, RegisterIn DEF Twin, Same
<1>3. r \in Values(Long)
  BY <1>2, ReplacedIn
<1>4. p = IF role \in x.decremented THEN x ELSE [x EXCEPT !.decremented = x.decremented \cup {role}]
  <2>1. i[role].kind = "DataRegister"
    OBVIOUS
  <2> QED BY <2>1 DEF try_decrement_address
<1>5. w = [p EXCEPT !.d[n] = Replaced(p.d[n], v, size)]
  BY DEF Write
<1> HIDE DEF p
<1>6. /\ Twin(D, p, y) /\ p.incremented = x.incremented /\ p.sr = x.sr /\ p.pc = x.pc /\ p.status = x.status
      /\ p.decremented = x.decremented \cup {role} /\ p.d = x.d
  <2>1. CASE role \in x.decremented
    <3>1. x.decremented = x.decremented \cup {role}
      BY <2>1
    <3> QED BY <1>4, <2>1, <3>1
  <2>2. CASE role \notin x.decremented
    <3>1. p = [x EXCEPT !.decremented = x.decremented \cup {role}]
      BY <1>4, <2>2
    <3>2. x.decremented \cup {role} \in SUBSET Roles
      BY DEF Twin, Machines
    <3>3. Twin(D, p, y)
      BY <3>1, <3>2, TwinMarks
    <3> QED BY <3>1, <3>3 DEF Twin, Machines
  <2> QED BY <2>1, <2>2
<1>7. w = [p EXCEPT !.d[n] = r]
  BY <1>2, <1>5, <1>6
<1> HIDE DEF r
<1>8. Twin(D, w, [y EXCEPT !.d[n] = r])
  BY <1>1, <1>3, <1>6, <1>7, TwinSetD
<1>9. w.incremented = p.incremented /\ w.sr = p.sr /\ w.pc = p.pc /\ w.status = p.status
          /\ w.decremented = p.decremented
  BY <1>6, <1>7 DEF Twin, Machines
<1> QED BY <1>1, <1>2, <1>6, <1>8, <1>9 DEF r, DataSet

(* The lower half of a value is that of its low bytes.                     *)
LEMMA LowHalf ==
    ASSUME EightBits, NEW size \in {Word, Long}, NEW v \in Int
    PROVE  /\ size \div 2 \in Sizes /\ Signed(Low(v, size), size \div 2) = Signed(v, size \div 2)
           /\ Signed(v, size \div 2) \in Int
<1>1. size \div 2 \in Sizes /\ size \in Sizes /\ (size = Word => size \div 2 = Byte)
          /\ (size = Long => size \div 2 = Word)
  BY DEF Sizes, Byte, Word, Long
<1>2. Low(v, size) \in Int /\ Low(Low(v, size), size \div 2) = Low(v, size \div 2)
  <2>1. (v % 65536) % 256 = v % 256 /\ (v % 4294967296) % 65536 = v % 65536
    BY SMT
  <2> QED BY <1>1, <2>1, LowInt, SpanValues, SMTT(60) DEF Low
<1> QED BY <1>1, <1>2, SameLow, SignedIn

(* The kinds without operands.                                             *)
LEMMA NoOperands ==
    ASSUME NEW i, WellFormed(i), i.kind \in {"Bcc", "Bsr", "Trap", "Trapv", "Rts", "Rtr"}
    PROVE  /\ "src" \notin DOMAIN i /\ "dst" \notin DOMAIN i
           /\ \A role \in Roles \cap DOMAIN i : FALSE
<1>1. i.kind \notin UsesSrc \cup UsesDst \cup {"Movem"} \cup Shifts
  BY SMT DEF UsesDst, Shifts, UsesSrc, UsesBoth, BinaryKinds, AddressKinds, ExtendKinds, BitKinds,
         ToCcrKinds, ToSrKinds,
     QuickKinds, UnaryKinds
<1> QED BY <1>1, Operands DEF Roles

(* What an access of an operand leaves: the mark, and a machine z on the   *)
(* other side.                                                             *)
Placed(D, w, x, z, role) ==
    /\ Twin(D, w, z) /\ w.incremented = x.incremented /\ w.sr = x.sr /\ w.pc = x.pc /\ w.status = x.status
    /\ w.decremented = x.decremented \cup {role}

(* Accessing a register leaves the machine.                                *)
LEMMA RegisterMarks ==
    ASSUME NEW D, NEW x, NEW y, Twin(D, x, y), NEW i, NEW role \in Roles, IsRegister(i[role]),
           NEW p, p = try_decrement_address(x, i, role)
    PROVE  Placed(D, p, x, y, role) /\ p.d = x.d /\ (\A n : a_reg(p, n) = a_reg(x, n))
<1>1. i[role].kind # "AddressDecrement"
  BY DEF IsRegister
<1>2. p = IF role \in x.decremented THEN x ELSE [x EXCEPT !.decremented = x.decremented \cup {role}]
  BY <1>1 DEF try_decrement_address
<1>3. CASE role \in x.decremented
  <2>1. x.decremented = x.decremented \cup {role}
    BY <1>3
  <2> QED BY <1>2, <1>3, <2>1 DEF Placed
<1>4. CASE role \notin x.decremented
  <2>1. p = [x EXCEPT !.decremented = x.decremented \cup {role}]
    BY <1>2, <1>4
  <2>2. x.decremented \cup {role} \in SUBSET Roles
    BY DEF Twin, Machines
  <2>3. Twin(D, p, y)
    BY <2>1, <2>2, TwinMarks
  <2>4. /\ p.incremented = x.incremented /\ p.sr = x.sr /\ p.pc = x.pc /\ p.status = x.status /\ p.d = x.d
               /\ p.a = x.a
        /\ p.usp = x.usp /\ p.ssp = x.ssp /\ p.decremented = x.decremented \cup {role}
    BY <2>1 DEF Twin, Machines
  <2> QED BY <2>3, <2>4 DEF Placed, a_reg, stack_ptr
<1> QED BY <1>3, <1>4

(* Setting an address register leaves everything else.                     *)
LEMMA SetAKeeps ==
    ASSUME NEW D, NEW p \in Machines(D), NEW n, NEW v, NEW w, w = SetA(p, n, v)
    PROVE  /\ w.incremented = p.incremented /\ w.sr = p.sr /\ w.pc = p.pc /\ w.status = p.status
           /\ w.decremented = p.decremented /\ w.d = p.d /\ w.mem = p.mem
BY DEF SetA, SetStackPtr, Machines

(* A write to an address register.                                         *)
LEMMA SetsAddress ==
    ASSUME EightBits, NEW D, NEW x, NEW y, Twin(D, x, y), NEW i, NEW role \in Roles, NEW t \in Targets,
               t = i[role],
           t.kind = "AddressRegister", NEW v \in Int, NEW k \in Int, Low(v, Long) = Low(k, Long),
           NEW w, w = Write(x, i, role, Long, v), NEW n, n = t.index
    PROVE  Placed(D, w, x, SetA(y, n, k), role)
<1> DEFINE p == try_decrement_address(x, i, role)
           reg == a_reg(p, n)
<1>1. IsRegister(i[role]) /\ n \in 0 .. 7
  BY TargetIn DEF IsRegister
<1>2. Placed(D, p, x, y, role)
  BY <1>1, RegisterMarks
<1>3. w = SetA(p, n, Replaced(reg, v, Long))
  BY DEF Write
<1>4. p \in Machines(D)
  BY <1>2 DEF Placed, Twin
<1> HIDE DEF p
<1>5. reg \in Values(Long)
  BY <1>1, <1>4, RegisterIn
<1> HIDE DEF reg
<1>6. Replaced(reg, v, Long) = Low(k, Long)
  BY <1>5, ReplacedLong
<1>7. w = SetA(p, n, k)
  BY <1>3, <1>6, SetALow
<1>8. Twin(D, w, SetA(y, n, k))
  <2>1. Twin(D, p, y)
    BY <1>2 DEF Placed
  <2>2. Twin(D, SetA(p, n, k), SetA(y, n, k))
    BY <1>1, <2>1, TwinSetA
  <2> QED BY <1>7, <2>2
<1>9. /\ w.incremented = p.incremented /\ w.sr = p.sr /\ w.pc = p.pc /\ w.status = p.status
      /\ w.decremented = p.decremented
  BY <1>4, <1>7, SetAKeeps
<1> QED BY <1>2, <1>8, <1>9 DEF Placed

(* An indexed address is a number.                                         *)
LEMMA IndexIn ==
    ASSUME EightBits, NEW D, NEW x \in Machines(D), NEW t \in Targets,
               t.kind \in {"ProgramCounterIndex", "AddressIndex"}, NEW base \in Int
    PROVE  indexed_address(x, t, base) \in Int
<1>1. t.disp \in Values(Byte) /\ t.xreg \in [kind : {"DataRegister", "AddressRegister"}, index : 0 .. 7]
  BY DEF Targets, Stepped, Relative
<1>2. t.disp \in Int /\ t.xreg.index \in 0 .. 7
  BY <1>1, ValuesWiden
<1> DEFINE reg == IF t.xreg.kind = "AddressRegister" THEN a_reg(x, t.xreg.index) ELSE x.d[t.xreg.index]
<1>3. reg \in Int
  BY <1>2, RegisterIn, ValuesWiden
<1>4. indexed_address(x, t, base) = base + Signed(t.disp, Byte) + Signed(reg, IF t.xlong THEN Long ELSE Word)
  BY DEF indexed_address
<1> HIDE DEF reg
<1>5. Signed(t.disp, Byte) \in Int /\ Signed(reg, Long) \in Int /\ Signed(reg, Word) \in Int
  BY <1>2, <1>3, SignedIn DEF Sizes
<1>6. Signed(reg, IF t.xlong THEN Long ELSE Word) \in Int
  BY <1>5
<1> QED BY <1>4, <1>5, <1>6

(* A data register, or a register of either class, is set.                 *)
SetD(p, n, v) == [p EXCEPT !.d[n] = v]
SetR(p, t, v) == IF t.kind = "DataRegister" THEN SetD(p, t.index, v) ELSE SetA(p, t.index, v)

(* A write to a whole register.                                            *)
LEMMA SetsRegister ==
    ASSUME EightBits, NEW D, NEW x, NEW y, Twin(D, x, y), NEW i, NEW role \in Roles, NEW t \in Targets,
               t = i[role],
           IsRegister(t), i.kind # "Movem", NEW v \in Values(Long), NEW w, w = Write(x, i, role, Long, v)
    PROVE  Placed(D, w, x, SetR(y, t, v), role)
<1> DEFINE n == t.index
<1>1. v \in Int /\ Long \in Sizes /\ n = t.index
  BY ValuesWiden DEF Sizes
<1> HIDE DEF n
<1>2. CASE t.kind = "DataRegister"
  <2>1. DataSet(D, w, x, y, role, n, Replaced(y.d[n], v, Long))
    BY <1>1, <1>2, SetsData
  <2>2. Replaced(y.d[n], v, Long) = v
    BY <1>1, <2>1, ReplacedLong, LowKeeps DEF DataSet
  <2>3. SetR(y, t, v) = [y EXCEPT !.d[n] = v]
    BY <1>1, <1>2 DEF SetR, SetD
  <2> QED BY <2>1, <2>2, <2>3 DEF DataSet, Placed
<1>3. CASE t.kind = "AddressRegister"
  <2>1. Placed(D, w, x, SetA(y, n, v), role)
    BY <1>1, <1>3, SetsAddress
  <2>2. SetR(y, t, v) = SetA(y, n, v)
    BY <1>1, <1>3 DEF SetR
  <2> QED BY <2>1, <2>2
<1> QED BY <1>2, <1>3 DEF IsRegister

(* Two data registers are set in either order.                             *)
LEMMA DataApart ==
    ASSUME NEW D, NEW m \in Machines(D), NEW j, NEW k, j # k, NEW v, NEW w
    PROVE  SetD(SetD(m, j, v), k, w) = SetD(SetD(m, k, w), j, v)
<1> DEFINE p == [m.d EXCEPT ![j] = v]
           q == [m.d EXCEPT ![k] = w]
           x == SetD(m, j, v)
           y == SetD(m, k, w)
<1>1. [p EXCEPT ![k] = w] = [q EXCEPT ![j] = v]
  BY DEF Machines
<1>2. x = [m EXCEPT !.d = p] /\ y = [m EXCEPT !.d = q]
  BY DEF Machines, SetD
<1>3. SetD(x, k, w) = [x EXCEPT !.d[k] = w] /\ SetD(y, j, v) = [y EXCEPT !.d[j] = v]
  BY DEF SetD
<1> HIDE DEF p, q, x, y
<1>4. [x EXCEPT !.d[k] = w] = [y EXCEPT !.d[j] = v]
  BY <1>1, <1>2 DEF Machines
<1> QED BY <1>3, <1>4 DEF x, y

(* Two address registers are set in either order.                          *)
LEMMA AddressesApart ==
    ASSUME NEW D, NEW m \in Machines(D), NEW j \in 0 .. 7, NEW k \in 0 .. 7, j # k, NEW v, NEW w
    PROVE  SetA(SetA(m, j, v), k, w) = SetA(SetA(m, k, w), j, v)
<1>1. CASE j < 7 /\ k < 7
  <2> DEFINE p == [m.a EXCEPT ![j] = Low(v, Long)]
             q == [m.a EXCEPT ![k] = Low(w, Long)]
  <2>1. [p EXCEPT ![k] = Low(w, Long)] = [q EXCEPT ![j] = Low(v, Long)]
    BY DEF Machines
  <2>2. SetA(m, j, v) = [m EXCEPT !.a = p] /\ SetA(m, k, w) = [m EXCEPT !.a = q]
    BY <1>1 DEF SetA, Machines
  <2>3. SetA(SetA(m, j, v), k, w) = [SetA(m, j, v) EXCEPT !.a[k] = Low(w, Long)]
        /\ SetA(SetA(m, k, w), j, v) = [SetA(m, k, w) EXCEPT !.a[j] = Low(v, Long)]
    BY <1>1 DEF SetA
  <2> HIDE DEF p, q
  <2>4. [[m EXCEPT !.a = p] EXCEPT !.a[k] = Low(w, Long)] = [m EXCEPT !.a = [p EXCEPT ![k] = Low(w, Long)]]
    BY DEF Machines
  <2>5. [[m EXCEPT !.a = q] EXCEPT !.a[j] = Low(v, Long)] = [m EXCEPT !.a = [q EXCEPT ![j] = Low(v, Long)]]
    BY DEF Machines
  <2> QED BY <2>1, <2>2, <2>3, <2>4, <2>5
<1>2. CASE j < 7 /\ k = 7
  <2>1. SetA(m, j, v) = [m EXCEPT !.a[j] = Low(v, Long)] /\ SetA(m, k, w) = SetStackPtr(m, w)
    BY <1>2 DEF SetA
  <2>2. /\ SetA(SetA(m, j, v), k, w) = SetStackPtr([m EXCEPT !.a[j] = Low(v, Long)], w)
        /\ SetA(SetA(m, k, w), j, v) = [SetStackPtr(m, w) EXCEPT !.a[j] = Low(v, Long)]
    BY <1>2, <2>1 DEF SetA
  <2>3. SetStackPtr([m EXCEPT !.a[j] = Low(v, Long)], w) = [SetStackPtr(m, w) EXCEPT !.a[j] = Low(v, Long)]
    BY DEF SetStackPtr, Machines
  <2> QED BY <2>2, <2>3
<1>3. CASE j = 7 /\ k < 7
  BY <1>3 DEF SetA, SetStackPtr, Machines
<1> QED BY <1>1, <1>2, <1>3

(* A data and an address register are set in either order.                 *)
LEMMA ClassesApart ==
    ASSUME NEW D, NEW m \in Machines(D), NEW j, NEW k, NEW v, NEW w
    PROVE  SetA(SetD(m, j, v), k, w) = SetD(SetA(m, k, w), j, v)
BY DEF SetA, SetD, SetStackPtr, Machines

(* Two registers are exchanged in either order, one register with itself   *)
(* included.                                                               *)
LEMMA Exchanges ==
    ASSUME NEW D, NEW m \in Machines(D), NEW s \in Targets, NEW t \in Targets, IsRegister(s), IsRegister(t),
           NEW v, v = RegisterValue(m, t), NEW w, w = RegisterValue(m, s)
    PROVE  SetR(SetR(m, s, v), t, w) = SetR(SetR(m, t, w), s, v)
<1>1. s.index \in 0 .. 7 /\ t.index \in 0 .. 7
  BY TargetIn
<1>2. CASE s.kind = t.kind /\ s.index = t.index
  <2>1. v = w
    BY <1>2 DEF RegisterValue
  <2>2. \A p, z : SetR(p, s, z) = SetR(p, t, z)
    BY <1>2 DEF SetR
  <2> QED BY <2>1, <2>2
<1>3. CASE s.kind = "DataRegister" /\ t.kind = "DataRegister" /\ s.index # t.index
  BY <1>3, DataApart DEF SetR
<1>4. CASE s.kind # "DataRegister" /\ t.kind # "DataRegister" /\ s.index # t.index
  BY <1>1, <1>4, AddressesApart DEF SetR
<1>5. CASE s.kind = "DataRegister" /\ t.kind # "DataRegister"
  BY <1>5, ClassesApart DEF SetR
<1>6. CASE s.kind # "DataRegister" /\ t.kind = "DataRegister"
  BY <1>6, ClassesApart DEF SetR
<1> QED BY <1>2, <1>3, <1>4, <1>5, <1>6 DEF IsRegister

(* The counter of DBcc goes down by one and wraps.                         *)
LEMMA CountDown ==
    ASSUME EightBits, NEW v \in Int
    PROVE  /\ Low(Low(v, Word) - 1, Word) = Low(Low(v - 1, Word), Word)
           /\ Low(v, Word) - 1 \in Int /\ Low(v - 1, Word) \in Int
<1>1. ((v % 65536) - 1) % 65536 = ((v - 1) % 65536) % 65536
  BY SMT
<1>2. v % 65536 \in Int /\ (v - 1) % 65536 \in Int
  BY SMT
<1> QED BY <1>1, <1>2, SpanValues DEF Low

(* Of two settings of the program counter the last counts.                 *)
LEMMA SetPcTwice ==
    ASSUME NEW D, NEW w \in Machines(D), NEW k, NEW addr
    PROVE  SetPc([w EXCEPT !.pc = k], addr) = SetPc(w, addr)
<1>1. [[w EXCEPT !.pc = k] EXCEPT !.pc = Low(addr, Long)] = [w EXCEPT !.pc = Low(addr, Long)]
  BY DEF Machines
<1> QED BY <1>1 DEF SetPc

(* Program counter and status register are set in either order.            *)
LEMMA SetsBoth ==
    ASSUME NEW D, NEW x \in Machines(D), NEW v, NEW e
    PROVE  [[x EXCEPT !.pc = v] EXCEPT !.sr = e] = [[x EXCEPT !.sr = e] EXCEPT !.pc = v]
BY DEF Machines

(* The program counter and registers are set in either order.              *)
LEMMA PcApart ==
    ASSUME NEW D, NEW z \in Machines(D), NEW pc \in Values(Long), NEW f, f = [z EXCEPT !.pc = pc]
    PROVE  /\ f \in Machines(D) /\ stack_ptr(f) = stack_ptr(z) /\ \A n : a_reg(f, n) = a_reg(z, n)
           /\ \A n, v : SetA(f, n, v) = [SetA(z, n, v) EXCEPT !.pc = pc]
           /\ f.mem = z.mem /\ f.d = z.d /\ f.a = z.a
<1>1. f \in Machines(D) /\ f.a = z.a /\ f.sr = z.sr /\ f.ssp = z.ssp /\ f.usp = z.usp /\ f.d = z.d
          /\ f.mem = z.mem
  BY DEF Machines
<1>2. stack_ptr(f) = stack_ptr(z) /\ \A n : a_reg(f, n) = a_reg(z, n)
  BY <1>1 DEF stack_ptr, a_reg
<1>3. ASSUME NEW n, NEW v
      PROVE  SetA(f, n, v) = [SetA(z, n, v) EXCEPT !.pc = pc]
  <2>1. CASE n < 7
    BY <2>1 DEF SetA, Machines
  <2>2. CASE ~(n < 7)
    BY <2>2 DEF SetA, SetStackPtr, Machines
  <2> QED BY <2>1, <2>2
<1> QED BY <1>1, <1>2, <1>3

(* The program counter is set back.                                        *)
LEMMA PcBack ==
    ASSUME NEW D, NEW z \in Machines(D), NEW pc
    PROVE  [[z EXCEPT !.pc = pc] EXCEPT !.pc = z.pc] = z
BY DEF Machines

(* A byte written back leaves memory what it was.                          *)
LEMMA PutFetched ==
    ASSUME EightBits, NEW D, NEW y \in Machines(D), NEW addr \in Int, Mapped(y, addr, Byte), NEW v,
               v = Fetch(y, addr, Byte)
    PROVE  Put(y, addr, Byte, v) = y
<1> DEFINE p == Put(y, addr, Byte, v)
<1>1. y.mem \in [D -> Values(Byte)] /\ DOMAIN y.mem = D
  BY DEF Machines
<1>2. Byte \in Sizes /\ Byte = 1
  BY DEF Sizes, Byte
<1>3. addr .. addr + Byte - 1 \subseteq D
  BY <1>1 DEF Mapped
<1>4. v = y.mem[addr] /\ v \in Values(Byte) /\ v \in Int
  <2>1. \A b \in addr .. addr + Byte - 1 : y.mem[b] \in Int /\ y.mem[b] \in Values(Byte)
    BY <1>1, <1>3, InValues
  <2>2. v = y.mem[addr + 0]
    BY <1>2, <2>1, FetchIs
  <2>3. addr \in addr .. addr + Byte - 1 /\ addr + 0 = addr
    BY <1>2
  <2> QED BY <2>1, <2>2, <2>3
<1>5. p.mem \in [D -> Values(Byte)] /\ SameBut(p, y, D, addr, Byte) /\ HasBytes(p, addr, Byte, v)
  BY <1>1, <1>2, <1>3, <1>4, PutBytes
<1>6. p.mem[addr] = v
  <2>1. p.mem[addr + 0] = ByteOf(v, Byte - 1 - 0) /\ addr + 0 = addr
    BY <1>2, <1>5 DEF HasBytes
  <2>2. ByteOf(v, 0) = (v \div 1) % 256
    BY Powers, SpanValues, SMT DEF ByteOf
  <2>3. v \in 0 .. 255
    BY <1>4, SpanValues DEF Values, Byte
  <2>4. (v \div 1) % 256 = v
    BY <2>3, SMT
  <2> QED BY <1>2, <2>1, <2>2, <2>4
<1>7. \A b \in D : p.mem[b] = y.mem[b]
  <2> TAKE b \in D
  <2>1. CASE b = addr
    BY <1>4, <1>6, <2>1
  <2>2. CASE b # addr
    <3>1. b \notin addr .. addr + Byte - 1
      BY <1>2, <2>2, SMT
    <3> QED BY <1>5, <3>1 DEF SameBut
  <2> QED BY <2>1, <2>2
<1>8. p.mem = y.mem
  BY <1>1, <1>5, <1>7
<1>9. p = [y EXCEPT !.mem = p.mem]
  <2>1. y = [d |-> y.d, a |-> y.a, usp |-> y.usp, ssp |-> y.ssp, pc |-> y.pc, sr |-> y.sr, mem |-> y.mem,
            status |-> y.status,
             decremented |-> y.decremented, incremented |-> y.incremented, garbage |-> y.garbage]
    BY Zenon DEF Machines
  <2> QED BY <2>1 DEF Put
<1>10. [y EXCEPT !.mem = y.mem] = y
  BY DEF Machines
<1> QED BY <1>8, <1>9, <1>10

(* What a bit instruction makes of a set of bits.                          *)
Made(kind, is, bit) ==
    FromBits(CASE kind = "Bchg" -> SymDiff(is, bit) [] kind = "Bclr" -> is \ bit [] kind = "Bset" -> is \cup bit)

(* What a bit instruction makes is a number.                               *)
LEMMA MadeIn ==
    ASSUME EightBits, NEW kind \in BitKinds, kind # "Btst", NEW s \in Int, NEW size \in Sizes, NEW d,
           NEW bit, bit = {s % bit_count(size)}
    PROVE  Made(kind, BitsOf(d), bit) \in Int
<1> DEFINE is   == BitsOf(d)
           bits == CASE kind = "Bchg" -> SymDiff(is, bit) [] kind = "Bclr" -> is \ bit [] kind = "Bset" -> is \cup bit
<1>1. bit_count(size) \in Nat \ {0}
  BY SpanValues DEF Sizes
<1>2. s % bit_count(size) \in Nat
  BY <1>1
<1>3. bit \subseteq Nat /\ IsFiniteSet(bit)
  BY <1>2, FS_Singleton
<1>4. is \subseteq Nat /\ IsFiniteSet(is)
  BY BitsIn
<1>0. Made(kind, BitsOf(d), bit) = FromBits(bits)
  BY DEF Made
<1> HIDE DEF is
<1>5. IsFiniteSet(is \cup bit)
  BY <1>3, <1>4, FS_Union
<1>6. bits \subseteq is \cup bit
  BY DEF SymDiff, BitKinds
<1> HIDE DEF bits
<1>7. bits \subseteq Nat /\ IsFiniteSet(bits)
  BY <1>3, <1>4, <1>5, <1>6, FS_Subset
<1> QED BY <1>0, <1>7, FromBitsIn

(* The first register of a list comes first, and as many precede the end   *)
(* as there are.                                                           *)
LEMMA RankEnds ==
    ASSUME NEW list, list \subseteq 0 .. 15
    PROVE  Rank(0, list) = 0 /\ Rank(16, list) = Cardinality(list)
<1>0. \A q \in list : q \in Int /\ 0 <= q /\ q <= 15
  OBVIOUS
<1>1. {q \in list : q < 0} = {}
  <2>1. ASSUME NEW q \in list PROVE ~(q < 0)
    BY <1>0
  <2> QED BY <2>1, Zenon
<1>2. {q \in list : q < 16} = list
  <2>1. ASSUME NEW q \in list PROVE q < 16
    BY <1>0
  <2> QED BY <2>1, Zenon
<1> QED BY <1>1, <1>2, FS_EmptySet DEF Rank

(* The rank grows by one with every register of the list.                  *)
LEMMA RankNext ==
    ASSUME NEW list, list \subseteq 0 .. 15, NEW b \in 1 .. 16
    PROVE  /\ Rank(b - 1, list) \in Nat /\ Rank(b, list) \in Nat
           /\ b - 1 \in list => Rank(b, list) = Rank(b - 1, list) + 1
           /\ b - 1 \notin list => Rank(b, list) = Rank(b - 1, list)
<1> DEFINE now  == {q \in list : q < b}
           past == {q \in list : q < b - 1}
<1>0. \A q \in list : q \in Int /\ 0 <= q /\ q <= 15
  OBVIOUS
<1>1. Rank(b, list) = Cardinality(now) /\ Rank(b - 1, list) = Cardinality(past)
  BY DEF Rank
<1>2. now \subseteq 0 .. 15 /\ past \subseteq 0 .. 15
  OBVIOUS
<1>3. \A q \in list : q < b <=> q < b - 1 \/ q = b - 1
  BY <1>0
<1>4. b - 1 \in list => now = past \cup {b - 1}
  BY <1>3
<1>5. b - 1 \notin list => now = past
  BY <1>3
<1>6. b - 1 \notin past
  <2>1. ~(b - 1 < b - 1)
    OBVIOUS
  <2> QED BY <2>1
<1> HIDE DEF now, past
<1>7. IsFiniteSet(past) /\ Cardinality(past) \in Nat /\ Cardinality(now) \in Nat
  BY <1>2, Registers16
<1>8. b - 1 \in list => Cardinality(now) = Cardinality(past) + 1
  BY <1>4, <1>6, <1>7, FS_AddElement
<1> QED BY <1>1, <1>5, <1>7, <1>8

(* No two registers of a list have one rank.                               *)
LEMMA RankApart ==
    ASSUME NEW list, list \subseteq 0 .. 15, NEW q \in list, NEW r \in list, Rank(q, list) = Rank(r, list)
    PROVE  q = r
<1>0. \A k \in list : k \in Int /\ 0 <= k /\ k <= 15
  OBVIOUS
<1>1. ASSUME NEW j \in list, NEW k \in list, j < k PROVE Rank(j, list) # Rank(k, list)
  <2> DEFINE low  == {x \in list : x < j}
             high == {x \in list : x < k}
  <2>1. low \subseteq 0 .. 15 /\ high \subseteq 0 .. 15
    OBVIOUS
  <2>2. j \in high /\ j \notin low /\ low \subseteq high
    <3>1. ~(j < j) /\ (\A x \in list : x < j => x < k)
      BY <1>0, <1>1
    <3> QED BY <1>1, <3>1
  <2>3. Rank(j, list) = Cardinality(low) /\ Rank(k, list) = Cardinality(high)
    BY DEF Rank
  <2> HIDE DEF low, high
  <2>4. IsFiniteSet(high)
    BY <2>1, Registers16
  <2>5. Cardinality(high) = Cardinality(low) => high = low
    BY <2>2, <2>4, FS_Subset
  <2> QED BY <2>2, <2>3, <2>5
<1>2. ~(q < r) /\ ~(r < q)
  BY <1>1
<1>3. q \in Int /\ r \in Int
  BY <1>0
<1> QED BY <1>2, <1>3

(* The machines that the interpreter's MOVEM goes through, and what there  *)
(* is to know of them.                                                     *)
Puts(f, p, addr, size, v, n) ==
    f = [k \in 0 .. n |-> IF k = 0 THEN p ELSE Put(f[k - 1], addr + size * (k - 1), size, v[k])]
PutsSteps(f, p, addr, size, v, n) ==
    f[0] = p /\ \A k \in 1 .. n : f[k] = Put(f[k - 1], addr + size * (k - 1), size, v[k])

(* The interpreter's writes of MOVEM exist: MOVEM's recursive function has *)
(* a value for every number of registers.                                  *)
LEMMA PutsExist ==
    ASSUME EightBits, NEW D, NEW p \in Machines(D), NEW addr \in Int, NEW size \in {Word, Long}, NEW n \in Nat,
           NEW v, \A k \in 1 .. n : v[k] \in Int, Mapped(p, addr, size * n)
    PROVE  \E f : Puts(f, p, addr, size, v, n)
<1> DEFINE S == Machines(D)
           G == [z \in (1 .. n) \X S |-> Put(z[2], addr + size * (z[1] - 1), size, v[z[1]])]
<1>0. size \in Sizes
  BY DEF Sizes
<1>1. ASSUME NEW k \in 1 .. n, NEW x \in S PROVE Put(x, addr + size * (k - 1), size, v[k]) \in S
  <2>1. k - 1 \in 0 .. n - 1 /\ DOMAIN x.mem = DOMAIN p.mem
    BY DEF Machines
  <2>2. addr + size * (k - 1) \in Int /\ Mapped(x, addr + size * (k - 1), size)
    BY <2>1, PieceMapped
  <2>3. v[k] \in Int
    OBVIOUS
  <2> DEFINE at == addr + size * (k - 1)
             w == v[k]
             r == Put(x, at, size, w)
  <2>4. at \in Int /\ Mapped(x, at, size) /\ w \in Int /\ x \in Machines(D) /\ r = Put(x, at, size, w)
    BY <2>2, <2>3
  <2> HIDE DEF at, w, r
  <2>5. r \in Machines(D)
    BY <1>0, <2>4, PutIn DEF Pushed
  <2> QED BY <2>5 DEF r, at, w
<1>2. Steps(G, n, S)
  <2>1. ASSUME NEW z \in (1 .. n) \X S PROVE Put(z[2], addr + size * (z[1] - 1), size, v[z[1]]) \in S
    <3>1. z[1] \in 1 .. n /\ z[2] \in S
      OBVIOUS
    <3> HIDE DEF S
    <3> QED BY <1>1, <3>1
  <2> HIDE DEF S
  <2> QED BY <2>1 DEF Steps
<1>3. p \in S
  OBVIOUS
<1> HIDE DEF S
<1>4. ASSUME NEW k \in 1 .. n, NEW x \in S PROVE G[<<k, x>>] = Put(x, addr + size * (k - 1), size, v[k])
  <2>1. <<k, x>> \in (1 .. n) \X S
    OBVIOUS
  <2> QED BY <2>1
<1> HIDE DEF G
<1>5. PICK g \in [0 .. n -> S] : g[0] = p /\ \A k \in 1 .. n : g[k] = G[<<k, g[k - 1]>>]
  <2>1. \E g : Recurs(g, p, G, n, S)
    BY <1>2, <1>3, Recursion
  <2> QED BY <2>1 DEF Recurs
<1>6. ASSUME NEW k \in 1 .. n PROVE g[k] = Put(g[k - 1], addr + size * (k - 1), size, v[k])
  <2>1. g[k - 1] \in S
    OBVIOUS
  <2> QED BY <1>4, <1>5, <2>1
<1>7. Puts(g, p, addr, size, v, n)
  <2>1. ASSUME NEW k \in 0 .. n
        PROVE g[k] = IF k = 0 THEN p ELSE Put(g[k - 1], addr + size * (k - 1), size, v[k])
    BY <1>5, <1>6
  <2>2. g = [k \in 0 .. n |-> g[k]]
    OBVIOUS
  <2> QED BY <2>1, <2>2 DEF Puts
<1> QED BY <1>7

(* They are one write each.                                                *)
LEMMA PutsAre ==
    ASSUME NEW p, NEW addr, NEW size, NEW v, NEW n \in Nat, NEW f, Puts(f, p, addr, size, v, n)
    PROVE  PutsSteps(f, p, addr, size, v, n)
<1>1. f[0] = p
  <2>1. 0 \in 0 .. n
    OBVIOUS
  <2> QED BY <2>1 DEF Puts
<1>2. ASSUME NEW k \in 1 .. n PROVE f[k] = Put(f[k - 1], addr + size * (k - 1), size, v[k])
  <2>1. k \in 0 .. n /\ k # 0
    OBVIOUS
  <2> QED BY <2>1 DEF Puts
<1> QED BY <1>1, <1>2 DEF PutsSteps

(* A list of one register.                                                 *)
LEMMA OneRegister ==
    ASSUME NEW list, list \subseteq 0 .. 15, Cardinality(list) = 1
    PROVE  \E b \in 0 .. 15 : list = {b}
<1>1. IsFiniteSet(list)
  BY Registers16
<1>2. PICK b : list = {b}
  BY <1>1, FS_Singleton
<1>3. b \in 0 .. 15 /\ b \in list
  BY <1>2
<1> QED BY <1>2, <1>3

(* The sixteen registers are filled at once, and what that leaves.         *)
Filled(x, f) ==
    [SetStackPtr(x, f[15]) EXCEPT !.d = [r \in 0 .. 7 |-> f[r]], !.a = [r \in 0 .. 6 |-> f[r + 8]]]
FilledAs(D, x, f, z) ==
    /\ z \in Machines(D) /\ z.incremented = x.incremented /\ z.sr = x.sr /\ z.mem = x.mem /\ z.pc = x.pc
    /\ z.d = [r \in 0 .. 7 |-> f[r]] /\ z.a = [r \in 0 .. 6 |-> f[r + 8]]
    /\ z.ssp = (IF x.sr.s = 1 THEN f[15] ELSE x.ssp) /\ z.usp = (IF x.sr.s = 1 THEN x.usp ELSE f[15])

(* What a load leaves is a machine with the registers of f.                *)
LEMMA FilledIs ==
    ASSUME EightBits, NEW D, NEW x \in Machines(D), NEW f \in [0 .. 15 -> Values(Long)], NEW z, z = Filled(x, f)
    PROVE  FilledAs(D, x, f, z)
<1> DEFINE top == f[15]
           k == SetStackPtr(x, top)
           d == [r \in 0 .. 7 |-> f[r]]
           a == [r \in 0 .. 6 |-> f[r + 8]]
<1>1. top \in Values(Long) /\ top \in Int /\ Low(top, Long) = top
  <2>1. top \in Values(Long)
    OBVIOUS
  <2> HIDE DEF top
  <2> QED BY <2>1, ValuesWiden, LowKeeps
<1>2. d \in [0 .. 7 -> Values(Long)] /\ a \in [0 .. 6 -> Values(Long)]
  <2>1. \A r \in 0 .. 7 : r \in 0 .. 15
    OBVIOUS
  <2>2. \A r \in 0 .. 6 : r + 8 \in 0 .. 15
    OBVIOUS
  <2> QED BY <2>1, <2>2
<1>3. k = IF x.sr.s = 1 THEN [x EXCEPT !.ssp = top] ELSE [x EXCEPT !.usp = top]
  <2> HIDE DEF top
  <2> QED BY <1>1 DEF SetStackPtr
<1>4. z = [k EXCEPT !.d = d, !.a = a]
  BY Zenon DEF Filled
<1>5. top = f[15] /\ d = [r \in 0 .. 7 |-> f[r]] /\ a = [r \in 0 .. 6 |-> f[r + 8]]
  OBVIOUS
<1> HIDE DEF top, d, a, k
<1>6. k \in Machines(D) /\ k.incremented = x.incremented /\ k.sr = x.sr /\ k.mem = x.mem /\ k.pc = x.pc
      /\ k.ssp = (IF x.sr.s = 1 THEN top ELSE x.ssp) /\ k.usp = (IF x.sr.s = 1 THEN x.usp ELSE top)
  BY <1>1, <1>3 DEF Machines
<1>7. z \in Machines(D) /\ z.d = d /\ z.a = a /\ z.incremented = k.incremented /\ z.sr = k.sr
          /\ z.mem = k.mem /\ z.pc = k.pc
      /\ z.ssp = k.ssp /\ z.usp = k.usp
  BY <1>2, <1>4, <1>6 DEF Machines
<1> QED BY <1>5, <1>6, <1>7, Zenon DEF FilledAs

(* Both sides fill the registers alike.                                    *)
LEMMA FilledTwin ==
    ASSUME EightBits, NEW D, NEW x, NEW y, Twin(D, x, y), NEW f \in [0 .. 15 -> Values(Long)]
    PROVE  Twin(D, Filled(x, f), Filled(y, f))
<1> DEFINE v == Filled(x, f)
           w == Filled(y, f)
<1>1. x \in Machines(D) /\ y \in Machines(D) /\ v = Filled(x, f) /\ w = Filled(y, f)
  BY DEF Twin
<1> HIDE DEF v, w
<1>2. FilledAs(D, x, f, v) /\ FilledAs(D, y, f, w)
  BY <1>1, FilledIs
<1>3. Twin(D, v, w)
  BY <1>2 DEF Twin, Same, FilledAs
<1> QED BY <1>1, <1>3

(* A register that is set afterwards may be filled with anything.          *)
LEMMA FilledBeside ==
    ASSUME EightBits, NEW D, NEW x \in Machines(D), NEW f \in [0 .. 15 -> Values(Long)],
               NEW g \in [0 .. 15 -> Values(Long)],
           NEW n \in 0 .. 7, \A r \in 0 .. 15 : r # n + 8 => f[r] = g[r], NEW v \in Int
    PROVE  Twin(D, SetA(Filled(x, f), n, v), SetA(Filled(x, g), n, v))
<1> DEFINE y == Filled(x, f)
           z == Filled(x, g)
           V == Low(v, Long)
<1>1. y = Filled(x, f) /\ z = Filled(x, g)
  OBVIOUS
<1> HIDE DEF y, z
<1>2. FilledAs(D, x, f, y) /\ FilledAs(D, x, g, z)
  BY <1>1, FilledIs
<1>3. y \in Machines(D) /\ z \in Machines(D) /\ y.sr = x.sr /\ z.sr = x.sr
  BY <1>2 DEF FilledAs
<1>4. y.d = z.d
  <2>1. \A r \in 0 .. 7 : f[r] = g[r]
    <3> SUFFICES ASSUME NEW r \in 0 .. 7 PROVE f[r] = g[r]
      OBVIOUS
    <3>1. r \in 0 .. 15 /\ r # n + 8
      OBVIOUS
    <3> QED BY <3>1
  <2> QED BY <1>2, <2>1 DEF FilledAs
<1>5. \A r \in 0 .. 6 : r # n => y.a[r] = z.a[r]
  <2> SUFFICES ASSUME NEW r \in 0 .. 6, r # n PROVE y.a[r] = z.a[r]
    OBVIOUS
  <2>1. r + 8 \in 0 .. 15 /\ r + 8 # n + 8
    OBVIOUS
  <2>2. y.a[r] = f[r + 8] /\ z.a[r] = g[r + 8]
    BY <1>2 DEF FilledAs
  <2> QED BY <2>1, <2>2
<1>6. n # 7 => f[15] = g[15]
  <2>1. 15 \in 0 .. 15 /\ (n # 7 => 15 # n + 8)
    OBVIOUS
  <2> QED BY <2>1
<1>7. V \in Values(Long)
  BY LowLong
<1> DEFINE Y == SetA(y, n, v)
           Z == SetA(z, n, v)
<1>8. Y \in Machines(D) /\ Z \in Machines(D)
  <2>1. Y = SetA(y, n, v) /\ Z = SetA(z, n, v)
    OBVIOUS
  <2> HIDE DEF Y, Z
  <2> QED BY <1>3, <2>1, SetAIn DEF AddressSet
<1>9. Same(Y, Z)
  <2>1. CASE n < 7
    <3>1. Y = [y EXCEPT !.a[n] = V] /\ Z = [z EXCEPT !.a[n] = V]
      BY <2>1 DEF SetA
    <3>2. y.a \in [0 .. 6 -> Values(Long)] /\ z.a \in [0 .. 6 -> Values(Long)] /\ n \in 0 .. 6 /\ n # 7
      BY <1>3, <2>1 DEF Machines
    <3> HIDE DEF V
    <3>3. [y.a EXCEPT ![n] = V] = [z.a EXCEPT ![n] = V]
      BY <1>5, <3>2
    <3> HIDE DEF Y, Z
    <3>4. Y.a = [y.a EXCEPT ![n] = V] /\ Z.a = [z.a EXCEPT ![n] = V]
      BY <1>3, <3>1 DEF Machines
    <3>5. /\ Y.d = y.d /\ Y.ssp = y.ssp /\ Y.usp = y.usp /\ Y.mem = y.mem /\ Y.sr = y.sr /\ Y.pc = y.pc
          /\ Z.d = z.d /\ Z.ssp = z.ssp /\ Z.usp = z.usp /\ Z.mem = z.mem /\ Z.sr = z.sr /\ Z.pc = z.pc
      BY <1>3, <3>1 DEF Machines
    <3>6. y.ssp = z.ssp /\ y.usp = z.usp /\ y.mem = z.mem /\ y.sr = z.sr /\ y.pc = z.pc
      BY <1>2, <1>6, <3>2 DEF FilledAs
    <3> QED BY <1>4, <3>3, <3>4, <3>5, <3>6 DEF Same
  <2>2. CASE ~(n < 7)
    <3>1. n = 7
      BY <2>2
    <3>2. \A r \in 0 .. 6 : y.a[r] = z.a[r]
      BY <1>5, <3>1
    <3>3. y.a = z.a
      <4>1. y.a \in [0 .. 6 -> Values(Long)] /\ z.a \in [0 .. 6 -> Values(Long)]
        BY <1>3 DEF Machines
      <4> QED BY <3>2, <4>1
    <3>4. /\ Y = (IF x.sr.s = 1 THEN [y EXCEPT !.ssp = V] ELSE [y EXCEPT !.usp = V])
          /\ Z = (IF x.sr.s = 1 THEN [z EXCEPT !.ssp = V] ELSE [z EXCEPT !.usp = V])
      BY <1>3, <2>2 DEF SetA, SetStackPtr
    <3> HIDE DEF V, Y, Z
    <3>5. y.mem = z.mem /\ y.sr = z.sr /\ y.pc = z.pc /\ (x.sr.s = 1 => y.usp = z.usp)
              /\ (x.sr.s # 1 => y.ssp = z.ssp)
      BY <1>2 DEF FilledAs
    <3>6. CASE x.sr.s = 1
      BY <1>3, <1>4, <3>3, <3>4, <3>5, <3>6 DEF Same, Machines
    <3>7. CASE x.sr.s # 1
      BY <1>3, <1>4, <3>3, <3>4, <3>5, <3>7 DEF Same, Machines
    <3> QED BY <3>6, <3>7
  <2> QED BY <2>1, <2>2
<1> HIDE DEF Y, Z
<1>10. Twin(D, Y, Z)
  BY <1>8, <1>9 DEF Twin
<1> QED BY <1>1, <1>10 DEF Y, Z
=============================================================================
