-------------------------- MODULE RecompilerProofs --------------------------
(***************************************************************************)
(* Proofs about Recompiler, for ROMs of any size and content and any       *)
(* configuration.                                                          *)
(***************************************************************************)
EXTENDS Recompiler, WellFoundedInduction, TLAPS

-----------------------------------------------------------------------------
(* Sequences as the bags of addresses they are used for.                   *)

\* Pushing an element adds it.
LEMMA AppendElements ==
  ASSUME NEW S, NEW s \in Seq(S), NEW x \in S
  PROVE  Append(s, x) \in Seq(S) /\ Elements(Append(s, x)) = Elements(s) \cup {x}
<1>1. /\ DOMAIN Append(s, x) = 1..(Len(s) + 1) /\ DOMAIN s = 1..Len(s)
      /\ \A i \in 1..Len(s) : Append(s, x)[i] = s[i]
      /\ Append(s, x)[Len(s) + 1] = x
      /\ Len(s) \in Nat
  OBVIOUS
<1>2. ASSUME NEW y \in Elements(Append(s, x)) PROVE y \in Elements(s) \cup {x}
  BY <1>1, <1>2 DEF Elements
<1>3. ASSUME NEW y \in Elements(s) \cup {x} PROVE y \in Elements(Append(s, x))
  <2>1. CASE y = x
    BY <1>1, <2>1 DEF Elements
  <2>2. CASE y \in Elements(s)
    <3>1. PICK i \in 1..Len(s) : y = s[i]
      BY <1>1, <2>2 DEF Elements
    <3> QED BY <1>1, <3>1 DEF Elements
  <2> QED BY <1>3, <2>1, <2>2
<1> QED BY <1>2, <1>3

\* Joining two lists joins their elements.
LEMMA ConcatElements ==
  ASSUME NEW S, NEW s \in Seq(S), NEW t \in Seq(S)
  PROVE  s \o t \in Seq(S) /\ Elements(s \o t) = Elements(s) \cup Elements(t)
<1>1. /\ DOMAIN (s \o t) = 1..(Len(s) + Len(t))
      /\ DOMAIN s = 1..Len(s) /\ DOMAIN t = 1..Len(t)
      /\ Len(s) \in Nat /\ Len(t) \in Nat
      /\ \A i \in 1..Len(s) : (s \o t)[i] = s[i]
      /\ \A i \in 1..Len(t) : (s \o t)[Len(s) + i] = t[i]
  OBVIOUS
<1>2. ASSUME NEW y \in Elements(s \o t) PROVE y \in Elements(s) \cup Elements(t)
  <2>1. PICK i \in 1..(Len(s) + Len(t)) : y = (s \o t)[i]
    BY <1>1 DEF Elements
  <2>2. CASE i <= Len(s)
    BY <1>1, <2>1, <2>2 DEF Elements
  <2>3. CASE i > Len(s)
    <3>1. i - Len(s) \in 1..Len(t) /\ i = Len(s) + (i - Len(s))
      BY <1>1, <2>3
    <3>2. y = t[i - Len(s)]
      BY <1>1, <2>1, <3>1
    <3> QED BY <1>1, <3>1, <3>2 DEF Elements
  <2> QED BY <1>1, <2>2, <2>3
<1>3. ASSUME NEW y \in Elements(s) PROVE y \in Elements(s \o t)
  <2>1. PICK i \in 1..Len(s) : y = s[i]
    BY <1>1 DEF Elements
  <2>2. i \in 1..(Len(s) + Len(t)) /\ (s \o t)[i] = y
    BY <1>1, <2>1
  <2> QED BY <1>1, <2>2 DEF Elements
<1>4. ASSUME NEW y \in Elements(t) PROVE y \in Elements(s \o t)
  <2>1. PICK i \in 1..Len(t) : y = t[i]
    BY <1>1 DEF Elements
  <2>2. Len(s) + i \in 1..(Len(s) + Len(t)) /\ (s \o t)[Len(s) + i] = y
    BY <1>1, <2>1
  <2> QED BY <1>1, <2>2 DEF Elements
<1> QED BY <1>2, <1>3, <1>4

\* Taking the first element.
LEMMA HeadAndTail ==
  ASSUME NEW S, NEW s \in Seq(S), s # <<>>
  PROVE  /\ Head(s) \in S /\ Tail(s) \in Seq(S)
         /\ Elements(s) = {Head(s)} \cup Elements(Tail(s))
<1>1. /\ Len(s) \in Nat /\ Len(s) >= 1 /\ DOMAIN s = 1..Len(s)
      /\ Head(s) = s[1] /\ Head(s) \in S
      /\ Tail(s) \in Seq(S) /\ DOMAIN Tail(s) = 1..(Len(s) - 1)
      /\ \A i \in 1..(Len(s) - 1) : Tail(s)[i] = s[i + 1]
  OBVIOUS
<1>2. ASSUME NEW y \in Elements(s) PROVE y \in {Head(s)} \cup Elements(Tail(s))
  <2>1. PICK i \in 1..Len(s) : y = s[i]
    BY <1>1 DEF Elements
  <2>2. CASE i = 1
    BY <1>1, <2>1, <2>2
  <2>3. CASE i # 1
    <3>1. i - 1 \in 1..(Len(s) - 1) /\ Tail(s)[i - 1] = y
      BY <1>1, <2>1, <2>3
    <3> QED BY <1>1, <3>1 DEF Elements
  <2> QED BY <2>2, <2>3
<1>3. ASSUME NEW y \in {Head(s)} \cup Elements(Tail(s)) PROVE y \in Elements(s)
  <2>1. CASE y = Head(s)
    BY <1>1, <2>1 DEF Elements
  <2>2. CASE y \in Elements(Tail(s))
    <3>1. PICK i \in 1..(Len(s) - 1) : y = Tail(s)[i]
      BY <1>1, <2>2 DEF Elements
    <3>2. i + 1 \in 1..Len(s) /\ y = s[i + 1]
      BY <1>1, <3>1
    <3> QED BY <1>1, <3>2 DEF Elements
  <2> QED BY <1>3, <2>1, <2>2
<1> QED BY <1>1, <1>2, <1>3

\* Taking the last element.
LEMMA LastAndFront ==
  ASSUME NEW S, NEW s \in Seq(S), s # <<>>
  PROVE  /\ s[Len(s)] \in S /\ SubSeq(s, 1, Len(s) - 1) \in Seq(S)
         /\ Elements(s) = {s[Len(s)]} \cup Elements(SubSeq(s, 1, Len(s) - 1))
<1> DEFINE front == SubSeq(s, 1, Len(s) - 1)
<1>1. /\ Len(s) \in Nat /\ Len(s) >= 1 /\ DOMAIN s = 1..Len(s)
      /\ s[Len(s)] \in S
      /\ front \in Seq(S) /\ DOMAIN front = 1..(Len(s) - 1)
      /\ \A i \in 1..(Len(s) - 1) : front[i] = s[i]
  OBVIOUS
<1> HIDE DEF front
<1>2. ASSUME NEW y \in Elements(s) PROVE y \in {s[Len(s)]} \cup Elements(front)
  <2>1. PICK i \in 1..Len(s) : y = s[i]
    BY <1>1 DEF Elements
  <2>2. CASE i = Len(s)
    BY <2>1, <2>2
  <2>3. CASE i # Len(s)
    <3>1. Len(s) \in Nat
      BY <1>1
    <3>2. i \in 1..(Len(s) - 1)
      BY <2>1, <2>3, <3>1
    <3>3. front[i] = y
      BY <1>1, <2>1, <3>2
    <3> QED BY <1>1, <3>2, <3>3 DEF Elements
  <2> QED BY <2>2, <2>3
<1>3. ASSUME NEW y \in {s[Len(s)]} \cup Elements(front) PROVE y \in Elements(s)
  <2>1. CASE y = s[Len(s)]
    BY <1>1, <2>1 DEF Elements
  <2>2. CASE y \in Elements(front)
    <3>1. PICK i \in 1..(Len(s) - 1) : y = front[i]
      BY <1>1, <2>2 DEF Elements
    <3> QED BY <1>1, <3>1 DEF Elements
  <2> QED BY <1>3, <2>1, <2>2
<1> QED BY <1>1, <1>2, <1>3 DEF front

-----------------------------------------------------------------------------
(* Types.                                                                  *)

\* The seeds are addresses, and the switch targets are among them.
LEMMA SeedTypes ==
  /\ Vectors \o SwitchTargets \o KnownFunctions \in Seq(Nat)
  /\ Elements(SwitchTargets) \subseteq Elements(Vectors \o SwitchTargets \o KnownFunctions)
<1>1. /\ Vectors \o SwitchTargets \in Seq(Nat)
      /\ Elements(Vectors \o SwitchTargets) = Elements(Vectors) \cup Elements(SwitchTargets)
  BY SeedsAssumption, ConcatElements
<1> DEFINE given == Vectors \o SwitchTargets
<1>2. given \in Seq(Nat) /\ KnownFunctions \in Seq(Nat)
  BY <1>1, SeedsAssumption
<1> HIDE DEF given
<1>3. /\ given \o KnownFunctions \in Seq(Nat)
      /\ Elements(given \o KnownFunctions) = Elements(given) \cup Elements(KnownFunctions)
  BY <1>2, ConcatElements
<1> QED BY <1>1, <1>3 DEF given

\* What a block is, given where it begins and ends.
LEMMA BlockTypes ==
  ASSUME rom \in [Addr -> Instruction], NEW first \in Addr, NEW last \in Addr
  PROVE  /\ BlockOf(first, last) \in Block
         /\ BlockOf(first, last).first = first /\ BlockOf(first, last).last = last
         /\ BlockOf(first, last).exit = Exit(last).exit
         /\ BlockOf(first, last).target = Exit(last).target
<1>1. last + 1 \in Nat /\ 0 \in Nat
  BY SizeAssumption DEF Addr
<1>2. rom[last].target \in Nat
  BY DEF Instruction
<1>3. Exit(last) \in [exit : Exits, target : Nat, fallthrough : Nat]
  <2> DEFINE k == rom[last].kind
  <2>1. \/ k = "bcc" \/ k = "bra" \/ k = "call" \/ k = "calli" \/ k = "jmp" \/ k = "jmpi"
        \/ k \notin {"bcc", "bra", "call", "calli", "jmp", "jmpi"}
    OBVIOUS
  <2> QED BY <1>1, <1>2, <2>1 DEF Exit, Exits
<1> QED BY <1>3 DEF BlockOf, Block

\* The successors of a block are addresses.
LEMMA SuccessorTypes ==
  ASSUME NEW b \in Block
  PROVE  Successors(b) \in Seq(Nat)
<1>1. b.target \in Nat /\ b.fallthrough \in Nat /\ SwitchTargets \in Seq(Nat)
  BY SeedsAssumption DEF Block
<1>2. /\ <<b.fallthrough, b.target>> \in Seq(Nat) /\ <<b.target>> \in Seq(Nat)
      /\ <<b.fallthrough>> \in Seq(Nat) /\ <<>> \in Seq(Nat)
  BY <1>1
<1> QED BY <1>1, <1>2 DEF Successors

\* enqueue_function keeps entries and queue together.
LEMMA EnqueueStep ==
  ASSUME entries \subseteq Addr, pending \in Seq(Addr), NEW a, Enqueue(a)
  PROVE  /\ entries' \subseteq Addr /\ pending' \in Seq(Addr)
         /\ entries \subseteq entries'
         /\ a \in Addr => a \in entries'
         /\ entries' \ entries \subseteq Elements(pending')
         /\ Elements(pending) \subseteq Elements(pending')
         /\ entries' \subseteq entries \cup ({a} \cap Addr)
         /\ Elements(pending') \subseteq Elements(pending) \cup entries'
<1>1. CASE a \in Addr \ entries
  <2>1. entries' = entries \cup {a} /\ pending' = Append(pending, a)
    BY <1>1 DEF Enqueue
  <2>2. /\ Append(pending, a) \in Seq(Addr)
        /\ Elements(Append(pending, a)) = Elements(pending) \cup {a}
    BY <1>1, AppendElements
  <2> QED BY <1>1, <2>1, <2>2
<1>2. CASE a \notin Addr \ entries
  BY <1>2 DEF Enqueue
<1> QED BY <1>1, <1>2

\* Every step keeps the types.
LEMMA TypeStep == TypeOK /\ [Next]_vars => TypeOK'
<1> SUFFICES ASSUME TypeOK, [Next]_vars PROVE TypeOK'
  OBVIOUS
<1> USE DEF TypeOK
<1>1. CASE Seed
  BY <1>1, HeadAndTail, EnqueueStep DEF Seed
<1>2. CASE BeginFunction
  <2>1. cur' \in Addr /\ pending' \in Seq(Addr)
    BY <1>2, LastAndFront DEF BeginFunction
  <2>2. <<cur'>> \in Seq(Nat)
    BY <2>1, SizeAssumption DEF Addr
  <2> QED BY <1>2, <2>1, <2>2 DEF BeginFunction
<1>3. CASE SkipAddress
  BY <1>3, HeadAndTail DEF SkipAddress
<1>4. CASE TraceBlock
  <2> DEFINE first == Head(worklist)
  <2>1. first \in Addr /\ cur \in Addr /\ Tail(worklist) \in Seq(Nat)
    BY <1>4, HeadAndTail DEF TraceBlock, Skips
  <2>2. PICK last \in Addr :
          /\ blocks' = [blocks EXCEPT ![cur] = @ \cup {BlockOf(first, last)}]
          /\ worklist' = Tail(worklist) \o Successors(BlockOf(first, last))
          /\ IF BlockOf(first, last).exit = "Call"
               THEN Enqueue(BlockOf(first, last).target)
               ELSE UNCHANGED <<pending, entries>>
    BY <1>4 DEF TraceBlock
  <2> DEFINE b == BlockOf(first, last)
  <2>3. b \in Block
    BY <2>1, BlockTypes
  <2> HIDE DEF b, first
  <2>4. worklist' \in Seq(Nat)
    BY <2>1, <2>2, <2>3, SuccessorTypes, ConcatElements DEF b
  <2>5. blocks' \in [Addr -> SUBSET Block]
    BY <2>1, <2>2, <2>3 DEF b
  <2>6. entries' \subseteq Addr /\ pending' \in Seq(Addr)
    BY <2>2, EnqueueStep
  <2> QED BY <1>4, <2>4, <2>5, <2>6 DEF TraceBlock
<1>5. CASE EndFunction
  BY <1>5 DEF EndFunction
<1>6. CASE UNCHANGED vars
  BY <1>6 DEF vars
<1> QED BY <1>1, <1>2, <1>3, <1>4, <1>5, <1>6 DEF Next, Finished

-----------------------------------------------------------------------------
(* The inductive invariant.                                                *)

\* The tables are seeded before the first function, and a function is traced
\* only then.
Seeding ==
  /\ Elements(SwitchTargets) \cap Addr \subseteq entries \cup Elements(seeds)
  /\ seeds # <<>> => cur = None
  /\ cur # None => cur \in functions

\* An entry is a function or waits to become one.
Queued == entries \subseteq functions \cup Elements(pending)

\* A function begins with a block at its entry, or will.
EntryTraced ==
  \A f \in functions :
    f \in Starts(f) \/ (f = cur /\ f \in Elements(worklist))

\* What ends a block is what its last instruction says.
Ending(b) ==
  LET i == rom[b.last]
  IN /\ b.exit = "Jump" => i.kind \in {"bra", "jmp", "plain"}
     /\ b.exit \in {"Call", "IndirectCall"} => i.kind \in {"call", "calli"}
     /\ i.kind = "bra" => b.exit = "Jump" /\ b.target = i.target
     /\ i.kind = "bcc" => b.exit = "Branch" /\ b.target = i.target

\* Blocks end as their instructions do, and the target of a call is an entry.
Shapes ==
  \A f \in functions : \A b \in blocks[f] :
    /\ Ending(b)
    /\ b.exit = "Call" /\ b.target \in Addr => b.target \in entries

\* Only functions have blocks.
Homes == \A f \in Addr \ functions : blocks[f] = {}

IInv ==
  TypeOK /\ Seeding /\ Queued /\ EntryTraced /\ Shapes /\ Homes /\ SuccessorsKept

\* The invariant holds at first.
LEMMA InitInductive == Init => IInv
<1> SUFFICES ASSUME Init PROVE IInv
  OBVIOUS
<1>1. TypeOK
  BY SeedTypes, ProgramsAssumption DEF Init, TypeOK
<1>2. Elements(SwitchTargets) \subseteq Elements(seeds)
  BY SeedTypes DEF Init
<1>3. Seeding
  BY <1>2 DEF Init, Seeding
<1> QED BY <1>1, <1>3 DEF Init, IInv, Queued, EntryTraced, Shapes, Homes, SuccessorsKept

\* Enqueuing a seed adds entries and moves nothing else.
LEMMA SeedKeeps ==
  ASSUME IInv, Seed
  PROVE  Seeding' /\ Queued' /\ EntryTraced' /\ Shapes' /\ Homes' /\ SuccessorsKept'
<1>1. /\ entries' \subseteq Addr /\ entries \subseteq entries'
      /\ Head(seeds) \in Addr => Head(seeds) \in entries'
      /\ entries' \ entries \subseteq Elements(pending')
      /\ Elements(pending) \subseteq Elements(pending')
  BY EnqueueStep DEF IInv, TypeOK, Seed
<1>2. Elements(seeds) = {Head(seeds)} \cup Elements(seeds')
  BY HeadAndTail DEF IInv, TypeOK, Seed
<1>3. UNCHANGED <<rom, functions, cur, worklist, blocks>>
  BY DEF Seed
<1>4. Seeding'
  BY <1>1, <1>2, <1>3 DEF IInv, Seeding, Seed
<1>5. Queued'
  BY <1>1, <1>3 DEF IInv, Queued
<1>6. EntryTraced' /\ Homes'
  BY <1>3 DEF IInv, EntryTraced, Homes, Starts
<1>7. Shapes'
  BY <1>1, <1>3 DEF IInv, Shapes, Ending
<1>8. SuccessorsKept'
  BY <1>1, <1>3 DEF IInv, SuccessorsKept, Starts
<1> QED BY <1>4, <1>5, <1>6, <1>7, <1>8

\* The new function has no blocks and its entry in the worklist.
LEMMA BeginKeeps ==
  ASSUME IInv, BeginFunction
  PROVE  Seeding' /\ Queued' /\ EntryTraced' /\ Shapes' /\ Homes' /\ SuccessorsKept'
<1> DEFINE f == pending[Len(pending)]
<1>1. /\ f \in Addr /\ cur' = f /\ functions' = functions \cup {f}
      /\ worklist' = <<f>> /\ cur = None /\ seeds = <<>>
      /\ UNCHANGED <<rom, seeds, entries, blocks>>
  BY LastAndFront DEF IInv, TypeOK, BeginFunction
<1>2. Elements(pending) = {f} \cup Elements(pending')
  BY LastAndFront DEF IInv, TypeOK, BeginFunction
<1>3. f \in Elements(worklist')
  BY <1>1 DEF Elements
<1>4. f # None /\ \A g \in functions : g \in Addr /\ g # cur
  BY <1>1, SizeAssumption DEF None, Addr, IInv, TypeOK
<1> HIDE DEF f
<1>5. Seeding'
  BY <1>1 DEF IInv, Seeding
<1>6. Queued'
  BY <1>1, <1>2 DEF IInv, Queued
<1>7. EntryTraced'
  BY <1>1, <1>3, <1>4 DEF IInv, EntryTraced, Starts
<1>8. f \in functions \/ blocks[f] = {}
  BY <1>1 DEF IInv, Homes
<1>9. Shapes' /\ Homes'
  BY <1>1, <1>8 DEF IInv, Shapes, Ending, Homes
<1>10. SuccessorsKept'
  <2> SUFFICES ASSUME NEW g \in functions, NEW b \in blocks[g]
               PROVE  Elements(Successors(b)) \cap Addr \subseteq Starts(g) \cup entries
    BY <1>1, <1>8 DEF SuccessorsKept, Starts
  <2> QED BY <1>4 DEF IInv, SuccessorsKept
<1> QED BY <1>5, <1>6, <1>7, <1>9, <1>10

\* What is skipped is a block, an entry or outside.
LEMMA SkipKeeps ==
  ASSUME IInv, SkipAddress
  PROVE  Seeding' /\ Queued' /\ EntryTraced' /\ Shapes' /\ Homes' /\ SuccessorsKept'
<1> DEFINE a == Head(worklist)
<1>1. /\ Elements(worklist) = {a} \cup Elements(worklist')
      /\ UNCHANGED <<rom, seeds, pending, entries, functions, cur, blocks>>
      /\ cur # None /\ Skips(a)
  BY HeadAndTail DEF IInv, TypeOK, SkipAddress
<1>2. a \in Starts(cur) \/ a \notin Addr \/ (a # cur /\ a \in entries)
  BY <1>1 DEF Skips
<1> HIDE DEF a
<1>3. Seeding' /\ Queued' /\ Shapes' /\ Homes'
  BY <1>1 DEF IInv, Seeding, Queued, Shapes, Ending, Homes
<1>4. \A f \in functions : f \in Addr /\ Starts(f)' = Starts(f)
  BY <1>1 DEF IInv, TypeOK, Starts
<1>5. EntryTraced'
  BY <1>1, <1>2, <1>4 DEF IInv, EntryTraced
<1>6. SuccessorsKept'
  BY <1>1, <1>2, <1>4 DEF IInv, SuccessorsKept
<1> QED BY <1>3, <1>5, <1>6

\* A finished function has nothing left in its worklist.
LEMMA EndKeeps ==
  ASSUME IInv, EndFunction
  PROVE  Seeding' /\ Queued' /\ EntryTraced' /\ Shapes' /\ Homes' /\ SuccessorsKept'
<1>1. /\ UNCHANGED <<rom, seeds, pending, entries, functions, worklist, blocks>>
      /\ cur # None /\ cur' = None /\ worklist = <<>>
  BY DEF EndFunction
<1>2. Elements(worklist) = {}
  BY <1>1 DEF Elements
<1>3. Seeding' /\ Queued' /\ Shapes' /\ Homes'
  BY <1>1 DEF IInv, Seeding, Queued, Shapes, Ending, Homes
<1>4. \A f \in functions : Starts(f)' = Starts(f)
  BY <1>1 DEF Starts
<1>5. EntryTraced'
  BY <1>1, <1>2, <1>4 DEF IInv, EntryTraced
<1>6. SuccessorsKept'
  <2> SUFFICES ASSUME NEW f \in functions, NEW b \in blocks[f]
               PROVE  Elements(Successors(b)) \cap Addr \subseteq Starts(f) \cup entries
    BY <1>1, <1>4 DEF SuccessorsKept
  <2> QED BY <1>2 DEF IInv, SuccessorsKept
<1> QED BY <1>3, <1>5, <1>6

\* A block that is traced ends as its last instruction does.
LEMMA ExitShapes ==
  ASSUME NEW first, NEW last
  PROVE  Ending(BlockOf(first, last))
<1> DEFINE k == rom[last].kind
           b == BlockOf(first, last)
<1>1. b.last = last /\ b.exit = Exit(last).exit /\ b.target = Exit(last).target
  BY DEF BlockOf
<1>2. /\ k = "bra" => Exit(last).exit = "Jump" /\ Exit(last).target = rom[last].target
      /\ k = "bcc" => Exit(last).exit = "Branch" /\ Exit(last).target = rom[last].target
  BY DEF Exit
<1>3. /\ k \notin {"bra", "jmp", "plain"} => Exit(last).exit # "Jump"
      /\ k \notin {"call", "calli"} => Exit(last).exit \notin {"Call", "IndirectCall"}
  <2>1. CASE k \in {"bra", "jmp", "plain"}
    BY <2>1 DEF Exit
  <2>2. CASE k = "bcc" \/ k = "call" \/ k = "calli" \/ k = "jmpi"
    BY <2>2 DEF Exit
  <2>3. CASE k \notin {"bra", "jmp", "plain", "bcc", "call", "calli", "jmpi"}
    BY <2>3 DEF Exit
  <2> QED BY <2>1, <2>2, <2>3
<1> HIDE DEF b
<1> QED BY <1>1, <1>2, <1>3 DEF Ending, b

\* The address taken from the worklist becomes a block, and the block's
\* successors take its place.
LEMMA TraceKeeps ==
  ASSUME IInv, TraceBlock
  PROVE  Seeding' /\ Queued' /\ EntryTraced' /\ Shapes' /\ Homes' /\ SuccessorsKept'
<1> DEFINE first == Head(worklist)
<1>1. /\ first \in Addr /\ cur \in Addr /\ cur \in functions /\ cur # None
      /\ Tail(worklist) \in Seq(Nat)
      /\ Elements(worklist) = {first} \cup Elements(Tail(worklist))
  BY HeadAndTail DEF IInv, TypeOK, Seeding, TraceBlock, Skips
<1>2. PICK last \in Addr :
        /\ blocks' = [blocks EXCEPT ![cur] = @ \cup {BlockOf(first, last)}]
        /\ worklist' = Tail(worklist) \o Successors(BlockOf(first, last))
        /\ IF BlockOf(first, last).exit = "Call"
             THEN Enqueue(BlockOf(first, last).target)
             ELSE UNCHANGED <<pending, entries>>
  BY DEF TraceBlock
<1> DEFINE b == BlockOf(first, last)
<1>3. /\ b \in Block /\ b.first = first /\ b.last = last /\ b.exit = Exit(last).exit
  BY <1>1, BlockTypes DEF IInv, TypeOK
<1> HIDE DEF b, first
<1>4. UNCHANGED <<rom, seeds, functions, cur>>
  BY DEF TraceBlock
<1>5. Elements(worklist') = Elements(Tail(worklist)) \cup Elements(Successors(b))
  <2>1. worklist' = Tail(worklist) \o Successors(b)
    BY <1>2 DEF b
  <2>2. Successors(b) \in Seq(Nat)
    BY <1>3, SuccessorTypes
  <2>3. Tail(worklist) \in Seq(Nat)
    BY <1>1
  <2>4. QED
    BY <2>1, <2>2, <2>3, ConcatElements, ZenonT(40)
<1>6. \A f \in Addr : blocks'[f] = IF f = cur THEN blocks[f] \cup {b} ELSE blocks[f]
  BY <1>1, <1>2 DEF b, IInv, TypeOK
<1>7. /\ entries \subseteq entries'
      /\ entries' \ entries \subseteq Elements(pending')
      /\ Elements(pending) \subseteq Elements(pending')
      /\ b.exit = "Call" /\ b.target \in Addr => b.target \in entries'
  BY <1>2, EnqueueStep DEF b, IInv, TypeOK
<1>8. \A f \in Addr : Starts(f)' = IF f = cur THEN Starts(f) \cup {first} ELSE Starts(f)
  BY <1>3, <1>6 DEF Starts
<1>9. functions \subseteq Addr
  BY DEF IInv, TypeOK
<1>10. Seeding'
  BY <1>4, <1>7 DEF IInv, Seeding
<1>11. Queued'
  BY <1>4, <1>7 DEF IInv, Queued
<1>12. EntryTraced'
  BY <1>1, <1>4, <1>5, <1>8, <1>9 DEF IInv, EntryTraced
<1>13. Shapes'
  <2> SUFFICES ASSUME NEW f \in functions, NEW c \in blocks'[f]
               PROVE  /\ Ending(c)
                      /\ c.exit = "Call" /\ c.target \in Addr => c.target \in entries'
    BY <1>4 DEF Shapes, Ending
  <2>1. CASE c \in blocks[f]
    BY <1>7, <2>1 DEF IInv, Shapes
  <2>2. CASE c = b
    BY <1>7, <2>2, ExitShapes DEF b
  <2> QED BY <1>6, <1>9, <2>1, <2>2
<1>14. Homes'
  BY <1>1, <1>4, <1>6 DEF IInv, Homes
<1>15. SuccessorsKept'
  <2> SUFFICES ASSUME NEW f \in functions, NEW c \in blocks'[f]
               PROVE  Elements(Successors(c)) \cap Addr
                        \subseteq Starts(f)' \cup entries'
                                  \cup (IF f = cur THEN Elements(worklist') ELSE {})
    BY <1>4 DEF SuccessorsKept
  <2>1. CASE c \in blocks[f]
    <3>1. Elements(Successors(c)) \cap Addr
            \subseteq Starts(f) \cup entries \cup (IF f = cur THEN Elements(worklist) ELSE {})
      BY <2>1 DEF IInv, SuccessorsKept
    <3> QED BY <1>1, <1>5, <1>7, <1>8, <1>9, <3>1
  <2>2. CASE c = b /\ f = cur
    BY <1>5, <2>2
  <2> QED BY <1>6, <1>9, <2>1, <2>2
<1> QED BY <1>10, <1>11, <1>12, <1>13, <1>14, <1>15

\* Every step keeps the invariant.
LEMMA InductiveStep == IInv /\ [Next]_vars => IInv'
<1> SUFFICES ASSUME IInv, [Next]_vars PROVE IInv'
  OBVIOUS
<1>1. TypeOK'
  BY TypeStep DEF IInv
<1>2. CASE Seed
  BY <1>1, <1>2, SeedKeeps DEF IInv
<1>3. CASE BeginFunction
  BY <1>1, <1>3, BeginKeeps DEF IInv
<1>4. CASE SkipAddress
  BY <1>1, <1>4, SkipKeeps DEF IInv
<1>5. CASE TraceBlock
  BY <1>1, <1>5, TraceKeeps DEF IInv
<1>6. CASE EndFunction
  BY <1>1, <1>6, EndKeeps DEF IInv
<1>7. CASE UNCHANGED vars
  <2>1. Seeding' /\ Queued'
    BY <1>7 DEF vars, IInv, Seeding, Queued
  <2>2. Shapes' /\ Homes'
    BY <1>7 DEF vars, IInv, Shapes, Ending, Homes
  <2>3. EntryTraced' /\ SuccessorsKept'
    BY <1>7 DEF vars, IInv, EntryTraced, SuccessorsKept, Starts
  <2> QED BY <1>1, <2>1, <2>2, <2>3 DEF IInv
<1> QED BY <1>2, <1>3, <1>4, <1>5, <1>6, <1>7 DEF Next, Finished

-----------------------------------------------------------------------------
(* What is translated.                                                     *)

\* The seeds wait or are entries.
Seeded ==
  /\ Given \subseteq entries \cup Elements(seeds)
  /\ Elements(seeds) \cap Addr \subseteq Given

\* A block is code that control runs through, its successors are where control
\* may go from its end, and a call tells its target besides.
Fits(b) ==
  /\ b.first <= b.last
  /\ \A a \in b.first..(b.last - 1) : rom[a].kind = "plain"
  /\ Elements(Successors(b)) \cap Addr \subseteq Flow(b.last)
  /\ Flow(b.last) \cap Addr
       \subseteq Elements(Successors(b)) \cup (IF b.exit = "Call" THEN {b.target} ELSE {})
  /\ b.exit = "Call" <=> rom[b.last].kind = "call"
  /\ b.exit = "Call" => b.target = rom[b.last].target

Fitting == \A f \in functions : \A b \in blocks[f] : Fits(b)

\* An entry is named, or called by a block.
Called ==
  /\ functions \subseteq entries /\ Elements(pending) \subseteq entries
  /\ \A e \in entries :
       e \in Given \/ \E f \in functions : \E b \in blocks[f] : b.exit = "Call" /\ b.target = e

\* Whatever was found is in every closed set.
Found ==
  \A S \in SUBSET Addr : Closed(S) =>
    /\ entries \cup (Elements(worklist) \cap Addr) \subseteq S
    /\ \A f \in functions : \A b \in blocks[f] : b.first..b.last \subseteq S

Exact == Seeded /\ Fitting /\ Called /\ Found

\* The flow of control is a matter of the ROM.
LEMMA RomStays ==
  ASSUME UNCHANGED rom
  PROVE  /\ \A a : Flow(a)' = Flow(a)
         /\ \A S : Closed(S)' <=> Closed(S)
         /\ \A b : Fits(b)' <=> Fits(b)
<1>1. \A a : Flow(a)' = Flow(a)
  BY DEF Flow
<1>2. \A S : Closed(S)' <=> Closed(S)
  BY <1>1 DEF Closed
<1>3. \A b : Fits(b)' <=> Fits(b)
  BY <1>1 DEF Fits
<1> QED BY <1>1, <1>2, <1>3

NatLess == OpToRel(<, Nat)

\* A set of natural numbers has a least element.
LEMMA LeastNumber ==
  ASSUME NEW T, T \subseteq Nat, T # {}
  PROVE  \E x \in T : \A y \in T : x <= y
<1>1. IsWellFoundedOn(NatLess, Nat)
  BY NatLessThanWellFounded DEF NatLess
<1>2. PICK x \in T : \A y \in T : ~ (<<y, x>> \in NatLess)
  BY <1>1, WFMin
<1>3. ASSUME NEW y \in T PROVE x <= y
  <2>1. x \in Nat /\ y \in Nat /\ <<y, x>> \in Nat \X Nat
    OBVIOUS
  <2>2. y < x => <<y, x>> \in NatLess
    BY <2>1 DEF NatLess, OpToRel
  <2> QED BY <1>2, <2>1, <2>2
<1> QED BY <1>3

\* A closed set that holds the first of a run of plain instructions holds all.
LEMMA RunStays ==
  ASSUME NEW S \in SUBSET Addr, Closed(S), NEW first \in S, NEW last \in Addr,
         \A a \in first..(last - 1) : rom[a].kind = "plain"
  PROVE  first..last \subseteq S
<1> DEFINE T == (first..last) \ S
<1> SUFFICES ASSUME T # {} PROVE FALSE
  OBVIOUS
<1>1. first \in Nat /\ last \in Nat /\ last < Size /\ Size \in Nat /\ T \subseteq Nat
  BY SizeAssumption DEF Addr
<1>2. PICK x \in T : \A y \in T : x <= y
  BY <1>1, LeastNumber
<1>3. x # first /\ x - 1 \in first..(last - 1) /\ x - 1 \notin T /\ x - 1 \in first..last
  BY <1>1, <1>2
<1>4. x - 1 \in S /\ rom[x - 1].kind = "plain"
  BY <1>3
<1>5. x \in Flow(x - 1) /\ x \in Addr
  BY <1>1, <1>2, <1>4 DEF Flow, Addr
<1>6. x \in S
  BY <1>4, <1>5 DEF Closed
<1> QED BY <1>2, <1>6

\* The elements of short lists.
LEMMA PairElements ==
  /\ Elements(<<>>) = {}
  /\ \A x : Elements(<<x>>) = {x}
  /\ \A x, y : Elements(<<x, y>>) = {x, y}
BY DEF Elements

\* A traced block belongs to the flow of control.
LEMMA TracedFits ==
  ASSUME TypeOK, NEW first \in Addr, NEW last \in Addr, RunsTo(first, last)
  PROVE  Fits(BlockOf(first, last))
<1> DEFINE b == BlockOf(first, last)
           k == rom[last].kind
<1>1. b.first = first /\ b.last = last /\ b.exit = Exit(last).exit /\ b.target = Exit(last).target
      /\ b.fallthrough = Exit(last).fallthrough
  BY BlockTypes DEF TypeOK, BlockOf
<1>2. last \in Nat /\ last + 1 # 0 /\ entries \subseteq Addr
  BY SizeAssumption DEF Addr, TypeOK
<1>3. first <= last /\ \A a \in first..(last - 1) : rom[a].kind = "plain"
  BY DEF RunsTo, GoesOn
<1>4. k \in Kinds
  BY DEF TypeOK, Instruction
<1>5. CASE k = "bcc"
  <2>1. Exit(last).exit = "Branch" /\ Exit(last).target = rom[last].target /\ Exit(last).fallthrough = last + 1
    BY <1>5 DEF Exit
  <2>2. Elements(Successors(b)) = {last + 1, rom[last].target}
    BY <1>1, <2>1, PairElements DEF Successors
  <2>3. Flow(last) = {last + 1, rom[last].target}
    BY <1>5 DEF Flow
  <2> QED BY <1>1, <1>3, <1>5, <2>1, <2>2, <2>3 DEF Fits
<1>6. CASE k \in {"bra", "jmp"}
  <2>1. Exit(last).exit = "Jump" /\ Exit(last).target = rom[last].target
    BY <1>6 DEF Exit
  <2>2. Elements(Successors(b)) = {rom[last].target} \ {0}
    BY <1>1, <2>1, PairElements DEF Successors
  <2>3. Flow(last) = {rom[last].target} \ {0}
    BY <1>6 DEF Flow
  <2> QED BY <1>1, <1>3, <1>6, <2>1, <2>2, <2>3 DEF Fits
<1>7. CASE k = "call"
  <2>1. Exit(last).exit = "Call" /\ Exit(last).target = rom[last].target /\ Exit(last).fallthrough = last + 1
    BY <1>7 DEF Exit
  <2>2. Elements(Successors(b)) = {last + 1}
    BY <1>1, <2>1, PairElements DEF Successors
  <2>3. Flow(last) = {last + 1, rom[last].target}
    BY <1>7 DEF Flow
  <2> QED BY <1>1, <1>3, <1>7, <2>1, <2>2, <2>3 DEF Fits
<1>8. CASE k = "calli"
  <2>1. Exit(last).exit = "IndirectCall" /\ Exit(last).fallthrough = last + 1
    BY <1>8 DEF Exit
  <2>2. Elements(Successors(b)) = {last + 1}
    BY <1>1, <2>1, PairElements DEF Successors
  <2>3. Flow(last) = {last + 1}
    BY <1>8 DEF Flow
  <2> QED BY <1>1, <1>3, <1>8, <2>1, <2>2, <2>3 DEF Fits
<1>9. CASE k = "jmpi"
  <2>1. Exit(last).exit = "IndirectJump"
    BY <1>9 DEF Exit
  <2>2. Elements(Successors(b)) = Elements(SwitchTargets)
    BY <1>1, <2>1 DEF Successors
  <2>3. Flow(last) = Elements(SwitchTargets)
    BY <1>9 DEF Flow
  <2> QED BY <1>1, <1>3, <1>9, <2>1, <2>2, <2>3 DEF Fits
<1>10. CASE k = "plain" /\ last + 1 \in entries
  <2>1. Exit(last).exit = "Jump" /\ Exit(last).target = last + 1
    BY <1>10 DEF Exit
  <2>2. Elements(Successors(b)) = {last + 1}
    BY <1>1, <1>2, <2>1, PairElements DEF Successors
  <2>3. Flow(last) = {last + 1}
    BY <1>10 DEF Flow
  <2> QED BY <1>1, <1>3, <1>10, <2>1, <2>2, <2>3 DEF Fits
<1>11. CASE k = "plain" /\ last + 1 \notin entries
  <2>1. Exit(last).exit = "Return"
    BY <1>11 DEF Exit
  <2>2. Elements(Successors(b)) = {}
    BY <1>1, <2>1, PairElements DEF Successors
  <2>3. Flow(last) = {last + 1} /\ last + 1 \notin Addr
    BY <1>11 DEF Flow, RunsTo, GoesOn
  <2> QED BY <1>1, <1>3, <1>11, <2>1, <2>2, <2>3 DEF Fits
<1>12. CASE k \in {"rts", "bad"}
  <2>1. Exit(last).exit = "Return"
    BY <1>12 DEF Exit
  <2>2. Elements(Successors(b)) = {}
    BY <1>1, <2>1, PairElements DEF Successors
  <2>3. Flow(last) = {}
    BY <1>12 DEF Flow
  <2> QED BY <1>1, <1>3, <1>12, <2>1, <2>2, <2>3 DEF Fits
<1> QED BY <1>4, <1>5, <1>6, <1>7, <1>8, <1>9, <1>10, <1>11, <1>12 DEF Kinds

\* At first nothing unreachable has been found.
LEMMA InitExact == Init => Exact
<1> SUFFICES ASSUME Init PROVE Exact
  OBVIOUS
<1>1. Seeded
  BY DEF Init, Seeded, Given
<1>2. functions = {} /\ entries = {} /\ Elements(pending) = {} /\ Elements(worklist) = {}
  BY PairElements DEF Init
<1> QED BY <1>1, <1>2 DEF Exact, Fitting, Called, Found

\* A seed is reachable.
LEMMA SeedExact ==
  ASSUME IInv, Exact, Seed
  PROVE  Exact'
<1>1. /\ entries' \subseteq Addr /\ entries \subseteq entries'
      /\ Head(seeds) \in Addr => Head(seeds) \in entries'
      /\ entries' \subseteq entries \cup ({Head(seeds)} \cap Addr)
      /\ Elements(pending') \subseteq Elements(pending) \cup entries'
  BY EnqueueStep DEF Seed, IInv, TypeOK
<1>2. Elements(seeds) = {Head(seeds)} \cup Elements(seeds')
  BY HeadAndTail DEF IInv, TypeOK, Seed
<1>3. UNCHANGED <<rom, functions, cur, worklist, blocks>>
  BY DEF Seed
<1>4. Seeded'
  BY <1>1, <1>2, <1>3 DEF Exact, Seeded, Given
<1>5. Fitting'
  BY <1>3, RomStays DEF Exact, Fitting
<1>6. Head(seeds) \in Addr => Head(seeds) \in Given
  BY <1>2 DEF Exact, Seeded
<1>7. Called'
  BY <1>1, <1>3, <1>6 DEF Exact, Called
<1>8. Found'
  <2> SUFFICES ASSUME NEW S \in SUBSET Addr, Closed(S)
               PROVE  /\ entries' \cup (Elements(worklist) \cap Addr) \subseteq S
                      /\ \A f \in functions : \A b \in blocks[f] : b.first..b.last \subseteq S
    BY <1>3, RomStays DEF Found
  <2>1. /\ entries \cup (Elements(worklist) \cap Addr) \subseteq S
        /\ \A f \in functions : \A b \in blocks[f] : b.first..b.last \subseteq S
    BY DEF Exact, Found
  <2>2. {Head(seeds)} \cap Addr \subseteq S
    BY <1>6 DEF Closed
  <2> QED BY <1>1, <2>1, <2>2
<1> QED BY <1>4, <1>5, <1>7, <1>8 DEF Exact

\* A function begins at a reachable entry.
LEMMA BeginExact ==
  ASSUME IInv, Exact, BeginFunction
  PROVE  Exact'
<1> DEFINE f == pending[Len(pending)]
<1>1. /\ f \in Addr /\ functions' = functions \cup {f} /\ worklist' = <<f>>
      /\ UNCHANGED <<rom, seeds, entries, blocks>>
  BY LastAndFront DEF IInv, TypeOK, BeginFunction
<1>2. Elements(pending) = {f} \cup Elements(pending')
  BY LastAndFront DEF IInv, TypeOK, BeginFunction
<1>3. Elements(worklist') = {f}
  BY <1>1, PairElements
<1> HIDE DEF f
<1>4. f \in functions \/ blocks[f] = {}
  BY <1>1 DEF IInv, Homes
<1>5. f \in entries
  BY <1>2 DEF Exact, Called
<1>6. Seeded'
  BY <1>1 DEF Exact, Seeded
<1>7. Fitting'
  BY <1>1, <1>4, RomStays DEF Exact, Fitting
<1>8. Called'
  BY <1>1, <1>2, <1>4, <1>5 DEF Exact, Called
<1>9. Found'
  BY <1>1, <1>3, <1>4, <1>5, RomStays DEF Exact, Found
<1> QED BY <1>6, <1>7, <1>8, <1>9 DEF Exact

\* Skipping finds nothing.
LEMMA SkipExact ==
  ASSUME IInv, Exact, SkipAddress
  PROVE  Exact'
<1>1. /\ Elements(worklist') \subseteq Elements(worklist)
      /\ UNCHANGED <<rom, seeds, pending, entries, functions, cur, blocks>>
  BY HeadAndTail DEF IInv, TypeOK, SkipAddress
<1>2. Seeded' /\ Called'
  BY <1>1 DEF Exact, Seeded, Called
<1>3. Fitting'
  BY <1>1, RomStays DEF Exact, Fitting
<1>4. Found'
  BY <1>1, RomStays DEF Exact, Found
<1> QED BY <1>2, <1>3, <1>4 DEF Exact

\* The successors of a reachable block are reachable.
LEMMA TraceExact ==
  ASSUME IInv, Exact, TraceBlock
  PROVE  Exact'
<1> DEFINE first == Head(worklist)
<1>1. /\ first \in Addr /\ cur \in Addr /\ cur \in functions
      /\ Tail(worklist) \in Seq(Nat)
      /\ Elements(worklist) = {first} \cup Elements(Tail(worklist))
  BY HeadAndTail DEF IInv, TypeOK, Seeding, TraceBlock, Skips
<1>2. PICK last \in Addr :
        /\ RunsTo(first, last)
        /\ blocks' = [blocks EXCEPT ![cur] = @ \cup {BlockOf(first, last)}]
        /\ worklist' = Tail(worklist) \o Successors(BlockOf(first, last))
        /\ IF BlockOf(first, last).exit = "Call"
             THEN Enqueue(BlockOf(first, last).target)
             ELSE UNCHANGED <<pending, entries>>
  BY DEF TraceBlock
<1> DEFINE b == BlockOf(first, last)
<1>3. b \in Block /\ b.first = first /\ b.last = last
  BY <1>1, BlockTypes DEF IInv, TypeOK
<1>4. Fits(b)
  BY <1>1, <1>2, TracedFits DEF IInv
<1> HIDE DEF b, first
<1>5. UNCHANGED <<rom, seeds, functions, cur>>
  BY DEF TraceBlock
<1>6. Elements(worklist') = Elements(Tail(worklist)) \cup Elements(Successors(b))
  <2>1. worklist' = Tail(worklist) \o Successors(b)
    BY <1>2 DEF b
  <2>2. Successors(b) \in Seq(Nat)
    BY <1>3, SuccessorTypes
  <2>3. Tail(worklist) \in Seq(Nat)
    BY <1>1
  <2>4. QED
    BY <2>1, <2>2, <2>3, ConcatElements, ZenonT(40)
<1>7. \A f \in Addr : blocks'[f] = IF f = cur THEN blocks[f] \cup {b} ELSE blocks[f]
  BY <1>1, <1>2 DEF b, IInv, TypeOK
<1>8. functions \subseteq Addr /\ entries \subseteq Addr
  BY DEF IInv, TypeOK
<1>9. /\ entries \subseteq entries'
      /\ entries' \subseteq entries \cup (IF b.exit = "Call" THEN {b.target} \cap Addr ELSE {})
      /\ Elements(pending') \subseteq Elements(pending) \cup entries'
  <2>1. CASE b.exit = "Call"
    <3>1. Enqueue(b.target)
      BY <1>2, <2>1 DEF b
    <3> QED BY <2>1, <3>1, EnqueueStep DEF IInv, TypeOK
  <2>2. CASE b.exit # "Call"
    BY <1>2, <2>2 DEF b
  <2> QED BY <2>1, <2>2
<1>10. Seeded'
  BY <1>5, <1>9 DEF Exact, Seeded
<1>11. Fitting'
  <2> SUFFICES ASSUME NEW f \in functions, NEW c \in blocks'[f] PROVE Fits(c)
    BY <1>5, RomStays DEF Fitting
  <2> QED BY <1>4, <1>7, <1>8 DEF Exact, Fitting
<1>12. Called'
  <2>1. functions' \subseteq entries' /\ Elements(pending') \subseteq entries'
    BY <1>5, <1>9 DEF Exact, Called
  <2>2. ASSUME NEW e \in entries', e \notin Given
        PROVE  \E f \in functions : \E c \in blocks'[f] : c.exit = "Call" /\ c.target = e
    <3>1. CASE e \in entries
      <4>1. PICK f \in functions : \E c \in blocks[f] : c.exit = "Call" /\ c.target = e
        BY <2>2, <3>1 DEF Exact, Called
      <4>2. blocks[f] \subseteq blocks'[f]
        BY <1>7, <1>8
      <4> QED BY <4>1, <4>2
    <3>2. CASE e \notin entries
      <4>1. b.exit = "Call" /\ b.target = e /\ b \in blocks'[cur]
        BY <1>1, <1>7, <1>9, <2>2, <3>2
      <4> QED BY <1>1, <4>1
    <3> QED BY <3>1, <3>2
  <2> QED BY <1>5, <2>1, <2>2 DEF Called
<1>13. Found'
  <2> SUFFICES ASSUME NEW S \in SUBSET Addr, Closed(S)
               PROVE  /\ entries' \cup (Elements(worklist') \cap Addr) \subseteq S
                      /\ \A f \in functions : \A c \in blocks'[f] : c.first..c.last \subseteq S
    BY <1>5, RomStays DEF Found
  <2>1. /\ entries \cup (Elements(worklist) \cap Addr) \subseteq S
        /\ \A f \in functions : \A c \in blocks[f] : c.first..c.last \subseteq S
    BY DEF Exact, Found
  <2>2. first \in S
    BY <1>1, <2>1
  <2>3. b.first..b.last \subseteq S
    BY <1>3, <1>4, <2>2, RunStays DEF Fits
  <2>4. b.last \in S
    BY <1>3, <1>4, <2>3, SizeAssumption DEF Fits, Addr
  <2>5. Flow(b.last) \cap Addr \subseteq S
    BY <2>4 DEF Closed
  <2>6. b.exit = "Call" => b.target \in Flow(b.last)
    BY <1>4 DEF Fits, Flow
  <2>7. entries' \subseteq S
    BY <1>9, <2>1, <2>5, <2>6
  <2>8. Elements(worklist') \cap Addr \subseteq S
    BY <1>1, <1>4, <1>6, <2>1, <2>5 DEF Fits
  <2>9. \A f \in functions : \A c \in blocks'[f] : c.first..c.last \subseteq S
    BY <1>7, <1>8, <2>1, <2>3
  <2> QED BY <2>7, <2>8, <2>9
<1> QED BY <1>10, <1>11, <1>12, <1>13 DEF Exact

\* No step finds anything unreachable.
LEMMA ExactStep == IInv /\ Exact /\ [Next]_vars => Exact'
<1> SUFFICES ASSUME IInv, Exact, [Next]_vars PROVE Exact'
  OBVIOUS
<1>1. CASE EndFunction \/ UNCHANGED vars
  <2>1. UNCHANGED <<rom, seeds, pending, entries, functions, worklist, blocks>>
    BY <1>1 DEF EndFunction, vars
  <2>2. Seeded' /\ Called'
    BY <2>1 DEF Exact, Seeded, Called
  <2>3. Fitting' /\ Found'
    BY <2>1, RomStays DEF Exact, Fitting, Found
  <2> QED BY <2>2, <2>3 DEF Exact
<1> QED BY <1>1, SeedExact, BeginExact, SkipExact, TraceExact DEF Next, Finished

-----------------------------------------------------------------------------
(* Theorems.                                                               *)

\* The inductive invariant holds in every reachable state.
THEOREM Invariance == Spec => []IInv
BY InitInductive, InductiveStep, PTL DEF Spec

\* The analyzer keeps its state in its types: in particular, whatever the ROM and
\* the configuration say, only addresses inside the ROM become entries.
THEOREM TypeCorrect == Spec => []TypeOK
<1>1. IInv => TypeOK
  BY DEF IInv
<1> QED BY <1>1, Invariance, PTL

\* Every switch target is an entry before a function is traced, so that the
\* enqueuing of them at an indirect jump (analyzer.cpp:165) has no effect.
THEOREM TablesAreSeeded == Spec => []SwitchTargetsSeeded
<1>1. IInv => SwitchTargetsSeeded
  <2>1. <<>> \in Seq(Nat) /\ Elements(<<>>) = {}
    BY DEF Elements
  <2> QED BY <2>1 DEF IInv, Seeding, SwitchTargetsSeeded
<1> QED BY <1>1, Invariance, PTL

\* No successor of a traced block is lost.
THEOREM NothingIsLost == Spec => []SuccessorsKept
<1>1. IInv => SuccessorsKept
  BY DEF IInv
<1> QED BY <1>1, Invariance, PTL

\* When the analysis is done, calls and dispatched jumps find their function; every
\* goto that the lifter writes to code in the ROM has its label, but for those of BRA,
\* Bcc and DBcc and after a call whose target is another function's entry, and those
\* of BRA to 0.  Every label that is missing is a missing tail call.
THEOREM CodeResolves == Spec => []MissingLabelsAreEntries
<1>1. IInv => MissingLabelsAreEntries
  <2> SUFFICES ASSUME IInv, Done, NEW f \in functions
               PROVE  /\ f \in Starts(f)
                      /\ \A b \in blocks[f] :
                           /\ CallsAt(b) \cap Addr \subseteq functions
                           /\ \A t \in MissingLabels(f, b) \cap Addr :
                                \/ t \in functions \ {f} /\ rom[b.last].kind \in {"bra", "bcc", "call", "calli"}
                                \/ t = 0 /\ rom[b.last].kind = "bra"
    BY DEF MissingLabelsAreEntries
  <2>1. /\ seeds = <<>> /\ pending = <<>> /\ cur = None
        /\ Elements(seeds) = {} /\ Elements(pending) = {}
    BY DEF Done, Elements
  <2>2. entries \subseteq functions
    BY <2>1 DEF IInv, Queued
  <2>3. f # cur
    BY <2>1, SizeAssumption DEF IInv, TypeOK, None, Addr
  <2>4. f \in Starts(f)
    BY <2>3 DEF IInv, EntryTraced
  <2>5. ASSUME NEW b \in blocks[f] PROVE CallsAt(b) \cap Addr \subseteq functions
    BY <2>1, <2>2 DEF IInv, Seeding, Shapes, CallsAt
  <2>6. ASSUME NEW b \in blocks[f], NEW t \in MissingLabels(f, b) \cap Addr
        PROVE  \/ t \in functions \ {f} /\ rom[b.last].kind \in {"bra", "bcc", "call", "calli"}
               \/ t = 0 /\ rom[b.last].kind = "bra"
    <3> DEFINE kind == rom[b.last].kind
    <3>1. t \in BranchLabels(b) \cup ExitLabels(f, b) /\ t \notin Starts(f) /\ t \in Addr
      BY <2>6 DEF MissingLabels
    <3>2. /\ kind = "bra" => b.exit = "Jump" /\ b.target = rom[b.last].target
          /\ kind = "bcc" => b.exit = "Branch" /\ b.target = rom[b.last].target
          /\ b.exit = "Jump" => kind \in {"bra", "jmp", "plain"}
          /\ b.exit \in {"Call", "IndirectCall"} => kind \in {"call", "calli"}
      BY <2>6 DEF IInv, Shapes, Ending
    <3>3. CASE t = 0 /\ kind = "bra"
      BY <3>3
    <3>4. CASE t \in Elements(Successors(b))
      <4>1. t \in functions /\ t # f
        BY <2>2, <2>3, <2>4, <2>6, <3>1, <3>4 DEF IInv, SuccessorsKept
      <4>2. b.exit = "Jump" /\ t = b.target => TailCalls(f, b)
        BY <4>1 DEF TailCalls
      <4>3. kind \in {"bra", "bcc", "call", "calli"}
        BY <3>1, <3>2, <4>2 DEF BranchLabels, ExitLabels
      <4> QED BY <4>1, <4>3
    <3>5. t \in Elements(Successors(b)) \/ (t = 0 /\ kind = "bra")
      <4>1. CASE t \in BranchLabels(b)
        <5>1. kind \in {"bra", "bcc"} /\ t = b.target
          BY <3>2, <4>1 DEF BranchLabels
        <5>2. CASE kind = "bcc"
          <6>1. Successors(b) = <<b.fallthrough, b.target>>
            BY <3>2, <5>2 DEF Successors
          <6> QED BY <5>1, <6>1 DEF Elements
        <5>3. CASE kind = "bra" /\ t # 0
          <6>1. Successors(b) = <<b.target>>
            BY <3>2, <5>1, <5>3 DEF Successors
          <6> QED BY <5>1, <6>1 DEF Elements
        <5> QED BY <5>1, <5>2, <5>3
      <4>2. CASE t \in ExitLabels(f, b)
        <5>1. CASE b.exit = "Jump" /\ b.target # 0 /\ t = b.target
          <6>1. Successors(b) = <<b.target>>
            BY <5>1 DEF Successors
          <6> QED BY <5>1, <6>1 DEF Elements
        <5>2. CASE b.exit \in {"Call", "IndirectCall"} /\ t = b.fallthrough
          <6>1. Successors(b) = <<b.fallthrough>>
            BY <5>2 DEF Successors
          <6> QED BY <5>2, <6>1 DEF Elements
        <5> QED BY <4>2, <5>1, <5>2 DEF ExitLabels
      <4> QED BY <3>1, <4>1, <4>2
    <3> QED BY <3>3, <3>4, <3>5
  <2> QED BY <2>4, <2>5, <2>6
<1> QED BY <1>1, Invariance, PTL

\* In every reachable state what was found is reachable code (analyzer.cpp:121-190).
THEOREM Exactness == Spec => []Exact
<1>1. IInv /\ Exact /\ [Next]_vars => Exact'
  BY ExactStep
<1> QED BY <1>1, InitExact, Invariance, PTL DEF Spec

\* Whatever the order in which entries are found and taken, the finished blocks
\* hold exactly the code that is reachable from the vectors and the configuration,
\* and the functions are the addresses named there and the targets of reachable
\* calls (analyzer.cpp:121-190).
THEOREM TranslatesTheReachable == Spec => []ReachableIsTranslated
<1>1. IInv /\ Exact => ReachableIsTranslated
  <2> SUFFICES ASSUME IInv, Exact, Done
               PROVE  /\ Translated = Reachable
                      /\ functions = Given \cup (Callees(Reachable) \cap Addr)
    BY DEF ReachableIsTranslated
  <2>1. Elements(seeds) = {} /\ Elements(pending) = {} /\ cur = None
    BY PairElements DEF Done
  <2>2. entries = functions /\ functions \subseteq Addr /\ Given \subseteq functions
    BY <2>1 DEF IInv, TypeOK, Queued, Exact, Called, Seeded
  <2>3. \A f \in functions : \A b \in blocks[f] :
          /\ b \in Block /\ Fits(b) /\ b.first \in Addr /\ b.last \in Addr
          /\ b.exit = "Call" /\ b.target \in Addr => b.target \in functions
    BY <2>2 DEF IInv, TypeOK, Shapes, Exact, Fitting, Block
  <2>4. \A a : a \in Translated <=> \E f \in functions : \E b \in blocks[f] : a \in b.first..b.last
    BY DEF Translated
  <2>5. ASSUME NEW f \in functions PROVE Starts(f) \subseteq Translated
    <3> SUFFICES ASSUME NEW b \in blocks[f] PROVE b.first \in Translated
      BY DEF Starts
    <3>1. b.first \in b.first..b.last
      BY <2>3, SizeAssumption DEF Fits, Addr
    <3> QED BY <2>4, <3>1
  <2>6. functions \subseteq Translated
    <3>1. \A f \in functions : f # cur
      BY <2>1, <2>2, SizeAssumption DEF None, Addr
    <3> QED BY <2>5, <3>1 DEF IInv, EntryTraced
  <2>7. Translated \subseteq Addr
    BY <2>3, <2>4, SizeAssumption DEF Addr
  <2>8. Closed(Translated)
    <3> SUFFICES ASSUME NEW a \in Translated, NEW t \in Flow(a) \cap Addr PROVE t \in Translated
      BY <2>2, <2>6 DEF Closed
    <3>0. PICK f \in functions : \E b \in blocks[f] : a \in b.first..b.last
      BY <2>4
    <3>1. PICK b \in blocks[f] : a \in b.first..b.last
      BY <3>0
    <3>2. a \in Nat /\ b.first \in Nat /\ b.last \in Nat
      BY <2>3, <3>1, SizeAssumption DEF Addr
    <3>3. CASE a # b.last
      <4>1. a \in b.first..(b.last - 1)
        BY <3>1, <3>2, <3>3
      <4>2. rom[a].kind = "plain"
        BY <2>3, <4>1 DEF Fits
      <4>3. t = a + 1
        BY <4>2 DEF Flow
      <4>4. t \in b.first..b.last
        BY <3>2, <4>1, <4>3
      <4> QED BY <2>4, <4>4
    <3>4. CASE a = b.last
      <4>1. t \in Elements(Successors(b)) \/ (b.exit = "Call" /\ t = b.target)
        BY <2>3, <3>4 DEF Fits
      <4>2. CASE b.exit = "Call" /\ t = b.target
        BY <2>3, <2>6, <4>2
      <4>3. CASE t \in Elements(Successors(b))
        <5>1. f # cur
          BY <2>1, <2>2, SizeAssumption DEF None, Addr
        <5>2. t \in Starts(f) \cup entries
          BY <4>3, <5>1 DEF IInv, SuccessorsKept
        <5> QED BY <2>2, <2>5, <2>6, <5>2
      <4> QED BY <4>1, <4>2, <4>3
    <3> QED BY <3>3, <3>4
  <2>9. Translated = Reachable
    <3>1. Reachable \subseteq Translated
      BY <2>7, <2>8 DEF Reachable
    <3>2. ASSUME NEW a \in Translated, NEW S \in SUBSET Addr, Closed(S) PROVE a \in S
      BY <2>4, <3>2 DEF Exact, Found
    <3> QED BY <2>7, <3>1, <3>2 DEF Reachable
  <2>10. Callees(Reachable) \cap Addr \subseteq functions
    <3> SUFFICES ASSUME NEW a \in Translated, rom[a].kind = "call", rom[a].target \in Addr
                 PROVE  rom[a].target \in functions
      BY <2>9 DEF Callees
    <3>0. PICK f \in functions : \E b \in blocks[f] : a \in b.first..b.last
      BY <2>4
    <3>1. PICK b \in blocks[f] : a \in b.first..b.last
      BY <3>0
    <3>2. a = b.last
      <4>1. a \in Nat /\ b.first \in Nat /\ b.last \in Nat
        BY <2>3, <3>1, SizeAssumption DEF Addr
      <4>2. a \notin b.first..(b.last - 1)
        BY <2>3, <3>1 DEF Fits
      <4> QED BY <3>1, <4>1, <4>2
    <3> QED BY <2>3, <3>1, <3>2 DEF Fits
  <2>11. functions \subseteq Given \cup (Callees(Reachable) \cap Addr)
    <3> SUFFICES ASSUME NEW e \in functions, e \notin Given PROVE e \in Callees(Reachable)
      BY <2>2
    <3>0. PICK f \in functions : \E b \in blocks[f] : b.exit = "Call" /\ b.target = e
      BY <2>2 DEF Exact, Called
    <3>1. PICK b \in blocks[f] : b.exit = "Call" /\ b.target = e
      BY <3>0
    <3>2. rom[b.last].kind = "call" /\ rom[b.last].target = e
      BY <2>3, <3>1 DEF Fits
    <3>3. b.last \in b.first..b.last
      BY <2>3, <3>1, SizeAssumption DEF Fits, Addr
    <3>4. b.last \in Reachable
      BY <2>4, <2>9, <3>1, <3>3
    <3> QED BY <3>2, <3>4 DEF Callees
  <2> QED BY <2>2, <2>9, <2>10, <2>11
<1> QED BY <1>1, Invariance, Exactness, PTL

=============================================================================
