----------------------------- MODULE Recompiler -----------------------------
(***************************************************************************)
(* The recompiler: Analyzer::run splits the code of a ROM into functions   *)
(* and basic blocks, and Lifter writes one C++ function for each, with a   *)
(* label per block.                                                        *)
(*                                                                         *)
(* Code is abstracted to its control flow.  An address is the position of  *)
(* an instruction: nobody jumps into the middle of one.  An odd address is *)
(* treated like one outside the ROM, as the code does.  Address 0, the     *)
(* start of the vector table, is also what the code writes for an unknown  *)
(* target.                                                                 *)
(***************************************************************************)
EXTENDS Integers, Sequences

CONSTANTS
  Size,          \* the number of instructions in the ROM
  Programs,      \* the ROMs considered
  Vectors,       \* the entries of the vector table, reset first
  SwitchTargets, \* the targets in the configured switch tables
  KnownFunctions \* the addresses of the configured functions

Addr == 0..(Size - 1)

Kinds == {"plain", "bcc", "bra", "call", "calli", "jmp", "jmpi", "rts", "bad"}

\* `call` is BSR or JSR, `calli` JSR (An), `jmpi` JMP (An), `bad` does not decode.
\* A JMP or JSR whose target is computed otherwise has target 0.
Instruction == [kind : Kinds, target : Nat]

ASSUME SizeAssumption == Size \in Nat \ {0}
ASSUME ProgramsAssumption == Programs \subseteq [Addr -> Instruction]
ASSUME SeedsAssumption ==
  Vectors \in Seq(Nat) /\ SwitchTargets \in Seq(Nat) /\ KnownFunctions \in Seq(Nat)

VARIABLES
  rom,        \* rom_
  seeds,      \* the entries run() has still to enqueue, in order
  pending,    \* pending_
  entries,    \* seen_entries_ and function_entries_, which are always equal
  functions,  \* the entries in functions_
  cur,        \* the function that is traced, or None
  worklist,   \* the local worklist of trace_function
  blocks      \* functions_[f].blocks, a set of blocks for each address f

vars == <<rom, seeds, pending, entries, functions, cur, worklist, blocks>>

None == -1

Elements(s) == {s[i] : i \in DOMAIN s}

Exits == {"Jump", "Branch", "Call", "IndirectCall", "IndirectJump", "Return"}

\* A block is the run of instructions first..last; target is branch_target or
\* call_target.
Block == [first : Addr, last : Addr, exit : Exits, target : Nat, fallthrough : Nat]

Starts(f) == {b.first : b \in blocks[f]}

-----------------------------------------------------------------------------
(* trace_block.                                                            *)

\* The loop goes on after the instruction at a.
GoesOn(a) ==
  /\ rom[a].kind = "plain"
  /\ a + 1 \in Addr
  /\ a + 1 \notin entries

RunsTo(first, last) ==
  /\ first <= last
  /\ \A a \in first..(last - 1) : GoesOn(a)
  /\ ~GoesOn(last)

\* The exit that the instruction at `last` makes: only some have a target or a
\* fallthrough, the others leave them 0.
Exit(last) ==
  LET kind == rom[last].kind
      E(exit, target, fallthrough) ==
        [exit |-> exit, target |-> target, fallthrough |-> fallthrough]
      target == rom[last].target
  IN CASE kind = "bcc"   -> E("Branch", target, last + 1)
       [] kind = "bra"   -> E("Jump", target, 0)
       [] kind = "call"  -> E("Call", target, last + 1)
       [] kind = "calli" -> E("IndirectCall", 0, last + 1)
       [] kind = "jmp"   -> E("Jump", target, 0)
       [] kind = "jmpi"  -> E("IndirectJump", 0, 0)
       [] kind = "plain" /\ last + 1 \in entries -> E("Jump", last + 1, 0)
       [] OTHER          -> E("Return", 0, 0)

BlockOf(first, last) ==
  LET e == Exit(last)
  IN [first |-> first, last |-> last, exit |-> e.exit, target |-> e.target,
      fallthrough |-> e.fallthrough]

\* Mutant: the code after an indirect call is forgotten.
SuccessorsNotOfIndirectCalls(b) ==
  CASE b.exit = "Branch" -> <<b.fallthrough, b.target>>
    [] b.exit = "Jump" /\ b.target # 0 -> <<b.target>>
    [] b.exit = "Call" -> <<b.fallthrough>>
    [] b.exit = "IndirectJump" -> SwitchTargets
    [] OTHER -> <<>>

\* What trace_function pushes for a block.
Successors(b) ==
  CASE b.exit = "Branch" -> <<b.fallthrough, b.target>>
    [] b.exit = "Jump" /\ b.target # 0 -> <<b.target>>
    [] b.exit \in {"Call", "IndirectCall"} -> <<b.fallthrough>>
    [] b.exit = "IndirectJump" -> SwitchTargets
    [] OTHER -> <<>>

-----------------------------------------------------------------------------
TypeOK ==
  /\ rom \in [Addr -> Instruction]
  /\ seeds \in Seq(Nat) /\ pending \in Seq(Addr) /\ worklist \in Seq(Nat)
  /\ entries \subseteq Addr
  /\ functions \subseteq Addr
  /\ cur \in Addr \cup {None}
  /\ blocks \in [Addr -> SUBSET Block]

\* Mutant: the tables' targets are left to the indirect jumps that use them.
InitWithoutTables ==
  /\ rom \in Programs
  /\ seeds = Vectors \o KnownFunctions
  /\ pending = <<>>
  /\ entries = {}
  /\ functions = {}
  /\ cur = None
  /\ worklist = <<>>
  /\ blocks = [a \in Addr |-> {}]

Init ==
  /\ rom \in Programs
  /\ seeds = Vectors \o SwitchTargets \o KnownFunctions
  /\ pending = <<>>
  /\ entries = {}
  /\ functions = {}
  /\ cur = None
  /\ worklist = <<>>
  /\ blocks = [a \in Addr |-> {}]

\* enqueue_function
Enqueue(a) ==
  IF a \in Addr \ entries
    THEN entries' = entries \cup {a} /\ pending' = Append(pending, a)
    ELSE UNCHANGED <<entries, pending>>

Seed ==
  /\ seeds # <<>>
  /\ Enqueue(Head(seeds))
  /\ seeds' = Tail(seeds)
  /\ UNCHANGED <<rom, functions, cur, worklist, blocks>>

\* Mutant: the entry is looked at but not taken.
BeginFunctionAgain ==
  /\ seeds = <<>> /\ cur = None /\ pending # <<>>
  /\ cur' = pending[Len(pending)]
  /\ functions' = functions \cup {cur'}
  /\ worklist' = <<cur'>>
  /\ UNCHANGED <<rom, seeds, pending, entries, blocks>>

\* run() takes the entry enqueued last.
BeginFunction ==
  /\ seeds = <<>> /\ cur = None /\ pending # <<>>
  /\ cur' = pending[Len(pending)]
  /\ pending' = SubSeq(pending, 1, Len(pending) - 1)
  /\ functions' = functions \cup {cur'}
  /\ worklist' = <<cur'>>
  /\ UNCHANGED <<rom, seeds, entries, blocks>>

\* Mutant: the blocks of all functions are one set.
SkipsTracedAnywhere(a) ==
  \/ \E f \in functions : a \in Starts(f)
  \/ a \notin Addr
  \/ a # cur /\ a \in entries

\* Traced already, outside the ROM, or the entry of another function.
Skips(a) ==
  \/ a \in Starts(cur)
  \/ a \notin Addr
  \/ a # cur /\ a \in entries

SkipAddress ==
  /\ cur # None /\ worklist # <<>>
  /\ Skips(Head(worklist))
  /\ worklist' = Tail(worklist)
  /\ UNCHANGED <<rom, seeds, pending, entries, functions, cur, blocks>>

\* The switch targets of an indirect jump are enqueued as well, without effect:
\* they are all entries since run() seeded them (SwitchTargetsSeeded).
TraceBlock ==
  /\ cur # None /\ worklist # <<>>
  /\ ~Skips(Head(worklist))
  /\ \E last \in Addr :
       LET b == BlockOf(Head(worklist), last)
       IN /\ RunsTo(Head(worklist), last)
          /\ blocks' = [blocks EXCEPT ![cur] = @ \cup {b}]
          /\ worklist' = Tail(worklist) \o Successors(b)
          /\ IF b.exit = "Call" THEN Enqueue(b.target) ELSE UNCHANGED <<pending, entries>>
  /\ UNCHANGED <<rom, seeds, functions, cur>>

EndFunction ==
  /\ cur # None /\ worklist = <<>>
  /\ cur' = None
  /\ UNCHANGED <<rom, seeds, pending, entries, functions, worklist, blocks>>

Done == seeds = <<>> /\ cur = None /\ pending = <<>>

Finished == Done /\ UNCHANGED vars

Next ==
  \/ Seed
  \/ BeginFunction
  \/ SkipAddress
  \/ TraceBlock
  \/ EndFunction
  \/ Finished

Spec == Init /\ [][Next]_vars

\* A sequential program keeps running.
FairSpec == Spec /\ WF_vars(Next)

-----------------------------------------------------------------------------
(* The C++ that Lifter writes.  The blocks of a function follow each other *)
(* in the order of their addresses, each below its label.                  *)

\* The label below the code of b: none, or the next one.
NextLabel(f, b) ==
  {a \in Starts(f) : a > b.first /\ \A s \in Starts(f) : s > b.first => a <= s}

\* emit_block ends a block that jumps to another function by a call of it.
TailCalls(f, b) == b.exit = "Jump" /\ b.target \in functions \ {f}

\* The labels of the gotos that translate_inst writes for BRA, Bcc and DBcc, whether
\* or not a tail call follows.  That of a JMP is also written by emit_block.
BranchLabels(b) == IF rom[b.last].kind \in {"bra", "bcc"} THEN {rom[b.last].target} ELSE {}

\* Mutant: a fall or a jump into another function is a goto.
ExitLabelsWithoutTailCalls(f, b) ==
  CASE b.exit = "Jump" /\ b.target # 0       -> {b.target}
    [] b.exit \in {"Call", "IndirectCall"}   -> {b.fallthrough}
    [] OTHER                                 -> {}

\* The labels of the gotos that emit_block writes.
ExitLabels(f, b) ==
  CASE b.exit = "Jump" /\ b.target # 0 /\ ~TailCalls(f, b) -> {b.target}
    [] b.exit \in {"Call", "IndirectCall"}                 -> {b.fallthrough}
    [] OTHER                                               -> {}

\* The labels that the code of b jumps to and its function does not have: the C++
\* does not compile.
MissingLabels(f, b) == (BranchLabels(b) \cup ExitLabels(f, b)) \ Starts(f)

\* The function that the code for a call or a dispatched jump looks up.
CallsAt(b) ==
  CASE b.exit = "Call" /\ b.target # 0 -> {b.target}
    [] b.exit = "IndirectJump"         -> Elements(SwitchTargets)
    [] OTHER                           -> {}

-----------------------------------------------------------------------------
(* Properties.                                                             *)

\* Every switch target is an entry before the first function is traced: what
\* TraceBlock leaves out has no effect.
SwitchTargetsSeeded ==
  cur # None => Elements(SwitchTargets) \cap Addr \subseteq entries

\* Nothing that a traced block leads to is lost, however the functions were
\* interleaved with the discovery of others: it is a block of the same function,
\* an entry, or waits in the worklist of the function being traced.
SuccessorsKept ==
  \A f \in functions : \A b \in blocks[f] :
    Elements(Successors(b)) \cap Addr
      \subseteq Starts(f) \cup entries \cup (IF f = cur THEN Elements(worklist) ELSE {})

\* Where control may go from an instruction, as far as it is known, and into
\* which functions.
Flow(a) ==
  LET i == rom[a]
  IN CASE i.kind \in {"plain", "calli"} -> {a + 1}
       [] i.kind = "bcc"                -> {a + 1, i.target}
       [] i.kind = "call"               -> {a + 1, i.target}
       [] i.kind \in {"bra", "jmp"}     -> {i.target} \ {0}
       [] i.kind = "jmpi"               -> Elements(SwitchTargets)
       [] OTHER                         -> {}

\* What the configuration and the vectors name.
Given == Elements(Vectors \o SwitchTargets \o KnownFunctions) \cap Addr

\* A set of addresses that control does not leave inside the ROM.
Closed(S) == Given \subseteq S /\ \A a \in S : Flow(a) \cap Addr \subseteq S

\* The reachable code: the least closed set.
Reachable == {a \in Addr : \A S \in SUBSET Addr : Closed(S) => a \in S}

\* The addresses that the blocks of the functions hold.
Translated == UNION {b.first..b.last : b \in UNION {blocks[f] : f \in functions}}

\* The targets of the calls in a set of addresses.
Callees(S) == {rom[a].target : a \in {c \in S : rom[c].kind = "call"}}

\* The result does not depend on the order in which entries are taken or found:
\* the blocks hold exactly the reachable code, and the functions are the seeds
\* and the targets of reachable calls.
ReachableIsTranslated ==
  Done =>
    /\ Translated = Reachable
    /\ functions = Given \cup (Callees(Reachable) \cap Addr)

\* When the analysis is done, a function has the label of its entry, and a call or
\* a dispatched jump into the ROM finds a function (lifter.cpp:738-782).  A JMP and a
\* fall into the ROM find a label or are tail calls (lifter.cpp:131, 769).  Of the
\* others - BRA, Bcc, DBcc (lifter.cpp:706-725) and the code after a call
\* (lifter.cpp:147) - a label inside the ROM is missing only where another function
\* begins, or where BRA leads to 0, which stands for no target.
MissingLabelsAreEntries ==
  Done => \A f \in functions :
    /\ f \in Starts(f)
    /\ \A b \in blocks[f] :
         /\ CallsAt(b) \cap Addr \subseteq functions
         /\ \A t \in MissingLabels(f, b) \cap Addr :
              \/ t \in functions \ {f} /\ rom[b.last].kind \in {"bra", "bcc", "call", "calli"}
              \/ t = 0 /\ rom[b.last].kind = "bra"

\* The analysis ends, whatever loops and recursion the program has.
Terminates == <>Done

-----------------------------------------------------------------------------
(* What the sources say and the code does not do.                          *)

\* analyzer.h:23 "conditional branch - has fallthrough + branch_target": what
\* follows the code of a branch that is not taken is its fallthrough.
BranchesFallThrough ==
  Done => \A f \in functions : \A b \in blocks[f] :
    b.exit = "Branch" /\ b.fallthrough \in Starts(f) => NextLabel(f, b) = {b.fallthrough}

=============================================================================
