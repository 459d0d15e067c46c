------------------------------ MODULE StackInit ------------------------------
(***************************************************************************)
(* The guest's stack: the end of load_elf_binary, which maps it above a    *)
(* guard page, and create_elf_tables, which writes the strings of the      *)
(* environment and of the command line to it, below them room for an empty *)
(* auxiliary vector, and last the pointers, so that the guest finds argc,  *)
(* argv, envp and AT_NULL at its stack pointer. Nothing compares the       *)
(* stack's size with what is written: the guard is the only check.         *)
(*                                                                         *)
(* Memory is kept by the byte, as what was written there. Fresh pages read *)
(* as zero.                                                                *)
(***************************************************************************)
EXTENDS Integers, Sequences

CONSTANTS
  Word,       \* sizeof(target_ulong), also sizeof(void *)
  Guard,      \* TARGET_PAGE_SIZE
  LongMod,    \* 2 ^ TARGET_LONG_BITS
  StackAt     \* where the search of mmap.c puts the guard and the stack

ASSUME StackAssumption ==
  /\ Word \in Nat \ {0}
  /\ Guard \in Nat /\ Guard >= 5 * Word
  /\ LongMod \in Nat /\ LongMod > Guard
  /\ StackAt \in Nat /\ StackAt > 0

VARIABLES
  tables,      \* how far create_elf_tables is, or how it ended
  argvS,       \* the strings to write: bprm->filename, then argv[1], ...
  envS,        \* and envp
  stack_size,
  left,        \* how many strings, or pointers, are still to be written
  ptrs,        \* the array of pointers
  top,
  mem          \* what the guest's stack, and what lies below it, holds

tabVars == <<tables, argvS, envS, stack_size, left, ptrs, top, mem>>

Writing ==
  {"idle", "env", "argv", "ptrs", "done", "failed", "killed"}

stack_limit == StackAt + Guard
GuardPage == StackAt .. StackAt + Guard - 1
StackBytes == stack_limit .. stack_limit + stack_size - 1

\* stack_size + guard is a target_ulong.
MappedLen(size) == (size + Guard) % LongMod

TabInit ==
  /\ tables = "idle"
  /\ argvS = <<>>
  /\ envS = <<>>
  /\ stack_size = 0
  /\ left = 0
  /\ ptrs = <<>>
  /\ top = 0
  /\ mem = [a \in {} |-> <<"word", 0, 0>>]

\* Mutant of TopOf: the top of the whole mapping, taken from its limit.
TopOfMapping(size) == stack_limit + MappedLen(size) - Word

\* bprm->p, one pointer below the end of the stack.
TopOf(size) == StackAt + MappedLen(size) - Word

\* target_mmap, target_mprotect, and the entry of create_elf_tables. The host
\* grants a length that is not zero and fits.
MapStack(args, env, size) ==
  /\ tables = "idle"
  /\ MappedLen(size) # 0
  /\ StackAt + MappedLen(size) <= LongMod
  /\ argvS' = args
  /\ envS' = env
  /\ stack_size' = size
  /\ top' = TopOf(size)
  /\ ptrs' = <<0>>
  /\ left' = Len(env)
  /\ tables' = "env"
  /\ UNCHANGED mem

\* One of the two calls fails, or malloc.
MapStackFails ==
  /\ tables = "idle"
  /\ tables' = "failed"
  /\ UNCHANGED <<argvS, envS, stack_size, left, ptrs, top, mem>>

-----------------------------------------------------------------------------
(***************************************************************************)
(* target_memory_copy: a memcpy that reports nothing. It faults when one   *)
(* of its bytes is in the guard.                                           *)
(***************************************************************************)
Span(a, n) == a .. a + n - 1

Faults(a, n) == Span(a, n) \cap GuardPage # {}

\* The memory with n bytes of a value written at a.
Copied(a, n, kind, value) ==
  [b \in DOMAIN mem \cup Span(a, n) |->
     IF b \in Span(a, n) THEN <<kind, value, b - a>> ELSE mem[b]]

Killed ==
  /\ tables' = "killed"
  /\ UNCHANGED <<argvS, envS, stack_size, left, ptrs, top, mem>>

\* With the byte that ends it.
SizeOf(s) == s.len + 1

\* A string below the last one, and a pointer to it.
PushString(s) ==
  IF Faults(top - SizeOf(s), SizeOf(s))
  THEN Killed
  ELSE /\ top' = top - SizeOf(s)
       /\ ptrs' = Append(ptrs, top - SizeOf(s))
       /\ mem' = Copied(top - SizeOf(s), SizeOf(s), "string", s)
       /\ left' = left - 1
       /\ UNCHANGED <<tables, argvS, envS, stack_size>>

\* envp from its last string to its first.
PushEnv ==
  /\ tables = "env"
  /\ left > 0
  /\ PushString(envS[left])

EnvDone ==
  /\ tables = "env"
  /\ left = 0
  /\ ptrs' = Append(ptrs, 0)
  /\ left' = Len(argvS)
  /\ tables' = "argv"
  /\ UNCHANGED <<argvS, envS, stack_size, top, mem>>

\* argv from its last string to the second, and the file name as the first.
PushArg ==
  /\ tables = "argv"
  /\ left > 0
  /\ PushString(argvS[left])

RoundDown(a) == a - (a % Word)

\* Mutant of BelowAuxv: no room for the auxiliary vector's AT_NULL.
BelowAuxvNone(a) == RoundDown(a)

\* auxv end, and an elf_auxv_t that is not written.
BelowAuxv(a) == RoundDown(a) - Word - 2 * Word

\* Mutant of LastPtrs: a pointer more, and the malloc as it was.
LastPtrsTwo == <<0, Len(argvS)>>

\* argc, as the last of the pointers.
LastPtrs == <<Len(argvS)>>

ArgsDone ==
  /\ tables = "argv"
  /\ left = 0
  /\ ptrs' = ptrs \o LastPtrs
  /\ top' = BelowAuxv(top)
  /\ left' = Len(ptrs \o LastPtrs)
  /\ tables' = "ptrs"
  /\ UNCHANGED <<argvS, envS, stack_size, mem>>

\* ptrs[i], for i from 0.
Pointer == ptrs[Len(ptrs) - left + 1]

PushPointer ==
  /\ tables = "ptrs"
  /\ left > 0
  /\ IF Faults(top - Word, Word)
     THEN Killed
     ELSE /\ top' = top - Word
          /\ mem' = Copied(top - Word, Word, "word", Pointer)
          /\ left' = left - 1
          /\ UNCHANGED <<tables, argvS, envS, stack_size, ptrs>>

TablesDone ==
  /\ tables = "ptrs"
  /\ left = 0
  /\ tables' = "done"
  /\ UNCHANGED <<argvS, envS, stack_size, left, ptrs, top, mem>>

CreateElfTables ==
  \/ PushEnv \/ EnvDone \/ PushArg \/ ArgsDone \/ PushPointer \/ TablesDone

TabTypeOK ==
  /\ tables \in Writing
  /\ left \in Nat
  /\ stack_size \in Nat

-----------------------------------------------------------------------------
(***************************************************************************)
(* The array is malloc'ed for 1 + envc + 1 + argc + 1 pointers, a formula  *)
(* beside the code that fills it: that code writes no entry more.          *)
(***************************************************************************)
PtrsCapacity == 1 + Len(envS) + 1 + Len(argvS) + 1

PtrsFit == tables # "idle" /\ tables # "failed" => Len(ptrs) <= PtrsCapacity

(***************************************************************************)
(* create_elf_tables writes inside the stack, whatever the command line    *)
(* and the size asked for with -s: when they do not fit, it faults in the  *)
(* guard before it has written below it. When the size with the guard      *)
(* overflows, the mapping is nothing but guard, and the first string       *)
(* faults; only if the sum wraps to no more than a pointer does the top    *)
(* start at or below the guard, and everything is written below the        *)
(* mapping, where nothing stops it.                                        *)
(***************************************************************************)
StackInside ==
  IF stack_size + Guard < LongMod
  THEN DOMAIN mem \subseteq StackBytes
  ELSE DOMAIN mem # {} =>
         MappedLen(stack_size) <= Word /\ \A a \in DOMAIN mem : a < StackAt

=============================================================================
