# A verification project for rvvk

rvvk runs a statically linked RISC-V Linux program on a 64-bit host. It maps
the program into its own address space, translates the code block by block into
arrays of handler pointers, caches and chains the blocks, and serves a handful
of system calls. This directory holds TLA+ models of it, the TLC configurations
that check them on small instances, and TLAPS proofs of most of what they check for
every value of the constants. The models follow a run of rvvk from `main`'s
arguments to the guest's registers: the start (`Startup`), the address space
(`GuestMem`), the decoder (`Decode`), the handlers (`Alu`) and the engine that
caches and chains what the decoder made (`CpuExec`).

All source references are to the repository (`src/`). Line numbers of every
definition are in `PROJECT.json` under `map`; the hazards the properties are
aimed at are listed there under `hazards`.

## 1. The system

rvvk is one process with one thread. Nothing runs concurrently; what makes it
hard is state that is written in one iteration and trusted in a later one
(links between blocks, hash chains, a buffer that only grows), host calls that
fail half-way, and a guest that may do any of its operations in any order.

| component | code | state | operations |
|---|---|---|---|
| execution engine | `arch/riscv/cpu.c` 707-869 | `block_hash_table`, the blocks with `jmp_next` and `hash_next`, `insn_buffer_ptr`, `env->pc`, `env->exception`, locals of `cpu_exec` and `block_exec` | `cpu_loop`, `cpu_exec`, `find_block`, `new_block`, `patch_block`, `block_exec` |
| translator loop | `arch/riscv/translate.c` 1431-1481 | the translation context, the slots of the block | `translate`, `decode` |
| instruction decoding | `arch/riscv/translate.c` 1-1424 | none | `decode_insn16`, `decode_insn32`, the `trans_X` |
| instruction semantics | `arch/riscv/cpu.c` 1-705 | `gpr`, CSRs, guest memory | the `do_X` |
| guest address space | `mmap.c`, `syscall.c` 7-19 | `mmap_next_start`, the host's mappings, `target_brk` | `host_mmap`, `mmap_find_vma`, `target_mmap`, `target_mprotect`, `do_brk` |
| ELF loader | `elfload.c` | the image's addresses | `load_elf_binary`, `zero_bss` |
| initial stack | `elfload.c` 106-170 | the stack's contents | `create_elf_tables` |
| system calls | `syscall.c` | none of its own | `do_syscall` |
| command line, paths | `util.c`, `main.c` | the argv cursor, a path buffer | `parse_options`, `get_real_path` |
| tables and headers | `include/` | none | constants |

How they interact: `main` parses the options, resolves the path and calls
`elf_load`, which makes every mapping of the program through `target_mmap` and
fills the stack; `main` then sets the break and calls `cpu_loop`, which never
returns in normal operation. `cpu_loop` calls `cpu_exec`, which returns only
with an exception; an ecall goes to `do_syscall`, which reaches the address
space through `do_brk` and `target_mmap`; anything else ends the process.
Handlers and the translator read guest memory by plain dereference (`cpu_ldX`).

What would make each component correct, and what is hard about it:

- **Engine.** Whatever it has cached, it runs the guest's program: the block it
  enters is the block of `env->pc`, although links are followed without
  looking; a block's code is the program text and is never overwritten by a
  later translation; a hash chain can always be walked to its end; an exception
  reaches `cpu_loop` although nothing in the execution loop tests for it.
- **Address space and loader.** What has been handed out stays what it was
  handed out for, although every mapping is `MAP_FIXED` and the program keeps
  no list of its mappings; a load that cannot be done right fails.
- **Decoding.** The instruction the ISA means, with its immediate, for every
  word; no field of a reused slot read that this instruction has not set; the
  successors recorded for chaining are those the handler goes to.
- **Semantics.** The ISA's results at the edges of the width, through casts
  written one by one; the order of reads and writes when registers coincide.
- **Loader, initial stack.** The bytes the file says, zero behind them also
  inside a page; pushes into a stack whose size nobody compares stop before
  they leave it; the layout the guest expects at its stack pointer.
- **Command line, paths.** One cursor through two vectors; a string searched
  before it is terminated, in a buffer nobody measures.

## 2. Modules

| module | what it is |
|---|---|
| `CpuExec` | the engine and the translator loop, with its properties and its inductive invariant |
| `Hart` | what the engine promises: one instruction after the other, no cache |
| `MCCpuExec` | the guest programs and sizes for TLC |
| `CpuExecProofs` | proofs about `CpuExec` |
| `HartProofs` | the proof that `CpuExec` implements `Hart` |
| `GuestMem` | the guest address space, the mappings of the loader, `brk` and `mmap` |
| `MCGuestMem` | the images and sizes for TLC |
| `GuestMemProofs` | proofs about `GuestMem` |
| `Decode` | both decoders with every `trans_X`, and the handlers that jump or trap |
| `RvIsa` | the reference: immediates as bit layouts, the table of encodings, the expansions of compressed instructions |
| `MCDecode` | the words for TLC |
| `DecodeProofs` | proofs about the immediates |
| `DecodeIsaProofs` | proofs about the decoded instruction, its fields and its edges |
| `Induction` | lemmas for the proofs: induction over a set of naturals, and sums |
| `Alu` | every handler, from operands to result |
| `RvArith` | the reference: the operations of I, M and A on bits and integers |
| `MCAlu` | operands and registers for TLC |
| `AluProofs` | every property of the handlers, for every width |
| `CmdLine` | `parse_options` |
| `RealPath` | `get_real_path` |
| `ElfImage` | what `load_elf_binary` puts into the pages |
| `StackInit` | the stack's mapping and `create_elf_tables` |
| `Startup` | `main`: the four parts in order, and the guest's first registers |
| `MCStartup` | command lines, paths and images for TLC |
| `StartupProofs` | proofs about `Startup` |

### CpuExec

Variables have the names of the C objects: `pc` and `exception` are fields of
`env`; `block` and `nblk` stand for the blocks in the order `malloc` returned
them; `table` is `block_hash_table`; `insn_buf` and `insn_buffer_ptr` the
instruction buffer, in units of `insn_t`; `walk` the loop cursor of
`find_block` and `new_block`; `cur`, `i` and `prev_block` the locals of
`block_exec` and `cpu_exec`; `at` the place in the code. A block has the two
links `jmp_next[0]` (`pc0`, `blk0`) and `jmp_next[1]` (`pc1`, `blk1`). `gpc` in
a slot is a history field: the address the slot was decoded from. No action
reads it.

Each loop iteration is an action, so a lookup, a chain walk, a translation and
an execution are sequences of steps:

    LookUp | LeaveCpuExec                    the loop test of cpu_exec
    FindHit | FindNext                       find_block
    NewBlock | NewBlockFails, TailNext, TailLink      new_block
    DecodeInsn | DecodeEnd | DecodeFaults    decode, and the claim in translate
    PatchBlock                               patch_block
    DoSeq, DoWr0, DoIllegal, DoEcall, DoBranch, DoJal, DoJalr   the handlers
    FollowChain | LeaveBlockExec             the chaining loop of block_exec
    SyscallReturns | SyscallExits | ReportIllegal     the switch of cpu_loop

Abstracted: register and memory contents. A conditional branch goes either way,
`jalr` to any address of `JumpTarget`, a system call returns or ends the
process. The opcodes are grouped by what their `trans_X` leaves in the block and
what their handler does to `pc` and `exception`; the comment at `Op` lists the
groups. The hash is any function. Kept from the code although inconvenient:
`decode` fetches four bytes for a two-byte instruction; the CSR translators do
not set `insn->pc`, so `do_illegal` on an unknown CSR sets `pc` to what the slot
held; `env->exception` starts as the zero of `memset`, which is an exception;
`malloc` and the end of the buffer are not checked, and the fault that follows
is the location `"segv"`. An assertion that fails is `"abort"`.

`Hart` is refined through `HartPc` and `HartStatus` (end of `CpuExec`): inside
a block the hart is at the address of the slot about to run, elsewhere at
`env->pc`.

### GuestMem

Addresses are page numbers; `owner` says what each page is mapped for.
`MmapFixed` is `target_mmap` with `MAP_FIXED`, `MmapSearch` the call without it
(a reservation by `mmap_find_vma`, then the mapping), `MmapHalfDone` the call
whose second `host_mmap` fails. `at` follows `load_elf_binary`: reserve,
segments (one action each), heap, stack, guard, then `target_set_brk` in `main`
and the running guest. Every host call may fail; a segment may fail with any
prefix of its pages mapped. An image is its page-aligned layout: the linear
start, the end, and one page range for each PT_LOAD entry.

`hiaddr` is kept as the code computes it, without the load bias, next to a
biased `brk_aligned`; the length of the heap is negative (huge in C) for an
image that was moved, which no host grants.

`Tame` restricts the guest's `mmap` to what it may believe free: pages that are
not of its program, heap, stack or guard, and not above what the search has
given out. It is TRUE where the layout is checked and proved and FALSE where the
run is about a guest's arbitrary hint.

Images are assumed to be linked below `TASK_UNMAPPED_BASE` (0x4000000000) with
32 MiB to spare (`ImagesAssumption`): true of what the toolchains in
`src/README.md` produce, and not checked by the loader.

### Decode

A word is a function from bit numbers to bits, so `extract32`, `sextract32` and
`deposit32` move bits and an immediate is never a number until a handler adds
it. What `decode` leaves behind is the record `result`: the fields the
translator assigned (a missing one is whatever the slot held), whether the
block ends, and the addresses stored through `ctx->pc_next`. `DecodeInsn` is one
call of `decode`'s loop body; `DoBranch`, `DoJal`, `DoJalr`, `DoTrap` and
`DoUnknownCsr` are the handlers that set `env->pc`, `DoThrough` all others. Both
switches are CASEs over the fields of the word; where the code breaks out of
them the handler is `do_illegal`.

`RvIsa` is written from the ISA's tables and not from the code: for each format
which bit of the word each bit of the immediate is, for each encoding the
fixed fields and the operands, for each compressed instruction the 32-bit
instruction it stands for. The properties compare the two.

### Alu

A state is a slot (`insn`), four registers, a doubleword of memory, the ten CSRs
of `read_csr` and `write_csr` and the `pc`; a step is one handler. The widths are parameters that keep the
program's shape: a register is two ints, an int four bytes. Each cast of the C
code is an operator (`target_long`, `target_hulong`, `int32`, ...), and where C
leaves a choice the model has what the x86-64 build does: an arithmetic right
shift, and SIGFPE for a division by zero or out of range (`DoDivKilled`). An atomic is one step, since one host thread runs the
guest, at any alignment. `reserved` is the hart's reservation in the ISA; rvvk has
none, and the model keeps it only to say where `sc` differs. `iaddr` is the address of the
instruction, which no handler reads: a handler has `insn.pc`, and that is the address
only where the translator assigned it (`PcOps`) and the zero of fresh pages elsewhere,
as for `do_illegal` after an unknown CSR.

A CSR is a `target_ulong` of its own, as in `state_t`. In the ISA `fflags` and `frm`
are parts of `fcsr`, `vxsat` and `vxrm` parts of `vcsr`, these and `vstart` are narrow, and
`vl`, `vtype` and `vlenb` are read-only; that is what `Views`, `Size` and `ReadOnlyCsr`
say, and `Coherent` says that the ten fields are in such a state. `VLMAX` bounds
`vstart`.

The start states are given by `Codes` and `StartOf`. `StartsAssumption` says what
they have in common: the parts have their types, `x0` is zero (of other states
the ISA says nothing; that rvvk can leave zero behind is what `ZeroWritten` names),
and a memory instruction reaches into the doubleword. `WidthAssumption` says how
the widths relate: an int has four bytes, a register two ints, and the number of
an int's bits divides `Half`, as 32 does, so that a shift amount is the low bits
of its operand.

`RvArith` computes the same results by bits and exact integers, and shares none
of the definitions of `Alu`. Its recursion is by functions over naturals (`TwoTo`,
`OfBits`), never by operators, so that it can be reasoned about.

### Startup

`Startup` EXTENDS `CmdLine`, `RealPath`, `ElfImage` and `StackInit`; each keeps
its own variables and ends in a location (`done`, `error`, `failed`, `killed`,
`overrun`, `exit`), and `Startup` lets the next begin when the one before is
done, with what it found: `prog_argv` and `prog_envp`, the resolved path as
`bprm->filename`, `guest_stack_size`, the entry. `hart` are the registers
`target_cpu_copy_regs` sets.

- `CmdLine`: the vector is the arguments, a NULL, the environment, a NULL, as
  the operating system lays it out; `opts` is the index of the cursor. One action for
  each way an iteration of the loop goes. An option whose argument is missing
  passes NULL to `strtoul`, which ends the process. The message about an invalid option
is built in 256 bytes that nobody measures: an option longer than `OptionRoom` (238 in
the code, 2 in the instance) ends in `overrun`.
- `RealPath`: `real` is `prog_real_path` byte by byte, first filled with
  whatever main's stack holds (`stale`). A path comes split at its slashes. A
  write behind the buffer, or a search that finds no NUL in it, is `overrun`. `misled` is a
history variable: a `..` has found a '/' behind the text written so far. No
guard reads it.
- `ElfImage`: `byte` gives for each address the offset in the file it was mapped
  from, or Zero; `prot` its protection. `GuestMem` has the same calls by page
  with all that can be refused; here the reservation is granted where it was
  asked for, which `GuestMem` shows to be the only way to get to a running
  guest (`NoBiasedImage`). The header checks are one Boolean.
- `StackInit`: one action for each string and each pointer. A write into the
  guard page is the host's SIGSEGV. Sizes are taken modulo `LongMod`, since
  `stack_size + guard` may overflow; then little but the guard is mapped, and `top` may lie
below it.

Mutants of a definition stand in front of it and are named in its comment; no
action uses them.

## 3. Runs

| run | what it checks | instance | states |
|---|---|---|---|
| `cache` | all safety properties of the cache, and the inductive invariant | 320 programs, 5 halfwords, 2 buckets, 3 blocks, 5 slots, TRANS_MAX 2 | 74 000 |
| `hart` | refinement of `Hart`, termination of lookups, exceptions are served | 320 programs, 4 blocks, 12 slots, TRANS_MAX 5 | 184 000 |
| `guest_mem` | address-space invariant and layout | 12 pages, base 6, heap 2, stack 1 + guard, 4 images, mmap of 1 or 2 pages | 1 372 |
| `decode` | both decoders against the ISA's tables, and the handlers' jumps | all 49 152 compressed words; 24 192 words of 18 opcodes, with every funct3, 14 funct7, two or three values of each register field | 225 000 |
| `alu` | every handler against the ISA's arithmetic | registers of 8 bits, words of 4; 25 operand values, 16 immediates, all aliases of `rd`, ten CSRs in and out of a state of the ISA, atomics at every alignment | 281 000 |
| `startup` | from `main`'s arguments to the guest's first instruction | 600 command lines of up to three strings and 12 longer ones, 9 stack sizes, 280 paths in 3 directories with 5 leftovers in an 8-byte buffer, about 150 images with pages of 4 bytes | 55 000 |
| `gpr_zero`, `block_limit`, `bad_csr`, `brk_backed`, `mmap_hint`, `isa` | one disagreement each, see section 6 | one program, or the instances above | small |

Why the bounds are enough. In `cache` three of four block addresses share a
bucket, so chains of three are built and walked; TRANS_MAX 2 cuts blocks in the
middle of straight lines; 5 slots are odd and too few for three full blocks, so
the rounding of claims matters and the buffer overflows in the middle of a
translation; three blocks are one too few, so `malloc` fails. The programs combine
every kind of instruction, with jumps into the second half of an instruction
and a branch whose two edges lead to the same address. In
`hart` nothing runs out, so whole executions are covered. In `guest_mem` the
address space ends four pages after the stack, so the search runs into its end; images start at 0 and above it, with and without a gap and an empty
entry, as ET_EXEC and ET_DYN, and for ET_DYN at 0 the search moves the image.

In `decode` the compressed encodings are complete. The 32-bit words have each
immediate's sign bit, and enough of its other bits, set in one word and clear
in another; that no single bit of an immediate is lost is proved (section 4).
In `alu` eight bits are the least that keep every relation between the widths: a
half product, a word that is not a register, bytes in a word. Operands
are around zero, the sign bits and the ends of word and register; memory
lies at the end of the address space, so that addresses wrap; every alignment
is tried. In `startup` the scenarios vary one part at a time, because the
parts only share what `Startup` hands over. Stack sizes are chosen
around what the strings need: too small for one string, for the pointers, just
large enough, refused by the host, and overflowing with the guard to nothing,
to less than a pointer and to more. Leftovers are all zero, without a NUL, with slashes
here and there, and nothing but slashes. Image sizes are around a page: file parts
and bss that end before, at and behind its end, in a page shared with the
segment before, with every protection that matters.

Deadlock is checked everywhere: an ended process is the explicit step `Over`
(`Done`, `Started`).

Properties of the engine: `TypeOK`, `RunsTheBlockOfPc`, `TranslationFaithful`,
`LinkSound`, `HashChains`, `OneBlockPerPc`, `SyscallAtItsEcall`,
`NoEntryWithException`, `CodeNeverRewritten` (an action property), `IndInv`,
`ImplementsHart`, `LookupCompletes`, `ExceptionServed`. Of the address space:
`TypeOK`, `FreeAboveNext`, `LayoutIntact`, `NoBiasedImage`, `MemInv`. Of the
decoder: `TypeOK`, `FieldsReadAreSet`, `DecodesLikeTheIsa`, `CompressedExpands`,
`EdgesAreSuccessors`, `LinkIsNextInsn`. Of the handlers: `TypeOK`,
`ResultsAreTheIsas`, `ControlLikeTheIsa`, `CsrsLikeTheIsa`, `MemoryLikeTheIsa`,
`MulHighIsExact`.
Of the start: `StartupTypeOK`, `PathIsResolved`, `LeftoverMisleads`, `ImageIsTheFile`,
`HeapBehindImage`, `PtrsFit`, `StackInside`, `GuestSeesCommandLine`,
`StackAsAsked`, `StartupEnds`. Each is
stated in words at its definition, and each is broken by a mutant of a mapped
definition (`mutants` in `PROJECT.json`).

The comparisons of `Alu` are equivalences: a handler's result is the ISA's if
and only if the step is none of the cases the property names. So the run shows both
that nothing else differs and that these do:

- registers: `WordZeroExtended`, `HostDivides`, `ZeroWritten`, `StoresUnconditionally`,
  `MisalignedAtomic` (the ISA has it trap), `ReadOnlyWritten`, and `StaleView`, a CSR
  read after its other view was written;
- pc and exception: `LinkBeforeBase`, `IllegalElsewhere` (an unknown CSR is
  reported at `insn->pc`, which is not the instruction's address), `ReadOnlyWritten`,
  `MisalignedAtomic`;
- CSRs: from a state of the ISA, `ViewChanged` (any change to a part or the whole of
  `fcsr` or `vcsr`, since the other fields stay), `VstartTooWide`, `ReadOnlyWritten`. Whatever
  the state, the field that is named gets the bits the ISA gives it, which is what
  `rmw_csr` computes;
- memory: `StoresUnconditionally` and `MisalignedAtomic`, when they change it.

`get_real_path` is treated likewise. `PathIsResolved` holds for every content of the
buffer with one exception: a `..` that was misled by a leftover '/'; and
`LeftoverMisleads` shows that none is harmless: such a '/' always makes the
names wrong at that point. An overrun is an outcome of the code, and `PathIsResolved` says
when it may happen. `StackInside` has two halves. For a size that does
not overflow with the guard nothing is written outside the stack; for one that does,
something is written only if the sum wraps to at most a pointer's size, and then below
the mapping, where no guard stops it.

`ImplementsHart` is checked only for programs without an unknown CSR and
without a straight line as long as TRANS_MAX: for the others the engine does
not implement the hart, as `bad_csr` and `block_limit` show. That is the premise
`Servable` of the theorem about it, and TLC evaluates it for the programs of the
`hart` run (`HartProgramsAssumption`). In the same way `startup` evaluates for its
images the premises of the theorems about the image (`MCImagesAssumption`).

Fairness is `WF_vars(Next)` in `CpuExec` (`WF_vars(Step)` in `Startup`, where
`Step` leaves out the stuttering end) and nothing more: there is one thread, and
the host goes on scheduling it. Which action comes next is determined by the code except
where the guest's data decides, and no fairness is assumed of those choices.
So `LookupCompletes` and `ExceptionServed` hold for every guest.
`ExceptionServed` starts at the end of the block in which the exception was
raised. The blocks behind it end because a chain never goes on past a block
that raised one.

## 4. Proofs

**CpuExecProofs.** For every set of programs, hash function, number of blocks,
buffer size and TRANS_MAX > 0, from the named assumptions of `CpuExec`
(addresses are naturals that contain 0; two and four bytes behind a mapped
halfword are addresses; ecall is four bytes long):
`Spec => []IndInv` (`Invariance`), and from it `TypeCorrect`, `RunsBlockOfPc`,
`CodeFaithful`, `LinksSound`, `ChainsSound`, `UniqueBlocks`, `SyscallSound`,
`NoPendingException` and the action property `NeverRewritten`.

The properties are not inductive. What has to be added:

- `CodeInv`: the unfinished block follows the text too; finished blocks lie
  below `insn_buffer_ptr`, and the block being translated starts at it. That is
  why a store into the buffer never touches a finished block. `GoodEdges` ties
  `jmp_next[].pc` to the last instruction.
- `LinkInv`: a block with a link has run to its end without raising
  (`Runs`). That is what makes following a link safe although neither
  `env->exception` nor, for `jmp_next[1]`, the address is compared. A block that
  raised always raises, hence is never patched.
- `LookupInv`: blocks behind the cursor of `find_block` are not the one looked
  for, which gives `OneBlockPerPc` on a miss and the shape of the chains after
  the append.
- `TranslateInv`, `ExecInv`, `ControlInv`: where `env->pc` is while a block
  runs, and that `prev_block` can only be patched with the block of the address
  its last instruction produced.

The proof has a lemma for each conjunct (`ChainStep`, `LookupStep`,
`TranslateStep`, `ExecStep`, `ControlStep` and so on); `StepIndInv` puts them
together. `Invariance` and the theorems after it are the results.

**GuestMemProofs.** Under `Tame`, for every size and every set of images that
satisfies `ImagesAssumption`: `Spec => []MemInv` (`MemInvariance`), hence
`MemTypeCorrect`, `SearchIsFresh`, `NeverBiased`, `LayoutKept`. `MemInv` adds to
the properties what is mapped at each stage of the load, and that an image is
either at its own address or at `TASK_UNMAPPED_BASE`; in the second case the
length of the heap is not positive and the load cannot get past it. `Effect`
is what any mapping does, `FixedEffect` and `SearchEffect` establish it once,
and one lemma for each action uses it.

Without `Tame` none of this holds: a guest's `MAP_FIXED` request replaces its
own stack, as on Linux.

**HartProofs.** `EngineImplementsHart`: `Spec /\ Servable(text) => ImplementsHart`,
for every set of programs, hash function, number of blocks and buffer size.
`Servable` says of the program that no instruction of it names an unknown CSR
and that no straight line of it is as long as TRANS_MAX; nothing in the code
checks either, and without them the property is false (`bad_csr`,
`block_limit`). The mapping is that of the model, `HartPc` and `HartStatus`. The
proof adds to `IndInv` what only the premise gives: every finished block ends
with an instruction that ends blocks, so the slot behind the one that runs is in
the block, and a pending illegal instruction is the one at `env->pc`. Then each handler is one step of `Hart`, and everything else that the engine
does - lookups, translation, patches, following links - changes neither `HartPc`
nor `HartStatus`. Following a link is the step that needs `IndInv`: it compares
nothing, and still the hart is where the next block begins.

**DecodeProofs.** `ImmediatesAreTheIsas` and `CompressedImmediatesAreTheIsas`:
for every word, each bit of each immediate the two decoders build is the bit of
the word the ISA's layout names, with the ISA's sign extension. The lemmas give
the bits of `extract32`, `sextract32`, `deposit32` and `ex_shift`; each format is
then a calculation over its bit ranges. TLC's words are a sample of the
32-bit ones, so here the proof adds most.

**DecodeIsaProofs.** For every word, address and base register: the fields have
their types (`DecodeTypes`); a handler reads no field that this instruction's
translator did not assign (`HandlersReadTheirFields`); a 32-bit word is decoded to
the row of the ISA's table that matches it, with its registers and immediate,
and is refused if none does (`DecodeMatchesIsa`); a compressed word is decoded
to the instruction it abbreviates (`CompressedMatchesIsa`); and the addresses
stored for chaining, and the end of the block, fit where the handler goes
(`EdgesSound`, `LinkSoundness`). `DecodesLikeTheIsa` names the words that are an
exception, the ones taken for an ecall. The argument goes through the opcode: for
each, the rows of the table with that opcode are told apart by the same fields
as the arms of the code's switch, so that at most one row matches and it is the
arm's. What each `trans_X` leaves is stated once (`Sound`) and the properties
follow from that without looking at the switch again. A register number is a sum
over bits, so two that agree must agree bit by bit; that is what `Induction` is
for.

**Induction.** The library states induction with an operator as a parameter,
which the provers cannot be given. Here it is stated for a set of naturals
(`SetInduction`), from the existence of a least element (`LeastElement`), and
that is enough for what the models define by recursion over a finite range: such a
function exists, and has the value its definition reads like (`RecursionExists`,
with a step that is given as a function; `SumEquations` and the lemmas after it;
in `StartupProofs`, `CutsExist` for `AreOptions` and `NamesEquations`,
`TextEquations`, `MeaningEquations` for paths).

**AluProofs.** For registers of every width, every cell of memory and every set
of start states that meets `StartsAssumption`: `AluTypes` (`Spec => []TypeOK`),
`AluResults` (`ResultsAreTheIsas`), `AluControl` (`ControlLikeTheIsa`), `AluCsrs`
(`CsrsLikeTheIsa`), `AluMemory` (`MemoryLikeTheIsa`) and `MulHigh` (`MulHighIsExact`). So
the claim of the `alu` run, that the handlers compute what the ISA says outside the
named cases and differ in each of these, holds at 64 bits as at 8.

The inductive invariant, `AluInv`, is `TypeOK` with `Fresh`: until the handler runs,
`x0` is zero, no exception is pending, what the instruction reaches lies in
the cell, and the slot's pc is the address where the translator assigns it. `TypeOK` alone is not enough. Without `x0 = 0` the ISA's registers,
where a write to `x0` is dropped, differ from the program's in every
instruction; without the cell a load would read bytes that `mem` does not have.

The two sides compute differently, and the first half of the module makes them
meet. The program uses casts, products with powers of two and quotients; the ISA's side is
given by bits. The bridge is that a number below 2^w is the sum of its w
bits (`OfBitsBits` and the lemmas before it); that sums, differences and products
may be taken of remainders (`ModCong`, hence `Wrap`), so that a cast may be dropped
wherever another follows; that shifts move bits; that a cast to a signed type and back
is `Widen`; and that a quotient rounded towards zero is the only one with a
remainder of the dividend's sign below the divisor, which is how `Divided` chooses it.
Then there is a lemma for each action of `Next` (`UpperStep` to `AmoStep`), which gives
the types and the four step properties at once (`StepIsRight`), and under it a
step for each of the exceptional cases, in both directions: that
the case makes the difference needs a proof, too. For the word shifts, for
instance, that the result is the zero-extended word, and that this differs
from the sign-extended one just when the word's sign bit is set.

For multiply-high, `wmulu` keeps four half products and one carry; the sum of the
carry does not overflow, the high half is the quotient of the exact product,
and the two corrections of `wmulsu` and `wmul` turn the unsigned product into the
signed one modulo the register.

**StartupProofs.** For every command line, environment, path, buffer size and
image: `Spec => []StartupInv` (`StartupInvariant`), hence `StartupTypes`,
`WritesInsideStack` (`StackInside`) and `PointersFit` (`PtrsFit`). What has to be
added to the properties: where the two NULLs of the vector are, hence where the
cursor may be; that the buffer starts with '/', so that `strrchr` finds one; that
the pointer array holds one entry for each string written so far; and that the
strings written so far lie between `top` and the end of the stack, with `top`
not below the stack's limit. The last conjunct is kept by the guard: a write that
would go below the limit starts or ends in the guard, or spans it, and faults. When the
size overflows with the guard (`Wrapped`), the mapping is all guard: `top` is in it, and
the first string faults, or `top` is at its start or below and stays there.

What is told of contents has an invariant for each part:

- `ContentInv`, for `HeapLiesBehind` (`HeapBehindImage`) and `ImageHoldsTheFile`
  (`ImageIsTheFile`): for the entries seen so far, `bounds` is the largest of
  their ends, and each byte that no later entry covers is the file's or zero. The
  step is `MapPhdr`: the bytes it touches are the pages of its own segment, since
  a tail that is cleared ends in the page the segment ends in (`OwnBytes`,
  `OtherBytes`). The premises are `Sized` and `Whole`. The loader checks neither; a
  segment that is longer in the file than in memory would be mapped over what is
  behind it, and of a file that was cut short the pages behind its end fault.
- `OptionsInv`, for `StackIsAsAsked` (`StackAsAsked`): the strings before the
  cursor are whole options, and the size is that of the last -s among them. The
  property speaks of the program as the string behind whole options that is
  none, and only one is: options are a prefix code (`OptionsAreAPrefixCode`,
  `OneProgram`). This needs that the names in the table start with '-'
  (`NamesAssumption`).
- `HandedInv` (`HandedOn`): the strings given to `create_elf_tables` and the
  registers are what the parts before found.
- `PathWalkInv` (`WalkInvariant`), for `PathResolved` (`PathIsResolved`): while the walk lasts the
  bytes below `rp2` hold no NUL and the names in them are those the path means so
  far, each behind one slash, unless the walk was misled. As long as it is not, no slash
  stands between `rp2` and the next NUL at any `..`, so `strrchr`, which searches up to that NUL and
  not up to `rp2`, finds the right one (`OnWalk`). Each name of the path is a lemma of its own (`SkipKeeps`, `UpKeeps`,
  `AddKeeps`). That the directory has no slash at its end and no two in a row is
  what getcwd promises (`Directory`): from `/a/` one `..` would lead to `/a`.
- `LeftoversMislead` (`LeftoverMisleads`): at the root the string ends right behind its
  slash, so no '/' is found there. Behind names, the text up to a leftover '/' has at
  least the names that were written, since names only grow with the text (`NamesGrow`),
  and `..` should have left one fewer (`MisledKeepsNames`).
- `TableInv` (`TablesHold`), for `GuestIsTold` (`GuestSeesCommandLine`): each entry
  of the pointer array is the address of its string, which is in the stack
  above everything written later; and the words written so far are the entries of
  the array, from where the auxiliary vector begins downwards. Since the strings are
  pushed from the last to the first and the array from its first entry to its last,
  the guest finds argc lowest and the strings in order. The premise of the
  property, a size that does not overflow with the guard, is the model's `Sane`.

**Only model-checked**: the liveness properties, `LookupCompletes`,
`ExceptionServed` and `StartupEnds`, since liveness under fairness is out of the
prover's reach. Every safety property and every refinement that a passing
run checks is a theorem. The six disagreements of section 6 are
counterexamples of TLC.

## 5. Not modelled, and the plan

Not modelled:

- The system calls that forward to the host (`faccessat`, `fstat`, `write`,
  `close`): rvvk keeps no state for them, and the bytes a guest's memory holds
  once it runs are not modelled, so neither is what `fstat` copies there. The
  ways a system call returns or ends the process are in `CpuExec`, `brk` and `mmap`
  in `GuestMem`.
- A text the guest rewrites (`fence.i` is translated to nothing): the program is
  a constant of `CpuExec`.
- ET_DYN images that are moved: `GuestMem` shows that none ever runs.
- Usage texts, messages and the debug log; constant tables; the guest test
  program.

The plan is done for the safety properties: all that the runs check are proved.
What the model could still grow by is the memory of the running guest, one image of
bytes shared by `Alu`'s loads and stores, by `GuestMem` and by the system calls;
then the contents `fstat` copies, and text that is rewritten, would
come into reach.

## 6. Disagreements found

Each is a run whose single property states what the code or its documentation
says, and which TLC violates. Details are in `PROJECT.json` under `findings`.

- `gpr_zero`: `assert(env->gpr[0] == 0)` in `block_exec` fails after
  `lui x0, imm`; the arithmetic translators test `rd`, those of lui, auipc, csr, lr
  and amo do not.
- `block_limit`: a straight line of TRANS_MAX instructions is run for ever;
  nobody advances `env->pc` at the end of a block that was cut.
- `bad_csr`: an access to an unknown CSR is forgotten when an ecall ends the same
  block.
- `brk_backed`: `brk` grants a break behind the 32 MiB that are mapped.
- `mmap_hint`: `mmap` without `MAP_FIXED` does not look for a location when it is
  given a hint, and maps over what is there.
- `isa`: the word shifts and the unsigned word divisions zero-extend their
  results, and five more cases in which an instruction of I, M or A is not the
  standard's (section 3).
