------------------------------- MODULE CpuExec -------------------------------
(***************************************************************************)
(* The execution engine of rvvk: cpu_loop, cpu_exec, find_block,           *)
(* new_block, patch_block and block_exec of arch/riscv/cpu.c, and the      *)
(* translation loop (translate, decode) of arch/riscv/translate.c.         *)
(*                                                                         *)
(* The guest's data is abstracted: registers and guest memory are not      *)
(* modelled, so a conditional branch goes either way, jalr goes to any     *)
(* address of JumpTarget, and a system call returns or ends the process.   *)
(* Everything the engine itself keeps is modelled: env->pc and             *)
(* env->exception, the blocks with their jmp_next links, the hash table    *)
(* with its collision chains, the instruction buffer, and the locals of    *)
(* cpu_exec and block_exec.                                                *)
(***************************************************************************)
EXTENDS Integers

CONSTANTS
  Addr,         \* guest addresses
  Half,         \* the mapped halfwords a 16-bit parcel can be fetched from
  JumpTarget,   \* the addresses a register can hold when jalr reads it
  Programs,     \* the guest programs: what every mapped halfword decodes to
  Bucket,       \* indices of block_hash_table
  fibhash,      \* the hash of an address; any function will do
  MaxBlocks,    \* how many blocks malloc can serve
  BufSize,      \* capacity of the instruction buffer, in insn_t
  TRANS_MAX     \* most instructions of one block

(***************************************************************************)
(* Instructions, by what trans_X leaves in the block and what do_X does to *)
(* env->pc and env->exception:                                             *)
(*   "seq"     runs through: arithmetic, loads, stores, fences, known CSRs *)
(*   "wr0"     lui, auipc, lr, amo or csr with rd = 0: nothing guards the  *)
(*             write to gpr[0]                                             *)
(*   "csr_bad" an access to a CSR that read_csr does not know              *)
(*   "branch"  conditional branches, "jal" direct and "jalr" indirect      *)
(*             jumps, "ecall", and "illegal" for trans_illegal             *)
(* tgt is the address pc + imm; it is meaningful for "branch" and "jal".   *)
(***************************************************************************)
Op == {"seq", "wr0", "csr_bad", "branch", "jal", "jalr", "ecall", "illegal"}

Insn == [op : Op, len : {2, 4}, tgt : Addr]

ASSUME AddrAssumption ==
  /\ Addr \subseteq Nat
  /\ 0 \in Addr
  /\ Half \subseteq Addr
  /\ \A a \in Half : a + 2 \in Addr /\ a + 4 \in Addr
  /\ JumpTarget \subseteq Addr
  /\ fibhash \in [Addr -> Bucket]

ASSUME ProgramAssumption ==
  /\ Programs \subseteq [Half -> Insn]
  /\ \A p \in Programs : \A a \in Half : p[a].op = "ecall" => p[a].len = 4

ASSUME SizeAssumption ==
  /\ MaxBlocks \in Nat
  /\ BufSize \in Nat
  /\ TRANS_MAX \in Nat \ {0}

NULL == 0
Blk == 1 .. MaxBlocks
Slots == 0 .. BufSize - 1

Exception == {"none", "ecall", "illegal", "addr_mis"}

(***************************************************************************)
(* Where the emulator is. The last five end the host process: the guest    *)
(* exited, an illegal instruction was reported, the instruction buffer     *)
(* could not be mapped, a host fault, a failed assertion.                  *)
(***************************************************************************)
Ended == {"exited", "killed", "quit", "segv", "abort"}
Loc == {"boot", "cpu_exec", "find_block", "tail", "translate", "patch_block",
        "block_exec", "next", "cpu_loop"} \cup Ended

VARIABLES
  text,            \* the loaded program
  at,              \* control location of the emulator
  pc,              \* env->pc
  exception,       \* env->exception
  block,           \* the blocks, by the order malloc returned them
  nblk,            \* how many are allocated
  table,           \* block_hash_table
  insn_buf,        \* the instruction buffer
  insn_buffer_ptr, \* its first free slot
  walk,            \* the cursor of find_block and new_block
  ctx_pc,          \* ctx->pc of the translation in progress
  cur,             \* the block being translated or executed
  i,               \* block_exec's index into it
  prev_block       \* cpu_exec's previous block

vars == <<text, at, pc, exception, block, nblk, table, insn_buf,
          insn_buffer_ptr, walk, ctx_pc, cur, i, prev_block>>

cacheVars == <<block, nblk, table, insn_buf, insn_buffer_ptr>>

Block == [pc : Addr, insn : Nat, count : Nat,
          pc0 : Addr, blk0 : Blk \cup {NULL},
          pc1 : Addr, blk1 : Blk \cup {NULL},
          hash_next : Blk \cup {NULL}]

EmptyBlock == [pc |-> 0, insn |-> 0, count |-> 0, pc0 |-> 0, blk0 |-> NULL,
               pc1 |-> 0, blk1 |-> NULL, hash_next |-> NULL]

(***************************************************************************)
(* An instruction of the buffer. pc is the C field insn->pc, which only    *)
(* some trans_X assign; gpc is the guest address the slot was decoded      *)
(* from, a history field that no action reads.                             *)
(***************************************************************************)
Slot == [insn : Insn, pc : Addr, gpc : Addr]

\* What a slot of the freshly mapped buffer reads as: zeros everywhere.
ZeroSlot == [insn |-> [op |-> "seq", len |-> 2, tgt |-> 0],
             pc |-> 0, gpc |-> 0]

TypeOK ==
  /\ text \in [Half -> Insn]
  /\ at \in Loc
  /\ pc \in Addr
  /\ exception \in Exception
  /\ block \in [Blk -> Block]
  /\ nblk \in 0 .. MaxBlocks
  /\ table \in [Bucket -> Blk \cup {NULL}]
  /\ insn_buf \in [Slots -> Slot]
  /\ insn_buffer_ptr \in Nat
  /\ walk \in Blk \cup {NULL}
  /\ ctx_pc \in Addr
  /\ cur \in Blk \cup {NULL}
  /\ i \in Nat
  /\ prev_block \in Blk \cup {NULL}

-----------------------------------------------------------------------------
\* main clears env, target_cpu_copy_regs sets env->pc to the entry point.
Init ==
  /\ text \in Programs
  /\ at = "boot"
  /\ pc \in Half
  /\ exception = "addr_mis"        \* the zero value of env->exception
  /\ block = [b \in Blk |-> EmptyBlock]
  /\ nblk = 0
  /\ table = [h \in Bucket |-> NULL]
  /\ insn_buf = [s \in Slots |-> ZeroSlot]
  /\ insn_buffer_ptr = 0
  /\ walk = NULL
  /\ ctx_pc = 0
  /\ cur = NULL
  /\ i = 0
  /\ prev_block = NULL

\* cpu_loop maps the instruction buffer, or gives up.
AllocInsnBuffer ==
  /\ at = "boot"
  /\ \/ at' = "cpu_exec" /\ exception' = "none"
     \/ at' = "quit" /\ UNCHANGED exception
  /\ UNCHANGED <<text, pc, cacheVars, walk, ctx_pc, cur, i, prev_block>>

-----------------------------------------------------------------------------
(***************************************************************************)
(* cpu_exec: look the pc up, translate on a miss, patch the previous       *)
(* block, run.                                                             *)
(***************************************************************************)

\* Mutant of LookUp: cpu_exec loops without looking at env->exception.
LookUpAlways ==
  /\ at = "cpu_exec"
  /\ walk' = table[fibhash[pc]]
  /\ at' = "find_block"
  /\ UNCHANGED <<text, pc, exception, cacheVars, ctx_pc, cur, i, prev_block>>

\* The loop test of cpu_exec holds: find_block starts at the bucket's head.
LookUp ==
  /\ at = "cpu_exec"
  /\ exception = "none"
  /\ walk' = table[fibhash[pc]]
  /\ at' = "find_block"
  /\ UNCHANGED <<text, pc, exception, cacheVars, ctx_pc, cur, i, prev_block>>

\* The loop test fails: cpu_exec returns the exception to cpu_loop.
LeaveCpuExec ==
  /\ at = "cpu_exec"
  /\ exception # "none"
  /\ at' = "cpu_loop"
  /\ UNCHANGED <<text, pc, exception, cacheVars, walk, ctx_pc, cur, i,
                 prev_block>>

\* Mutant of FindHit: the first block of the bucket is taken.
FindHitAny ==
  /\ at = "find_block"
  /\ walk # NULL
  /\ cur' = walk
  /\ at' = "patch_block"
  /\ UNCHANGED <<text, pc, exception, cacheVars, walk, ctx_pc, i, prev_block>>

FindHit ==
  /\ at = "find_block"
  /\ walk # NULL
  /\ block[walk].pc = pc
  /\ cur' = walk
  /\ at' = "patch_block"
  /\ UNCHANGED <<text, pc, exception, cacheVars, walk, ctx_pc, i, prev_block>>

\* Mutant of FindNext: only the head of a chain is looked at.
FindNextGivesUp ==
  /\ at = "find_block"
  /\ walk # NULL
  /\ block[walk].pc # pc
  /\ walk' = NULL
  /\ UNCHANGED <<text, at, pc, exception, cacheVars, ctx_pc, cur, i,
                 prev_block>>

\* Mutant of FindNext: the loop does not advance.
FindNextStays ==
  /\ at = "find_block"
  /\ walk # NULL
  /\ block[walk].pc # pc
  /\ walk' = walk
  /\ UNCHANGED <<text, at, pc, exception, cacheVars, ctx_pc, cur, i,
                 prev_block>>

FindNext ==
  /\ at = "find_block"
  /\ walk # NULL
  /\ block[walk].pc # pc
  /\ walk' = block[walk].hash_next
  /\ UNCHANGED <<text, at, pc, exception, cacheVars, ctx_pc, cur, i,
                 prev_block>>

\* Mutant of Room: one block too many.
RoomForOneMore == nblk <= MaxBlocks

\* malloc can serve another block.
Room == nblk < MaxBlocks

\* A miss with no memory left: new_block writes through malloc's NULL.
NewBlockFails ==
  /\ at = "find_block"
  /\ walk = NULL
  /\ ~Room
  /\ at' = "segv"
  /\ UNCHANGED <<text, pc, exception, cacheVars, walk, ctx_pc, cur, i,
                 prev_block>>

\* Mutant of NewBlock: the new block replaces the head of the chain.
NewBlockAtHead ==
  /\ at = "find_block"
  /\ walk = NULL
  /\ Room
  /\ nblk' = nblk + 1
  /\ cur' = nblk + 1
  /\ block' = [block EXCEPT ![nblk + 1] =
                 [EmptyBlock EXCEPT !.pc = pc, !.insn = insn_buffer_ptr]]
  /\ ctx_pc' = pc
  /\ table' = [table EXCEPT ![fibhash[pc]] = nblk + 1]
  /\ at' = "translate"
  /\ UNCHANGED <<text, pc, exception, insn_buf, insn_buffer_ptr, walk, i,
                 prev_block>>

\* A miss: new_block hangs the new block into the table when the bucket is
\* empty and otherwise walks to the end of its chain.
NewBlock ==
  /\ at = "find_block"
  /\ walk = NULL
  /\ Room
  /\ nblk' = nblk + 1
  /\ cur' = nblk + 1
  /\ block' = [block EXCEPT ![nblk + 1] =
                 [EmptyBlock EXCEPT !.pc = pc, !.insn = insn_buffer_ptr]]
  /\ ctx_pc' = pc
  /\ IF table[fibhash[pc]] = NULL
     THEN /\ table' = [table EXCEPT ![fibhash[pc]] = nblk + 1]
          /\ at' = "translate"
          /\ UNCHANGED walk
     ELSE /\ walk' = table[fibhash[pc]]
          /\ at' = "tail"
          /\ UNCHANGED table
  /\ UNCHANGED <<text, pc, exception, insn_buf, insn_buffer_ptr, i,
                 prev_block>>

TailNext ==
  /\ at = "tail"
  /\ block[walk].hash_next # NULL
  /\ walk' = block[walk].hash_next
  /\ UNCHANGED <<text, at, pc, exception, cacheVars, ctx_pc, cur, i,
                 prev_block>>

TailLink ==
  /\ at = "tail"
  /\ block[walk].hash_next = NULL
  /\ block' = [block EXCEPT ![walk].hash_next = cur]
  /\ at' = "translate"
  /\ UNCHANGED <<text, pc, exception, nblk, table, insn_buf, insn_buffer_ptr,
                 walk, ctx_pc, cur, i, prev_block>>

-----------------------------------------------------------------------------
(***************************************************************************)
(* translate and decode: one action per iteration of decode's loop.        *)
(***************************************************************************)

\* cpu_lduw reads four bytes whatever the length of the instruction.
Fetchable(a) == a \in Half /\ a + 2 \in Half

\* The trans_X that set ctx->exit.
EndsBlock(insn) == insn.op \in {"branch", "jal", "jalr", "ecall", "illegal"}

\* The trans_X that set insn->pc for a handler that writes env->pc from it;
\* the CSR translators do not, so their do_illegal reads what the slot held.
SetsInsnPc(insn) == EndsBlock(insn)

\* The slot decode fills next, and the buffer after it is filled from a.
NextSlot == block[cur].insn + block[cur].count

Emit(a) ==
  [insn_buf EXCEPT ![NextSlot] =
     [insn |-> text[a],
      pc   |-> IF SetsInsnPc(text[a]) THEN a ELSE insn_buf[NextSlot].pc,
      gpc  |-> a]]

\* The block after one more instruction: the branch and jump translators
\* fill jmp_next[].pc.
Grow(b, a, insn) ==
  [b EXCEPT !.count = @ + 1,
            !.pc0 = IF insn.op \in {"branch", "jal"} THEN insn.tgt ELSE @,
            !.pc1 = IF insn.op = "branch" THEN a + insn.len ELSE @]

\* Mutant of RoundUp: ROUND_UP rounds down.
RoundDown(count) == count - (count % 2)

\* insn_t is 32 bytes and blocks start on 64-byte lines: an even number of
\* slots.
RoundUp(count) == count + (count % 2)

\* What cpu_lduw or the store into the buffer faults on.
DecodeFaults ==
  /\ at = "translate"
  /\ ~Fetchable(ctx_pc) \/ NextSlot \notin Slots
  /\ at' = "segv"
  /\ UNCHANGED <<text, pc, exception, cacheVars, walk, ctx_pc, cur, i,
                 prev_block>>

\* An instruction that neither ends the block nor fills it.
DecodeInsn ==
  /\ at = "translate"
  /\ Fetchable(ctx_pc)
  /\ NextSlot \in Slots
  /\ ~EndsBlock(text[ctx_pc])
  /\ block[cur].count + 1 < TRANS_MAX
  /\ insn_buf' = Emit(ctx_pc)
  /\ block' = [block EXCEPT ![cur] = Grow(@, ctx_pc, text[ctx_pc])]
  /\ ctx_pc' = ctx_pc + text[ctx_pc].len
  /\ UNCHANGED <<text, at, pc, exception, nblk, table, insn_buffer_ptr, walk,
                 cur, i, prev_block>>

\* decode leaves its loop, translate claims the slots: on ctx->exit, or on a
\* full block, which is linked to the address that follows.
DecodeEnd ==
  LET insn  == text[ctx_pc]
      grown == Grow(block[cur], ctx_pc, insn)
  IN
  /\ at = "translate"
  /\ Fetchable(ctx_pc)
  /\ NextSlot \in Slots
  /\ EndsBlock(insn) \/ block[cur].count + 1 >= TRANS_MAX
  /\ insn_buf' = Emit(ctx_pc)
  /\ block' = [block EXCEPT ![cur] =
                 IF EndsBlock(insn)
                 THEN grown
                 ELSE [grown EXCEPT !.pc0 = ctx_pc + insn.len]]
  /\ insn_buffer_ptr' = insn_buffer_ptr + RoundUp(grown.count)
  /\ at' = "patch_block"
  /\ UNCHANGED <<text, pc, exception, nblk, table, walk, ctx_pc, cur, i,
                 prev_block>>

-----------------------------------------------------------------------------
(***************************************************************************)
(* patch_block and block_exec.                                             *)
(***************************************************************************)

\* Mutant of Patched: the two links are swapped.
PatchedSwapped(prev, now) ==
  IF prev.pc0 = block[now].pc THEN [prev EXCEPT !.blk1 = now]
  ELSE IF prev.pc1 = block[now].pc THEN [prev EXCEPT !.blk0 = now]
  ELSE prev

\* Mutant of Patched: both edges share the first link.
PatchedFirstOnly(prev, now) ==
  IF prev.pc0 = block[now].pc THEN [prev EXCEPT !.blk0 = now]
  ELSE IF prev.pc1 = block[now].pc THEN [prev EXCEPT !.blk0 = now]
  ELSE prev

\* patch_block(prev, now): the link of the edge that was just taken.
Patched(prev, now) ==
  IF prev.pc0 = block[now].pc THEN [prev EXCEPT !.blk0 = now]
  ELSE IF prev.pc1 = block[now].pc THEN [prev EXCEPT !.blk1 = now]
  ELSE prev

PatchBlock ==
  /\ at = "patch_block"
  /\ block' = IF prev_block # NULL
              THEN [block EXCEPT ![prev_block] = Patched(@, cur)]
              ELSE block
  /\ prev_block' = NULL
  /\ i' = 0
  /\ at' = "block_exec"
  /\ UNCHANGED <<text, pc, exception, nblk, table, insn_buf, insn_buffer_ptr,
                 walk, ctx_pc, cur>>

\* The instruction whose handler block_exec calls next.
This == insn_buf[block[cur].insn + i]

\* The handler loop of block_exec moves on, whatever the handler did.
Retire ==
  /\ at' = IF i + 1 < block[cur].count THEN "block_exec" ELSE "next"
  /\ i' = i + 1
  /\ UNCHANGED <<text, cacheVars, walk, ctx_pc, cur, prev_block>>

DoSeq ==
  /\ at = "block_exec"
  /\ This.insn.op \in {"seq", "wr0"}
  /\ UNCHANGED <<pc, exception>>
  /\ Retire

\* A handler stored a nonzero value in gpr[0]: block_exec's assertion fails.
DoWr0 ==
  /\ at = "block_exec"
  /\ This.insn.op = "wr0"
  /\ at' = "abort"
  /\ UNCHANGED <<text, pc, exception, cacheVars, walk, ctx_pc, cur, i,
                 prev_block>>

\* do_illegal, called for an undecodable instruction and by the CSR handlers.
DoIllegal ==
  /\ at = "block_exec"
  /\ This.insn.op \in {"illegal", "csr_bad"}
  /\ exception' = "illegal"
  /\ pc' = This.pc
  /\ Retire

\* Mutant of DoEcall: env->pc is left at the start of the block.
DoEcallKeepsPc ==
  /\ at = "block_exec"
  /\ This.insn.op = "ecall"
  /\ exception' = "ecall"
  /\ UNCHANGED pc
  /\ Retire

DoEcall ==
  /\ at = "block_exec"
  /\ This.insn.op = "ecall"
  /\ exception' = "ecall"
  /\ pc' = This.pc
  /\ Retire

\* do_beq and the others: taken, or on to the next instruction.
DoBranch ==
  /\ at = "block_exec"
  /\ This.insn.op = "branch"
  /\ pc' \in {This.insn.tgt, This.pc + This.insn.len}
  /\ UNCHANGED exception
  /\ Retire

DoJal ==
  /\ at = "block_exec"
  /\ This.insn.op = "jal"
  /\ pc' = This.insn.tgt
  /\ UNCHANGED exception
  /\ Retire

DoJalr ==
  /\ at = "block_exec"
  /\ This.insn.op = "jalr"
  /\ pc' \in JumpTarget
  /\ UNCHANGED exception
  /\ Retire

\* Mutant of Chained: the first link is followed without a comparison.
ChainedFirst(b) == IF block[b].blk0 # NULL THEN block[b].blk0 ELSE block[b].blk1

\* The block block_exec chains to: jmp_next[1] is taken without a comparison.
Chained(b) == IF pc = block[b].pc0 THEN block[b].blk0 ELSE block[b].blk1

FollowChain ==
  /\ at = "next"
  /\ Chained(cur) # NULL
  /\ cur' = Chained(cur)
  /\ i' = 0
  /\ at' = "block_exec"
  /\ UNCHANGED <<text, pc, exception, cacheVars, walk, ctx_pc, prev_block>>

\* block_exec returns its last block.
LeaveBlockExec ==
  /\ at = "next"
  /\ Chained(cur) = NULL
  /\ prev_block' = cur
  /\ at' = "cpu_exec"
  /\ UNCHANGED <<text, pc, exception, cacheVars, walk, ctx_pc, cur, i>>

-----------------------------------------------------------------------------
(***************************************************************************)
(* cpu_loop: the exceptions cpu_exec returns.                              *)
(***************************************************************************)

\* Mutant of SyscallReturns: prev_block survives the system call.
SyscallReturnsLinked ==
  /\ at = "cpu_loop"
  /\ exception = "ecall"
  /\ pc' = pc + 4
  /\ exception' = "none"
  /\ UNCHANGED prev_block
  /\ at' = "cpu_exec"
  /\ UNCHANGED <<text, cacheVars, walk, ctx_pc, cur, i>>

\* do_syscall returned: step over the ecall and call cpu_exec again, whose
\* prev_block starts as NULL.
SyscallReturns ==
  /\ at = "cpu_loop"
  /\ exception = "ecall"
  /\ pc' = pc + 4
  /\ exception' = "none"
  /\ prev_block' = NULL
  /\ at' = "cpu_exec"
  /\ UNCHANGED <<text, cacheVars, walk, ctx_pc, cur, i>>

\* do_syscall ended the process: exit, or an unknown number.
SyscallExits ==
  /\ at = "cpu_loop"
  /\ exception = "ecall"
  /\ at' = "exited"
  /\ UNCHANGED <<text, pc, exception, cacheVars, walk, ctx_pc, cur, i,
                 prev_block>>

ReportIllegal ==
  /\ at = "cpu_loop"
  /\ exception = "illegal"
  /\ at' = "killed"
  /\ UNCHANGED <<text, pc, exception, cacheVars, walk, ctx_pc, cur, i,
                 prev_block>>

-----------------------------------------------------------------------------
\* The host process is gone.
Over == at \in Ended /\ UNCHANGED vars

Next ==
  \/ AllocInsnBuffer
  \/ LookUp \/ LeaveCpuExec \/ FindHit \/ FindNext
  \/ NewBlockFails \/ NewBlock \/ TailNext \/ TailLink
  \/ DecodeFaults \/ DecodeInsn \/ DecodeEnd
  \/ PatchBlock \/ FollowChain \/ LeaveBlockExec
  \/ DoSeq \/ DoWr0 \/ DoIllegal \/ DoEcall \/ DoBranch \/ DoJal \/ DoJalr
  \/ SyscallReturns \/ SyscallExits \/ ReportIllegal
  \/ Over

Spec == Init /\ [][Next]_vars

\* One thread of the host runs the emulator; the host keeps scheduling it.
FairSpec == Spec /\ WF_vars(Next)

-----------------------------------------------------------------------------
(***************************************************************************)
(* Properties of the code cache.                                           *)
(***************************************************************************)

\* The blocks translate has finished: their slots are claimed.
Translated == {b \in 1 .. nblk : block[b].insn < insn_buffer_ptr}

SlotOf(b, k) == insn_buf[block[b].insn + k]

LastSlot(b) == SlotOf(b, block[b].count - 1)

\* new_block has filled the newest block but not yet hung it into its chain.
Linked == IF at = "tail" THEN 1 .. nblk - 1 ELSE 1 .. nblk

IsFirst(b, S) == IF S = {} THEN b = NULL ELSE b \in S /\ \A c \in S : b <= c

(***************************************************************************)
(* Whenever block_exec starts a block, found by find_block, freshly        *)
(* translated or reached through a jmp_next link, it is a translated block *)
(* for the address in env->pc. block_exec never compares the two, and      *)
(* jmp_next[1] is followed without looking at its pc.                      *)
(***************************************************************************)
RunsTheBlockOfPc ==
  at = "block_exec" =>
    /\ cur \in Translated
    /\ i < block[cur].count
    /\ i = 0 => block[cur].pc = pc

(***************************************************************************)
(* A block's slots hold the instructions at consecutive guest addresses    *)
(* from block->pc on, and only the last of them may end the block: no      *)
(* block shares a slot of the buffer with a later one.                     *)
(***************************************************************************)
TranslationFaithful ==
  \A b \in Translated :
    /\ block[b].count \in 1 .. TRANS_MAX
    /\ SlotOf(b, 0).gpc = block[b].pc
    /\ \A k \in 0 .. block[b].count - 1 :
         /\ SlotOf(b, k).gpc \in Half
         /\ SlotOf(b, k).insn = text[SlotOf(b, k).gpc]
    /\ \A k \in 0 .. block[b].count - 2 :
         /\ ~EndsBlock(SlotOf(b, k).insn)
         /\ SlotOf(b, k + 1).gpc = SlotOf(b, k).gpc + SlotOf(b, k).insn.len

(***************************************************************************)
(* patch_block's links: a patched edge leads to a translated block for the *)
(* address the edge was translated with.                                   *)
(***************************************************************************)
LinkSound ==
  \A b \in 1 .. nblk :
    /\ block[b].blk0 # NULL =>
         block[b].blk0 \in Translated /\ block[block[b].blk0].pc = block[b].pc0
    /\ block[b].blk1 # NULL =>
         block[b].blk1 \in Translated /\ block[block[b].blk1].pc = block[b].pc1

(***************************************************************************)
(* The collision chains of block_hash_table: from the head, hash_next runs *)
(* through every block of the bucket, oldest first, so find_block can      *)
(* reach each of them and its loop ends.                                   *)
(***************************************************************************)
HashChains ==
  \A h \in Bucket :
    LET S == {b \in Linked : fibhash[block[b].pc] = h}
    IN  /\ IsFirst(table[h], S)
        /\ \A b \in S : IsFirst(block[b].hash_next, {c \in S : c > b})

(***************************************************************************)
(* A guest address is translated once: new_block is reached only on a      *)
(* complete miss of find_block.                                            *)
(***************************************************************************)
OneBlockPerPc ==
  \A b, c \in 1 .. nblk : block[b].pc = block[c].pc => b = c

(***************************************************************************)
(* When cpu_loop serves a system call, env->pc is the address of the ecall *)
(* it is about to step over, and cpu_loop never meets an exception its     *)
(* switch does not know (assert_not_reached).                              *)
(***************************************************************************)
SyscallAtItsEcall ==
  /\ exception = "ecall" => pc \in Half /\ text[pc].op = "ecall"
  /\ at = "cpu_loop" => exception \in {"ecall", "illegal"}

(***************************************************************************)
(* block_exec starts no block while an exception is pending, although its  *)
(* loop never looks at env->exception: a block in which a handler raised   *)
(* one is never patched, so the chain always ends behind it.               *)
(***************************************************************************)
NoEntryWithException == at = "block_exec" /\ i = 0 => exception = "none"

(***************************************************************************)
(* No step rewrites a translated block's code, moves the block, or         *)
(* redirects a link once it is patched.                                    *)
(***************************************************************************)
CodeNeverRewritten ==
  [][\A b \in Translated :
       /\ b \in Translated'
       /\ block'[b].pc = block[b].pc /\ block'[b].count = block[b].count
       /\ \A k \in 0 .. block[b].count - 1 : SlotOf(b, k)' = SlotOf(b, k)
       /\ block[b].blk0 # NULL => block'[b].blk0 = block[b].blk0
       /\ block[b].blk1 # NULL => block'[b].blk1 = block[b].blk1]_vars

(***************************************************************************)
(* find_block and new_block terminate: a cpu_exec iteration reaches        *)
(* block_exec, or the host process is gone.                                *)
(***************************************************************************)
LookupCompletes ==
  (at = "cpu_exec" /\ exception = "none") ~> (at = "block_exec" \/ at \in Ended)

(***************************************************************************)
(* An exception a handler raised reaches cpu_loop.                         *)
(***************************************************************************)
ExceptionServed ==
  (at = "next" /\ exception # "none") ~> (at = "cpu_loop")

(***************************************************************************)
(* block_exec's assertion env->gpr[0] == 0.                                *)
(***************************************************************************)
GprZeroAssertion == at # "abort"

(***************************************************************************)
(* A block ends where the hart goes on: env->pc, when block_exec leaves a  *)
(* block whose last instruction neither jumps nor traps, is the address    *)
(* after that instruction, the one decode stored in jmp_next[0].pc.        *)
(***************************************************************************)
FullBlockFallsThrough ==
  at = "next" /\ exception = "none" /\ ~EndsBlock(LastSlot(cur).insn) =>
    pc = LastSlot(cur).gpc + LastSlot(cur).insn.len

(***************************************************************************)
(* An illegal instruction ends the guest: cpu_loop reports it and exits.   *)
(***************************************************************************)
IllegalIsFatal == (exception = "illegal") ~> (at = "killed")

-----------------------------------------------------------------------------
(***************************************************************************)
(* The inductive invariant behind the properties above.                    *)
(***************************************************************************)

\* The instructions whose handler raises an exception.
Raises(insn) == insn.op \in {"csr_bad", "ecall", "illegal"}

\* A slot decode has filled.
GoodSlot(s) ==
  /\ s.gpc \in Half
  /\ s.insn = text[s.gpc]
  /\ EndsBlock(s.insn) => s.pc = s.gpc

\* The slots of a block, finished or not, follow the program text.
GoodRun(b) ==
  /\ block[b].count > 0 => block[b].insn + block[b].count <= BufSize
  /\ \A k \in 0 .. block[b].count - 1 : GoodSlot(SlotOf(b, k))
  /\ block[b].count > 0 => SlotOf(b, 0).gpc = block[b].pc
  /\ \A k \in 0 .. block[b].count - 2 :
       /\ ~EndsBlock(SlotOf(b, k).insn)
       /\ SlotOf(b, k + 1).gpc = SlotOf(b, k).gpc + SlotOf(b, k).insn.len

\* What translate leaves in jmp_next[].pc, by the block's last instruction.
GoodEdges(b) ==
  LET s == LastSlot(b)
  IN  /\ s.insn.op = "branch" => /\ block[b].pc0 = s.insn.tgt
                                 /\ block[b].pc1 = s.gpc + s.insn.len
      /\ s.insn.op = "jal" => block[b].pc0 = s.insn.tgt /\ block[b].pc1 = 0
      /\ s.insn.op \in {"jalr", "ecall", "illegal"} =>
           block[b].pc0 = 0 /\ block[b].pc1 = 0
      /\ ~EndsBlock(s.insn) => block[b].pc1 = 0

CodeInv ==
  \A b \in 1 .. nblk :
    /\ GoodRun(b)
    /\ block[b].insn <= insn_buffer_ptr
    /\ b \in Translated =>
         /\ block[b].count \in 1 .. TRANS_MAX
         /\ block[b].insn + block[b].count <= insn_buffer_ptr
         /\ GoodEdges(b)

\* A block with a link has run to its end without raising an exception.
Runs(b) == \A k \in 0 .. block[b].count - 1 : ~Raises(SlotOf(b, k).insn)

LinkInv ==
  /\ LinkSound
  /\ \A b \in 1 .. nblk :
       /\ block[b].blk0 # NULL \/ block[b].blk1 # NULL =>
            b \in Translated /\ Runs(b)
       /\ block[b].blk1 # NULL =>
            /\ block[b].pc0 # block[b].pc1
            /\ ~EndsBlock(LastSlot(b).insn) => block[b].pc = 0

\* The lookup: blocks behind the cursor are not the one looked for.
LookupInv ==
  /\ at = "find_block" =>
       /\ walk # NULL =>
            walk \in 1 .. nblk /\ fibhash[block[walk].pc] = fibhash[pc]
       /\ \A b \in 1 .. nblk :
            walk = NULL \/ b < walk => block[b].pc # pc
  /\ at = "tail" =>
       /\ walk \in 1 .. nblk - 1
       /\ fibhash[block[walk].pc] = fibhash[pc]

\* The block in the making.
TranslateInv ==
  at \in {"tail", "translate"} =>
    /\ nblk > 0 /\ cur = nblk
    /\ block[cur].pc = pc /\ block[cur].insn = insn_buffer_ptr
    /\ block[cur].pc0 = 0 /\ block[cur].blk0 = NULL
    /\ block[cur].pc1 = 0 /\ block[cur].blk1 = NULL
    /\ block[cur].hash_next = NULL
    /\ block[cur].count < TRANS_MAX
    /\ IF block[cur].count = 0
       THEN ctx_pc = pc
       ELSE /\ at = "translate"
            /\ ~EndsBlock(LastSlot(cur).insn)
            /\ ctx_pc = LastSlot(cur).gpc + LastSlot(cur).insn.len
    /\ \A b \in 1 .. nblk : b # cur => b \in Translated

ExecInv ==
  /\ at \in {"block_exec", "next"} =>
       /\ cur \in Translated
       /\ prev_block = NULL
       /\ exception = "none" =>
            \A k \in 0 .. i - 1 : ~Raises(SlotOf(cur, k).insn)
       /\ exception # "none" =>
            \E k \in 0 .. i - 1 : Raises(SlotOf(cur, k).insn)
  /\ at = "block_exec" =>
       /\ i < block[cur].count
       /\ exception \in {"none", "illegal"}
       /\ exception = "none" => block[cur].pc = pc
  /\ at = "next" =>
       /\ i = block[cur].count
       /\ exception = "none" =>
            LET s == LastSlot(cur)
            IN  /\ s.insn.op = "branch" =>
                     pc \in {s.insn.tgt, s.gpc + s.insn.len}
                /\ s.insn.op = "jal" => pc = s.insn.tgt
                /\ ~EndsBlock(s.insn) => pc = block[cur].pc

ControlInv ==
  /\ text \in Programs
  /\ at \notin {"tail", "translate", "segv"} =>
       \A b \in 1 .. nblk : b \in Translated
  /\ at = "boot" => nblk = 0
  /\ at \in {"find_block", "tail", "translate", "patch_block"} =>
       exception = "none"
  /\ at = "patch_block" => cur \in Translated /\ block[cur].pc = pc
  /\ at \notin {"boot", "quit"} => exception # "addr_mis"
  /\ at = "cpu_loop" => exception # "none"
  /\ exception = "ecall" =>
       /\ at # "block_exec"
       /\ pc \in Half /\ text[pc].op = "ecall"
  /\ prev_block # NULL =>
       /\ prev_block \in Translated
       /\ at \notin Ended /\ exception = "none" =>
            /\ Runs(prev_block)
            /\ ~EndsBlock(LastSlot(prev_block).insn) =>
                 pc = block[prev_block].pc

IndInv ==
  /\ TypeOK
  /\ CodeInv
  /\ LinkInv
  /\ OneBlockPerPc
  /\ HashChains
  /\ LookupInv
  /\ TranslateInv
  /\ ExecInv
  /\ ControlInv

-----------------------------------------------------------------------------
(***************************************************************************)
(* The abstract hart: between blocks it is at env->pc, inside a block at   *)
(* the address of the instruction block_exec runs next.                    *)
(***************************************************************************)
HartPc == IF at = "block_exec" THEN This.gpc ELSE pc

HartStatus ==
  CASE at = "exited" -> "exited"
    [] at = "killed" -> "killed"
    [] at \in {"quit", "segv", "abort"} -> "crashed"
    [] OTHER -> "running"

HartView == INSTANCE Hart WITH hpc <- HartPc, status <- HartStatus

(***************************************************************************)
(* The engine executes the guest program: every step of the engine is one  *)
(* instruction of the abstract hart or none.                               *)
(***************************************************************************)
ImplementsHart == HartView!Spec

(***************************************************************************)
(* The programs of which that is true. An access to an unknown CSR reports *)
(* a stale insn->pc and may be forgotten; a block that is full before an   *)
(* instruction ends it is run again and again.                             *)
(***************************************************************************)
StraightLine(p, line) ==
  \A k \in 0 .. TRANS_MAX - 1 :
    /\ ~EndsBlock(p[line[k]])
    /\ k > 0 => line[k] = line[k - 1] + p[line[k - 1]].len

Servable(p) ==
  /\ \A a \in Half : p[a].op # "csr_bad"
  /\ ~\E line \in [0 .. TRANS_MAX - 1 -> Half] : StraightLine(p, line)

=============================================================================
